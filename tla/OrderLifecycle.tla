--------------------------- MODULE OrderLifecycle ---------------------------
(***************************************************************************)
(* What the executor promises about an order when the database accepts     *)
(* every write: its trade is recorded once, announced after that, and the  *)
(* order's final status tells whether there was one.                       *)
(***************************************************************************)
CONSTANT Order

VARIABLES
    status,     \* the order's status in the orders table
    traded,     \* orders with a recorded fill
    announced   \* orders whose fill was emitted to the trade stream

vars == <<status, traded, announced>>

Init ==
    /\ status = [o \in Order |-> "NONE"]
    /\ traded = {}
    /\ announced = {}

\* The order is accepted for execution.
Place(o) ==
    /\ status[o] = "NONE"
    /\ status' = [status EXCEPT ![o] = "PENDING"]
    /\ UNCHANGED <<traded, announced>>

\* Its trade is confirmed on chain and recorded.
Trade(o) ==
    /\ status[o] = "PENDING"
    /\ o \notin traded
    /\ traded' = traded \cup {o}
    /\ UNCHANGED <<status, announced>>

\* The recorded trade is announced and the order is final.
Fill(o) ==
    /\ status[o] = "PENDING"
    /\ o \in traded \ announced
    /\ announced' = announced \cup {o}
    /\ status' = [status EXCEPT ![o] = "FILLED"]
    /\ UNCHANGED traded

\* No attempt succeeded and the order is final.
Fail(o) ==
    /\ status[o] = "PENDING"
    /\ o \notin traded
    /\ status' = [status EXCEPT ![o] = "FAILED"]
    /\ UNCHANGED <<traded, announced>>

Next == \E o \in Order : Place(o) \/ Trade(o) \/ Fill(o) \/ Fail(o)

Spec == Init /\ [][Next]_vars
=============================================================================
