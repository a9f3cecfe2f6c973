-------------------------- MODULE OrderRefinement ---------------------------
(***************************************************************************)
(* The order handling of OrderFlow implements OrderLifecycle as long as    *)
(* each customer places one order.  How far an order is can be told from   *)
(* what the payment system and the restaurant said of it, and from the     *)
(* riders it was given to.                                                 *)
(***************************************************************************)
EXTENDS OrderFlow

Carriers(o) == {r \in Riders : <<r, o.customer, o.price>> \in assigned}

Reached(o, stage) ==
    \/ <<stage, o.customer, o.price>> \in log
    \/ stage = "assigned" /\ Carriers(o) # {}
    \/ stage = "placed" /\ placed[o.customer] >= o.price
    \/ stage = "none"

(* The furthest stage first.  A cancelled order is sent to its restaurant  *)
(* again when that restarts, and may be cooked: for the customer, who was  *)
(* told, it stays cancelled.                                               *)
Stages == <<"charged", "assigned", "cancelled", "ready", "refused",
            "authorized", "placed", "none">>

StatusOf(o) == Stages[SelectInSeq(Stages, LAMBDA stage : Reached(o, stage))]

CarrierOf(o) ==
    IF Carriers(o) = {} THEN None ELSE CHOOSE r \in Riders : r \in Carriers(o)

Lifecycle == INSTANCE OrderLifecycle WITH
                 status  <- [o \in Orders |-> StatusOf(o)],
                 carrier <- [o \in Orders |-> CarrierOf(o)]

(* However the messages of customers, riders, payment system and           *)
(* restaurant interleave, and though a restaurant is killed and its orders *)
(* are sent again, an order goes through its life one step at a time, never*)
(* back, and is not left waiting for payment or kitchen.                   *)
ImplementsLifecycle == Lifecycle!Spec
=============================================================================
