--------------------------- MODULE OrderLifecycle ---------------------------
(***************************************************************************)
(* What PedidosRust promises about an order (README of the repository,     *)
(* "Flujo"): once placed it is refused, or its payment is authorized; the  *)
(* restaurant then cancels it, or has it ready; the first rider to accept  *)
(* a ready order is given it; when that rider has delivered it, it is      *)
(* charged.  An order takes each of these steps at most once and in this   *)
(* order, whatever the others do.                                          *)
(***************************************************************************)
CONSTANTS Orders, Riders, None

VARIABLES status,   \* how far each order is
          carrier   \* the rider it was given to, or None

vars == <<status, carrier>>

Init ==
    /\ status = [o \in Orders |-> "none"]
    /\ carrier = [o \in Orders |-> None]

Becomes(o, from, to) ==
    /\ status[o] = from
    /\ status' = [status EXCEPT ![o] = to]

Place(o) == Becomes(o, "none", "placed") /\ UNCHANGED carrier

Authorize(o) == Becomes(o, "placed", "authorized") /\ UNCHANGED carrier

Refuse(o) == Becomes(o, "placed", "refused") /\ UNCHANGED carrier

Cook(o) == Becomes(o, "authorized", "ready") /\ UNCHANGED carrier

Cancel(o) == Becomes(o, "authorized", "cancelled") /\ UNCHANGED carrier

Assign(o, r) ==
    /\ Becomes(o, "ready", "assigned")
    /\ carrier' = [carrier EXCEPT ![o] = r]

Charge(o) == Becomes(o, "assigned", "charged") /\ UNCHANGED carrier

Next ==
    \E o \in Orders :
        \/ Place(o) \/ Authorize(o) \/ Refuse(o) \/ Cook(o) \/ Cancel(o)
        \/ Charge(o)
        \/ \E r \in Riders : Assign(o, r)

(* An order is not left waiting for the payment system or the restaurant.  *)
(* Nothing is promised of riders, who may decline.                         *)
Fairness ==
    \A o \in Orders : /\ WF_vars(Authorize(o) \/ Refuse(o))
                      /\ WF_vars(Cook(o) \/ Cancel(o))

Spec == Init /\ [][Next]_vars /\ Fairness
=============================================================================
