--------------------------- MODULE OrderLifecycle ---------------------------
(***************************************************************************)
(* The life of an order: the edges of OrderStateMachine                    *)
(* (execution/state_machine.py), and what an observer of a paper session   *)
(* sees of them.  PaperBroker.tla is shown to implement Spec.              *)
(***************************************************************************)
CONSTANTS Orders, \* client intent ids, one order each
          Absent  \* the status of an order that was never submitted

VARIABLE status

Closed == {"filled", "rejected", "cancelled", "expired"}
Statuses == Closed \cup {"proposed", "risk_approved", "confirmed", "submitting",
                         "acknowledged", "partially_filled", "unknown"}

\* _ALLOWED: closed statuses have no edge.
Allowed(from) ==
    CASE from = "proposed" -> {"risk_approved", "rejected", "expired"}
      [] from = "risk_approved" -> {"confirmed", "rejected", "cancelled", "expired"}
      [] from = "confirmed" -> {"submitting", "cancelled", "expired"}
      [] from = "submitting" ->
            {"acknowledged", "rejected", "cancelled", "expired", "unknown"}
      [] from \in {"acknowledged", "partially_filled"} ->
            {"partially_filled", "filled", "rejected", "cancelled", "expired", "unknown"}
      [] from = "unknown" -> {"acknowledged", "rejected", "cancelled", "expired"}
      [] OTHER -> {}

\* What market events can still act on.
Executable(st) == st \notin Closed \cup {"unknown"}

-----------------------------------------------------------------------------
Init == status = [o \in Orders |-> Absent]

\* An order appears acknowledged; evidence of fills is the only way from unknown
\* to filled, and no part of OrderStateMachine.
Edge(from, to) ==
    \/ from = Absent /\ to = "acknowledged"
    \/ to \in Allowed(from)
    \/ from = "unknown" /\ to \in {"partially_filled", "filled"}

\* A market event moves any number of orders, each by one edge.
Next == \E touched \in SUBSET Orders :
          \E to \in [touched -> Statuses] :
             /\ \A o \in touched : Edge(status[o], to[o])
             /\ status' = [o \in Orders |-> IF o \in touched THEN to[o] ELSE status[o]]

Spec == Init /\ [][Next]_status
=============================================================================
