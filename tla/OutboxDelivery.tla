-------------------------- MODULE OutboxDelivery --------------------------
(***************************************************************************)
(* What the transactional outbox promises to the rest of the system, with  *)
(* no publisher, batch, lock or retry in sight: an event that a service    *)
(* has recorded is PENDING, may reach its stream while it is PENDING, and  *)
(* is settled once - PUBLISHED only if it is in the stream by then, or     *)
(* DEAD_LETTERED.  Several events may be settled together.                 *)
(***************************************************************************)
CONSTANT Event

VARIABLES status,     \* [Event -> EventStatus]: the column of outbox_events
          delivered   \* the events with at least one copy in their stream

vars == <<status, delivered>>

EventStatus == {"ABSENT", "PENDING", "PUBLISHED", "DEAD_LETTERED"}

Init ==
  /\ status = [e \in Event |-> "ABSENT"]
  /\ delivered = {}

Record(e) ==
  /\ status[e] = "ABSENT"
  /\ status' = [status EXCEPT ![e] = "PENDING"]
  /\ UNCHANGED delivered

Deliver(e) ==
  /\ status[e] = "PENDING"
  /\ delivered' = delivered \cup {e}
  /\ UNCHANGED status

Settle(published, given_up) ==
  /\ published \subseteq delivered
  /\ published \cap given_up = {}
  /\ \A e \in published \cup given_up : status[e] = "PENDING"
  /\ status' = [e \in Event |-> IF e \in published THEN "PUBLISHED"
                                ELSE IF e \in given_up THEN "DEAD_LETTERED"
                                ELSE status[e]]
  /\ UNCHANGED delivered

Next ==
  \/ \E e \in Event : Record(e) \/ Deliver(e)
  \/ \E published, given_up \in SUBSET Event : Settle(published, given_up)

Spec == Init /\ [][Next]_vars

============================================================================
