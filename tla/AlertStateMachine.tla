------------------------- MODULE AlertStateMachine -------------------------
(***************************************************************************)
(* The alert state machine that the README draws: escalation by timer,     *)
(* resolution by an analyst from any state that is not terminal, nothing   *)
(* after that.  One database transaction may move several alerts.          *)
(***************************************************************************)
CONSTANT Alert

VARIABLE status

Terminal == {"APPROVED", "BLOCKED", "FALSE_POSITIVE"}
Unresolved == {"PENDING", "ESCALATED_EMAIL", "ESCALATED_SLACK"}
AlertStatus == {"ABSENT"} \cup Unresolved \cup Terminal

\* The arrows of the diagram.
Arrow(from, to) ==
  \/ from = "ABSENT" /\ to = "PENDING"
  \/ from = "PENDING" /\ to = "ESCALATED_EMAIL"
  \/ from = "ESCALATED_EMAIL" /\ to = "ESCALATED_SLACK"
  \/ from \in Unresolved /\ to \in Terminal

Init == status = [a \in Alert |-> "ABSENT"]

Next ==
  /\ status' \in [Alert -> AlertStatus]
  /\ \A a \in Alert : status'[a] = status[a] \/ Arrow(status[a], status'[a])

Spec == Init /\ [][Next]_status

============================================================================
