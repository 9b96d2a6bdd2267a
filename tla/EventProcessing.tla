-------------------------- MODULE EventProcessing --------------------------
(***************************************************************************)
(* What the processor promises of an event stream, with no message, batch, *)
(* replica, inbox or retry in sight: once it listens, an event that comes  *)
(* may be processed; that happens at most once, and the alert it may raise *)
(* is raised in the same step.                                             *)
(***************************************************************************)
CONSTANT Event

VARIABLES
  listening,    \* has the consumer group been created
  offered,      \* events it has been given
  processed,    \* events whose effects have been committed
  alerts        \* [Event -> number of alerts it has raised]

processingVars == <<listening, offered, processed, alerts>>

Init ==
  /\ listening = FALSE
  /\ offered = {}
  /\ processed = {}
  /\ alerts = [e \in Event |-> 0]

Listen ==
  /\ listening' = TRUE
  /\ UNCHANGED <<offered, processed, alerts>>

\* An event comes; one that comes before the processor listens is missed.
Offer(e) ==
  /\ offered' = IF listening THEN offered \cup {e} ELSE offered
  /\ UNCHANGED <<listening, processed, alerts>>

Process(e) ==
  /\ e \in offered \ processed
  /\ processed' = processed \cup {e}
  /\ UNCHANGED alerts \/ alerts' = [alerts EXCEPT ![e] = 1]
  /\ UNCHANGED <<listening, offered>>

Next == Listen \/ \E e \in Event : Offer(e) \/ Process(e)

Spec == Init /\ [][Next]_processingVars

============================================================================
