------------------------------ MODULE Console ------------------------------
(***************************************************************************)
(* One alert on its way to an analyst's screen, and the analyst's decision *)
(* on its way back: the alert row and its events, the notification         *)
(* forwarder, the WebSocket, the REST reconciliation of the dashboard and  *)
(* its optimistic local updates.                                           *)
(*                                                                         *)
(* The alert's statuses form a list, history; its i-th entry was committed *)
(* together with event i (AlertLifecycle).  A notification, or the answer  *)
(* to a REST request, is the index of the entry it tells of.  The outbox   *)
(* publisher may bring events into their streams in any order, because a   *)
(* failed XADD is tried again after later events (OutboxPublisher).        *)
(***************************************************************************)
EXTENDS NotificationForwarder, Sequences

CONSTANTS
  Decision,     \* resolutions in use, a subset of Terminal
  Request       \* bound: reconciliation requests in flight

VARIABLES
  history,      \* the alert's statuses in commit order
  outbox,       \* events not in their stream yet
  carries,      \* [Message -> index], the event of a stream entry
  socket,       \* "closed", "open" to the browser, "registered" in the gateway
  was_connected,\* wasConnectedRef
  subscribed,   \* is the listener of the page's gateway on the channel
  transit,      \* notifications between Pub/Sub and the browser
  requests,     \* [Request -> Free, Asked, or the index read]
  click,        \* the decision the analyst is waiting for, or "none"
  answered,     \* has that call returned
  shown,        \* status on the screen, "ABSENT" when not listed
  told,         \* history: index last handed to the screen
  excused       \* history: is there a reason why the screen may be wrong

alertVars == <<history, outbox>>
channelVars == <<subscribed, transit>>
browserVars == <<socket, was_connected, requests, click, answered>>
screenVars == <<shown, told, excused>>
consoleVars == <<alertVars, carries, channelVars, browserVars, screenVars>>
vars == <<forwarderVars, consoleVars>>

Terminal == {"APPROVED", "BLOCKED", "FALSE_POSITIVE"}
Alerts == 0       \* place of stream:alerts in the read call
Escalations == 1  \* place of stream:escalations

ASSUME ConsoleAssumption ==
  /\ Decision \subseteq Terminal
  /\ StreamOf \in [Message -> {Alerts, Escalations}]

Free == -2   \* no request
Asked == -1  \* sent, not served yet

Version == 1..3
Now == Len(history)
Status == IF Now = 0 THEN "ABSENT" ELSE history[Now]
StreamOfEvent(v) == IF history[v] = "ESCALATED_EMAIL" THEN Escalations ELSE Alerts

TypeOK ==
  /\ ForwarderTypeOK
  /\ history \in UNION {[1..n -> {"PENDING", "ESCALATED_EMAIL"} \cup Decision] : n \in 0..3}
  /\ outbox \subseteq 1..Now
  /\ carries \in [Message -> 0..Now]
  /\ \A m \in Message : carries[m] > 0 => StreamOf[m] = StreamOfEvent(carries[m])
  /\ socket \in {"closed", "open", "registered"}
  /\ was_connected \in BOOLEAN
  /\ subscribed \in BOOLEAN
  /\ \A i \in DOMAIN transit : transit[i] \in 1..Now
  /\ socket # "registered" => transit = <<>>
  /\ requests \in [Request -> {Free, Asked} \cup 0..Now]
  /\ click \in {"none"} \cup Decision
  /\ answered \in BOOLEAN
  /\ shown \in {"ABSENT", "PENDING", "ESCALATED_EMAIL"} \cup Decision
  /\ told \in 0..Now
  /\ excused \in BOOLEAN

\* The gateway is up and on the channel; the page has been opened and sends its
\* first request.
Init ==
  /\ ForwarderInit
  /\ history = <<>>
  /\ outbox = {}
  /\ carries = [m \in Message |-> 0]
  /\ socket = "closed"
  /\ was_connected = FALSE
  /\ subscribed = TRUE
  /\ transit = <<>>
  /\ requests \in {[[r \in Request |-> Free] EXCEPT ![q] = Asked] : q \in Request}
  /\ click = "none"
  /\ answered = FALSE
  /\ shown = "ABSENT"
  /\ told = 0
  /\ excused = FALSE

----------------------------------------------------------------------------
(* The alert row and its outbox events; AlertLifecycle has the details     *)

Commit(s) ==
  /\ history' = Append(history, s)
  /\ outbox' = outbox \cup {Now + 1}

\* The detection pipeline raises the alert.
Raised ==
  /\ history = <<>>
  /\ Commit("PENDING")
  /\ UNCHANGED <<forwarderVars, carries, channelVars, browserVars, screenVars>>

\* The scheduler's first tier; the second one would add nothing new here.
Escalate ==
  /\ Status = "PENDING"
  /\ Commit("ESCALATED_EMAIL")
  /\ UNCHANGED <<forwarderVars, carries, channelVars, browserVars, screenVars>>

\* resolve_alert for another analyst.
Resolve(d) ==
  /\ Status \in {"PENDING", "ESCALATED_EMAIL"}
  /\ Commit(d)
  /\ UNCHANGED <<forwarderVars, carries, channelVars, browserVars, screenVars>>

\* The outbox publisher puts an event into its stream.
AddEvent(m, v) ==
  /\ v \in outbox
  /\ StreamOf[m] = StreamOfEvent(v)
  /\ Add(m)
  /\ outbox' = outbox \ {v}
  /\ carries' = [carries EXCEPT ![m] = v]
  /\ UNCHANGED <<corrupt, published, history, channelVars, browserVars, screenVars>>

----------------------------------------------------------------------------
(* The screen                                                              *)

\* Information of index v is handed to the screen, which shows s after it.
\* The screen has an excuse if it has been told newer things before.
Tell(v, s) ==
  /\ shown' = s
  /\ told' = v
  /\ excused' = (s # Status /\ (excused \/ v < told))

\* handleWsMessage: alert.created inserts or replaces the alert, alert.updated
\* and escalation change one that is listed.
HandleWsMessage(v) ==
  Tell(v, IF history[v] = "PENDING" \/ shown # "ABSENT" THEN history[v] ELSE shown)

\* The browser takes a frame from the socket.
Receive ==
  /\ transit # <<>>
  /\ HandleWsMessage(Head(transit))
  /\ transit' = Tail(transit)
  /\ UNCHANGED <<forwarderVars, alertVars, carries, subscribed, browserVars>>

----------------------------------------------------------------------------
(* The forwarder, with the channel behind it                               *)

\* PUBLISH reaches the listener while it is on the channel, and broadcast the
\* sockets registered at that moment.  PUBLISH succeeds with no receiver, too.
\* What a page misses that is not going to reconcile on its next connection
\* excuses it.
Broadcast(v) ==
  /\ UNCHANGED subscribed
  /\ IF subscribed /\ socket = "registered"
     THEN transit' = Append(transit, v) /\ UNCHANGED excused
     ELSE /\ UNCHANGED transit
          /\ excused' = (excused \/ socket # "closed" \/ ~was_connected)

Forward(w) ==
  \E m \in Message :
    \/ /\ Publish(w, m) /\ Broadcast(carries[m])
       /\ UNCHANGED <<alertVars, carries, browserVars, shown, told>>
    \/ /\ Discard(w, m) \/ FailPublish(w, m) \/ Ack(w, m) \/ FailAck(w, m)
       /\ UNCHANGED consoleVars

\* run_listener_loop subscribes when the gateway is restarted, and the client
\* library again when get_message is called after a lost connection.  Until then,
\* which may be for ever, the gateway works without the channel.
Subscribe ==
  /\ ~subscribed
  /\ subscribed' = TRUE
  /\ UNCHANGED <<forwarderVars, alertVars, carries, transit, browserVars, screenVars>>

\* get_message raises because the connection to Redis is gone: the loop logs it,
\* sleeps and goes on.  What the listener had not sent yet is lost.
LoseChannel ==
  /\ subscribed
  /\ Fault
  /\ subscribed' = FALSE
  /\ \E k \in 0..Len(transit) :
       /\ transit' = SubSeq(transit, 1, k)
       /\ excused' = (excused \/ k < Len(transit))
  /\ UNCHANGED <<group, entry, todo, phase, corrupt, published, alertVars, carries, browserVars,
                 shown, told>>

\* The gateway process dies, and with it its listener and the socket.
GatewayCrash(c) ==
  /\ Crash(c)
  /\ subscribed' = FALSE
  /\ socket' = "closed"
  /\ transit' = <<>>
  /\ UNCHANGED <<corrupt, published, alertVars, carries, was_connected, requests, click,
                 answered, screenVars>>

StreamStep(A) == A /\ UNCHANGED <<corrupt, published, consoleVars>>

----------------------------------------------------------------------------
(* The WebSocket of the dashboard                                          *)

\* Mutant: a reconnect does not reconcile.
OnOpenQuiet ==
  /\ socket = "closed"
  /\ socket' = "open"
  /\ was_connected' = TRUE
  /\ UNCHANGED <<forwarderVars, alertVars, carries, channelVars, requests,
                 click, answered, screenVars>>

\* ws.onopen: every connection but the first one sends a request.
OnOpen ==
  /\ socket = "closed"
  /\ socket' = "open"
  /\ IF was_connected
     THEN \E r \in Request : requests[r] = Free /\ requests' = [requests EXCEPT ![r] = Asked]
     ELSE UNCHANGED requests
  /\ was_connected' = TRUE
  /\ UNCHANGED <<forwarderVars, alertVars, carries, channelVars, click,
                 answered, screenVars>>

\* ws_manager.connect enters the accepted socket into the pool.
Register ==
  /\ socket = "open"
  /\ socket' = "registered"
  /\ UNCHANGED <<forwarderVars, alertVars, carries, channelVars, was_connected,
                 requests, click, answered, screenVars>>

\* The connection drops; the frames under way are gone.
OnClose ==
  /\ socket # "closed"
  /\ Fault
  /\ socket' = "closed"
  /\ transit' = <<>>
  /\ UNCHANGED <<group, entry, todo, phase, corrupt, published, alertVars, carries, subscribed,
                 was_connected, requests, click, answered, screenVars>>

----------------------------------------------------------------------------
(* reconcileAlerts                                                         *)

\* GET /alerts reads the database ...
GetAlerts(r) ==
  /\ requests[r] = Asked
  /\ requests' = [requests EXCEPT ![r] = Now]
  /\ UNCHANGED <<forwarderVars, alertVars, carries, channelVars, socket,
                 was_connected, click, answered, screenVars>>

Done(r) ==
  /\ requests' = [requests EXCEPT ![r] = Free]
  /\ UNCHANGED <<forwarderVars, alertVars, carries, channelVars, socket,
                 was_connected, click, answered>>

\* ... and the page takes over what it read, whatever it has heard since.
Reconcile(r) ==
  /\ requests[r] \in 0..Now
  /\ IF requests[r] = 0 THEN UNCHANGED screenVars
     ELSE Tell(requests[r], history[requests[r]])
  /\ Done(r)

\* The request fails, or 50 newer alerts fill the page: nothing changes.
FailReconcile(r) ==
  /\ requests[r] # Free
  /\ excused' = TRUE
  /\ Done(r)
  /\ UNCHANGED <<shown, told>>

----------------------------------------------------------------------------
(* handleApproveAlert, handleBlockAlert, handleFalsePositiveAlert          *)

\* The panel has no buttons while it submits, nor for an alert that is decided.
Click(d) ==
  /\ click = "none"
  /\ shown \in {"PENDING", "ESCALATED_EMAIL"}
  /\ click' = d
  /\ answered' = FALSE
  /\ UNCHANGED <<forwarderVars, alertVars, carries, channelVars, socket,
                 was_connected, requests, screenVars>>

\* The API resolves the alert, or refuses because it is resolved (409); or the
\* call fails, before or after the API has done its work.
Answer ==
  /\ click # "none" /\ ~answered
  /\ \/ Status \in {"PENDING", "ESCALATED_EMAIL"} /\ Commit(click)
     \/ UNCHANGED alertVars
  /\ answered' = TRUE
  /\ UNCHANGED <<forwarderVars, carries, channelVars, socket, was_connected,
                 requests, click, screenVars>>

\* Either way the page shows the decision as taken.
ShowDecision ==
  /\ click # "none" /\ answered
  /\ shown' = click
  /\ excused' = (click # Status)
  /\ told' = IF click = Status THEN Now ELSE told
  /\ click' = "none"
  /\ answered' = FALSE
  /\ UNCHANGED <<forwarderVars, alertVars, carries, channelVars, socket,
                 was_connected, requests>>

----------------------------------------------------------------------------
Next ==
  \/ Raised \/ Escalate
  \/ \E d \in Decision : Resolve(d) \/ Click(d)
  \/ \E m \in Message : (AddCorrupt(m) /\ UNCHANGED consoleVars) \/ \E v \in Version : AddEvent(m, v)
  \/ StreamStep(SetupGroup)
  \/ \E c \in Consumer :
       \/ StreamStep(Read(c))
       \/ \E B \in SUBSET Message : StreamStep(Reclaim(c, B))
       \/ GatewayCrash(c)
  \/ \E w \in Worker : Forward(w)
  \/ Subscribe \/ LoseChannel
  \/ Receive
  \/ OnOpen \/ Register \/ OnClose
  \/ \E r \in Request : GetAlerts(r) \/ Reconcile(r) \/ FailReconcile(r)
  \/ Answer \/ ShowDecision

Spec == Init /\ [][Next]_vars

----------------------------------------------------------------------------
\* Nothing is under way between the database and a connected screen.
Quiet ==
  /\ outbox = {}
  /\ \A m \in Message : entry[m] \in {"unsent", "acked"}
  /\ socket = "registered" /\ transit = <<>>
  /\ \A r \in Request : requests[r] = Free
  /\ click = "none"

\* When everything has arrived the screen agrees with the database, unless
\* it was overwritten with older information, missed a notification before
\* its socket was registered or while the gateway's listener was off the
\* channel, could not read the list, or shows a decision the API did not take.
\* Having been disconnected is no excuse: the reconciliation makes up for
\* every notification lost meanwhile.
StaleOnlyForCause == Quiet /\ shown # Status => excused

============================================================================
