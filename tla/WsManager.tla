----------------------------- MODULE WsManager -----------------------------
(***************************************************************************)
(* The pool of WebSockets in a gateway process and the three tasks that    *)
(* work on it: the endpoint of each socket (accept, register, record       *)
(* pongs, unregister), the broadcast of the Pub/Sub listener and the       *)
(* heartbeat.  Each takes the lock only for a moment; broadcast and        *)
(* heartbeat work on a snapshot of the pool and wait on a socket between   *)
(* two looks at it, so the steps of the tasks interleave at every await.   *)
(*                                                                         *)
(* Time: a round of the heartbeat starts ping_interval after the end of    *)
(* the one before, and compares with the time it started at.  With         *)
(* ping_interval > ping_timeout, as configured (30 s and 10 s), a ping     *)
(* that is still unanswered in the next round has always timed out.        *)
(* A send to a half-open socket ends in a buffer and does not block.       *)
(***************************************************************************)
CONSTANT Socket   \* connections; a browser that reconnects uses a new one

VARIABLES
  running,      \* FALSE once the gateway shuts down
  link,         \* [Socket -> LinkState]
  entering,     \* sockets accepted and not registered yet
  pool,         \* _active_connections
  pinged,       \* sockets whose last_ping_sent is set
  owing,        \* sockets that got a ping whose pong is not recorded
  heartbeat,    \* "wait", "visit", "sent" or "close"
  to_visit,     \* rest of the snapshot of this round
  pinging,      \* the socket of the ping under way, in "sent"
  stale,        \* stale_sockets of this round
  targets,      \* rest of the snapshot of the broadcast
  failed,       \* failed_sockets of the broadcast
  raced         \* history: sockets whose pong overtook the note of its ping

heartbeatVars == <<heartbeat, to_visit, pinging, stale>>
broadcastVars == <<targets, failed>>
poolVars == <<running, link, entering, pool, pinged, owing, heartbeatVars, broadcastVars, raced>>

\* "silent": half open, the peer is gone and nobody has noticed.
LinkState == {"new", "up", "silent", "closed"}
Connected(c) == link[c] \in {"up", "silent"}

PoolTypeOK ==
  /\ running \in BOOLEAN
  /\ link \in [Socket -> LinkState]
  /\ \A S \in {entering, pool, pinged, owing, to_visit, pinging, stale, targets, failed, raced} :
       S \subseteq Socket
  /\ heartbeat \in {"wait", "visit", "sent", "close"}
  /\ heartbeat = "sent" <=> \E c \in to_visit : pinging = {c}

PoolInit ==
  /\ running = TRUE
  /\ link = [c \in Socket |-> "new"]
  /\ entering = {}
  /\ pool = {}
  /\ pinged = {}
  /\ owing = {}
  /\ heartbeat = "wait"
  /\ to_visit = {}
  /\ pinging = {}
  /\ stale = {}
  /\ targets = {}
  /\ failed = {}
  /\ raced = {}

----------------------------------------------------------------------------
(* websocket_alerts_endpoint and its peer                                  *)

\* The handshake succeeds: the token is valid, the socket accepted.
AcceptSocket(c) ==
  /\ running
  /\ link[c] = "new"
  /\ link' = [link EXCEPT ![c] = "up"]
  /\ entering' = entering \cup {c}
  /\ UNCHANGED <<running, pool, pinged, owing, heartbeatVars, broadcastVars, raced>>

\* connect enters the socket into the pool, with no ping sent.
RegisterSocket(c) ==
  /\ c \in entering
  /\ entering' = entering \ {c}
  /\ pool' = pool \cup {c}
  /\ UNCHANGED <<running, link, pinged, owing, heartbeatVars, broadcastVars, raced>>

\* Mutant: the pong is noted, the ping stays open.
RecordPongOnly(c) ==
  /\ c \in owing /\ link[c] = "up"
  /\ owing' = owing \ {c}
  /\ raced' = IF c \in pinging THEN raced \cup {c} ELSE raced
  /\ UNCHANGED <<running, link, entering, pool, pinged, heartbeatVars, broadcastVars>>

\* The browser has answered a ping and record_pong closes the matter.  A ping
\* under way has been sent but not been noted in last_ping_sent.
RecordPong(c) ==
  /\ c \in owing /\ link[c] = "up"
  /\ owing' = owing \ {c}
  /\ pinged' = IF c \in pool THEN pinged \ {c} ELSE pinged
  /\ raced' = IF c \in pinging THEN raced \cup {c} ELSE raced
  /\ UNCHANGED <<running, link, entering, pool, heartbeatVars, broadcastVars>>

\* The peer closes, or the connection is seen to break ...
Leave(c) ==
  /\ Connected(c)
  /\ link' = [link EXCEPT ![c] = "closed"]
  /\ UNCHANGED <<running, entering, pool, pinged, owing, heartbeatVars, broadcastVars, raced>>

\* ... and the endpoint, which was waiting in receive_text, unregisters it.
Disconnect(c) ==
  /\ link[c] = "closed" /\ c \in pool
  /\ pool' = pool \ {c}
  /\ UNCHANGED <<running, link, entering, pinged, owing, heartbeatVars, broadcastVars, raced>>

\* The peer disappears without a word.
GoSilent(c) ==
  /\ link[c] = "up"
  /\ link' = [link EXCEPT ![c] = "silent"]
  /\ UNCHANGED <<running, entering, pool, pinged, owing, heartbeatVars, broadcastVars, raced>>

----------------------------------------------------------------------------
(* broadcast                                                               *)

StartBroadcast ==
  /\ running
  /\ targets = {} /\ failed = {}
  /\ pool # {}
  /\ targets' = pool
  /\ UNCHANGED <<running, link, entering, pool, pinged, owing, heartbeatVars, failed, raced>>

SendTo(c) ==
  /\ running
  /\ c \in targets
  /\ targets' = targets \ {c}
  /\ failed' = IF Connected(c) THEN failed ELSE failed \cup {c}
  /\ UNCHANGED <<running, link, entering, pool, pinged, owing, heartbeatVars, raced>>

Prune ==
  /\ running
  /\ targets = {} /\ failed # {}
  /\ pool' = pool \ failed
  /\ failed' = {}
  /\ UNCHANGED <<running, link, entering, pinged, owing, heartbeatVars, targets, raced>>

----------------------------------------------------------------------------
(* run_heartbeat_loop                                                      *)

StartRound ==
  /\ running
  /\ heartbeat = "wait"
  /\ heartbeat' = "visit"
  /\ to_visit' = pool
  /\ UNCHANGED <<running, link, entering, pool, pinged, owing, pinging, stale, broadcastVars, raced>>

\* A ping of an earlier round is still open, or the socket is closed.
FindStale(c) ==
  /\ running
  /\ heartbeat = "visit" /\ c \in to_visit
  /\ c \in pinged \/ ~Connected(c)
  /\ stale' = stale \cup {c}
  /\ to_visit' = to_visit \ {c}
  /\ UNCHANGED <<running, link, entering, pool, pinged, owing, heartbeat, pinging, broadcastVars, raced>>

\* Mutant: an open ping is repeated instead of being held against the socket.
SendPingAgain(c) ==
  /\ running
  /\ heartbeat = "visit" /\ c \in to_visit
  /\ Connected(c)
  /\ heartbeat' = "sent"
  /\ pinging' = {c}
  /\ owing' = owing \cup {c}
  /\ UNCHANGED <<running, link, entering, pool, pinged, to_visit, stale, broadcastVars, raced>>

SendPing(c) ==
  /\ running
  /\ heartbeat = "visit" /\ c \in to_visit
  /\ c \notin pinged /\ Connected(c)
  /\ heartbeat' = "sent"
  /\ pinging' = {c}
  /\ owing' = owing \cup {c}
  /\ UNCHANGED <<running, link, entering, pool, pinged, to_visit, stale, broadcastVars, raced>>

\* The send is over: last_ping_sent is set, if the socket is in the pool.
NotePing ==
  /\ running
  /\ heartbeat = "sent"
  /\ pinged' = pinged \cup (pinging \cap pool)
  /\ to_visit' = to_visit \ pinging
  /\ pinging' = {}
  /\ heartbeat' = "visit"
  /\ UNCHANGED <<running, link, entering, pool, owing, stale, broadcastVars, raced>>

\* The send raises, because the connection is broken: the socket is stale now.
FailPing ==
  /\ running
  /\ heartbeat = "sent"
  /\ \A c \in pinging : link[c] # "up"
  /\ stale' = stale \cup pinging
  /\ to_visit' = to_visit \ pinging
  /\ pinging' = {}
  /\ heartbeat' = "visit"
  /\ UNCHANGED <<running, link, entering, pool, pinged, owing, broadcastVars, raced>>

EndVisits ==
  /\ running
  /\ heartbeat = "visit" /\ to_visit = {}
  /\ heartbeat' = "close"
  /\ UNCHANGED <<running, link, entering, pool, pinged, owing, to_visit, pinging, stale,
                 broadcastVars, raced>>

\* The socket is closed and leaves the pool.
CloseStale(c) ==
  /\ running
  /\ heartbeat = "close" /\ c \in stale
  /\ link' = [link EXCEPT ![c] = "closed"]
  /\ pool' = pool \ {c}
  /\ stale' = stale \ {c}
  /\ UNCHANGED <<running, entering, pinged, owing, heartbeat, to_visit, pinging, broadcastVars, raced>>

EndRound ==
  /\ running
  /\ heartbeat = "close" /\ stale = {}
  /\ heartbeat' = "wait"
  /\ UNCHANGED <<running, link, entering, pool, pinged, owing, to_visit, pinging, stale,
                 broadcastVars, raced>>

\* Shutdown cancels broadcast and heartbeat; close_all empties the pool and
\* closes what was in it.
CloseAll ==
  /\ running
  /\ running' = FALSE
  /\ link' = [c \in Socket |-> IF c \in pool THEN "closed" ELSE link[c]]
  /\ pool' = {}
  /\ UNCHANGED <<entering, pinged, owing, heartbeatVars, broadcastVars, raced>>

----------------------------------------------------------------------------
Heartbeat ==
  \/ StartRound \/ NotePing \/ FailPing \/ EndVisits \/ EndRound
  \/ \E c \in Socket : FindStale(c) \/ SendPing(c) \/ CloseStale(c)

PoolNext ==
  \/ \E c \in Socket :
       \/ AcceptSocket(c) \/ RegisterSocket(c) \/ RecordPong(c)
       \/ Leave(c) \/ Disconnect(c) \/ GoSilent(c)
       \/ SendTo(c)
  \/ StartBroadcast \/ Prune
  \/ Heartbeat
  \/ CloseAll

PoolSpec == PoolInit /\ [][PoolNext]_poolVars

\* The heartbeat task keeps running, and the endpoint of a socket reaches
\* receive_text and comes back from it when the socket is closed.
PoolFairness ==
  /\ WF_poolVars(Heartbeat)
  /\ \A c \in Socket : WF_poolVars(RegisterSocket(c)) /\ WF_poolVars(Disconnect(c))

PoolFairSpec == PoolSpec /\ PoolFairness

----------------------------------------------------------------------------
\* The heartbeat gives up on a living connection only if a ping it sent has
\* not been answered, or the answer was recorded in the moment between the
\* sending of the ping and the note that it was sent (which then stands for
\* good: the browser has nothing more to answer).
GivenUpForCause ==
  [][\A c \in stale' \ stale : link[c] = "up" => c \in owing \cup raced]_poolVars

\* While the gateway runs, a connection that has closed or gone silent leaves
\* the pool for good.
DeadLeaveThePool ==
  \A c \in Socket :
    link[c] \in {"silent", "closed"} ~> ~running \/ [](c \notin pool)

============================================================================
