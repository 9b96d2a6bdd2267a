----------------------- MODULE NotificationForwarder -----------------------
(***************************************************************************)
(* The notification forwarder of the gateway: a consumer group over        *)
(* stream:alerts and stream:escalations that relays every event to the     *)
(* Pub/Sub channel ws:notifications.  It keeps no inbox and no dead        *)
(* letters: what it cannot parse it acknowledges, what it cannot publish   *)
(* stays pending, and what it published but failed to acknowledge it       *)
(* publishes again.                                                        *)
(***************************************************************************)
EXTENDS StreamConsumer

CONSTANT MayBeCorrupt  \* bound: the messages an envelope may fail to parse in

ASSUME ForwarderAssumption == MayBeCorrupt \subseteq Message

VARIABLES
  corrupt,      \* messages in the streams whose envelope does not parse
  published     \* messages whose notification went out at least once

forwarderVars == <<streamVars, corrupt, published>>

ForwarderPhase == {"ack"}

ForwarderTypeOK ==
  /\ StreamTypeOK(ForwarderPhase)
  /\ corrupt \subseteq MayBeCorrupt
  /\ published \subseteq Message \ corrupt

ForwarderInit == StreamInit /\ corrupt = {} /\ published = {}

\* Somebody puts an entry into a stream that is no event envelope.
AddCorrupt(m) ==
  /\ m \in MayBeCorrupt
  /\ Add(m)
  /\ corrupt' = corrupt \cup {m}
  /\ UNCHANGED published

\* parse_event_envelope fails: straight to XACK.
Discard(w, m) ==
  /\ Current(w, m) /\ phase[w] = "check"
  /\ m \in corrupt
  /\ GoTo(w, "ack")
  /\ UNCHANGED <<group, entry, todo, faults, corrupt, published>>

\* PUBLISH of the formatted notification.
Publish(w, m) ==
  /\ Current(w, m) /\ phase[w] = "check"
  /\ m \notin corrupt
  /\ published' = published \cup {m}
  /\ GoTo(w, "ack")
  /\ UNCHANGED <<group, entry, todo, faults, corrupt>>

\* Mutant: a failed PUBLISH is acknowledged like a successful one.
FailPublishAcked(w, m) ==
  /\ Current(w, m) /\ phase[w] = "check"
  /\ m \notin corrupt
  /\ Fault
  /\ GoTo(w, "ack")
  /\ UNCHANGED <<group, entry, todo, corrupt, published>>

\* PUBLISH fails: no XACK, the message stays pending.
FailPublish(w, m) ==
  /\ Current(w, m) /\ phase[w] = "check"
  /\ m \notin corrupt
  /\ Fault
  /\ Return(w, m)
  /\ UNCHANGED <<group, entry, corrupt, published>>

Ack(w, m) ==
  /\ Current(w, m) /\ phase[w] = "ack"
  /\ Acknowledge(w, m)
  /\ UNCHANGED <<corrupt, published>>

\* XACK fails and process_stream_message lets the exception through.
FailAck(w, m) ==
  /\ Current(w, m) /\ phase[w] = "ack"
  /\ Fault
  /\ Raise(w)
  /\ UNCHANGED <<group, entry, corrupt, published>>

----------------------------------------------------------------------------
\* The forwarder forgets a message (XACK) only after its notification went
\* out, or when there is nothing in it to forward.
AckedIsForwarded == InState("acked") \subseteq published \cup corrupt

============================================================================
