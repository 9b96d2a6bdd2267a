--------------------------- MODULE StreamConsumer ---------------------------
(***************************************************************************)
(* What the consumers of the Redis Streams have in common.  A consumer     *)
(* group holds, for each message, whether it has been delivered and        *)
(* acknowledged.  Every replica runs two loops in one process:             *)
(* run_consumer_loop reads new messages with XREADGROUP and                *)
(* run_autoclaim_loop reclaims pending ones with XAUTOCLAIM.  Each loop    *)
(* works off its batch in memory, one message at a time.  What happens to  *)
(* a message (process_single_message, process_stream_message) is up to the *)
(* modules that extend this one; its steps are separate actions, because   *)
(* the other loops and replicas run between them and a crash may come      *)
(* between any two.                                                        *)
(*                                                                         *)
(* XAUTOCLAIM hands out every message that has been pending long enough,   *)
(* also one that a slow loop still has in hand; time is left out, so it    *)
(* may hand out any set of pending messages of a stream.                   *)
(***************************************************************************)
EXTENDS Integers, FiniteSets

CONSTANTS
  Message,      \* the stream entries, by stream id
  StreamOf,     \* [Message -> Nat], the place of its stream in the read call
  Consumer,     \* replicas of the service
  BATCH_SIZE,   \* CONSUMER_BATCH_SIZE, or FORWARDER_BATCH_SIZE in the gateway
  FromStart,    \* is the group created with id "0" (gateway) or "$"
  MaxFaults     \* bound: crashes and failing calls

ASSUME StreamAssumption ==
  /\ Message \subseteq Nat
  /\ StreamOf \in [Message -> Nat]
  /\ BATCH_SIZE \in Nat \ {0}
  /\ FromStart \in BOOLEAN
  /\ MaxFaults \in Nat

Loop == {"read", "claim"}
Worker == Consumer \X Loop

VARIABLES
  group,        \* has the consumer group been created
  entry,        \* [Message -> EntryState]: the streams and the group's PEL
  todo,         \* [Worker -> SUBSET Message], rest of the batch in memory
  phase,        \* [Worker -> phases], where its current message is
  faults

streamVars == <<group, entry, todo, phase, faults>>

\* "unsent": not added yet.  "missed": added before a group that starts at
\* the end of the stream was created, so never delivered to it.
EntryState == {"unsent", "missed", "new", "pending", "acked"}

StreamTypeOK(Phase) ==
  /\ group \in BOOLEAN
  /\ entry \in [Message -> EntryState]
  /\ todo \in [Worker -> SUBSET Message]
  /\ phase \in [Worker -> {"idle", "check"} \cup Phase]
  /\ faults \in 0..MaxFaults
  /\ \A w \in Worker : phase[w] = "idle" <=> todo[w] = {}

StreamInit ==
  /\ group = FALSE
  /\ entry = [m \in Message |-> "unsent"]
  /\ todo = [w \in Worker |-> {}]
  /\ phase = [w \in Worker |-> "idle"]
  /\ faults = 0

----------------------------------------------------------------------------
(* Stream, group and batches                                               *)

\* The outbox publisher XADDs a message; ids grow within a stream.
Add(m) ==
  /\ entry[m] = "unsent"
  /\ \A l \in Message : StreamOf[l] = StreamOf[m] /\ l < m => entry[l] # "unsent"
  /\ entry' = [entry EXCEPT ![m] = IF group \/ FromStart THEN "new" ELSE "missed"]
  /\ UNCHANGED <<group, todo, phase, faults>>

\* setup_consumer_group(s): the first replica to start creates the group.
SetupGroup ==
  /\ ~group
  /\ group' = TRUE
  /\ UNCHANGED <<entry, todo, phase, faults>>

InState(s) == {m \in Message : entry[m] = s}
OfStream(B, s) == {m \in B : StreamOf[m] = s}

\* Of every stream the oldest BATCH_SIZE undelivered messages.
IsNewBatch(B) ==
  /\ B # {} /\ B \subseteq InState("new")
  /\ \A s \in {StreamOf[m] : m \in InState("new")} :
       LET new == OfStream(InState("new"), s)  taken == OfStream(B, s) IN
       /\ Cardinality(taken) <= BATCH_SIZE
       /\ taken = new \/ Cardinality(taken) = BATCH_SIZE
       /\ \A m \in taken, l \in new \ taken : m < l

\* XREADGROUP ">" puts a batch into the PEL.
Read(c) ==
  /\ group
  /\ todo[<<c, "read">>] = {}
  /\ \E B \in SUBSET Message :
        /\ IsNewBatch(B)
        /\ todo' = [todo EXCEPT ![<<c, "read">>] = B]
        /\ entry' = [m \in Message |-> IF m \in B THEN "pending" ELSE entry[m]]
  /\ phase' = [phase EXCEPT ![<<c, "read">>] = "check"]
  /\ UNCHANGED <<group, faults>>

\* XAUTOCLAIM of a set of pending messages of one stream.
Reclaim(c, B) ==
  /\ todo[<<c, "claim">>] = {}
  /\ B # {} /\ B \subseteq InState("pending")
  /\ \A m, l \in B : StreamOf[m] = StreamOf[l]
  /\ todo' = [todo EXCEPT ![<<c, "claim">>] = B]
  /\ phase' = [phase EXCEPT ![<<c, "claim">>] = "check"]
  /\ UNCHANGED <<group, entry, faults>>

----------------------------------------------------------------------------
(* The loop over a batch                                                   *)

\* The loops take the messages of a batch stream by stream, in id order.
Before(l, m) == StreamOf[l] < StreamOf[m] \/ (StreamOf[l] = StreamOf[m] /\ l < m)
Current(w, m) == m \in todo[w] /\ \A l \in todo[w] : ~Before(l, m)

GoTo(w, p) == phase' = [phase EXCEPT ![w] = p]

\* Mutant: the loop does not notice the end of its batch.
ReturnBusy(w, m) ==
  /\ todo' = [todo EXCEPT ![w] = @ \ {m}]
  /\ phase' = [phase EXCEPT ![w] = "check"]

\* The call returns; the loop goes on with the next message.
Return(w, m) ==
  /\ todo' = [todo EXCEPT ![w] = @ \ {m}]
  /\ phase' = [phase EXCEPT ![w] = IF todo[w] = {m} THEN "idle" ELSE "check"]

\* The call raises: the loop logs the error and drops the rest of its batch.
Raise(w) ==
  /\ todo' = [todo EXCEPT ![w] = {}]
  /\ phase' = [phase EXCEPT ![w] = "idle"]

\* A call to Redis or the database fails.
Fault == faults < MaxFaults /\ faults' = faults + 1

\* XACK of the message, the last thing the call does.
Acknowledge(w, m) ==
  /\ entry' = [entry EXCEPT ![m] = "acked"]
  /\ Return(w, m)
  /\ UNCHANGED <<group, faults>>

\* The process dies with both its loops; it comes back with nothing in hand.
Crash(c) ==
  /\ \E l \in Loop : todo[<<c, l>>] # {}
  /\ Fault
  /\ todo' = [w \in Worker |-> IF w[1] = c THEN {} ELSE todo[w]]
  /\ phase' = [w \in Worker |-> IF w[1] = c THEN "idle" ELSE phase[w]]
  /\ UNCHANGED <<group, entry>>

============================================================================
