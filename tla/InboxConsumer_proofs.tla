------------------------ MODULE InboxConsumer_proofs ------------------------
(***************************************************************************)
(* What the steps of InboxConsumer preserve, whatever the business         *)
(* transaction in the middle does: lemmas for the proofs about             *)
(* TransactionConsumer and Compensation.                                   *)
(***************************************************************************)
EXTENDS InboxConsumer, StreamConsumer_proofs

USE StreamAssumption, InboxAssumption

\* How far a loop has come with its current message shows in the database.
PhaseIsEarned ==
  \A w \in Worker, m \in Message : Current(w, m) =>
    /\ phase[w] = "ack" => EventOf[m] \in processed
    /\ phase[w] = "dead_ack" => dlq_rows[m] > 0

InboxInv ==
  /\ InboxTypeOK
  /\ InHandIsDelivered
  /\ PhaseIsEarned
  /\ AckedIsSettled

\* InboxInv is StreamInv with more about the database.
LEMMA InboxStreamInv == InboxInv => StreamInv(Phase)
BY DEF InboxInv, InboxTypeOK, StreamInv

\* Loop w ends its call for message m with a phase p of its own.
LEMMA GoToMoves ==
  ASSUME InboxTypeOK, NEW w \in Worker, NEW m \in Message, Current(w, m),
         NEW p \in Phase, GoTo(w, p), UNCHANGED todo
  PROVE  /\ phase' \in [Worker -> {"idle", "check"} \cup Phase]
         /\ todo' \in [Worker -> SUBSET Message]
         /\ \A v \in Worker : phase'[v] = "idle" <=> todo'[v] = {}
         /\ phase'[w] = p
         /\ \A v \in Worker : v # w => phase'[v] = phase[v]
BY DEF InboxTypeOK, StreamTypeOK, GoTo, Phase, Current

----------------------------------------------------------------------------
(* What every step leaves as it is                                         *)

\* Nothing takes back an inbox row or a dead letter, or a message from those
\* the group has delivered.
SettledStays ==
  \A m \in Message :
    /\ EventOf[m] \in processed => EventOf[m] \in processed'
    /\ dlq_rows[m] > 0 => dlq_rows'[m] > 0
    /\ entry[m] \in {"pending", "acked"} => entry'[m] \in {"pending", "acked"}

\* A loop that rests, or is at the start of a message, has earned its phase.
LEMMA PhaseKept ==
  ASSUME PhaseIsEarned, SettledStays, LoopsMove
  PROVE  PhaseIsEarned'
BY DEF PhaseIsEarned, SettledStays, LoopsMove, Rests, Restarts, Current

\* So has one that goes on to a phase for which the database has the row.
LEMMA PhaseReached ==
  ASSUME InboxInv, SettledStays, NEW w \in Worker, NEW m \in Message, Current(w, m),
         NEW p \in Phase, GoTo(w, p), UNCHANGED todo,
         p = "ack" => EventOf[m] \in processed',
         p = "dead_ack" => dlq_rows'[m] > 0
  PROVE  PhaseIsEarned'
<1>1. /\ phase'[w] = p
      /\ \A v \in Worker : v # w => phase'[v] = phase[v]
  BY GoToMoves DEF InboxInv
<1>2. \A v \in Worker, l \in Message : Current(v, l)' <=> Current(v, l)
  BY DEF Current
<1>3. \A l \in Message : Current(w, l) => l = m
  BY OneCurrent
<1> QED BY <1>1, <1>2, <1>3 DEF InboxInv, PhaseIsEarned, SettledStays

\* Before the first message.
LEMMA InitInboxInv == InboxInit => InboxInv
<1> SUFFICES ASSUME InboxInit PROVE InboxInv
  OBVIOUS
<1> USE DEF InboxInit
<1>1. StreamInv(Phase)
  BY InitStreamInv
<1> QED BY <1>1 DEF StreamInv, StreamInit, InboxInv, InboxTypeOK, PhaseIsEarned, Current,
                    AckedIsSettled

----------------------------------------------------------------------------
(* The steps around the processing of a message                            *)

DatabaseRests == UNCHANGED <<processed, dlq_rows>>

\* What has to be shown of a step that only moves messages between streams,
\* batches and loops.
LEMMA MoveInboxInv ==
  ASSUME InboxInv, DatabaseRests, StreamInv(Phase)', LoopsMove,
         \A m \in Message : entry[m] \in {"pending", "acked"} => entry'[m] \in {"pending", "acked"},
         \A m \in Message : entry'[m] = "acked" =>
            entry[m] = "acked" \/ EventOf[m] \in processed \/ dlq_rows[m] > 0
  PROVE  InboxInv'
<1>1. InboxTypeOK' /\ InHandIsDelivered'
  BY DEF StreamInv, InboxInv, InboxTypeOK, DatabaseRests
<1>2. SettledStays
  BY DEF SettledStays, DatabaseRests
<1>3. PhaseIsEarned'
  BY <1>2, PhaseKept DEF InboxInv
<1>4. AckedIsSettled'
  BY DEF InboxInv, AckedIsSettled, DatabaseRests
<1> QED BY <1>1, <1>3, <1>4 DEF InboxInv

\* The streams, the groups and the loops' batches.
LEMMA StreamInboxInv ==
  ASSUME InboxInv, DatabaseRests,
         \/ UNCHANGED inboxVars
         \/ SetupGroup \/ \E m \in Message : Add(m)
         \/ \E c \in Consumer :
              Read(c) \/ Crash(c) \/ \E B \in SUBSET Message : Reclaim(c, B)
  PROVE  InboxInv' /\ LoopsMove
<1>1. StreamInv(Phase)' /\ LoopsMove /\ \A m \in Message : Adds(m) \/ Delivers(m)
  BY InboxStreamInv, AddStreamInv, StreamStepInv DEF inboxVars
<1> QED BY <1>1, MoveInboxInv DEF Adds, Delivers

----------------------------------------------------------------------------
(* The processing of a message                                             *)

\* The call of a message ends without a trace, by returning or raising.
GiveUp(w, m) ==
  /\ Current(w, m)
  /\ Return(w, m) \/ Raise(w)
  /\ faults' \in 0..MaxFaults
  /\ UNCHANGED <<group, entry>>

\* XACK of a message that is settled, and every failure.
LEMMA EndInboxInv ==
  ASSUME InboxInv, DatabaseRests, NEW w \in Worker, NEW m \in Message,
         Ack(w, m) \/ AckDeadLetter(w, m) \/ FailDeadLetter(w, m) \/ GiveUp(w, m)
  PROVE  InboxInv' /\ LoopsMove
<1>1. /\ Current(w, m)
      /\ Return(w, m) \/ Raise(w)
      /\ UNCHANGED group
      /\ faults' \in 0..MaxFaults
      /\ entry' = entry \/ entry' = [entry EXCEPT ![m] = "acked"]
      /\ entry' # entry => phase[w] \in {"ack", "dead_ack"}
  BY DEF Ack, AckDeadLetter, FailDeadLetter, GiveUp, Acknowledge, Fault, InboxInv, InboxTypeOK,
         StreamTypeOK
<1>2. /\ StreamInv(Phase)' /\ LoopsMove
      /\ \A l \in Message : entry'[l] = entry[l] \/ (l = m /\ entry'[l] = "acked")
  BY <1>1, InboxStreamInv, EndStreamInv
<1>3. entry' # entry => EventOf[m] \in processed \/ dlq_rows[m] > 0
  BY <1>1 DEF InboxInv, PhaseIsEarned
<1> QED BY <1>2, <1>3, MoveInboxInv

\* The message goes on to phase p; what that phase claims is committed.
Advance(w, m, p) ==
  /\ Current(w, m)
  /\ GoTo(w, p)
  /\ UNCHANGED <<group, entry, todo, faults>>
  /\ processed \subseteq processed' /\ processed' \subseteq Event
  /\ dlq_rows' \in [Message -> Nat]
  /\ \A l \in Message : dlq_rows[l] > 0 => dlq_rows'[l] > 0
  /\ p = "ack" => EventOf[m] \in processed'
  /\ p = "dead_ack" => dlq_rows'[m] > 0

LEMMA AdvanceInboxInv ==
  ASSUME InboxInv, NEW w \in Worker, NEW m \in Message, NEW p \in Phase, Advance(w, m, p)
  PROVE  InboxInv'
<1> USE DEF Advance
<1>0. StreamInv(Phase) /\ p # "idle"
  BY InboxStreamInv DEF Phase
<1>1. StreamInv(Phase)'
  BY <1>0, GoToStreamInv
<1>2. SettledStays
  BY DEF SettledStays
<1>3. PhaseIsEarned'
  BY <1>2, PhaseReached
<1>4. AckedIsSettled'
  BY <1>2 DEF InboxInv, AckedIsSettled, SettledStays
<1> QED BY <1>1, <1>3, <1>4 DEF StreamInv, InboxInv, InboxTypeOK

\* The inbox check: straight to XACK only for an event that is in the inbox;
\* to the dead letters only over the threshold or with a corrupt message, and
\* always with a corrupt one.
LEMMA CheckAdvances ==
  ASSUME InboxInv, NEW w \in Worker, NEW m \in Message, Check(w, m)
  PROVE  \E p \in {"work", "ack", "dead"} :
           /\ Advance(w, m, p)
           /\ p = "dead" => m \in Corrupt \/ DeliveryCount(w) > MAX_CONSUMER_DELIVERIES
           /\ p = "work" => m \notin Corrupt
BY DEF Check, Advance, InboxInv, InboxTypeOK

\* The dead-letter row is committed before its XACK.
LEMMA DeadLetterAdvances ==
  ASSUME InboxInv, NEW w \in Worker, NEW m \in Message, DeadLetter(w, m)
  PROVE  Advance(w, m, "dead_ack")
<1>1. /\ dlq_rows' \in [Message -> Nat] /\ dlq_rows'[m] > 0
      /\ \A l \in Message : dlq_rows'[l] >= dlq_rows[l]
  BY DEF DeadLetter, InboxInv, InboxTypeOK
<1> QED BY <1>1 DEF DeadLetter, Advance, InboxInv, InboxTypeOK

----------------------------------------------------------------------------
(* Dead letters                                                            *)

\* A loop is on its way to a dead letter only with a corrupt message.
DeadIsCorrupt ==
  /\ OnlyCorruptDeadLettered
  /\ \A w \in Worker, m \in Message :
       Current(w, m) /\ phase[w] \in {"dead", "dead_ack"} => m \in Corrupt

\* The delivery count is 1 or 2: a threshold of 2 or more is never passed.
LEMMA CountUnderThreshold ==
  ASSUME MAX_CONSUMER_DELIVERIES > 1, NEW w \in Worker
  PROVE  ~(DeliveryCount(w) > MAX_CONSUMER_DELIVERIES)
BY DEF DeliveryCount

LEMMA MoveDeadIsCorrupt ==
  ASSUME DeadIsCorrupt, DatabaseRests, LoopsMove
  PROVE  DeadIsCorrupt'
BY DEF DatabaseRests, LoopsMove, Rests, Restarts, DeadIsCorrupt, OnlyCorruptDeadLettered, Current

\* A message that is not corrupt is not sent that way by the check either.
LEMMA AdvanceDeadIsCorrupt ==
  ASSUME InboxInv, DeadIsCorrupt, NEW w \in Worker, NEW m \in Message, NEW p \in Phase,
         Advance(w, m, p),
         p = "dead" => m \in Corrupt,
         p = "dead_ack" => phase[w] = "dead",
         \A l \in Message : dlq_rows'[l] > 0 => dlq_rows[l] > 0 \/ (l = m /\ phase[w] = "dead")
  PROVE  DeadIsCorrupt'
<1>1. /\ \A l \in Message : Current(w, l) => l = m
      /\ \A v \in Worker, l \in Message : Current(v, l)' <=> Current(v, l)
  BY OneCurrent DEF Advance, Current
<1>2. phase'[w] = p /\ \A v \in Worker : v # w => phase'[v] = phase[v]
  BY GoToMoves DEF Advance, InboxInv
<1> QED BY <1>1, <1>2 DEF DeadIsCorrupt, OnlyCorruptDeadLettered, Advance

============================================================================
