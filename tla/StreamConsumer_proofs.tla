------------------------ MODULE StreamConsumer_proofs ------------------------
(***************************************************************************)
(* What the steps of StreamConsumer preserve, whatever a service does with *)
(* a message: lemmas for the proofs about its three consumers, the         *)
(* notification forwarder and the two of the processor.  P stands for the  *)
(* phases of the service's own.                                            *)
(***************************************************************************)
EXTENDS StreamConsumer, TLAPS

USE StreamAssumption

\* What a loop has in hand is in the PEL, or somebody else has acknowledged it.
InHandIsDelivered ==
  \A w \in Worker : \A m \in todo[w] : entry[m] \in {"pending", "acked"}

StreamInv(P) == StreamTypeOK(P) /\ InHandIsDelivered

\* In a step a loop stays where it is, or ends up between two messages.
Rests(v) == phase'[v] = phase[v] /\ todo'[v] = todo[v]
Restarts(v) == phase'[v] \in {"idle", "check"}
LoopsMove == \A v \in Worker : Rests(v) \/ Restarts(v)

\* The entry of message m may be added, or delivered.
Adds(m) == entry'[m] = entry[m] \/ (entry[m] = "unsent" /\ entry'[m] \in {"new", "missed"})
Delivers(m) == entry'[m] = entry[m] \/ (entry[m] = "new" /\ entry'[m] = "pending")

\* A loop has one message in hand at a time.
LEMMA OneCurrent ==
  ASSUME NEW w \in Worker, NEW m \in Message, NEW l \in Message,
         Current(w, m), Current(w, l)
  PROVE  m = l
BY DEF Current, Before

\* Before the first message.
LEMMA InitStreamInv == ASSUME NEW P, StreamInit PROVE StreamInv(P)
<1> USE DEF StreamInit
<1>1. faults \in 0..MaxFaults
  OBVIOUS
<1>2. \A w \in Worker : phase[w] = "idle" <=> todo[w] = {}
  OBVIOUS
<1> QED BY <1>1, <1>2 DEF StreamInv, StreamTypeOK, InHandIsDelivered, EntryState

----------------------------------------------------------------------------
(* Stream, group and batches                                               *)

\* Messages are where they were or further on, and a batch that has grown
\* has grown by pending messages.
LEMMA DeliveredStays ==
  ASSUME InHandIsDelivered, todo' \in [Worker -> SUBSET Message],
         \A m \in Message : entry[m] \in {"pending", "acked"} => entry'[m] \in {"pending", "acked"},
         \A w \in Worker : \A m \in todo'[w] :
            m \in todo[w] \/ entry'[m] \in {"pending", "acked"}
  PROVE  InHandIsDelivered'
BY DEF InHandIsDelivered

\* A new message in the stream.
LEMMA AddStreamInv ==
  ASSUME NEW P, StreamInv(P), NEW m \in Message, Add(m)
  PROVE  StreamInv(P)' /\ LoopsMove /\ \A l \in Message : Adds(l)
<1> USE DEF StreamInv, StreamTypeOK
<1>1. StreamTypeOK(P)'
  BY DEF Add, EntryState
<1>2. UNCHANGED <<todo, phase>> /\ \A l \in Message : Adds(l)
  BY DEF Add, Adds
<1>3. InHandIsDelivered'
  BY <1>2 DEF InHandIsDelivered, Adds
<1> QED BY <1>1, <1>2, <1>3 DEF LoopsMove, Rests

\* A batch from the stream.
LEMMA ReadStreamInv ==
  ASSUME NEW P, StreamInv(P), NEW c \in Consumer, Read(c)
  PROVE  StreamInv(P)' /\ LoopsMove /\ \A m \in Message : Delivers(m)
<1> USE DEF StreamInv, StreamTypeOK
<1> DEFINE w == <<c, "read">>
<1>0. w \in Worker
  BY DEF Worker, Loop
<1>1. PICK B \in SUBSET Message :
        /\ IsNewBatch(B)
        /\ todo' = [todo EXCEPT ![w] = B]
        /\ entry' = [m \in Message |-> IF m \in B THEN "pending" ELSE entry[m]]
  BY DEF Read
<1>2. B # {} /\ \A m \in B : entry[m] = "new"
  BY <1>1 DEF IsNewBatch, InState
<1>3. phase' = [phase EXCEPT ![w] = "check"] /\ UNCHANGED <<group, faults>>
  BY DEF Read
<1> HIDE DEF w
<1>4. StreamTypeOK(P)'
  BY <1>0, <1>1, <1>2, <1>3 DEF EntryState
<1>5. LoopsMove
  BY <1>0, <1>1, <1>3 DEF LoopsMove, Rests, Restarts
<1>6. \A v \in Worker : \A m \in todo'[v] : m \in todo[v] \/ entry'[m] = "pending"
  BY <1>0, <1>1
<1>7. \A m \in Message : Delivers(m)
  BY <1>1, <1>2 DEF Delivers
<1> QED BY <1>4, <1>5, <1>6, <1>7, DeliveredStays DEF Delivers

\* A batch of pending messages.
LEMMA ReclaimStreamInv ==
  ASSUME NEW P, StreamInv(P), NEW c \in Consumer, NEW B \in SUBSET Message, Reclaim(c, B)
  PROVE  StreamInv(P)' /\ LoopsMove /\ UNCHANGED entry
<1> USE DEF StreamInv, StreamTypeOK
<1> DEFINE w == <<c, "claim">>
<1>0. w \in Worker
  BY DEF Worker, Loop
<1>1. /\ todo' = [todo EXCEPT ![w] = B]
      /\ phase' = [phase EXCEPT ![w] = "check"]
      /\ UNCHANGED <<group, entry, faults>>
      /\ B # {} /\ \A m \in B : entry[m] = "pending"
  BY DEF Reclaim, InState
<1> HIDE DEF w
<1>2. StreamTypeOK(P)'
  BY <1>0, <1>1
<1>3. LoopsMove
  BY <1>0, <1>1 DEF LoopsMove, Rests, Restarts
<1>4. \A v \in Worker : \A m \in todo'[v] : m \in todo[v] \/ entry'[m] = "pending"
  BY <1>0, <1>1
<1> QED BY <1>1, <1>2, <1>3, <1>4, DeliveredStays

\* The loss of both batches of a replica.
LEMMA CrashStreamInv ==
  ASSUME NEW P, StreamInv(P), NEW c \in Consumer, Crash(c)
  PROVE  StreamInv(P)' /\ LoopsMove /\ UNCHANGED entry
<1> USE DEF StreamInv, StreamTypeOK
<1>1. StreamTypeOK(P)'
  BY DEF Crash, Fault
<1>2. LoopsMove
  BY DEF Crash, LoopsMove, Rests, Restarts
<1>3. \A v \in Worker : \A m \in todo'[v] : m \in todo[v]
  BY DEF Crash
<1> QED BY <1>1, <1>2, <1>3, DeliveredStays DEF Crash

\* Together: the group, the loops' batches, and a step elsewhere.
LEMMA StreamStepInv ==
  ASSUME NEW P, StreamInv(P),
         \/ UNCHANGED streamVars
         \/ SetupGroup
         \/ \E c \in Consumer :
              Read(c) \/ Crash(c) \/ \E B \in SUBSET Message : Reclaim(c, B)
  PROVE  StreamInv(P)' /\ LoopsMove /\ \A m \in Message : Delivers(m)
<1>1. CASE UNCHANGED streamVars \/ SetupGroup
  <2>1. UNCHANGED <<entry, todo, phase, faults>> /\ group' \in BOOLEAN
    BY <1>1 DEF streamVars, SetupGroup, StreamInv, StreamTypeOK
  <2>2. StreamInv(P)'
    BY <2>1 DEF StreamInv, StreamTypeOK, InHandIsDelivered
  <2> QED BY <2>1, <2>2 DEF LoopsMove, Rests, Delivers
<1>2. ASSUME UNCHANGED entry PROVE \A m \in Message : Delivers(m)
  BY <1>2 DEF Delivers
<1> QED BY <1>1, <1>2, ReadStreamInv, ReclaimStreamInv, CrashStreamInv

----------------------------------------------------------------------------
(* The loop over a batch                                                   *)

\* Loop w goes on with message m in a phase p of its own.
LEMMA GoToStreamInv ==
  ASSUME NEW P, StreamInv(P), NEW w \in Worker, NEW m \in Message, Current(w, m),
         NEW p \in P, p # "idle", GoTo(w, p), UNCHANGED <<group, entry, todo, faults>>
  PROVE  /\ StreamInv(P)'
         /\ phase'[w] = p
         /\ \A v \in Worker : v # w => phase'[v] = phase[v]
         /\ \A v \in Worker, l \in Message : Current(v, l)' <=> Current(v, l)
<1>1. StreamTypeOK(P)' /\ InHandIsDelivered'
  BY DEF StreamInv, StreamTypeOK, GoTo, Current, InHandIsDelivered
<1> QED BY <1>1 DEF StreamInv, StreamTypeOK, GoTo, Current

\* After a return the loop is at the start of its next message, or idle.
LEMMA ReturnMoves ==
  ASSUME NEW P, StreamTypeOK(P), NEW w \in Worker, NEW m \in Message, Current(w, m), Return(w, m)
  PROVE  /\ phase' \in [Worker -> {"idle", "check"} \cup P]
         /\ todo' \in [Worker -> SUBSET Message]
         /\ \A v \in Worker : phase'[v] = "idle" <=> todo'[v] = {}
         /\ \A v \in Worker : v # w => phase'[v] = phase[v] /\ todo'[v] = todo[v]
         /\ phase'[w] \in {"idle", "check"}
         /\ todo'[w] \subseteq todo[w]
<1> USE DEF StreamTypeOK, Return
<1>1. /\ phase' \in [Worker -> {"idle", "check"} \cup P]
      /\ todo' \in [Worker -> SUBSET Message]
      /\ \A v \in Worker : v # w => phase'[v] = phase[v] /\ todo'[v] = todo[v]
      /\ todo'[w] = todo[w] \ {m}
      /\ phase'[w] = IF todo[w] = {m} THEN "idle" ELSE "check"
  OBVIOUS
<1>2. phase'[w] = "idle" <=> todo'[w] = {}
  BY <1>1 DEF Current
<1> QED BY <1>1, <1>2

\* After an exception the loop is idle.
LEMMA RaiseMoves ==
  ASSUME NEW P, StreamTypeOK(P), NEW w \in Worker, Raise(w)
  PROVE  /\ phase' \in [Worker -> {"idle", "check"} \cup P]
         /\ todo' \in [Worker -> SUBSET Message]
         /\ \A v \in Worker : phase'[v] = "idle" <=> todo'[v] = {}
         /\ \A v \in Worker : v # w => phase'[v] = phase[v] /\ todo'[v] = todo[v]
         /\ phase'[w] \in {"idle", "check"}
         /\ todo'[w] \subseteq todo[w]
BY DEF StreamTypeOK, Raise

\* A call ends by returning or raising; it may have acknowledged its message.
LEMMA EndStreamInv ==
  ASSUME NEW P, StreamInv(P), NEW w \in Worker, NEW m \in Message, Current(w, m),
         Return(w, m) \/ Raise(w),
         faults' \in 0..MaxFaults, UNCHANGED group,
         entry' = entry \/ entry' = [entry EXCEPT ![m] = "acked"]
  PROVE  /\ StreamInv(P)'
         /\ LoopsMove
         /\ \A l \in Message : entry'[l] = entry[l] \/ (l = m /\ entry'[l] = "acked")
<1> USE DEF StreamInv
<1>1. /\ phase' \in [Worker -> {"idle", "check"} \cup P]
      /\ todo' \in [Worker -> SUBSET Message]
      /\ \A v \in Worker : phase'[v] = "idle" <=> todo'[v] = {}
      /\ \A v \in Worker : v # w => phase'[v] = phase[v] /\ todo'[v] = todo[v]
      /\ phase'[w] \in {"idle", "check"}
      /\ todo'[w] \subseteq todo[w]
  BY ReturnMoves, RaiseMoves
<1>2. StreamTypeOK(P)'
  BY <1>1 DEF StreamTypeOK, EntryState
<1>3. \A l \in Message : entry'[l] = entry[l] \/ (l = m /\ entry'[l] = "acked")
  BY DEF StreamTypeOK
<1>4. LoopsMove
  BY <1>1 DEF LoopsMove, Rests, Restarts
<1> QED BY <1>1, <1>2, <1>3, <1>4, DeliveredStays

============================================================================
