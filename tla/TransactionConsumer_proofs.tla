--------------------- MODULE TransactionConsumer_proofs ---------------------
(***************************************************************************)
(* Proofs about TransactionConsumer for any messages, events, users and    *)
(* replicas, any batch size and delivery threshold, any set of corrupt,    *)
(* alerting and poison events, and both forms of the dead-letter table.    *)
(***************************************************************************)
EXTENDS TransactionConsumer, InboxConsumer_proofs, FiniteSetTheorems

USE StreamAssumption, InboxAssumption, ConsumerAssumption

StoreTypeOK ==
  /\ processed_txn \subseteq Event
  /\ alerts \in [Event -> Nat]
  /\ created \in [Event -> Nat]
  /\ total_alerts \in [User -> Tally]
  /\ seen \in [Worker -> Tally]

\* Stream, batches and inbox are in order, and so are the tables behind them.
IndInv ==
  /\ InboxInv
  /\ StoreTypeOK
  /\ ExactlyOnceEffects

----------------------------------------------------------------------------
(* The business transaction                                                *)

StoreRests == DatabaseRests /\ UNCHANGED <<store, seen>>

\* Without a write the tables are in order as before.
LEMMA StoreKept ==
  ASSUME IndInv, UNCHANGED <<processed, store, seen>>
  PROVE  StoreTypeOK' /\ ExactlyOnceEffects'
BY DEF IndInv, StoreTypeOK, ExactlyOnceEffects, store

\* The step that takes a message to phase p.
Forward(w, m, p) ==
  \/ (Check(w, m) \/ DeadLetter(w, m)) /\ UNCHANGED <<store, seen>>
  \/ p = "write" /\ RunPipeline(w, m)
  \/ p = "ack" /\ CommitPipeline(w, m)

\* The pipeline up to its last read writes nothing others see.
LEMMA RunIndInv ==
  ASSUME IndInv, NEW w \in Worker, NEW m \in Message, RunPipeline(w, m)
  PROVE  IndInv' /\ Advance(w, m, "write")
<1>1. Advance(w, m, "write")
  BY DEF RunPipeline, Advance, IndInv, InboxInv, InboxTypeOK
<1>2. InboxInv'
  BY <1>1, AdvanceInboxInv DEF IndInv, Phase
<1>3. StoreTypeOK'
  BY DEF RunPipeline, IndInv, StoreTypeOK, store
<1>4. ExactlyOnceEffects'
  BY DEF RunPipeline, IndInv, ExactlyOnceEffects, store
<1> QED BY <1>1, <1>2, <1>3, <1>4 DEF IndInv

\* The one commit of the pipeline brings all effects of an event that had none.
LEMMA CommitIndInv ==
  ASSUME IndInv, NEW w \in Worker, NEW m \in Message, CommitPipeline(w, m)
  PROVE  IndInv' /\ Advance(w, m, "ack")
<1> USE DEF IndInv
<1> DEFINE e == EventOf[m]
<1>1. /\ e \in Event /\ e \notin processed
      /\ processed' = processed \cup {e} /\ processed_txn' = processed_txn \cup {e}
  BY DEF CommitPipeline, Conflict
<1>2. /\ alerts' \in [Event -> Nat] /\ created' \in [Event -> Nat]
      /\ \A f \in Event : alerts'[f] = IF f = e /\ e \in Alerting THEN alerts[f] + 1 ELSE alerts[f]
      /\ \A f \in Event : created'[f] = IF f = e /\ e \in Alerting THEN created[f] + 1 ELSE created[f]
  BY <1>1 DEF CommitPipeline, StoreTypeOK
<1>3. NextTally(w) \in Tally
  BY DEF StoreTypeOK, NextTally, Tally, NoProfile
<1>4. StoreTypeOK'
  BY <1>1, <1>2, <1>3 DEF CommitPipeline, StoreTypeOK
<1>5. ExactlyOnceEffects'
  <2>1. processed_txn' = processed'
    BY <1>1 DEF ExactlyOnceEffects
  <2>2. ASSUME NEW f \in Event
        PROVE  /\ alerts'[f] = IF f \in processed' \cap Alerting THEN 1 ELSE 0
               /\ created'[f] = alerts'[f]
    BY <1>1, <1>2 DEF ExactlyOnceEffects, StoreTypeOK
  <2> QED BY <2>1, <2>2 DEF ExactlyOnceEffects
<1>6. Advance(w, m, "ack")
  BY <1>1 DEF CommitPipeline, Advance, InboxInv, InboxTypeOK
<1> QED BY <1>4, <1>5, <1>6, AdvanceInboxInv DEF Phase

----------------------------------------------------------------------------
(* Every behaviour                                                         *)

LEMMA InitIndInv == Init => IndInv
<1> SUFFICES ASSUME Init PROVE IndInv
  OBVIOUS
<1>1. InboxInv
  BY InitInboxInv DEF Init
<1>2. StoreTypeOK /\ ExactlyOnceEffects
  BY DEF Init, InboxInit, StoreTypeOK, ExactlyOnceEffects, Tally, NoProfile
<1> QED BY <1>1, <1>2 DEF IndInv

\* A step takes one message to its next phase, or only moves messages and
\* leaves every loop where it is or at the start of a message.
LEMMA NextIndInv ==
  ASSUME IndInv, [Next]_vars
  PROVE  /\ IndInv'
         /\ \/ StoreRests /\ LoopsMove
            \/ \E w \in Worker, m \in Message, p \in Phase :
                 /\ Forward(w, m, p) /\ Advance(w, m, p)
                 /\ p = "dead" => m \in Corrupt \/ DeliveryCount(w) > MAX_CONSUMER_DELIVERIES
                 /\ p = "dead_ack" => phase[w] = "dead"
<1> DEFINE Moves == StoreRests /\ LoopsMove
           Steps == \E w \in Worker, m \in Message, p \in Phase :
                 /\ Forward(w, m, p) /\ Advance(w, m, p)
                 /\ p = "dead" => m \in Corrupt \/ DeliveryCount(w) > MAX_CONSUMER_DELIVERIES
                 /\ p = "dead_ack" => phase[w] = "dead"
<1>1. CASE \/ UNCHANGED vars
           \/ StreamStep(SetupGroup) \/ \E m \in Message : StreamStep(Add(m))
           \/ \E c \in Consumer :
                \/ StreamStep(Read(c)) \/ StreamStep(Crash(c))
                \/ \E B \in SUBSET Message : StreamStep(Reclaim(c, B))
  <2>1. StoreRests
    BY <1>1 DEF StreamStep, StoreRests, DatabaseRests, vars, inboxVars, store
  <2>2. \/ UNCHANGED inboxVars
        \/ SetupGroup \/ \E m \in Message : Add(m)
        \/ \E c \in Consumer :
             Read(c) \/ Crash(c) \/ \E B \in SUBSET Message : Reclaim(c, B)
    BY <1>1 DEF StreamStep, vars
  <2>3. InboxInv' /\ LoopsMove
    BY <2>1, <2>2, StreamInboxInv DEF IndInv, StoreRests
  <2> QED BY <2>1, <2>3, StoreKept DEF IndInv, StoreRests, DatabaseRests
<1>2. ASSUME NEW w \in Worker, NEW m \in Message,
             \/ (Ack(w, m) \/ AckDeadLetter(w, m) \/ FailDeadLetter(w, m)) /\ UNCHANGED <<store, seen>>
             \/ FailPipeline(w, m) \/ FailAck(w, m)
      PROVE  IndInv' /\ Moves
  <2>1. StoreRests
    BY <1>2 DEF Ack, AckDeadLetter, FailDeadLetter, FailPipeline, FailAck, StoreRests,
                DatabaseRests, store
  <2>2. FailPipeline(w, m) \/ FailAck(w, m) => GiveUp(w, m)
    BY DEF FailPipeline, FailAck, GiveUp, Fault, IndInv, InboxInv, InboxTypeOK, StreamTypeOK
  <2>3. InboxInv' /\ LoopsMove
    BY <1>2, <2>1, <2>2, EndInboxInv DEF IndInv, StoreRests
  <2> QED BY <2>1, <2>3, StoreKept DEF IndInv, StoreRests, DatabaseRests
<1>3. ASSUME NEW w \in Worker, NEW m \in Message, UNCHANGED <<store, seen>>,
             Check(w, m) \/ DeadLetter(w, m)
      PROVE  IndInv' /\ Steps
  <2>1. PICK p \in Phase :
          /\ Advance(w, m, p)
          /\ p = "dead" => m \in Corrupt \/ DeliveryCount(w) > MAX_CONSUMER_DELIVERIES
          /\ p = "dead_ack" => phase[w] = "dead"
    BY <1>3, CheckAdvances, DeadLetterAdvances DEF IndInv, Phase, DeadLetter
  <2>2. InboxInv'
    BY <2>1, AdvanceInboxInv DEF IndInv
  <2>3. UNCHANGED processed
    BY <1>3 DEF Check, DeadLetter
  <2> QED BY <1>3, <2>1, <2>2, <2>3, StoreKept DEF IndInv, Forward
<1>4. ASSUME NEW w \in Worker, NEW m \in Message, RunPipeline(w, m) \/ CommitPipeline(w, m)
      PROVE  IndInv' /\ Steps
  BY <1>4, RunIndInv, CommitIndInv DEF Forward, Phase
<1> QED BY <1>1, <1>2, <1>3, <1>4 DEF Next, Process, ProcessAround

LEMMA Always == Spec => []IndInv
<1>1. IndInv /\ [Next]_vars => IndInv'
  BY NextIndInv
<1> QED BY <1>1, InitIndInv, PTL DEF Spec

\* The state of the consumer stays in its types: an idle loop has nothing in
\* hand and the other way round, counters count.
THEOREM TypeCorrect == Spec => []TypeOK
<1>1. IndInv => TypeOK
  BY DEF IndInv, InboxInv, StoreTypeOK, TypeOK
<1> QED BY <1>1, Always, PTL

\* However often an event is delivered, reclaimed or processed by several
\* loops of several replicas at a time, its effects happen together and once.
THEOREM ExactlyOnce == Spec => []ExactlyOnceEffects
BY Always, PTL DEF IndInv

\* XACK never runs ahead of the commit or of the dead letter: a message the
\* group forgets is settled, whatever fails in between.
THEOREM NothingForgotten == Spec => []AckedIsSettled
<1>1. IndInv => AckedIsSettled
  BY DEF IndInv, InboxInv
<1> QED BY <1>1, Always, PTL

\* With a threshold above 1 (the default is 5) no good message becomes a dead
\* letter, however often it is reclaimed or retried.
THEOREM NoGoodDeadLetter ==
  ASSUME MAX_CONSUMER_DELIVERIES > 1
  PROVE  Spec => []OnlyCorruptDeadLettered
<1>1. Init => DeadIsCorrupt
  BY DEF Init, InboxInit, StreamInit, DeadIsCorrupt, OnlyCorruptDeadLettered, Current
<1>2. IndInv /\ DeadIsCorrupt /\ [Next]_vars => DeadIsCorrupt'
  <2> SUFFICES ASSUME IndInv, DeadIsCorrupt, [Next]_vars PROVE DeadIsCorrupt'
    OBVIOUS
  <2>1. CASE StoreRests /\ LoopsMove
    BY <2>1, MoveDeadIsCorrupt DEF StoreRests
  <2>2. ASSUME NEW w \in Worker, NEW m \in Message, NEW p \in Phase,
               Forward(w, m, p), Advance(w, m, p),
               p = "dead" => m \in Corrupt \/ DeliveryCount(w) > MAX_CONSUMER_DELIVERIES,
               p = "dead_ack" => phase[w] = "dead"
        PROVE  DeadIsCorrupt'
    <3>1. \A l \in Message :
            dlq_rows'[l] > 0 => dlq_rows[l] > 0 \/ (l = m /\ phase[w] = "dead")
      BY <2>2 DEF Forward, Check, DeadLetter, RunPipeline, CommitPipeline, IndInv, InboxInv,
                  InboxTypeOK
    <3> QED BY <2>2, <3>1, CountUnderThreshold, AdvanceDeadIsCorrupt DEF IndInv
  <2> QED BY <2>1, <2>2, NextIndInv
<1>3. DeadIsCorrupt => OnlyCorruptDeadLettered
  BY DEF DeadIsCorrupt
<1> QED BY <1>1, <1>2, <1>3, Always, PTL DEF Spec

----------------------------------------------------------------------------
(* The refinement of EventProcessing                                       *)

\* The part of the consumer EventProcessing can see.
outsideVars == <<group, Offered, processed_txn, alerts>>

\* Once a message is given to the group it stays so; the first XREADGROUP,
\* every reclaim, failure and XACK leave the promise as it was.
LEMMA MoveStutters ==
  ASSUME IndInv,
         \/ \E c \in Consumer :
              \/ StreamStep(Read(c)) \/ StreamStep(Crash(c))
              \/ \E B \in SUBSET Message : StreamStep(Reclaim(c, B))
         \/ \E w \in Worker, m \in Message :
              \/ (Ack(w, m) \/ AckDeadLetter(w, m) \/ FailDeadLetter(w, m))
                 /\ UNCHANGED <<store, seen>>
              \/ FailPipeline(w, m) \/ FailAck(w, m)
  PROVE  UNCHANGED outsideVars
<1> USE DEF IndInv, InboxInv, StoreTypeOK, InboxTypeOK, StreamTypeOK
<1>1. UNCHANGED <<group, processed_txn, alerts>>
  BY DEF StreamStep, Read, Crash, Reclaim, Ack, AckDeadLetter, FailDeadLetter, FailPipeline,
         FailAck, Acknowledge, store
<1>2. UNCHANGED Given
  <2>1. ASSUME NEW c \in Consumer, Read(c) PROVE UNCHANGED Given
    BY <2>1 DEF Read, IsNewBatch, InState, Given
  <2>2. ASSUME NEW w \in Worker, NEW m \in Message, Current(w, m),
               entry' = entry \/ entry' = [entry EXCEPT ![m] = "acked"]
        PROVE  UNCHANGED Given
    <3>1. m \in todo[w] /\ entry[m] \in {"pending", "acked"}
      BY <2>2 DEF InHandIsDelivered, Current
    <3>2. \A l \in Message : entry'[l] = entry[l] \/ (l = m /\ entry'[l] = "acked")
      BY <2>2
    <3> QED BY <3>1, <3>2 DEF Given
  <2>3. UNCHANGED entry => UNCHANGED Given
    BY DEF Given
  <2> QED BY <2>1, <2>2, <2>3 DEF StreamStep, Crash, Reclaim, Ack, AckDeadLetter, FailDeadLetter,
                          FailPipeline, FailAck, Acknowledge
<1> QED BY <1>1, <1>2 DEF outsideVars, Offered

\* Of the steps of a message only the commit shows outside.
LEMMA AdvanceRefines ==
  ASSUME IndInv, NEW w \in Worker, NEW m \in Message, NEW p \in Phase,
         Forward(w, m, p), Advance(w, m, p)
  PROVE  UNCHANGED outsideVars \/ Promise!Process(EventOf[m])
<1>1. UNCHANGED <<group, entry>> /\ UNCHANGED Offered
  BY DEF Advance, Offered, Given
<1>2. CASE CommitPipeline(w, m)
  <2> DEFINE e == EventOf[m]
  <2>1. e \in Offered
    BY <1>2 DEF CommitPipeline, Current, IndInv, InboxInv, InHandIsDelivered, InboxTypeOK,
                StreamTypeOK, Offered, Given
  <2>2. e \notin processed_txn /\ processed_txn' = processed_txn \cup {e}
    BY <1>2 DEF CommitPipeline, Conflict, IndInv, ExactlyOnceEffects
  <2>3. UNCHANGED alerts \/ alerts' = [alerts EXCEPT ![e] = 1]
    <3>1. e \in Alerting => alerts[e] = 0
      BY <1>2 DEF CommitPipeline, Conflict, IndInv, StoreTypeOK
    <3> QED BY <1>2, <3>1 DEF CommitPipeline
  <2> QED BY <1>1, <2>1, <2>2, <2>3 DEF Promise!Process
<1>3. CASE ~CommitPipeline(w, m)
  BY <1>1, <1>3 DEF Forward, RunPipeline, store, outsideVars
<1> QED BY <1>2, <1>3

\* The processor with all its messages, replicas, loops, reclaims and failures
\* does what EventProcessing promises: an event takes effect in one step, at
\* most once, and only after it has come.
THEOREM Refinement == Spec => KeepsPromise
<1>1. Init => Promise!Init
  BY DEF Init, InboxInit, StreamInit, Promise!Init, Offered, Given
<1>2. IndInv /\ [Next]_vars => [Promise!Next]_(Promise!processingVars)
  <2> SUFFICES ASSUME IndInv, [Next]_vars
               PROVE  Promise!Next \/ UNCHANGED outsideVars
    BY DEF Promise!processingVars, outsideVars
  <2> USE DEF Promise!Next
  <2>1. CASE UNCHANGED vars
    BY <2>1 DEF vars, inboxVars, streamVars, store, outsideVars, Offered, Given
  <2>2. CASE StreamStep(SetupGroup)
    BY <2>2 DEF StreamStep, SetupGroup, store, Promise!Listen, Offered, Given
  <2>3. ASSUME NEW m \in Message, StreamStep(Add(m)) PROVE Promise!Offer(EventOf[m])
    <3>1. Given' = IF group THEN Given \cup {m} ELSE Given
      BY <2>3 DEF StreamStep, Add, Given, IndInv, InboxInv, InboxTypeOK, StreamTypeOK
    <3>2. Offered' = IF group THEN Offered \cup {EventOf[m]} ELSE Offered
      BY <3>1 DEF Offered
    <3> QED BY <2>3, <3>2 DEF StreamStep, Add, store, Promise!Offer
  <2>4. ASSUME NEW w \in Worker, NEW m \in Message,
               \/ (Check(w, m) \/ DeadLetter(w, m)) /\ UNCHANGED <<store, seen>>
               \/ RunPipeline(w, m) \/ CommitPipeline(w, m)
        PROVE  Promise!Next \/ UNCHANGED outsideVars
    BY <2>4, CheckAdvances, DeadLetterAdvances, RunIndInv, CommitIndInv, AdvanceRefines
       DEF Forward, Phase, IndInv
  <2> QED BY <2>1, <2>2, <2>3, <2>4, MoveStutters DEF Next, Process, ProcessAround
<1> QED BY <1>1, <1>2, Always, PTL DEF Spec, KeepsPromise, Promise!Spec

----------------------------------------------------------------------------
(* The tally of the risk profile                                           *)

AlertCount(u) == Cardinality(AlertsOf(u))

\* What an open transaction has read of the profile was no more than there is.
ReadNotInflated ==
  /\ IsFiniteSet(processed)
  /\ TallyNotInflated
  /\ \A w \in Worker, m \in Message :
       Current(w, m) /\ phase[w] = "write" => seen[w] <= AlertCount(UserOf[EventOf[m]])

\* A user has as many alerts as events that raised one.
LEMMA AlertsCount ==
  ASSUME IndInv, IsFiniteSet(processed), NEW u \in User
  PROVE  /\ IsFiniteSet(AlertsOf(u))
         /\ AlertCount(u) \in Nat
<1>1. AlertsOf(u) \subseteq processed
  BY DEF AlertsOf, IndInv, ExactlyOnceEffects
<1>2. IsFiniteSet(AlertsOf(u))
  BY <1>1, FS_Subset
<1> QED BY <1>2, FS_CardinalityType DEF AlertCount

\* The pipeline reads what is there, and adds 1 to it with its alert.
LEMMA AdvanceTally ==
  ASSUME IndInv, ReadNotInflated, NEW w \in Worker, NEW m \in Message, NEW p \in Phase,
         Forward(w, m, p), Advance(w, m, p)
  PROVE  ReadNotInflated'
<1> USE DEF IndInv, InboxInv, StoreTypeOK, ReadNotInflated
<1> DEFINE e == EventOf[m]
           u == UserOf[e]
<1>1. /\ Current(w, m) /\ UNCHANGED todo /\ \A l \in Message : Current(w, l) => l = m
      /\ e \in Event /\ u \in User
  BY OneCurrent DEF Advance
<1>2. \A v \in Worker, l \in Message : Current(v, l)' <=> Current(v, l)
  BY <1>1 DEF Current
<1>3. \A v \in Worker : v # w => phase'[v] = phase[v] /\ seen'[v] = seen[v]
  BY DEF Forward, Advance, Check, DeadLetter, RunPipeline, CommitPipeline, GoTo,
         InboxTypeOK, StreamTypeOK
<1>4. CASE CommitPipeline(w, m) /\ e \in Alerting
  <2>1. /\ alerts[e] = 0
        /\ alerts' = [alerts EXCEPT ![e] = @ + 1]
        /\ total_alerts' = [total_alerts EXCEPT ![u] = NextTally(w)]
        /\ UNCHANGED seen /\ phase'[w] = "ack"
        /\ processed' = processed \cup {e}
    BY <1>4 DEF CommitPipeline, Conflict, GoTo, InboxTypeOK, StreamTypeOK
  <2>2. IsFiniteSet(processed')
    BY <2>1, FS_AddElement
  <2>3. /\ AlertsOf(u)' = AlertsOf(u) \cup {e} /\ e \notin AlertsOf(u)
        /\ \A x \in User : x # u => AlertsOf(x)' = AlertsOf(x)
    BY <2>1, <1>1 DEF AlertsOf
  <2>4. /\ AlertCount(u)' = AlertCount(u) + 1
        /\ \A x \in User : x # u => AlertCount(x)' = AlertCount(x)
        /\ \A x \in User : AlertCount(x) \in Nat
    BY <1>1, <2>3, AlertsCount, FS_AddElement DEF AlertCount
  <2>5. NextTally(w) > 0 /\ NextTally(w) <= AlertCount(u) + 1
    BY <1>1, <1>4, <2>4 DEF CommitPipeline, NextTally, Tally, NoProfile, StoreTypeOK
  <2>6. TallyNotInflated'
    <3> SUFFICES ASSUME NEW x \in User
                 PROVE  /\ total_alerts'[x] <= AlertCount(x)'
                        /\ AlertsOf(x)' # {} => total_alerts'[x] > 0
      BY DEF TallyNotInflated, AlertCount
    <3>1. CASE x = u
      BY <3>1, <2>1, <2>4, <2>5 DEF StoreTypeOK
    <3>2. CASE x # u
      BY <3>2, <2>1, <2>3, <2>4 DEF TallyNotInflated, AlertCount
    <3> QED BY <3>1, <3>2
  <2>7. ASSUME NEW v \in Worker, NEW l \in Message, Current(v, l), phase'[v] = "write"
        PROVE  seen'[v] <= AlertCount(UserOf[EventOf[l]])'
    <3>1. v # w /\ phase[v] = "write" /\ seen'[v] = seen[v]
      BY <1>3, <2>1, <2>7
    <3>2. seen[v] <= AlertCount(UserOf[EventOf[l]]) /\ UserOf[EventOf[l]] \in User
      BY <2>7, <3>1
    <3>3. seen[v] \in Int
      BY DEF Tally, NoProfile
    <3> QED BY <2>4, <3>1, <3>2, <3>3
  <2> QED BY <1>2, <2>2, <2>6, <2>7
<1>5. CASE ~(CommitPipeline(w, m) /\ e \in Alerting)
  <2>1. /\ UNCHANGED <<alerts, total_alerts>>
        /\ processed' = processed \/ processed' = processed \cup {e}
    BY <1>5 DEF Forward, Check, DeadLetter, RunPipeline, CommitPipeline, store
  <2>2. IsFiniteSet(processed')
    BY <2>1, FS_AddElement
  <2>3. \A x \in User : AlertsOf(x)' = AlertsOf(x) /\ AlertCount(x)' = AlertCount(x)
    BY <2>1 DEF AlertsOf, AlertCount
  <2>4. TallyNotInflated'
    BY <2>1, <2>3 DEF TallyNotInflated, AlertCount
  <2>5. phase'[w] = "write" => seen'[w] <= AlertCount(u)
    <3>1. phase'[w] = "write" => RunPipeline(w, m)
      BY DEF Forward, Check, DeadLetter, CommitPipeline, GoTo, InboxTypeOK, StreamTypeOK
    <3>2. RunPipeline(w, m) => seen'[w] = total_alerts[u]
      BY DEF RunPipeline, StoreTypeOK
    <3> QED BY <1>1, <3>1, <3>2 DEF TallyNotInflated, AlertCount
  <2>6. ASSUME NEW v \in Worker, NEW l \in Message, Current(v, l), phase'[v] = "write"
        PROVE  seen'[v] <= AlertCount(UserOf[EventOf[l]])'
    <3>1. CASE v = w
      BY <3>1, <1>1, <2>3, <2>5, <2>6
    <3>2. CASE v # w
      BY <3>2, <1>3, <2>3, <2>6
    <3> QED BY <3>1, <3>2
  <2> QED BY <1>2, <2>2, <2>4, <2>6
<1> QED BY <1>4, <1>5

\* A risk profile never counts an alert that does not exist, and a user with an
\* alert has a profile, although the profile is read and written back without
\* a lock.  It may count too few: run lost_tally.
THEOREM TallySound == Spec => []TallyNotInflated
<1>1. Init => ReadNotInflated
  <2> SUFFICES ASSUME Init PROVE ReadNotInflated
    OBVIOUS
  <2>1. \A u \in User : AlertsOf(u) = {}
    BY DEF Init, AlertsOf
  <2>2. \A u \in User : AlertCount(u) = 0
    BY <2>1, FS_EmptySet DEF AlertCount
  <2> QED BY <2>1, <2>2, FS_EmptySet DEF Init, InboxInit, StreamInit, ReadNotInflated,
             TallyNotInflated, AlertCount, NoProfile, Current
<1>2. IndInv /\ ReadNotInflated /\ [Next]_vars => ReadNotInflated'
  <2> SUFFICES ASSUME IndInv, ReadNotInflated, [Next]_vars PROVE ReadNotInflated'
    OBVIOUS
  <2>1. CASE StoreRests /\ LoopsMove
    <3>1. \A u \in User : AlertsOf(u)' = AlertsOf(u) /\ AlertCount(u)' = AlertCount(u)
      BY <2>1 DEF StoreRests, store, AlertsOf, AlertCount
    <3>2. TallyNotInflated'
      BY <2>1, <3>1 DEF StoreRests, store, ReadNotInflated, TallyNotInflated, AlertCount
    <3>3. \A w \in Worker, m \in Message :
            (Current(w, m) /\ phase[w] = "write")' => Current(w, m) /\ phase[w] = "write"
      BY <2>1 DEF LoopsMove, Rests, Restarts, Current
    <3> QED BY <2>1, <3>1, <3>2, <3>3 DEF StoreRests, DatabaseRests, ReadNotInflated
  <2>2. CASE \E w \in Worker, m \in Message, p \in Phase : Forward(w, m, p) /\ Advance(w, m, p)
    BY <2>2, AdvanceTally
  <2> QED BY <2>1, <2>2, NextIndInv
<1>3. ReadNotInflated => TallyNotInflated
  BY DEF ReadNotInflated
<1> QED BY <1>1, <1>2, <1>3, Always, PTL DEF Spec

============================================================================
