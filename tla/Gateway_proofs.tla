--------------------------- MODULE Gateway_proofs ---------------------------
(***************************************************************************)
(* Proofs about the gateway: its pool of WebSockets for any set of         *)
(* sockets, ingestion for any requests and any idempotency keys, and the   *)
(* way of an alert to the screen (Console) for any number of messages,     *)
(* gateways and requests.  The three share no state.                       *)
(***************************************************************************)
EXTENDS Console, WsManager, TransactionFlow, StreamConsumer_proofs, FiniteSetTheorems

(***************************************************************************)
(* The pool of WebSockets                                                  *)
(***************************************************************************)

\* An open ping of a connection that is up is the business of a socket in the
\* pool, and is owed an answer, unless the answer was too fast.
PoolInv ==
  /\ PoolTypeOK
  /\ heartbeat # "sent" => pinging = {}
  /\ \A c \in pool \cup entering \cup targets \cup pinged \cup pinging : link[c] # "new"
  /\ \A c \in failed : link[c] = "closed"
  /\ \A c \in pinged : link[c] = "up" => c \in pool
  /\ \A c \in pinged \cup pinging : link[c] = "up" => c \in owing \cup raced

LEMMA InitPoolInv == PoolInit => PoolInv
BY DEF PoolInit, PoolInv, PoolTypeOK, LinkState

\* Every step keeps the types; a ping is under way only in "sent".
LEMMA StepPoolType ==
  ASSUME PoolInv, PoolNext
  PROVE  PoolTypeOK' /\ (heartbeat' # "sent" => pinging' = {})
<1> USE DEF PoolInv, PoolTypeOK, heartbeatVars, broadcastVars
<1>1. ASSUME NEW c \in Socket,
             \/ AcceptSocket(c) \/ RegisterSocket(c) \/ RecordPong(c)
             \/ Leave(c) \/ Disconnect(c) \/ GoSilent(c) \/ SendTo(c)
      PROVE  PoolTypeOK' /\ (heartbeat' # "sent" => pinging' = {})
  BY <1>1 DEF AcceptSocket, RegisterSocket, RecordPong, Leave, Disconnect,
              GoSilent, SendTo, LinkState
<1>2. CASE StartBroadcast \/ Prune
  BY <1>2 DEF StartBroadcast, Prune
<1>3. ASSUME NEW c \in Socket, FindStale(c) \/ SendPing(c) \/ CloseStale(c)
      PROVE  PoolTypeOK' /\ (heartbeat' # "sent" => pinging' = {})
  BY <1>3 DEF FindStale, SendPing, CloseStale, LinkState
<1>4. CASE StartRound \/ EndVisits \/ EndRound
  BY <1>4 DEF StartRound, EndVisits, EndRound
<1>5. CASE NotePing \/ FailPing
  <2>1. pinged' \subseteq Socket /\ to_visit' \subseteq Socket /\ stale' \subseteq Socket
    BY <1>5 DEF NotePing, FailPing
  <2>2. pinging' = {} /\ heartbeat' = "visit" /\ ~\E c \in to_visit' : pinging' = {c}
    BY <1>5 DEF NotePing, FailPing
  <2> QED BY <1>5, <2>1, <2>2 DEF NotePing, FailPing
<1>6. CASE CloseAll
  <2>1. link' \in [Socket -> LinkState] /\ pool' = {}
    BY <1>6 DEF CloseAll, LinkState
  <2>2. /\ UNCHANGED <<entering, pinged, owing, heartbeatVars, broadcastVars, raced>>
        /\ running' = FALSE
    BY <1>6 DEF CloseAll
  <2>3. \A S \in {entering, pool, pinged, owing, to_visit, pinging, stale, targets, failed,
                 raced}' :
           S \subseteq Socket
    BY <2>1, <2>2
  <2>4. (heartbeat = "sent" <=> \E c \in to_visit : pinging = {c})'
    BY <2>2
  <2> QED BY <2>1, <2>2, <2>3, <2>4
<1> QED BY <1>1, <1>2, <1>3, <1>4, <1>5, <1>6 DEF PoolNext, Heartbeat

LEMMA StepPoolInv == ASSUME PoolInv, [PoolNext]_poolVars PROVE PoolInv'
<1> USE DEF PoolInv, PoolTypeOK, heartbeatVars, broadcastVars
<1>1. ASSUME NEW c \in Socket, AcceptSocket(c) \/ RegisterSocket(c) PROVE PoolInv'
  BY <1>1, StepPoolType DEF AcceptSocket, RegisterSocket, PoolNext
<1>2. ASSUME NEW c \in Socket, RecordPong(c) PROVE PoolInv'
  BY <1>2, StepPoolType DEF RecordPong, PoolNext
<1>3. ASSUME NEW c \in Socket, Leave(c) \/ GoSilent(c) PROVE PoolInv'
  BY <1>3, StepPoolType DEF Leave, GoSilent, Connected, PoolNext
<1>4. ASSUME NEW c \in Socket, Disconnect(c) PROVE PoolInv'
  BY <1>4, StepPoolType DEF Disconnect, PoolNext
<1>5. ASSUME NEW c \in Socket, SendTo(c) PROVE PoolInv'
  BY <1>5, StepPoolType DEF SendTo, Connected, LinkState, PoolNext
<1>6. CASE StartBroadcast \/ Prune
  BY <1>6, StepPoolType DEF StartBroadcast, Prune, PoolNext
<1>7. ASSUME NEW c \in Socket, FindStale(c) PROVE PoolInv'
  BY <1>7, StepPoolType DEF FindStale, PoolNext, Heartbeat
<1>8. ASSUME NEW c \in Socket, SendPing(c) PROVE PoolInv'
  BY <1>8, StepPoolType DEF SendPing, Connected, PoolNext, Heartbeat
<1>9. ASSUME NEW c \in Socket, CloseStale(c) PROVE PoolInv'
  BY <1>9, StepPoolType DEF CloseStale, PoolNext, Heartbeat
<1>10. CASE StartRound \/ EndVisits \/ EndRound
  BY <1>10, StepPoolType DEF StartRound, EndVisits, EndRound,
                              PoolNext, Heartbeat
<1>11. CASE NotePing \/ FailPing
  BY <1>11, StepPoolType DEF NotePing, FailPing, PoolNext, Heartbeat
<1>12. CASE CloseAll
  BY <1>12, StepPoolType DEF CloseAll, PoolNext
<1>13. CASE UNCHANGED poolVars
  BY <1>13 DEF poolVars
<1> HIDE DEF PoolInv
<1> QED BY <1>1, <1>2, <1>3, <1>4, <1>5, <1>6, <1>7, <1>8, <1>9, <1>10, <1>11, <1>12, <1>13
        DEF PoolNext, Heartbeat

LEMMA AlwaysPoolInv == PoolSpec => []PoolInv
<1>1. PoolInv /\ [PoolNext]_poolVars => PoolInv'
  BY StepPoolInv
<1> QED BY <1>1, InitPoolInv, PTL DEF PoolSpec

\* The state stays in its types: while a ping is being sent, and only then,
\* its socket is the one being visited.
THEOREM PoolTypeCorrect == PoolSpec => []PoolTypeOK
<1>1. PoolInv => PoolTypeOK
  BY DEF PoolInv
<1> QED BY <1>1, AlwaysPoolInv, PTL

\* The heartbeat gives up on a living connection only when a ping is owed its
\* pong, or the pong overtook the note that the ping was sent.
THEOREM GivesUpForCause == PoolSpec => GivenUpForCause
<1> DEFINE ForCause == \A c \in stale' \ stale : link[c] = "up" => c \in owing \cup raced
<1>1. PoolInv /\ [PoolNext]_poolVars => [ForCause]_poolVars
  <2> SUFFICES ASSUME PoolInv, PoolNext PROVE ForCause
    BY DEF poolVars
  <2>1. ASSUME NEW c \in Socket, FindStale(c) PROVE ForCause
    BY <2>1 DEF FindStale, Connected, PoolInv
  <2>2. CASE stale' \subseteq stale
    BY <2>2
  <2>3. ASSUME FailPing PROVE ForCause
    BY <2>3 DEF FailPing
  <2> QED BY <2>1, <2>2, <2>3
          DEF PoolNext, Heartbeat, AcceptSocket, RegisterSocket, RecordPong, Leave,
              Disconnect, GoSilent, SendTo, StartBroadcast, Prune,
              StartRound, SendPing, NotePing, EndVisits, CloseStale,
              EndRound, CloseAll, heartbeatVars
<1> QED BY <1>1, AlwaysPoolInv, PTL DEF PoolSpec, GivenUpForCause

(***************************************************************************)
(* Ingestion                                                               *)
(***************************************************************************)

\* No handler has seen rows that are still to come.
Bookkeeping ==
  /\ handler \in [Submission -> HandlerState]
  /\ transactions \in Seq(Submission)
  /\ looked \in [Submission -> 0..Len(transactions)]

\* A handler that is going to insert found no row of its key when it looked:
\* every such row has come since.
LookedBefore ==
  \A s \in Submission : handler[s] = "insert" =>
    \A r \in DOMAIN transactions :
      KeyOf[transactions[r]] = KeyOf[s] => looked[s] < r

\* The handler of a row is done, so none makes two.
RowsAreAccepted == \A r \in DOMAIN transactions : handler[transactions[r]] = "accepted"

FlowInv == Bookkeeping /\ LookedBefore /\ RowsAreAccepted /\ SecondRowOnlyByOverlap

----------------------------------------------------------------------------
\* The inductive invariant holds before the first request.
LEMMA InitFlowInv == FlowInit => FlowInv
BY DEF FlowInit, IngestionInit, FlowInv, Bookkeeping, HandlerState, LookedBefore,
       RowsAreAccepted, SecondRowOnlyByOverlap

\* A handler that does not insert writes no row; it goes on to insert only if
\* there is no row of its key yet.
LEMMA DeclineFlowInv ==
  ASSUME FlowInv, NEW s \in Submission, Lookup(s) \/ FailSubmit(s)
  PROVE  FlowInv'
<1> USE DEF FlowInv
<1>0. Len(transactions) \in 0..Len(transactions)
  BY DEF Bookkeeping
<1>1. /\ handler' \in [Submission -> HandlerState]
      /\ UNCHANGED transactions
      /\ looked' \in [Submission -> 0..Len(transactions)]
  BY <1>0 DEF Lookup, FailSubmit, Bookkeeping, HandlerState
<1>2. \A t \in Submission : t # s => handler'[t] = handler[t] /\ looked'[t] = looked[t]
  BY DEF Lookup, FailSubmit, Bookkeeping
<1>3. \A r \in DOMAIN transactions : transactions[r] # s /\ transactions[r] \in Submission
  BY DEF Lookup, FailSubmit, Bookkeeping, RowsAreAccepted
<1>4. handler'[s] = "insert" => RowsOf(KeyOf[s]) = {}
  BY DEF Lookup, FailSubmit, Bookkeeping
<1>5. LookedBefore'
  BY <1>1, <1>2, <1>4 DEF LookedBefore, RowsOf
<1>6. RowsAreAccepted' /\ SecondRowOnlyByOverlap'
  BY <1>1, <1>2, <1>3 DEF RowsAreAccepted, SecondRowOnlyByOverlap
<1> QED BY <1>1, <1>5, <1>6 DEF Bookkeeping

\* The new row is later than what any handler has seen.
LEMMA InsertFlowInv ==
  ASSUME FlowInv, NEW s \in Submission, Insert(s)
  PROVE  FlowInv'
<1> USE DEF FlowInv
<1> DEFINE n == Len(transactions) + 1
<1>1. /\ Bookkeeping'
      /\ UNCHANGED looked
      /\ \A t \in Submission : t # s => handler'[t] = handler[t]
      /\ handler[s] = "insert" /\ handler'[s] = "accepted"
  BY DEF Insert, Bookkeeping, HandlerState
<1>2. /\ DOMAIN transactions = 1..Len(transactions)
      /\ DOMAIN transactions' = 1..n
      /\ transactions'[n] = s
      /\ \A r \in DOMAIN transactions :
           transactions'[r] = transactions[r] /\ transactions[r] \in Submission
      /\ Len(transactions) \in Nat
  BY DEF Insert, Bookkeeping
<1>3. LookedBefore'
  <2> SUFFICES ASSUME NEW t \in Submission, handler'[t] = "insert",
                      NEW r \in 1..n, KeyOf[transactions'[r]] = KeyOf[t]
               PROVE  looked[t] < r
    BY <1>1, <1>2 DEF LookedBefore
  <2>1. CASE r = n
    BY <2>1, <1>2 DEF Bookkeeping
  <2>2. CASE r # n
    BY <2>2, <1>1, <1>2 DEF LookedBefore
  <2> QED BY <2>1, <2>2
<1>4. RowsAreAccepted'
  BY <1>1, <1>2 DEF RowsAreAccepted
<1>5. SecondRowOnlyByOverlap'
  <2> SUFFICES ASSUME NEW r \in 1..n, NEW q \in 1..n, r < q,
                      KeyOf[transactions'[r]] = KeyOf[transactions'[q]]
               PROVE  looked[transactions'[q]] < r
    BY <1>1, <1>2 DEF SecondRowOnlyByOverlap
  <2>1. CASE q = n
    BY <2>1, <1>1, <1>2 DEF LookedBefore
  <2>2. CASE q # n
    BY <2>2, <1>2 DEF SecondRowOnlyByOverlap
  <2> QED BY <2>1, <2>2
<1> QED BY <1>1, <1>3, <1>4, <1>5

\* Everything behind the commit leaves the gateway's state alone.
LEMMA NextFlowInv == FlowInv /\ [FlowNext]_flowVars => FlowInv'
<1> SUFFICES ASSUME FlowInv, [FlowNext]_flowVars PROVE FlowInv'
  OBVIOUS
<1>1. CASE UNCHANGED ingestionVars
  BY <1>1 DEF ingestionVars, FlowInv, Bookkeeping, LookedBefore, RowsAreAccepted,
              SecondRowOnlyByOverlap
<1>2. ASSUME NEW s \in Submission, Insert(s) PROVE FlowInv'
  BY <1>2, InsertFlowInv
<1>3. ASSUME NEW s \in Submission, Lookup(s) \/ FailSubmit(s) PROVE FlowInv'
  BY <1>3, DeclineFlowInv
<1> QED BY <1>1, <1>2, <1>3
        DEF FlowNext, flowVars, Accept, Decline, Deliver, Settle,
            Process, Listen

\* A second row with an idempotency key comes only from requests that
\* overlapped: submit_transaction's lookup stops every later retry.
THEOREM RetriesMakeNoRow == FlowSpec => []SecondRowOnlyByOverlap
<1>1. FlowInv => SecondRowOnlyByOverlap
  BY DEF FlowInv
<1> QED BY <1>1, InitFlowInv, NextFlowInv, PTL DEF FlowSpec

----------------------------------------------------------------------------
(* Requests, rows and events together                                      *)

Accepted == {s \in Submission : handler[s] = "accepted"}

\* There are no more rows than requests, because each row has its own; row by
\* row there is an event; what the processor has comes from an event.
BackedInv ==
  /\ FlowTypeOK
  /\ Cardinality(Accepted) = Len(transactions)
  /\ \A s \in Submission : answer[s] > 0 => KeyOf[transactions[answer[s]]] = KeyOf[s]

LEMMA InitBackedInv ==
  ASSUME IsFiniteSet(Submission), FlowInit
  PROVE  BackedInv
<1> USE DEF FlowInit, IngestionInit, Outbox!Init, Processing!Init
<1>1. Accepted = {} /\ Cardinality({}) = 0
  BY FS_EmptySet DEF Accepted
<1>2. transactions \in [1..0 -> Submission] /\ Len(transactions) = 0
  OBVIOUS
<1>3. Cardinality(Submission) \in Nat
  BY FS_CardinalityType
<1>4. transactions \in UNION {[1..n -> Submission] : n \in 0..Cardinality(Submission)}
  BY <1>2, <1>3
<1>5. IngestionTypeOK
  BY <1>2, <1>4 DEF IngestionTypeOK, HandlerState
<1>6. \A r \in Row : r > 0
  BY <1>3 DEF Row
<1>7. {r \in Row : alerts[r] > 0} = {}
  OBVIOUS
<1>8. /\ outbox_status \in [Row -> Outbox!EventStatus]
      /\ \A r \in Row : outbox_status[r] = "ABSENT"
      /\ alerts \in [Row -> 0..1]
  BY DEF Outbox!EventStatus
<1>9. /\ listening \in BOOLEAN /\ processed = {} /\ offered = {} /\ delivered = {}
      /\ \A s \in Submission : answer[s] = 0
  OBVIOUS
<1> QED BY ONLY <1>1, <1>2, <1>5, <1>6, <1>7, <1>8, <1>9 DEF BackedInv, FlowTypeOK

\* A handler that writes no row is accepted no more than before.
LEMMA DeclineBackedInv ==
  ASSUME FlowInv, BackedInv, NEW s \in Submission, Decline(s)
  PROVE  BackedInv'
<1> USE DEF BackedInv, FlowTypeOK, IngestionTypeOK
<1>1. /\ UNCHANGED <<transactions, outbox_status, delivered, listening, offered, processed, alerts>>
      /\ handler[s] \in {"new", "insert"}
      /\ handler' \in [Submission -> HandlerState]
      /\ handler'[s] # "accepted"
      /\ \A t \in Submission : t # s => handler'[t] = handler[t] /\ answer'[t] = answer[t]
  BY DEF Decline, Lookup, FailSubmit, HandlerState, outboxVars,
         processingVars
<1>2. Accepted' = Accepted
  BY <1>1 DEF Accepted
<1>3. \/ handler'[s] # "duplicate" /\ UNCHANGED answer
      \/ \E r \in DOMAIN transactions :
           /\ KeyOf[transactions[r]] = KeyOf[s]
           /\ handler'[s] = "duplicate" /\ answer' = [answer EXCEPT ![s] = r]
  BY DEF Decline, Lookup, FailSubmit, RowsOf
<1>4. DOMAIN transactions = 1..Len(transactions) /\ Len(transactions) \in Nat
  BY DEF FlowInv, Bookkeeping
<1>5. /\ answer' \in [Submission -> 0..Len(transactions)]
      /\ \A t \in Submission : handler'[t] \in {"accepted", "duplicate"} <=> answer'[t] > 0
      /\ \A t \in Submission : answer'[t] > 0 => KeyOf[transactions[answer'[t]]] = KeyOf[t]
  <2>1. CASE handler'[s] # "duplicate" /\ UNCHANGED answer
    BY <1>1, <2>1
  <2>2. ASSUME NEW r \in 1..Len(transactions), KeyOf[transactions[r]] = KeyOf[s],
               handler'[s] = "duplicate", answer' = [answer EXCEPT ![s] = r]
        PROVE  /\ answer' \in [Submission -> 0..Len(transactions)]
               /\ \A t \in Submission :
                    handler'[t] \in {"accepted", "duplicate"} <=> answer'[t] > 0
               /\ \A t \in Submission :
                    answer'[t] > 0 => KeyOf[transactions[answer'[t]]] = KeyOf[t]
    BY <1>1, <1>4, <2>2
  <2> QED BY <1>3, <1>4, <2>1, <2>2
<1>6. looked' \in [Submission -> 0..Len(transactions)]
  <2>1. Len(transactions) \in 0..Len(transactions)
    BY <1>4
  <2> QED BY <2>1 DEF Decline, Lookup, FailSubmit
<1> QED BY <1>1, <1>2, <1>5, <1>6

\* The new row is one more, and so is its submission among the accepted: there
\* is a number left for it, and an event of this number.
LEMMA AcceptBackedInv ==
  ASSUME IsFiniteSet(Submission), FlowInv, BackedInv, NEW s \in Submission, Accept(s)
  PROVE  BackedInv'
<1> USE DEF BackedInv, FlowTypeOK, IngestionTypeOK
<1> DEFINE n == Len(transactions) + 1
<1>1. /\ transactions' \in [1..n -> Submission] /\ Len(transactions') = n
      /\ Len(transactions) \in Nat /\ DOMAIN transactions = 1..Len(transactions)
      /\ DOMAIN transactions' = 1..n /\ transactions'[n] = s
      /\ \A r \in DOMAIN transactions : transactions'[r] = transactions[r]
  <2>1. transactions \in Seq(Submission) /\ transactions' = Append(transactions, s)
    BY DEF Accept, Insert, FlowInv, Bookkeeping
  <2>2. /\ transactions' \in Seq(Submission) /\ Len(transactions') = n
        /\ Len(transactions) \in Nat /\ DOMAIN transactions = 1..Len(transactions)
        /\ transactions'[n] = s
        /\ \A r \in DOMAIN transactions : transactions'[r] = transactions[r]
    BY ONLY <2>1, s \in Submission
  <2>3. DOMAIN transactions' = 1..n /\ \A r \in 1..n : transactions'[r] \in Submission
    BY ONLY <2>2
  <2>4. transactions' = [r \in 1..n |-> transactions'[r]]
    BY ONLY <2>2, <2>3
  <2> QED BY ONLY <2>2, <2>3, <2>4
<1>2. /\ handler[s] = "insert" /\ handler' = [handler EXCEPT ![s] = "accepted"]
      /\ answer' = [answer EXCEPT ![s] = n]
      /\ UNCHANGED <<looked, delivered, listening, offered, processed, alerts>>
      /\ outbox_status' = [outbox_status EXCEPT ![n] = "PENDING"]
  BY <1>1 DEF Accept, Insert, Outbox!Record, processingVars
<1>3. Cardinality(Accepted)' = n /\ n <= Cardinality(Submission)
  <2>1. Accepted' = Accepted \cup {s} /\ s \notin Accepted /\ Accepted \subseteq Submission
    BY <1>2 DEF Accepted
  <2>2. IsFiniteSet(Accepted) /\ Cardinality(Accepted \cup {s}) = n
    BY <1>1, <2>1, FS_Subset, FS_AddElement
  <2>3. Cardinality(Accepted \cup {s}) <= Cardinality(Submission)
    BY <2>1, FS_Subset
  <2> QED BY <2>1, <2>2, <2>3
<1>4. Cardinality(Submission) \in Nat
  BY FS_CardinalityType
<1>5. /\ outbox_status' \in [Row -> Outbox!EventStatus]
      /\ \A r \in Row : outbox_status'[r] = "ABSENT" <=> r > n
  <2>1. n \in Row /\ \A r \in Row : r \in Nat
    BY <1>1, <1>3, <1>4 DEF Row
  <2>2. /\ outbox_status'[n] = "PENDING"
        /\ \A r \in Row : r # n => outbox_status'[r] = outbox_status[r]
    BY <1>2, <2>1
  <2>3. outbox_status' \in [Row -> Outbox!EventStatus]
    BY <1>2 DEF Outbox!EventStatus
  <2> QED BY <1>1, <2>1, <2>2, <2>3
<1>6. /\ handler' \in [Submission -> HandlerState]
      /\ answer' \in [Submission -> 0..n] /\ looked' \in [Submission -> 0..n]
      /\ \A t \in Submission : handler'[t] \in {"accepted", "duplicate"} <=> answer'[t] > 0
      /\ transactions' \in UNION {[1..k -> Submission] : k \in 0..Cardinality(Submission)}
  BY <1>1, <1>2, <1>3, <1>4 DEF HandlerState
<1>7. \A t \in Submission : answer'[t] > 0 => KeyOf[transactions'[answer'[t]]] = KeyOf[t]
  BY <1>1, <1>2
<1>8. delivered' \subseteq DOMAIN transactions'
  BY <1>1, <1>2
<1>9. IngestionTypeOK'
  BY <1>1, <1>6
<1> QED BY <1>1, <1>2, <1>3, <1>5, <1>7, <1>8, <1>9

\* Outbox and processor know only rows that are there.
LEMMA BehindBackedInv ==
  ASSUME FlowInv, BackedInv,
         \/ \E r \in Row : Deliver(r) \/ Settle(r) \/ Process(r)
         \/ Listen
  PROVE  BackedInv'
<1> USE DEF BackedInv, FlowTypeOK
<1>1. UNCHANGED <<handler, answer, transactions, looked>>
  BY DEF Deliver, Settle, Process, Listen, ingestionVars
<1>2. /\ IngestionTypeOK' /\ Accepted' = Accepted
      /\ DOMAIN transactions = 1..Len(transactions)
  <2>1. IngestionTypeOK'
    BY <1>1 DEF IngestionTypeOK
  <2>2. Accepted' = Accepted
    BY <1>1 DEF Accepted
  <2> QED BY <2>1, <2>2 DEF FlowInv, Bookkeeping
<1>3. ASSUME NEW r \in Row, Deliver(r) PROVE BackedInv'
  <2>1. r \in DOMAIN transactions
    BY <1>2, <1>3 DEF Deliver, Outbox!Deliver, Row, FlowInv, Bookkeeping
  <2> QED BY <1>1, <1>2, <1>3, <2>1
          DEF Deliver, Outbox!Deliver, Processing!Offer
<1>4. ASSUME NEW r \in Row, Settle(r) PROVE BackedInv'
  <2>1. /\ outbox_status' \in [Row -> Outbox!EventStatus]
        /\ \A q \in Row : outbox_status'[q] = "ABSENT" <=> outbox_status[q] = "ABSENT"
    BY <1>4 DEF Settle, Outbox!Settle, Outbox!EventStatus
  <2> QED BY <1>1, <1>2, <1>4, <2>1 DEF Settle, Outbox!Settle, processingVars
<1>5. ASSUME NEW r \in Row, Process(r) PROVE BackedInv'
  BY <1>1, <1>2, <1>5 DEF Process, Processing!Process, outboxVars
<1>6. CASE Listen
  BY <1>1, <1>2, <1>6 DEF Listen, Processing!Listen, outboxVars
<1> QED BY <1>3, <1>4, <1>5, <1>6

\* What a request was answered is true, whatever failed or overlapped: there is
\* a transaction of its key, with its event in the outbox; and nothing takes
\* effect in the processor that no request was accepted for.
THEOREM AnswersAreBacked ==
  ASSUME IsFiniteSet(Submission)
  PROVE  FlowSpec => [](FlowTypeOK /\ AnswerIsBacked)
<1>1. FlowInv /\ BackedInv /\ [FlowNext]_flowVars => BackedInv'
  <2> SUFFICES ASSUME FlowInv, BackedInv, [FlowNext]_flowVars PROVE BackedInv'
    OBVIOUS
  <2>1. CASE UNCHANGED flowVars
    BY <2>1 DEF flowVars, ingestionVars, outboxVars, processingVars, BackedInv,
                FlowTypeOK, IngestionTypeOK, Accepted
  <2> QED BY <2>1, DeclineBackedInv, AcceptBackedInv, BehindBackedInv DEF FlowNext
<1>2. FlowInv /\ BackedInv => FlowTypeOK /\ AnswerIsBacked
  <2> SUFFICES ASSUME FlowInv, BackedInv PROVE AnswerIsBacked
    BY DEF BackedInv
  <2>1. /\ DOMAIN transactions = 1..Len(transactions) /\ Len(transactions) \in Nat
        /\ Len(transactions) <= Cardinality(Submission)
    <3>1. Accepted \subseteq Submission
      BY DEF Accepted
    <3> QED BY <3>1, FS_Subset DEF FlowInv, Bookkeeping, BackedInv
  <2>2. \A r \in DOMAIN transactions : r \in Row /\ outbox_status[r] # "ABSENT"
    <3>1. Cardinality(Submission) \in Nat
      BY FS_CardinalityType
    <3>2. \A r \in DOMAIN transactions : r \in Row /\ ~(r > Len(transactions))
      BY <2>1, <3>1 DEF Row
    <3> QED BY <3>2 DEF BackedInv, FlowTypeOK
  <2> QED BY <2>1, <2>2 DEF AnswerIsBacked, BackedInv, FlowTypeOK, IngestionTypeOK
<1> QED BY <1>1, <1>2, InitFlowInv, NextFlowInv, InitBackedInv, PTL DEF FlowSpec

(***************************************************************************)
(* The notification forwarder                                              *)
(***************************************************************************)

\* A message that is not in its stream yet has been given nothing to carry,
\* and was not forwarded.
UnsentIsBlank ==
  \A m \in Message : entry[m] = "unsent" => carries[m] = 0 /\ m \notin published \cup corrupt

\* A loop is about to acknowledge only what went out, or cannot be parsed.
PhaseIsEarned ==
  \A w \in Worker, m \in Message :
    Current(w, m) /\ phase[w] = "ack" => m \in published \cup corrupt

ForwarderInv ==
  /\ ForwarderTypeOK
  /\ InHandIsDelivered
  /\ UnsentIsBlank
  /\ PhaseIsEarned
  /\ AckedIsForwarded

ForwarderStreamInv == StreamInv(ForwarderPhase)

UnsentRests == \A m \in Message : entry'[m] = "unsent" <=> entry[m] = "unsent"

LEMMA ForwarderIsStream == ForwarderInv => ForwarderStreamInv
BY DEF ForwarderInv, ForwarderTypeOK, ForwarderStreamInv, StreamInv

\* What has to be shown of a step that leaves the notifications and the
\* events in the streams alone.
LEMMA MoveForwarderInv ==
  ASSUME ForwarderInv, ForwarderStreamInv', LoopsMove,
         UNCHANGED <<corrupt, published, carries>>,
         \A m \in Message :
           /\ entry'[m] = "unsent" => entry[m] = "unsent"
           /\ entry'[m] = "acked" => entry[m] = "acked" \/ m \in published \cup corrupt
  PROVE  ForwarderInv'
<1> USE DEF ForwarderInv
<1>1. ForwarderTypeOK' /\ InHandIsDelivered'
  BY DEF ForwarderStreamInv, StreamInv, ForwarderTypeOK
<1>2. UnsentIsBlank' /\ AckedIsForwarded'
  BY DEF UnsentIsBlank, AckedIsForwarded, InState
<1>3. PhaseIsEarned'
  BY DEF PhaseIsEarned, LoopsMove, Rests, Restarts, Current
<1> QED BY <1>1, <1>2, <1>3

\* The groups, the batches, and a step elsewhere.
LEMMA StreamForwarderInv ==
  ASSUME ForwarderInv, UNCHANGED <<corrupt, published, carries>>,
         \/ UNCHANGED streamVars
         \/ SetupGroup
         \/ \E c \in Consumer :
              Read(c) \/ Crash(c) \/ \E B \in SUBSET Message : Reclaim(c, B)
  PROVE  ForwarderInv' /\ UnsentRests
<1>1. ForwarderStreamInv
  BY ForwarderIsStream
<1>2. ForwarderStreamInv' /\ LoopsMove /\ \A m \in Message : Delivers(m)
  BY <1>1, StreamStepInv DEF ForwarderStreamInv
<1> QED BY <1>2, MoveForwarderInv DEF Delivers, UnsentRests

\* A new message in a stream, with an event or without one.
LEMMA AddForwarderInv ==
  ASSUME ForwarderInv, NEW m \in Message, Add(m), UNCHANGED published,
         corrupt' = corrupt \/ (corrupt' = corrupt \cup {m} /\ m \in MayBeCorrupt),
         \A l \in Message : l # m => carries'[l] = carries[l]
  PROVE  ForwarderInv'
<1> USE DEF ForwarderInv
<1>0. ForwarderStreamInv
  BY ForwarderIsStream
<1>1. ForwarderStreamInv' /\ LoopsMove
  BY <1>0, AddStreamInv DEF ForwarderStreamInv
<1>2. /\ entry[m] = "unsent" /\ entry'[m] \in {"new", "missed"}
      /\ \A l \in Message : l # m => entry'[l] = entry[l]
      /\ UNCHANGED <<todo, phase>>
  BY DEF Add, ForwarderTypeOK, StreamTypeOK
<1>3. ForwarderTypeOK' /\ InHandIsDelivered'
  BY <1>1, <1>2 DEF ForwarderStreamInv, StreamInv, ForwarderTypeOK, UnsentIsBlank
<1>4. UnsentIsBlank' /\ AckedIsForwarded'
  BY <1>2 DEF UnsentIsBlank, AckedIsForwarded, InState
<1>5. PhaseIsEarned'
  BY <1>2 DEF PhaseIsEarned, Current
<1> QED BY <1>3, <1>4, <1>5

\* PUBLISH, or the decision that there is nothing to publish.
LEMMA AdvanceForwarderInv ==
  ASSUME ForwarderInv, NEW w \in Worker, NEW m \in Message, UNCHANGED carries,
         Discard(w, m) \/ Publish(w, m)
  PROVE  ForwarderInv' /\ UnsentRests
<1> USE DEF ForwarderInv
<1>0. ForwarderStreamInv
  BY ForwarderIsStream
<1>1. /\ Current(w, m)
      /\ GoTo(w, "ack")
      /\ UNCHANGED <<group, entry, todo, faults>>
      /\ UNCHANGED corrupt
      /\ published \subseteq published' /\ published' \subseteq published \cup ({m} \ corrupt)
      /\ m \in published' \cup corrupt
  BY DEF Discard, Publish
<1>2. /\ ForwarderStreamInv'
      /\ \A v \in Worker : v # w => phase'[v] = phase[v]
      /\ \A v \in Worker, l \in Message : Current(v, l)' <=> Current(v, l)
  BY <1>0, <1>1, GoToStreamInv DEF ForwarderStreamInv, ForwarderPhase
<1>3. ForwarderTypeOK' /\ InHandIsDelivered'
  BY <1>1, <1>2 DEF ForwarderStreamInv, StreamInv, ForwarderTypeOK
<1>4. entry[m] # "unsent"
  BY <1>1 DEF InHandIsDelivered, Current
<1>5. UnsentIsBlank' /\ AckedIsForwarded'
  BY <1>1, <1>4 DEF UnsentIsBlank, AckedIsForwarded, InState
<1>6. \A l \in Message : Current(w, l) => l = m
  BY <1>1, OneCurrent
<1>7. PhaseIsEarned'
  BY <1>1, <1>2, <1>6 DEF PhaseIsEarned
<1> QED BY <1>1, <1>3, <1>5, <1>7 DEF UnsentRests

\* XACK, and every failure.
LEMMA EndForwarderInv ==
  ASSUME ForwarderInv, NEW w \in Worker, NEW m \in Message, UNCHANGED carries,
         FailPublish(w, m) \/ Ack(w, m) \/ FailAck(w, m)
  PROVE  ForwarderInv' /\ UnsentRests
<1>0. ForwarderStreamInv
  BY ForwarderIsStream
<1>1. /\ Current(w, m)
      /\ Return(w, m) \/ Raise(w)
      /\ UNCHANGED <<group, corrupt, published>>
      /\ faults' \in 0..MaxFaults
      /\ entry' = entry \/ entry' = [entry EXCEPT ![m] = "acked"]
      /\ entry' # entry => phase[w] = "ack"
  BY StreamAssumption
     DEF FailPublish, Ack, FailAck, Acknowledge, Fault, ForwarderInv, ForwarderTypeOK, StreamTypeOK
<1>2. /\ ForwarderStreamInv' /\ LoopsMove
      /\ \A l \in Message : entry'[l] = entry[l] \/ (l = m /\ entry'[l] = "acked")
  BY <1>0, <1>1, EndStreamInv DEF ForwarderStreamInv
<1>3. entry' # entry => m \in published \cup corrupt
  BY <1>1 DEF ForwarderInv, PhaseIsEarned
<1>4. UnsentRests
  BY <1>1, <1>2 DEF UnsentRests, InHandIsDelivered, Current, ForwarderInv
<1> QED BY <1>1, <1>2, <1>3, <1>4, MoveForwarderInv DEF UnsentRests

\* A dropped connection is all that happens.
LEMMA FaultForwarderInv ==
  ASSUME ForwarderInv, Fault, UNCHANGED <<group, entry, todo, phase, corrupt, published, carries>>
  PROVE  ForwarderInv'
BY StreamAssumption
   DEF ForwarderInv, ForwarderTypeOK, StreamTypeOK, InHandIsDelivered, UnsentIsBlank, PhaseIsEarned,
       AckedIsForwarded, InState, Current, Fault

(***************************************************************************)
(* The alert, its events and the screen                                    *)
(***************************************************************************)

AlertStatus == {"PENDING", "ESCALATED_EMAIL"} \cup Decision

\* A decision is the last status, an alert is raised once and escalated once.
HistoryInv ==
  /\ history \in Seq(AlertStatus)
  /\ Now \in 0..3
  /\ Now >= 1 => history[1] = "PENDING"
  /\ Now >= 2 => history[2] # "PENDING"
  /\ Now >= 3 => history[2] = "ESCALATED_EMAIL" /\ history[3] \in Decision

\* Every message in a stream carries an event, or is corrupt.
CarriageInv ==
  /\ outbox \subseteq 1..Now
  /\ carries \in [Message -> 0..Now]
  /\ \A m \in Message : carries[m] > 0 => StreamOf[m] = StreamOfEvent(carries[m])
  /\ \A m \in Message : entry[m] # "unsent" => (m \in corrupt <=> carries[m] = 0)

Frames(s) == {s[i] : i \in DOMAIN s}

BrowserInv ==
  /\ subscribed \in BOOLEAN
  /\ transit \in Seq(Nat)
  /\ Frames(transit) \subseteq 1..Now
  /\ socket \in {"closed", "open", "registered"}
  /\ socket # "registered" => transit = <<>>
  /\ was_connected \in BOOLEAN
  /\ socket # "closed" => was_connected
  /\ requests \in [Request -> {Free, Asked} \cup 0..Now]
  /\ click \in {"none"} \cup Decision
  /\ answered \in BOOLEAN
  /\ click # "none" => Now > 0

\* Entry v of the history, or a later one, will be handed to the screen: its
\* notification is under way, a request is, or the next connection makes one.
OnItsWay(v) ==
  \/ v \in outbox
  \/ \E m \in Message : carries[m] = v /\ m \notin published
  \/ v \in Frames(transit)
Asking(v) == \E r \in Request : requests[r] = Asked \/ requests[r] >= v
Reconnecting == socket = "closed" /\ was_connected
Coming(v) == OnItsWay(v) \/ Asking(v) \/ Reconnecting

\* A screen without an excuse lags behind only as long as the news is coming;
\* told the latest it shows it, or does not list the alert yet, and the alert's
\* arrival is coming as well.
ScreenInv ==
  /\ shown \in {"ABSENT"} \cup AlertStatus
  /\ Now = 0 => shown = "ABSENT"
  /\ told \in 0..Now
  /\ excused \in BOOLEAN
  /\ ~excused /\ told < Now => Coming(Now)
  /\ ~excused /\ told = Now => shown \in {Status, "ABSENT"}
  /\ ~excused /\ shown = "ABSENT" /\ Now > 0 => Coming(1)

ConsoleInv ==
  /\ ForwarderInv
  /\ HistoryInv
  /\ CarriageInv
  /\ BrowserInv
  /\ ScreenInv

\* The names the model gives to things that are not statuses.
LEMMA NotStatus == "ABSENT" \notin AlertStatus /\ "none" \notin AlertStatus
BY ConsoleAssumption DEF AlertStatus, Terminal

\* No status comes back: what is equal to the latest is the latest.
LEMMA LatestIsLast ==
  ASSUME HistoryInv, NEW v \in 1..Now, history[v] = Status
  PROVE  v = Now
BY ConsoleAssumption DEF HistoryInv, Status, Now, Terminal

LEMMA StatusInHistory ==
  ASSUME HistoryInv
  PROVE  /\ \A v \in 1..Now : history[v] \in AlertStatus
         /\ Now > 0 => Status \in AlertStatus
         /\ Now = 0 => Status = "ABSENT"
BY DEF HistoryInv, Status, Now

\* Frames of a queue that grows at its end and shrinks at its head.
LEMMA FramesAppend ==
  ASSUME NEW s \in Seq(Nat), NEW v \in Nat
  PROVE  Append(s, v) \in Seq(Nat) /\ Frames(Append(s, v)) = Frames(s) \cup {v}
<1>1. DOMAIN s = 1..Len(s) /\ DOMAIN Append(s, v) = 1..(Len(s) + 1) /\ Len(s) \in Nat
  OBVIOUS
<1>2. Append(s, v)[Len(s) + 1] = v /\ \A i \in 1..Len(s) : Append(s, v)[i] = s[i]
  OBVIOUS
<1> QED BY <1>1, <1>2 DEF Frames

LEMMA FramesTail ==
  ASSUME NEW s \in Seq(Nat), s # <<>>
  PROVE  Tail(s) \in Seq(Nat) /\ Head(s) \in Nat /\ Frames(s) = {Head(s)} \cup Frames(Tail(s))
<1>1. /\ Len(s) \in Nat \ {0}
      /\ DOMAIN s = 1..Len(s)
      /\ DOMAIN Tail(s) = 1..(Len(s) - 1)
      /\ Head(s) = s[1]
      /\ Tail(s) \in Seq(Nat)
  OBVIOUS
<1>2. \A i \in 1..(Len(s) - 1) : Tail(s)[i] = s[i + 1]
  OBVIOUS
<1>3. Frames(Tail(s)) = {s[i] : i \in 2..Len(s)}
  <2>1. ASSUME NEW x \in Frames(Tail(s)) PROVE x \in {s[i] : i \in 2..Len(s)}
    BY <1>1, <1>2 DEF Frames
  <2>2. ASSUME NEW i \in 2..Len(s) PROVE s[i] \in Frames(Tail(s))
    <3>1. i - 1 \in 1..(Len(s) - 1) /\ Tail(s)[i - 1] = s[i]
      BY <1>1, <1>2
    <3> QED BY <3>1, <1>1 DEF Frames
  <2> QED BY <2>1, <2>2
<1>4. s[1] \in Nat
  BY <1>1
<1>5. 1..Len(s) = {1} \cup 2..Len(s)
  BY <1>1
<1>6. Frames(s) = {s[1]} \cup {s[i] : i \in 2..Len(s)}
  BY <1>1, <1>5 DEF Frames
<1> QED BY <1>1, <1>3, <1>4, <1>6

LEMMA FramesEmpty == Frames(<<>>) = {}
BY DEF Frames

LEMMA InitConsoleInv == Init => ConsoleInv
<1> SUFFICES ASSUME Init PROVE ConsoleInv
  OBVIOUS
<1> USE DEF Init, ForwarderInit
<1>1. StreamInv(ForwarderPhase)
  BY InitStreamInv
<1>2. ForwarderInv
  BY <1>1 DEF StreamInv, StreamInit, ForwarderInv, ForwarderTypeOK, UnsentIsBlank, PhaseIsEarned,
              AckedIsForwarded, InState
<1>3. Now = 0 /\ HistoryInv
  BY DEF HistoryInv, Now
<1>4. CarriageInv
  BY <1>3 DEF CarriageInv, StreamInit
<1>5. BrowserInv
  <2>1. PICK q \in Request : requests = [[r \in Request |-> Free] EXCEPT ![q] = Asked]
    OBVIOUS
  <2>2. requests \in [Request -> {Free, Asked} \cup 0..Now]
    BY <2>1
  <2>3. transit \in Seq(Nat) /\ Frames(transit) \subseteq 1..Now
    BY FramesEmpty
  <2>4. /\ socket = "closed" /\ was_connected = FALSE /\ click = "none"
        /\ answered = FALSE /\ subscribed = TRUE /\ transit = <<>>
    OBVIOUS
  <2> QED BY ONLY <2>2, <2>3, <2>4 DEF BrowserInv
<1>6. ScreenInv
  <2>1. Now = 0 /\ told = 0 /\ shown = "ABSENT" /\ excused = FALSE
    BY <1>3
  <2>2. told \in 0..Now /\ ~(told < Now) /\ ~(Now > 0)
    BY <2>1
  <2>3. excused \in BOOLEAN
    BY <2>1
  <2> QED BY ONLY <2>1, <2>2, <2>3, Zenon DEF ScreenInv
<1> QED BY <1>2, <1>3, <1>4, <1>5, <1>6 DEF ConsoleInv

----------------------------------------------------------------------------
(* The alert row                                                           *)

\* A status is committed together with its event, which is on its way then.
LEMMA CommitConsoleInv ==
  ASSUME ConsoleInv, NEW s \in AlertStatus, Commit(s),
         \/ Now = 0 /\ s = "PENDING"
         \/ Status = "PENDING" /\ s = "ESCALATED_EMAIL"
         \/ Status \in {"PENDING", "ESCALATED_EMAIL"} /\ s \in Decision,
         UNCHANGED <<forwarderVars, carries, channelVars, socket, was_connected, requests,
                      click, screenVars>>,
         answered' \in BOOLEAN
  PROVE  ConsoleInv'
<1> USE DEF ConsoleInv, channelVars
<1>1. /\ Now' = Now + 1 /\ Now \in 0..3
      /\ history' \in Seq(AlertStatus)
      /\ history'[Now + 1] = s
      /\ \A i \in 1..Now : history'[i] = history[i]
  BY DEF HistoryInv, Commit, Now
<1>2. HistoryInv'
  <2>1. Now = 0 => s = "PENDING"
    BY DEF Status
  <2>2. Now > 0 => Now < 3 /\ s # "PENDING"
    BY ConsoleAssumption DEF HistoryInv, Status, Now, Terminal
  <2>3. Now = 2 => history[2] = "ESCALATED_EMAIL" /\ s \in Decision
    BY ConsoleAssumption DEF HistoryInv, Status, Now, Terminal
  <2> QED BY <1>1, <2>1, <2>2, <2>3 DEF HistoryInv
<1>3. ForwarderInv'
  BY StreamForwarderInv DEF forwarderVars
<1>4. outbox' = outbox \cup {Now'} /\ UNCHANGED <<entry, corrupt, published>>
  BY <1>1 DEF Commit, forwarderVars, streamVars
<1>5. CarriageInv'
  <2>1. /\ outbox' \subseteq 1..Now'
        /\ carries' \in [Message -> 0..Now']
    <3>1. 1..Now \subseteq 1..Now' /\ 0..Now \subseteq 0..Now' /\ Now' \in 1..Now'
      BY <1>1
    <3> QED BY <3>1, <1>4 DEF CarriageInv
  <2>2. \A v \in 1..Now : StreamOfEvent(v)' = StreamOfEvent(v)
    BY <1>1 DEF StreamOfEvent
  <2>3. ASSUME NEW m \in Message, carries[m] > 0 PROVE StreamOf[m] = StreamOfEvent(carries[m])'
    BY <2>2, <2>3, <1>1 DEF CarriageInv
  <2> QED BY <2>1, <2>3, <1>4 DEF CarriageInv
<1>6. BrowserInv'
  BY <1>1 DEF BrowserInv
<1>7. \A v \in 1..Now : Coming(v) => Coming(v)'
  BY <1>4 DEF Coming, OnItsWay, Asking, Reconnecting
<1>8. Coming(Now)'
  BY <1>4 DEF Coming, OnItsWay
<1>9. ScreenInv'
  BY <1>1, <1>7, <1>8 DEF ScreenInv, screenVars
<1> QED BY <1>2, <1>3, <1>5, <1>6, <1>9

----------------------------------------------------------------------------
(* Events on their way                                                     *)

\* What has to be shown of a step that leaves the alert and what the screen
\* has been told alone.
LEMMA ScreenKept ==
  ASSUME ScreenInv, HistoryInv, UNCHANGED <<history, shown, told>>, excused' \in BOOLEAN,
         excused => excused',
         ~excused' => \A v \in 1..Now : Coming(v) => Coming(v)'
  PROVE  ScreenInv' /\ HistoryInv'
<1>1. UNCHANGED <<Now, Status>>
  BY DEF Now, Status
<1>2. HistoryInv'
  BY <1>1 DEF HistoryInv
<1>3. Now \in Nat
  BY DEF HistoryInv
<1> QED BY <1>1, <1>2, <1>3 DEF ScreenInv

\* The publisher puts an event into its stream: it changes its place only.
LEMMA AddEventConsoleInv ==
  ASSUME ConsoleInv, NEW m \in Message, NEW v \in Version, AddEvent(m, v)
  PROVE  ConsoleInv'
<1> USE DEF ConsoleInv
<1>1. /\ v \in outbox /\ v \in 1..Now /\ entry[m] = "unsent"
      /\ outbox' = outbox \ {v}
      /\ carries'[m] = v
      /\ \A l \in Message : l # m => carries'[l] = carries[l]
      /\ carries' \in [Message -> 0..Now]
      /\ StreamOf[m] = StreamOfEvent(v)
      /\ m \notin published \cup corrupt
      /\ UNCHANGED <<corrupt, published, history, subscribed, transit, browserVars, screenVars>>
  BY DEF AddEvent, channelVars, CarriageInv, Add, ForwarderInv, UnsentIsBlank
<1>2. Add(m)
  BY DEF AddEvent
<1>3. ForwarderInv'
  BY <1>1, <1>2, AddForwarderInv
<1>4. UNCHANGED Now /\ \A i : StreamOfEvent(i)' = StreamOfEvent(i)
  BY <1>1 DEF Now, StreamOfEvent
<1>5. \A l \in Message : l # m => entry'[l] = entry[l]
  BY <1>2 DEF Add, ForwarderInv, ForwarderTypeOK, StreamTypeOK
<1>6. CarriageInv'
  <2>1. \A l \in Message : entry'[l] # "unsent" => (l \in corrupt' <=> carries'[l] = 0)
    BY <1>1, <1>5 DEF CarriageInv
  <2>2. ASSUME NEW l \in Message PROVE (carries[l] > 0 => StreamOf[l] = StreamOfEvent(carries[l]))'
    BY <1>1, <1>4 DEF CarriageInv
  <2> QED BY <2>1, <2>2, <1>1, <1>4 DEF CarriageInv
<1>7. BrowserInv'
  BY <1>1, <1>4 DEF BrowserInv, browserVars
<1>8. \A i \in 1..Now : Coming(i) => Coming(i)'
  <2> SUFFICES ASSUME NEW i \in 1..Now, OnItsWay(i) PROVE OnItsWay(i)'
    BY <1>1 DEF Coming, Asking, Reconnecting, browserVars
  <2>1. CASE i = v
    BY <2>1, <1>1 DEF OnItsWay
  <2>2. CASE i # v /\ i \in outbox
    BY <2>2, <1>1 DEF OnItsWay
  <2>3. ASSUME NEW l \in Message, carries[l] = i, l \notin published PROVE OnItsWay(i)'
    <3>1. l # m
      BY <2>3, <1>1 DEF ForwarderInv, UnsentIsBlank
    <3> QED BY <3>1, <2>3, <1>1 DEF OnItsWay
  <2> QED BY <2>1, <2>2, <2>3, <1>1 DEF OnItsWay
<1>9. ScreenInv' /\ HistoryInv'
  BY <1>1, <1>8, ScreenKept DEF screenVars, ScreenInv
<1> QED BY <1>3, <1>6, <1>7, <1>9

\* An entry that is no event.
LEMMA AddCorruptConsoleInv ==
  ASSUME ConsoleInv, NEW m \in Message, AddCorrupt(m), UNCHANGED consoleVars
  PROVE  ConsoleInv'
<1> USE DEF ConsoleInv, consoleVars, alertVars, channelVars
<1>1. /\ m \in MayBeCorrupt /\ Add(m) /\ entry[m] = "unsent"
      /\ corrupt' = corrupt \cup {m}
      /\ UNCHANGED published
  BY DEF AddCorrupt, Add
<1>2. ForwarderInv'
  BY <1>1, AddForwarderInv
<1>3. UNCHANGED Now /\ \A i : StreamOfEvent(i)' = StreamOfEvent(i)
  BY DEF Now, StreamOfEvent
<1>4. \A l \in Message : l # m => entry'[l] = entry[l]
  BY <1>1 DEF Add, ForwarderInv, ForwarderTypeOK, StreamTypeOK
<1>5. carries[m] = 0
  BY <1>1 DEF ForwarderInv, UnsentIsBlank
<1>6. CarriageInv'
  BY <1>1, <1>3, <1>4, <1>5 DEF CarriageInv
<1>7. BrowserInv'
  BY <1>3 DEF BrowserInv, browserVars
<1>8. \A i \in 1..Now : Coming(i) => Coming(i)'
  BY <1>1 DEF Coming, OnItsWay, Asking, Reconnecting, browserVars
<1>9. ScreenInv' /\ HistoryInv'
  BY <1>8, ScreenKept DEF screenVars, ScreenInv
<1> QED BY <1>2, <1>6, <1>7, <1>9

\* A step of the forwarder that publishes nothing.
LEMMA StreamConsoleInv ==
  ASSUME ConsoleInv, ForwarderInv', UNCHANGED <<corrupt, published, consoleVars>>,
         UnsentRests
  PROVE  ConsoleInv'
<1> USE DEF ConsoleInv, consoleVars, alertVars, channelVars
<1>1. UNCHANGED Now /\ \A i : StreamOfEvent(i)' = StreamOfEvent(i)
  BY DEF Now, StreamOfEvent
<1>2. CarriageInv'
  BY <1>1 DEF CarriageInv, UnsentRests
<1>3. BrowserInv'
  BY <1>1 DEF BrowserInv, browserVars
<1>4. \A i \in 1..Now : Coming(i) => Coming(i)'
  BY DEF Coming, OnItsWay, Asking, Reconnecting, browserVars
<1>5. ScreenInv' /\ HistoryInv'
  BY <1>4, ScreenKept DEF screenVars, ScreenInv
<1> QED BY <1>2, <1>3, <1>5

\* What has been published is in transit to a registered socket, if the
\* listener was on the channel; any other page reconciles on its next
\* connection, or has its excuse.
LEMMA PublishConsoleInv ==
  ASSUME ConsoleInv, NEW w \in Worker, NEW m \in Message, Publish(w, m), Broadcast(carries[m]),
         UNCHANGED <<alertVars, carries, browserVars, shown, told>>
  PROVE  ConsoleInv'
<1> USE DEF ConsoleInv, alertVars
<1>1. /\ Current(w, m) /\ m \notin corrupt /\ UNCHANGED <<entry, corrupt>>
      /\ published' = published \cup {m}
  BY DEF Publish
<1>2. ForwarderInv' /\ UnsentRests
  BY AdvanceForwarderInv
<1>3. UNCHANGED Now /\ \A i : StreamOfEvent(i)' = StreamOfEvent(i)
  BY DEF Now, StreamOfEvent
<1>4. CarriageInv'
  BY <1>1, <1>3 DEF CarriageInv
<1>5. carries[m] \in 1..Now
  <2>1. entry[m] # "unsent"
    BY <1>1 DEF ForwarderInv, InHandIsDelivered, Current
  <2> QED BY <1>1, <2>1 DEF CarriageInv, HistoryInv
<1>6. /\ transit \in Seq(Nat) /\ carries[m] \in Nat
      /\ Frames(Append(transit, carries[m])) = Frames(transit) \cup {carries[m]}
      /\ Append(transit, carries[m]) \in Seq(Nat)
  BY <1>5, FramesAppend DEF BrowserInv
<1>7. /\ transit' \in Seq(Nat)
      /\ Frames(transit) \subseteq Frames(transit')
      /\ Frames(transit') \subseteq 1..Now
      /\ UNCHANGED subscribed
      /\ socket # "registered" => transit' = transit
      /\ excused' \in BOOLEAN /\ (excused => excused')
      /\ carries[m] \in Frames(transit') \/ (~excused' => Reconnecting)
  <2>1. CASE subscribed /\ socket = "registered"
    <3>1. transit' = Append(transit, carries[m]) /\ UNCHANGED <<excused, subscribed>>
      BY <2>1 DEF Broadcast
    <3>2. Frames(transit) \subseteq 1..Now /\ excused \in BOOLEAN
      BY DEF BrowserInv, ScreenInv
    <3> QED BY <2>1, <3>1, <3>2, <1>5, <1>6
  <2>2. CASE ~(subscribed /\ socket = "registered")
    BY <2>2 DEF Broadcast, BrowserInv, ScreenInv, Reconnecting
  <2> QED BY <2>1, <2>2
<1>8. BrowserInv'
  BY <1>3, <1>7 DEF BrowserInv, browserVars
<1>9. ASSUME ~excused', NEW i \in 1..Now, Coming(i) PROVE Coming(i)'
  BY <1>1, <1>7, <1>9 DEF Coming, OnItsWay, Asking, Reconnecting, browserVars
<1>10. ScreenInv' /\ HistoryInv'
  BY <1>7, <1>9, ScreenKept
<1> QED BY <1>2, <1>4, <1>8, <1>10

\* The socket closes under the frames in transit.
LEMMA CloseConsoleInv ==
  ASSUME ConsoleInv, ForwarderInv', UnsentRests,
         UNCHANGED <<corrupt, published, alertVars, carries, was_connected, requests, click,
                     answered, screenVars>>,
         subscribed' \in BOOLEAN, socket' = "closed", transit' = <<>>
  PROVE  ConsoleInv'
<1> USE DEF ConsoleInv, alertVars
<1>1. UNCHANGED Now /\ \A i : StreamOfEvent(i)' = StreamOfEvent(i)
  BY DEF Now, StreamOfEvent
<1>2. CarriageInv'
  BY <1>1 DEF CarriageInv, UnsentRests
<1>3. BrowserInv'
  BY <1>1, FramesEmpty DEF BrowserInv
<1>4. socket # "closed" => Reconnecting'
  BY DEF BrowserInv, Reconnecting
<1>5. socket = "closed" => transit' = transit
  BY DEF BrowserInv
<1>6. \A i \in 1..Now : Coming(i) => Coming(i)'
  BY <1>4, <1>5 DEF Coming, OnItsWay, Asking, Reconnecting
<1>7. ScreenInv' /\ HistoryInv'
  BY <1>6, ScreenKept DEF screenVars, ScreenInv
<1> QED BY <1>2, <1>3, <1>7

\* The front of a queue has frames of the queue only.
LEMMA FramesFront ==
  ASSUME NEW s \in Seq(Nat), NEW k \in 0..Len(s)
  PROVE  /\ SubSeq(s, 1, k) \in Seq(Nat)
         /\ Frames(SubSeq(s, 1, k)) \subseteq Frames(s)
         /\ k = Len(s) => SubSeq(s, 1, k) = s
<1>1. /\ Len(SubSeq(s, 1, k)) = k
      /\ SubSeq(s, 1, k) \in Seq(Nat)
      /\ \A i \in 1..k : SubSeq(s, 1, k)[i] = s[i]
  OBVIOUS
<1>2. DOMAIN SubSeq(s, 1, k) = 1..k /\ 1..k \subseteq 1..Len(s) /\ DOMAIN s = 1..Len(s)
  BY <1>1
<1>3. Frames(SubSeq(s, 1, k)) \subseteq Frames(s)
  BY <1>1, <1>2 DEF Frames
<1>4. k = Len(s) => SubSeq(s, 1, k) = s
  OBVIOUS
<1> QED BY <1>1, <1>3, <1>4

\* The listener comes to the channel, or loses it and what it had not sent.
LEMMA ChannelConsoleInv == ASSUME ConsoleInv, Subscribe \/ LoseChannel PROVE ConsoleInv'
<1> USE DEF ConsoleInv
<1>1. /\ ForwarderInv' /\ UnsentRests
      /\ UNCHANGED <<corrupt, published, alertVars, carries, browserVars, shown, told>>
      /\ subscribed' \in BOOLEAN
  <2>1. CASE Subscribe
    BY <2>1, StreamForwarderInv DEF Subscribe, forwarderVars, streamVars, UnsentRests, screenVars
  <2>2. CASE LoseChannel
    BY <2>2, FaultForwarderInv DEF LoseChannel, UnsentRests
  <2> QED BY <2>1, <2>2
<1>2. UNCHANGED <<Now, history>> /\ \A i : StreamOfEvent(i)' = StreamOfEvent(i)
  BY <1>1 DEF alertVars, Now, StreamOfEvent
<1>3. CarriageInv'
  BY <1>1, <1>2 DEF CarriageInv, UnsentRests, alertVars
<1>4. /\ transit' \in Seq(Nat)
      /\ Frames(transit') \subseteq Frames(transit)
      /\ transit = <<>> => transit' = <<>>
      /\ excused' \in BOOLEAN /\ (excused => excused')
      /\ ~excused' => transit' = transit
  <2>1. transit \in Seq(Nat) /\ excused \in BOOLEAN /\ Len(transit) \in Nat
    BY DEF BrowserInv, ScreenInv
  <2>2. CASE Subscribe
    BY <2>1, <2>2 DEF Subscribe, screenVars
  <2>3. CASE LoseChannel
    <3>1. PICK k \in 0..Len(transit) :
            transit' = SubSeq(transit, 1, k) /\ excused' = (excused \/ k < Len(transit))
      BY <2>3 DEF LoseChannel
    <3>2. /\ transit' \in Seq(Nat) /\ Frames(transit') \subseteq Frames(transit)
          /\ k = Len(transit) => transit' = transit
      BY <2>1, <3>1, FramesFront
    <3>3. k < Len(transit) \/ k = Len(transit)
      BY <2>1
    <3>4. excused' \in BOOLEAN /\ (excused => excused') /\ (~excused' => ~(k < Len(transit)))
      BY <3>1, Zenon
    <3>5. transit = <<>> => k = Len(transit)
      BY <2>1
    <3> QED BY <3>2, <3>3, <3>4, <3>5
  <2> QED BY <2>2, <2>3
<1>5. BrowserInv'
  BY <1>1, <1>2, <1>4 DEF BrowserInv, browserVars
<1>6. ~excused' => \A i \in 1..Now : Coming(i) => Coming(i)'
  BY <1>1, <1>4 DEF Coming, OnItsWay, Asking, Reconnecting, browserVars, alertVars
<1>7. ScreenInv' /\ HistoryInv'
  BY <1>1, <1>2, <1>4, <1>6, ScreenKept
<1> QED BY <1>1, <1>3, <1>5, <1>7

----------------------------------------------------------------------------
(* The browser                                                             *)

BackRests == UNCHANGED <<forwarderVars, alertVars, carries>>

\* Nothing changes behind the socket.
LEMMA BackKept ==
  ASSUME ConsoleInv, BackRests
  PROVE  /\ ForwarderInv' /\ HistoryInv' /\ CarriageInv'
         /\ UNCHANGED <<Now, Status, history, outbox, carries, published>>
<1> USE DEF BackRests, ConsoleInv, alertVars, forwarderVars
<1>1. ForwarderInv'
  BY StreamForwarderInv
<1>2. UNCHANGED <<Now, Status>> /\ \A i : StreamOfEvent(i)' = StreamOfEvent(i)
  BY DEF Now, Status, StreamOfEvent
<1>3. HistoryInv'
  BY <1>2 DEF HistoryInv
<1>4. CarriageInv'
  BY <1>2 DEF CarriageInv, streamVars
<1> QED BY <1>1, <1>2, <1>3, <1>4

\* A step that tells the screen nothing and gives up no request that matters.
LEMMA BrowserConsoleInv ==
  ASSUME ConsoleInv, BackRests, BrowserInv', UNCHANGED <<channelVars, shown, told>>,
         excused' \in BOOLEAN, excused => excused',
         ~excused' => \A i \in 1..Now :
            Asking(i) \/ Reconnecting => Asking(i)' \/ Reconnecting'
  PROVE  ConsoleInv'
<1>1. /\ ForwarderInv' /\ HistoryInv' /\ CarriageInv'
      /\ UNCHANGED <<history, outbox, carries, published>>
  BY BackKept
<1>2. ~excused' => \A i \in 1..Now : Coming(i) => Coming(i)'
  BY <1>1 DEF Coming, OnItsWay, channelVars
<1>3. ScreenInv'
  BY <1>1, <1>2, ScreenKept DEF ConsoleInv
<1> QED BY <1>1, <1>3 DEF ConsoleInv

LEMMA ConnectConsoleInv == ASSUME ConsoleInv, OnOpen \/ Register PROVE ConsoleInv'
<1> USE DEF channelVars
<1>1. /\ BackRests /\ UNCHANGED <<channelVars, shown, told, excused, Now>>
  BY DEF OnOpen, Register, BackRests, screenVars, alertVars, Now
<1>2. BrowserInv /\ excused \in BOOLEAN
  BY DEF ConsoleInv, ScreenInv
<1>3. CASE Register
  <2>1. BrowserInv'
    BY <1>1, <1>2, <1>3 DEF Register, BrowserInv
  <2>2. \A i \in 1..Now : Asking(i) \/ Reconnecting => Asking(i)' \/ Reconnecting'
    BY <1>3 DEF Register, Asking, Reconnecting
  <2> QED BY <1>1, <1>2, <2>1, <2>2, BrowserConsoleInv
<1>4. CASE OnOpen
  <2>1. /\ requests' \in [Request -> {Free, Asked} \cup 0..Now]
        /\ \A i \in 1..Now : Asking(i) => Asking(i)'
        /\ was_connected => \E r \in Request : requests'[r] = Asked
    <3>1. CASE was_connected
      <4>1. PICK r \in Request : requests[r] = Free /\ requests' = [requests EXCEPT ![r] = Asked]
        BY <3>1, <1>4 DEF OnOpen
      <4> QED BY <4>1, <1>2 DEF BrowserInv, Asking
    <3>2. CASE ~was_connected
      BY <3>2, <1>2, <1>4 DEF OnOpen, BrowserInv, Asking
    <3> QED BY <3>1, <3>2
  <2>2. BrowserInv'
    BY <2>1, <1>1, <1>2, <1>4 DEF OnOpen, BrowserInv
  <2>3. \A i \in 1..Now : Asking(i) \/ Reconnecting => Asking(i)' \/ Reconnecting'
    BY <2>1 DEF Asking, Reconnecting
  <2> QED BY <1>1, <1>2, <2>2, <2>3, BrowserConsoleInv
<1> QED BY <1>3, <1>4

\* The answer to a request is the latest there is.
LEMMA GetAlertsConsoleInv == ASSUME ConsoleInv, NEW r \in Request, GetAlerts(r) PROVE ConsoleInv'
<1> USE DEF channelVars
<1>1. BackRests /\ UNCHANGED <<channelVars, shown, told, excused, Now>>
  BY DEF GetAlerts, BackRests, screenVars, alertVars, Now
<1>2. BrowserInv /\ excused \in BOOLEAN /\ Now \in Nat
  BY DEF ConsoleInv, ScreenInv, HistoryInv
<1>3. /\ requests' = [requests EXCEPT ![r] = Now]
      /\ requests' \in [Request -> {Free, Asked} \cup 0..Now]
  BY <1>2 DEF GetAlerts, BrowserInv
<1>4. BrowserInv'
  BY <1>1, <1>2, <1>3 DEF GetAlerts, BrowserInv
<1>5. \A i \in 1..Now : Asking(i) \/ Reconnecting => Asking(i)' \/ Reconnecting'
  BY <1>2, <1>3 DEF GetAlerts, Asking, Reconnecting, BrowserInv
<1> QED BY <1>1, <1>2, <1>4, <1>5, BrowserConsoleInv

\* The screen is told of entry v: news of later entries are still coming.
LEMMA TellConsoleInv ==
  ASSUME ConsoleInv, BackRests, BrowserInv', NEW v \in 1..Now, NEW s, Tell(v, s),
         s = history[v] \/ (s = "ABSENT" /\ v # 1),
         s = "ABSENT" => shown = "ABSENT",
         \A i \in 1..Now :
           Coming(i) /\ (i > v \/ (s = "ABSENT" /\ i # v)) => Coming(i)'
  PROVE  ConsoleInv'
<1> USE DEF ConsoleInv
<1>1. /\ ForwarderInv' /\ HistoryInv' /\ CarriageInv' /\ UNCHANGED <<Now, Status, history>>
  BY BackKept
<1>2. shown' = s /\ told' = v /\ excused' = (s # Status /\ (excused \/ v < told))
  BY DEF Tell
<1>3. Now \in Nat \ {0} /\ told \in 0..Now /\ excused \in BOOLEAN /\ Status # "ABSENT"
  BY StatusInHistory, NotStatus DEF HistoryInv, ScreenInv
<1>4. s \in {"ABSENT"} \cup AlertStatus /\ (s = "ABSENT" => v # 1)
  BY StatusInHistory, NotStatus
<1>5. history[v] = Status => v = Now
  BY LatestIsLast
<1>6. s = Status => v = Now
  BY <1>3, <1>5
<1>7. excused' \in BOOLEAN
  BY <1>2, <1>3
<1>8. ASSUME ~excused', v < Now PROVE Coming(Now)'
  <2>0. s # Status
    BY <1>3, <1>6, <1>8
  <2>1. ~excused /\ ~(v < told)
    BY <1>2, <1>8, <2>0, Zenon
  <2>2. told < Now /\ Now \in 1..Now /\ Now > v
    BY <2>1, <1>3, <1>8
  <2>3. Coming(Now)
    BY <2>1, <2>2, Zenon DEF ScreenInv
  <2> QED BY <2>2, <2>3, <1>1
<1>9. v = Now => s \in {Status, "ABSENT"}
  BY <1>3 DEF Status
<1>10. ASSUME ~excused', s = "ABSENT" PROVE Coming(1)'
  <2>1. ~excused
    BY <1>2, <1>3, <1>10
  <2>2. Coming(1)
    BY <2>1, <1>3, <1>10 DEF ScreenInv
  <2> QED BY <2>2, <1>3, <1>4, <1>10
<1>11. ScreenInv'
  BY <1>1, <1>2, <1>3, <1>4, <1>7, <1>8, <1>9, <1>10 DEF ScreenInv
<1> QED BY <1>1, <1>11

\* The next frame.
LEMMA ReceiveConsoleInv == ASSUME ConsoleInv, Receive PROVE ConsoleInv'
<1> USE DEF channelVars
<1> DEFINE v == Head(transit)
           s == IF history[v] = "PENDING" \/ shown # "ABSENT" THEN history[v] ELSE shown
<1>1. /\ transit # <<>> /\ transit' = Tail(transit) /\ Tell(v, s) /\ BackRests
      /\ UNCHANGED <<subscribed, browserVars, Now>>
  BY DEF Receive, HandleWsMessage, BackRests, alertVars, Now
<1>2. BrowserInv /\ HistoryInv
  BY DEF ConsoleInv
<1>3. /\ transit' \in Seq(Nat) /\ Frames(transit) = {v} \cup Frames(transit')
  BY <1>1, <1>2, FramesTail DEF BrowserInv
<1>4. v \in 1..Now /\ Now \in Nat
  BY <1>2, <1>3 DEF BrowserInv, HistoryInv
<1>5. history[v] \in AlertStatus /\ (v = 1 => history[v] = "PENDING")
  BY <1>2, <1>4, StatusInHistory DEF HistoryInv
<1>6. BrowserInv'
  BY <1>1, <1>2, <1>3 DEF BrowserInv, browserVars
<1>7. \A i \in 1..Now : i # v /\ Coming(i) => Coming(i)'
  BY <1>1, <1>3 DEF BackRests, forwarderVars, alertVars, Coming, OnItsWay, Asking,
                  Reconnecting, browserVars
<1>8. /\ s = history[v] \/ (s = "ABSENT" /\ v # 1)
      /\ s = "ABSENT" => shown = "ABSENT"
  BY <1>5, NotStatus
<1>9. \A i \in 1..Now : Coming(i) /\ (i > v \/ (s = "ABSENT" /\ i # v)) => Coming(i)'
  BY <1>4, <1>7
<1> HIDE DEF v, s
<1> QED BY <1>1, <1>4, <1>6, <1>8, <1>9, TellConsoleInv

\* The answer of a request, which the page takes over as it is.
LEMMA ReconcileConsoleInv == ASSUME ConsoleInv, NEW r \in Request, Reconcile(r) PROVE ConsoleInv'
<1> USE DEF channelVars
<1> DEFINE v == requests[r]
<1>1. /\ BackRests /\ UNCHANGED <<channelVars, Now, socket, was_connected, click, answered>>
      /\ requests' = [requests EXCEPT ![r] = Free]
      /\ v \in 0..Now
  BY DEF Reconcile, Done, BackRests, alertVars, Now
<1>2. BrowserInv /\ HistoryInv /\ Now \in Nat /\ excused \in BOOLEAN
  BY DEF ConsoleInv, HistoryInv, ScreenInv
<1>3. BrowserInv'
  BY <1>1, <1>2 DEF BrowserInv
<1>4. \A i \in 1..Now : i > v /\ (Asking(i) \/ Reconnecting) => Asking(i)' \/ Reconnecting'
  BY <1>1, <1>2 DEF Asking, Reconnecting, Asked, Free, BrowserInv
<1>5. CASE v = 0
  <2>1. UNCHANGED <<shown, told, excused>>
    BY <1>5 DEF Reconcile, screenVars
  <2>2. \A i \in 1..Now : Asking(i) \/ Reconnecting => Asking(i)' \/ Reconnecting'
    BY <1>4, <1>5
  <2> QED BY <1>1, <1>2, <1>3, <2>1, <2>2, BrowserConsoleInv
<1>6. CASE v # 0
  <2>1. Tell(v, history[v]) /\ v \in 1..Now
    BY <1>1, <1>2, <1>6 DEF Reconcile
  <2>2. history[v] # "ABSENT"
    BY <2>1, <1>2, StatusInHistory, NotStatus
  <2>3. \A i \in 1..Now : i > v /\ Coming(i) => Coming(i)'
    BY <1>1, <1>4 DEF BackRests, forwarderVars, alertVars, Coming, OnItsWay
  <2> HIDE DEF v
  <2> QED BY <1>1, <1>3, <2>1, <2>2, <2>3, TellConsoleInv
<1> QED BY <1>5, <1>6

\* A failed request is an excuse.
LEMMA FailReconcileConsoleInv ==
  ASSUME ConsoleInv, NEW r \in Request, FailReconcile(r)
  PROVE  ConsoleInv'
<1> USE DEF channelVars
<1>1. /\ BackRests
      /\ UNCHANGED <<channelVars, shown, told, Now, socket, was_connected, click, answered>>
      /\ requests' = [requests EXCEPT ![r] = Free]
      /\ excused' = TRUE
  BY DEF FailReconcile, Done, BackRests, alertVars, Now
<1>2. BrowserInv'
  BY <1>1 DEF ConsoleInv, BrowserInv
<1> QED BY <1>1, <1>2, BrowserConsoleInv

\* The analyst's click, and the answer of the API when it changes nothing.
LEMMA ClickConsoleInv ==
  ASSUME ConsoleInv,
         \/ \E d \in Decision : Click(d)
         \/ Answer /\ UNCHANGED alertVars
  PROVE  ConsoleInv'
<1> USE DEF channelVars
<1>1. /\ BackRests
      /\ UNCHANGED <<channelVars, shown, told, excused, Now, socket, was_connected, requests>>
      /\ answered' \in BOOLEAN
      /\ click' = click \/ (click' \in Decision /\ shown # "ABSENT")
  BY DEF Click, Answer, BackRests, screenVars, alertVars, Now
<1>2. BrowserInv /\ Now \in Nat /\ (Now = 0 => shown = "ABSENT") /\ excused \in BOOLEAN
  BY DEF ConsoleInv, HistoryInv, ScreenInv
<1>3. BrowserInv'
  BY <1>1, <1>2 DEF BrowserInv
<1>4. \A i \in 1..Now : Asking(i) \/ Reconnecting => Asking(i)' \/ Reconnecting'
  BY <1>1 DEF Asking, Reconnecting
<1> QED BY <1>1, <1>2, <1>3, <1>4, BrowserConsoleInv

\* The page shows the decision it asked for; it is right, or it has an excuse.
LEMMA ShowDecisionConsoleInv == ASSUME ConsoleInv, ShowDecision PROVE ConsoleInv'
<1> USE DEF channelVars
<1>1. /\ BackRests /\ UNCHANGED <<channelVars, Now, Status, socket, was_connected, requests>>
      /\ click # "none" /\ click' = "none" /\ answered' = FALSE
      /\ shown' = click /\ excused' = (click # Status)
      /\ told' = IF click = Status THEN Now ELSE told
  BY DEF ShowDecision, BackRests, alertVars, Now, Status
<1>2. BrowserInv /\ Now \in Nat /\ told \in 0..Now
  BY DEF ConsoleInv, HistoryInv, ScreenInv
<1>3. BrowserInv'
  BY <1>1, <1>2 DEF BrowserInv
<1>4. click \in AlertStatus /\ click # "ABSENT" /\ Now > 0
  BY <1>1, <1>2, NotStatus DEF BrowserInv, AlertStatus
<1>5. told' \in 0..Now /\ excused' \in BOOLEAN
  BY <1>1, <1>2
<1>6. ~excused' => click = Status /\ told' = Now
  BY <1>1, Zenon
<1>7. ScreenInv'
  BY <1>1, <1>2, <1>4, <1>5, <1>6 DEF ScreenInv
<1> QED BY <1>1, <1>3, <1>7, BackKept DEF ConsoleInv

----------------------------------------------------------------------------
\* Every step keeps the invariant.
LEMMA NextConsoleInv == ASSUME ConsoleInv, [Next]_vars PROVE ConsoleInv'
<1> USE DEF ConsoleInv
<1>1. CASE Raised
  BY <1>1, CommitConsoleInv DEF Raised, AlertStatus, Now, browserVars, screenVars, BrowserInv
<1>2. CASE Escalate
  BY <1>2, CommitConsoleInv DEF Escalate, AlertStatus, browserVars, screenVars, BrowserInv
<1>3. ASSUME NEW d \in Decision, Resolve(d) PROVE ConsoleInv'
  BY <1>3, CommitConsoleInv DEF Resolve, AlertStatus, browserVars, screenVars, BrowserInv
<1>4. CASE Answer
  <2>1. CASE UNCHANGED alertVars
    BY <1>4, <2>1, ClickConsoleInv
  <2>2. CASE ~UNCHANGED alertVars
    <3>1. click \in Decision /\ Commit(click) /\ Status \in {"PENDING", "ESCALATED_EMAIL"}
      BY <1>4, <2>2 DEF Answer, BrowserInv
    <3> QED BY <1>4, <3>1, CommitConsoleInv DEF Answer, AlertStatus
  <2> QED BY <2>1, <2>2
<1>5. ASSUME NEW m \in Message, AddCorrupt(m) /\ UNCHANGED consoleVars PROVE ConsoleInv'
  BY <1>5, AddCorruptConsoleInv
<1>6. ASSUME NEW m \in Message, NEW v \in Version, AddEvent(m, v) PROVE ConsoleInv'
  BY <1>6, AddEventConsoleInv
<1>7. CASE \/ UNCHANGED vars
           \/ StreamStep(SetupGroup)
           \/ \E c \in Consumer :
                StreamStep(Read(c)) \/ \E B \in SUBSET Message : StreamStep(Reclaim(c, B))
  <2>1. UNCHANGED <<corrupt, published, consoleVars>>
    BY <1>7 DEF StreamStep, vars, forwarderVars
  <2>2. \/ UNCHANGED streamVars
        \/ SetupGroup
        \/ \E c \in Consumer : Read(c) \/ \E B \in SUBSET Message : Reclaim(c, B)
    BY <1>7 DEF StreamStep, vars, forwarderVars
  <2>3. ForwarderInv' /\ UnsentRests
    BY <2>1, <2>2, StreamForwarderInv DEF consoleVars
  <2> QED BY <2>1, <2>3, StreamConsoleInv
<1>8. ASSUME NEW c \in Consumer, GatewayCrash(c) PROVE ConsoleInv'
  <2>1. ForwarderInv' /\ UnsentRests
    BY <1>8, StreamForwarderInv DEF GatewayCrash
  <2> QED BY <1>8, <2>1, CloseConsoleInv DEF GatewayCrash
<1>9. ASSUME NEW w \in Worker, Forward(w) PROVE ConsoleInv'
  <2>1. PICK m \in Message :
          \/ /\ Publish(w, m) /\ Broadcast(carries[m])
             /\ UNCHANGED <<alertVars, carries, browserVars, shown, told>>
          \/ /\ Discard(w, m) \/ FailPublish(w, m) \/ Ack(w, m) \/ FailAck(w, m)
             /\ UNCHANGED consoleVars
    BY <1>9 DEF Forward
  <2>2. CASE /\ Publish(w, m) /\ Broadcast(carries[m])
             /\ UNCHANGED <<alertVars, carries, browserVars, shown, told>>
    BY <2>2, PublishConsoleInv
  <2>3. CASE Discard(w, m) /\ UNCHANGED consoleVars
    <3>1. ForwarderInv' /\ UnsentRests
      BY <2>3, AdvanceForwarderInv DEF consoleVars
    <3> QED BY <2>3, <3>1, StreamConsoleInv DEF Discard
  <2>4. CASE (FailPublish(w, m) \/ Ack(w, m) \/ FailAck(w, m)) /\ UNCHANGED consoleVars
    <3>1. ForwarderInv' /\ UnsentRests
      BY <2>4, EndForwarderInv DEF consoleVars
    <3>2. UNCHANGED <<corrupt, published>>
      BY <2>4 DEF FailPublish, Ack, FailAck
    <3> QED BY <2>4, <3>1, <3>2, StreamConsoleInv
  <2> QED BY <2>1, <2>2, <2>3, <2>4
<1>10. CASE OnClose
  <2>1. ForwarderInv' /\ UnsentRests
    BY <1>10, FaultForwarderInv DEF OnClose, UnsentRests
  <2> QED BY <1>10, <2>1, CloseConsoleInv DEF OnClose, BrowserInv
<1>11. CASE Receive \/ ShowDecision \/ OnOpen \/ Register \/ \E d \in Decision : Click(d)
  BY <1>11, ReceiveConsoleInv, ShowDecisionConsoleInv, ConnectConsoleInv, ClickConsoleInv
<1>12. CASE Subscribe \/ LoseChannel
  BY <1>12, ChannelConsoleInv
<1>13. ASSUME NEW r \in Request, GetAlerts(r) \/ Reconcile(r) \/ FailReconcile(r) PROVE ConsoleInv'
  BY <1>13, GetAlertsConsoleInv, ReconcileConsoleInv, FailReconcileConsoleInv
<1> HIDE DEF ConsoleInv
<1> QED BY <1>1, <1>2, <1>3, <1>4, <1>5, <1>6, <1>7, <1>8, <1>9, <1>10, <1>11, <1>12, <1>13 DEF Next

LEMMA AlwaysConsoleInv == Spec => []ConsoleInv
<1>1. ConsoleInv /\ [Next]_vars => ConsoleInv'
  BY NextConsoleInv
<1> QED BY <1>1, InitConsoleInv, PTL DEF Spec

\* The state stays in its types: among other things a stream entry carries an
\* event of its own stream, and a notification is of an entry of the history.
\* Of the screen it says no more than the set of statuses: a decision that was
\* refused may stand on it.
THEOREM TypeCorrect == Spec => []TypeOK
<1>1. ConsoleInv => TypeOK
  <2> SUFFICES ASSUME ConsoleInv PROVE TypeOK
    OBVIOUS
  <2>1. history \in UNION {[1..n -> {"PENDING", "ESCALATED_EMAIL"} \cup Decision] : n \in 0..3}
    <3>1. history \in [1..Now -> AlertStatus] /\ Now \in 0..3
      BY DEF ConsoleInv, HistoryInv, Now
    <3> QED BY <3>1 DEF AlertStatus
  <2>2. \A i \in DOMAIN transit : transit[i] \in 1..Now
    BY DEF ConsoleInv, BrowserInv, Frames
  <2> QED BY <2>1, <2>2 DEF TypeOK, ConsoleInv, ForwarderInv, CarriageInv, BrowserInv,
                             ScreenInv, AlertStatus
<1> QED BY <1>1, AlwaysConsoleInv, PTL

\* The forwarder acknowledges no message whose notification has not gone out,
\* unless there is nothing in it to forward.
THEOREM NothingForgottenUnforwarded == Spec => []AckedIsForwarded
<1>1. ConsoleInv => AckedIsForwarded
  BY DEF ConsoleInv, ForwarderInv
<1> QED BY <1>1, AlwaysConsoleInv, PTL

\* When everything has arrived, a screen that disagrees with the database has
\* an excuse.
THEOREM QuietScreenIsRight == Spec => []StaleOnlyForCause
<1>1. ConsoleInv => StaleOnlyForCause
  <2> SUFFICES ASSUME ConsoleInv, Quiet, shown # Status, ~excused PROVE FALSE
    BY DEF StaleOnlyForCause
  <2>1. Now \in Nat /\ told \in 0..Now /\ (Now = 0 => shown = "ABSENT" /\ Status = "ABSENT")
    BY StatusInHistory DEF ConsoleInv, HistoryInv, ScreenInv
  <2>2. ASSUME NEW v \in 1..Now PROVE ~Coming(v)
    <3>1. v \notin Frames(transit)
      BY FramesEmpty DEF Quiet
    <3>2. ASSUME NEW m \in Message, carries[m] = v, m \notin published PROVE FALSE
      <4>1. entry[m] # "unsent"
        BY <3>2 DEF ConsoleInv, ForwarderInv, UnsentIsBlank
      <4>2. m \in corrupt
        BY <3>2, <4>1 DEF Quiet, ConsoleInv, ForwarderInv, AckedIsForwarded, InState
      <4> QED BY <3>2, <4>1, <4>2 DEF ConsoleInv, CarriageInv
    <3>3. ~Asking(v) /\ ~Reconnecting
      BY <2>1 DEF Quiet, Asking, Reconnecting, Free, Asked
    <3> QED BY <3>1, <3>2, <3>3 DEF Coming, OnItsWay, Quiet
  <2>3. Now > 0
    BY <2>1
  <2>4. told = Now
    BY <2>1, <2>2, <2>3 DEF ConsoleInv, ScreenInv
  <2> QED BY <2>2, <2>3, <2>4 DEF ConsoleInv, ScreenInv
<1> QED BY <1>1, AlwaysConsoleInv, PTL

----------------------------------------------------------------------------
(* The row of the alert                                                    *)

\* The one alert of Console, as the diagram of the README sees it.
AlertRow == [a \in {"alert"} |-> Status]

Diagram == INSTANCE AlertStateMachine WITH Alert <- {"alert"}, status <- AlertRow

\* A commit along an arrow is a step of the diagram.
LEMMA CommitFollowsArrow ==
  ASSUME ConsoleInv, NEW s \in AlertStatus, Commit(s), Diagram!Arrow(Status, s)
  PROVE  Diagram!Next
<1>1. Status' = s
  BY DEF Commit, Status, Now, ConsoleInv, HistoryInv
<1>2. s \in Diagram!AlertStatus
  BY ConsoleAssumption
     DEF AlertStatus, Diagram!AlertStatus, Diagram!Unresolved, Diagram!Terminal, Terminal
<1> QED BY <1>1, <1>2 DEF Diagram!Next, AlertRow

\* What Console takes the pipeline, the scheduler, other analysts and the page's
\* own requests to do to the alert is what the state machine of the README
\* allows, as AlertLifecycle does: it leaves out the second tier, and adds
\* nothing.
THEOREM RowFollowsDiagram == Spec => Diagram!Spec
<1>1. Init => Diagram!Init
  BY DEF Init, Diagram!Init, AlertRow, Status, Now
<1>2. ConsoleInv /\ [Next]_vars => [Diagram!Next]_AlertRow
  <2> SUFFICES ASSUME ConsoleInv, [Next]_vars
               PROVE  Diagram!Next \/ UNCHANGED AlertRow
    OBVIOUS
  <2> DEFINE Moves(s) == Commit(s) /\ Diagram!Arrow(Status, s)
  <2>1. UNCHANGED history => UNCHANGED AlertRow
    BY DEF AlertRow, Status, Now
  <2>2. Raised => Moves("PENDING")
    BY DEF Raised, Status, Now, Diagram!Arrow
  <2>3. Escalate => Moves("ESCALATED_EMAIL")
    BY DEF Escalate, Diagram!Arrow
  <2>4. ASSUME NEW d \in Decision, Status \in {"PENDING", "ESCALATED_EMAIL"}, Commit(d)
        PROVE  Moves(d)
    BY <2>4, ConsoleAssumption DEF Diagram!Arrow, Diagram!Unresolved, Diagram!Terminal, Terminal
  <2>5. Answer => UNCHANGED history \/ \E d \in Decision : Moves(d)
    <3>1. Answer /\ ~UNCHANGED alertVars =>
            click \in Decision /\ Status \in {"PENDING", "ESCALATED_EMAIL"} /\ Commit(click)
      BY DEF Answer, ConsoleInv, BrowserInv
    <3>2. UNCHANGED alertVars => UNCHANGED history
      BY DEF alertVars
    <3> QED BY <2>4, <3>1, <3>2
  <2>6. \A d \in Decision : Resolve(d) => Moves(d)
    BY <2>4 DEF Resolve
  <2>7. \/ UNCHANGED history
        \/ Raised \/ Escalate \/ Answer
        \/ \E d \in Decision : Resolve(d)
    BY DEF Next, vars, consoleVars, alertVars, Click, AddEvent, StreamStep, GatewayCrash, Forward,
           Subscribe, LoseChannel, Receive, OnOpen, Register, OnClose, GetAlerts, Reconcile, FailReconcile, Done,
           ShowDecision
  <2>8. \A s \in AlertStatus : Moves(s) => Diagram!Next
    BY CommitFollowsArrow
  <2> QED BY <2>1, <2>2, <2>3, <2>5, <2>6, <2>7, <2>8 DEF AlertStatus
<1> QED BY <1>1, <1>2, AlwaysConsoleInv, PTL DEF Spec, Diagram!Spec

=============================================================================
