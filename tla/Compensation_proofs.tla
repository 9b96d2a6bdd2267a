------------------------ MODULE Compensation_proofs ------------------------
(***************************************************************************)
(* Proofs about Compensation for any messages, alerts, users and replicas, *)
(* any batch size and delivery threshold.  MaxScore is 4 as in the model.  *)
(***************************************************************************)
EXTENDS Compensation, InboxConsumer_proofs, FiniteSetTheorems

USE StreamAssumption, InboxAssumption, CompensationAssumption

StoreTypeOK ==
  /\ raised \subseteq Event /\ IsFiniteSet(raised)
  /\ raising \subseteq [alert : Event, seen : Profile]
  /\ cleared \subseteq raised
  /\ profile \in [User -> Profile]
  /\ seen \in [Worker -> Profile]
  /\ IsFiniteSet(processed)

\* What has been sent, and what a loop works on, has been cleared.
SentIsCleared ==
  /\ processed \subseteq cleared
  /\ \A m \in Message : entry[m] # "unsent" => m \in Corrupt \/ EventOf[m] \in cleared
  /\ \A w \in Worker, m \in Message :
       Current(w, m) /\ phase[w] \in {"work", "write"} => m \notin Corrupt

Alerts(u) == Cardinality(OfUser(raised, u))
FalsePositives(u) == Cardinality(OfUser(processed, u))

\* The row counts no more than there is.
Fits(row, u) == row.total <= Alerts(u) /\ row.fp <= FalsePositives(u)

\* So does what the open sessions have read of it.
ReadsFit ==
  /\ \A u \in User : Fits(profile[u], u)
  /\ \A r \in raising : r.alert \notin raised /\ Fits(r.seen, UserOf[r.alert])
  /\ \A r, s \in raising : r.alert = s.alert => r = s
  /\ \A w \in Worker, m \in Message :
       Current(w, m) /\ phase[w] = "write" => Fits(seen[w], UserOf[EventOf[m]])

Counts == CompensatedOnce /\ ScoreJustified

\* Messages, tables and profiles are in order, and so are the reads of the
\* sessions that are open.
IndInv ==
  /\ InboxInv
  /\ StoreTypeOK
  /\ SentIsCleared
  /\ ReadsFit
  /\ Counts

----------------------------------------------------------------------------
(* Counting                                                                *)

LEMMA CountOfUser ==
  ASSUME NEW S, S \subseteq Event, IsFiniteSet(S), NEW u \in User
  PROVE  /\ IsFiniteSet(OfUser(S, u))
         /\ Cardinality(OfUser(S, u)) \in Nat
         /\ Cardinality(OfUser(S, u)) = 0 <=> OfUser(S, u) = {}
<1>1. OfUser(S, u) \subseteq S
  BY DEF OfUser
<1>2. IsFiniteSet(OfUser(S, u))
  BY <1>1, FS_Subset
<1> QED BY <1>2, FS_CardinalityType, FS_EmptySet

\* A new element is one more for its user and changes nothing for the others.
LEMMA OneMore ==
  ASSUME NEW S, S \subseteq Event, IsFiniteSet(S), NEW a \in Event, a \notin S
  PROVE  /\ IsFiniteSet(S \cup {a})
         /\ \A u \in User :
              Cardinality(OfUser(S \cup {a}, u)) =
                IF u = UserOf[a] THEN Cardinality(OfUser(S, u)) + 1
                ELSE Cardinality(OfUser(S, u))
         /\ OfUser(S \cup {a}, UserOf[a]) # {}
         /\ \A u \in User : u # UserOf[a] => OfUser(S \cup {a}, u) = OfUser(S, u)
         /\ \A u \in User : OfUser(S, u) \subseteq OfUser(S \cup {a}, u)
<1>1. /\ OfUser(S \cup {a}, UserOf[a]) = OfUser(S, UserOf[a]) \cup {a}
      /\ a \notin OfUser(S, UserOf[a])
      /\ \A u \in User : u # UserOf[a] => OfUser(S \cup {a}, u) = OfUser(S, u)
  BY DEF OfUser
<1>2. Cardinality(OfUser(S \cup {a}, UserOf[a])) = Cardinality(OfUser(S, UserOf[a])) + 1
  BY <1>1, CountOfUser, FS_AddElement
<1> QED BY <1>1, <1>2, FS_AddElement

\* The counts of a state in order are numbers.
LEMMA CountsAreNat ==
  ASSUME StoreTypeOK, InboxInv, NEW u \in User
  PROVE  /\ Alerts(u) \in Nat /\ FalsePositives(u) \in Nat
         /\ FalsePositives(u) = 0 <=> OfUser(processed, u) = {}
BY CountOfUser DEF StoreTypeOK, InboxInv, InboxTypeOK, Alerts, FalsePositives

----------------------------------------------------------------------------
(* The steps that change no profile                                        *)

StoreRests == DatabaseRests /\ UNCHANGED <<pipeline, profile, seen>>

\* Nothing is counted or cleared, and no loop comes to work or write.
LEMMA MoveIndInv ==
  ASSUME IndInv, InboxInv', StoreRests,
         \A m \in Message : entry'[m] # "unsent" =>
            entry[m] # "unsent" \/ m \in Corrupt \/ EventOf[m] \in cleared,
         LoopsMove
  PROVE  IndInv'
<1> USE DEF IndInv, StoreRests, DatabaseRests, pipeline
<1>1. \A w \in Worker, m \in Message, p \in {"work", "write"} :
         (Current(w, m) /\ phase[w] = p)' => Current(w, m) /\ phase[w] = p
  BY DEF LoopsMove, Rests, Restarts, Current
<1>2. \A u \in User : \A row : Fits(row, u)' <=> Fits(row, u)
  BY DEF Fits, Alerts, FalsePositives
<1>3. StoreTypeOK' /\ Counts'
  BY DEF StoreTypeOK, Counts, CompensatedOnce, ScoreJustified, OfUser
<1>4. SentIsCleared'
  BY <1>1 DEF SentIsCleared
<1>5. ReadsFit'
  BY <1>1, <1>2 DEF ReadsFit, StoreTypeOK
<1> QED BY <1>3, <1>4, <1>5

\* A message goes on to a phase other than "write", without a commit.
LEMMA GoOnIndInv ==
  ASSUME IndInv, NEW w \in Worker, NEW m \in Message, NEW p \in Phase,
         Advance(w, m, p), UNCHANGED <<processed, pipeline, profile, seen>>,
         p # "write", p = "work" => m \notin Corrupt
  PROVE  IndInv'
<1> USE DEF IndInv, pipeline
<1>1. InboxInv'
  BY AdvanceInboxInv
<1>2. /\ \A l \in Message : Current(w, l) => l = m
      /\ \A v \in Worker, l \in Message : Current(v, l)' <=> Current(v, l)
      /\ phase'[w] = p /\ \A v \in Worker : v # w => phase'[v] = phase[v]
  BY OneCurrent, GoToMoves DEF Advance, Current, InboxInv
<1>3. \A u \in User : \A row : Fits(row, u)' <=> Fits(row, u)
  BY DEF Fits, Alerts, FalsePositives
<1>4. StoreTypeOK' /\ Counts'
  BY DEF StoreTypeOK, Counts, CompensatedOnce, ScoreJustified, OfUser
<1>5. SentIsCleared'
  BY <1>2 DEF SentIsCleared, Advance
<1>6. ReadsFit'
  BY <1>2, <1>3 DEF ReadsFit, StoreTypeOK
<1> QED BY <1>1, <1>4, <1>5, <1>6

----------------------------------------------------------------------------
(* The pipeline and the analysts                                           *)

LEMMA ReadProfileIndInv ==
  ASSUME IndInv, NEW a \in Event, ReadProfile(a)
  PROVE  IndInv'
<1> USE DEF IndInv, ReadProfile
<1>1. InboxInv'
  BY StreamInboxInv DEF DatabaseRests, inboxVars
<1>2. \A u \in User : \A row : Fits(row, u)' <=> Fits(row, u)
  BY DEF Fits, Alerts, FalsePositives, inboxVars
<1>3. StoreTypeOK'
  BY DEF StoreTypeOK, inboxVars
<1>4. Counts'
  BY DEF Counts, CompensatedOnce, ScoreJustified, OfUser, inboxVars
<1>5. SentIsCleared'
  BY DEF SentIsCleared, inboxVars, streamVars, Current
<1>6. ReadsFit'
  <2>1. \A r \in raising' : \/ r \in raising
                            \/ r.alert = a /\ r.seen = profile[UserOf[a]]
    OBVIOUS
  <2>2. \A r, s \in raising' : r.alert = s.alert => r = s
    BY DEF ReadsFit
  <2>3. \A r \in raising' : r.alert \notin raised' /\ Fits(r.seen, UserOf[r.alert])'
    BY <1>2, <2>1 DEF ReadsFit, StoreTypeOK
  <2>4. \A w \in Worker, m \in Message :
          (Current(w, m) /\ phase[w] = "write")' => Fits(seen[w], UserOf[EventOf[m]])'
    BY <1>2 DEF ReadsFit, inboxVars, streamVars, Current
  <2> QED BY <1>2, <2>2, <2>3, <2>4 DEF ReadsFit
<1> QED BY <1>1, <1>3, <1>4, <1>5, <1>6

LEMMA MarkFalsePositiveIndInv ==
  ASSUME IndInv, NEW a \in Event, MarkFalsePositive(a)
  PROVE  IndInv'
<1> USE DEF IndInv, MarkFalsePositive
<1>1. InboxInv'
  BY StreamInboxInv DEF DatabaseRests, inboxVars
<1>2. \A u \in User : \A row : Fits(row, u)' <=> Fits(row, u)
  BY DEF Fits, Alerts, FalsePositives, inboxVars
<1>3. StoreTypeOK'
  BY DEF StoreTypeOK, inboxVars
<1>4. Counts'
  BY DEF Counts, CompensatedOnce, ScoreJustified, OfUser, inboxVars
<1>5. SentIsCleared'
  BY DEF SentIsCleared, inboxVars, streamVars, Current
<1>6. ReadsFit'
  BY <1>2 DEF ReadsFit, StoreTypeOK, inboxVars, streamVars, Current
<1> QED BY <1>1, <1>3, <1>4, <1>5, <1>6

\* The pipeline's commit counts its alert on top of what it has read.
LEMMA RaiseAlertIndInv ==
  ASSUME IndInv, NEW r \in raising, RaiseAlert(r)
  PROVE  IndInv'
<1> USE DEF IndInv
<1> DEFINE a == r.alert
           u == UserOf[a]
<1>1. /\ UNCHANGED <<inboxVars, processed, cleared, seen>> /\ raising' = raising \ {r}
      /\ a \in Event /\ u \in User /\ a \notin raised /\ r.seen \in Profile
  BY DEF RaiseAlert, inboxVars, StoreTypeOK, ReadsFit
<1>2. InboxInv'
  BY <1>1, StreamInboxInv DEF DatabaseRests, inboxVars
<1>3. SentIsCleared'
  BY <1>1 DEF SentIsCleared, inboxVars, streamVars, Current
<1>4. CASE UNCHANGED <<raised, profile>>
  <2>1. \A x \in User : \A row : Fits(row, x)' <=> Fits(row, x)
    BY <1>1, <1>4 DEF Fits, Alerts, FalsePositives
  <2>2. StoreTypeOK'
    BY <1>1, <1>4 DEF StoreTypeOK
  <2>3. Counts'
    BY <1>1, <1>4 DEF Counts, CompensatedOnce, ScoreJustified, OfUser
  <2>4. ReadsFit'
    BY <1>1, <1>4, <2>1 DEF ReadsFit, StoreTypeOK, inboxVars, streamVars, Current
  <2> QED BY <1>2, <1>3, <2>2, <2>3, <2>4
<1>5. CASE /\ ~(r.seen = NoProfile /\ profile[u] # NoProfile)
           /\ raised' = raised \cup {a}
           /\ profile' = [profile EXCEPT ![u] = Counted(@, r.seen)]
  <2>1. /\ Counted(profile[u], r.seen) \in Profile
        /\ Counted(profile[u], r.seen).total <= Alerts(u) + 1
        /\ Counted(profile[u], r.seen).fp = profile[u].fp
        /\ Counted(profile[u], r.seen).score = profile[u].score
    <3>1. profile[u] \in Profile /\ Alerts(u) \in Nat /\ r.seen.total <= Alerts(u)
      BY <1>1, CountsAreNat DEF StoreTypeOK, ReadsFit, Fits
    <3> QED BY <1>1, <1>5, <3>1 DEF Counted, Profile, NoProfile, MaxScore
  <2>2. /\ raised' \subseteq Event /\ IsFiniteSet(raised')
        /\ Alerts(u)' = Alerts(u) + 1
        /\ \A x \in User : x # u => Alerts(x)' = Alerts(x)
        /\ \A x \in User : FalsePositives(x)' = FalsePositives(x)
        /\ \A x \in User : OfUser(processed, x)' = OfUser(processed, x)
    <3>1. raised \subseteq Event /\ IsFiniteSet(raised)
      BY DEF StoreTypeOK
    <3>2. \A x \in User : OfUser(raised, x)' = OfUser(raised \cup {a}, x)
      BY <1>5 DEF OfUser
    <3>3. \A x \in User : OfUser(processed, x)' = OfUser(processed, x)
      BY <1>1 DEF OfUser
    <3>4. IsFiniteSet(raised \cup {a})
      BY <1>1, <3>1, OneMore
    <3>5. \A x \in User : Cardinality(OfUser(raised \cup {a}, x)) =
                             IF x = u THEN Alerts(x) + 1 ELSE Alerts(x)
      BY <1>1, <3>1, OneMore DEF Alerts
    <3>6. \A x \in User : Alerts(x)' = Cardinality(OfUser(raised \cup {a}, x))
      BY <3>2 DEF Alerts
    <3>7. \A x \in User : FalsePositives(x)' = FalsePositives(x)
      BY <3>3 DEF FalsePositives
    <3> QED BY <1>1, <1>5, <3>1, <3>3, <3>4, <3>5, <3>6, <3>7
  <2>3. \A x \in User : Alerts(x) \in Nat
    BY CountsAreNat
  <2>4. StoreTypeOK'
    BY <1>1, <1>5, <2>1, <2>2 DEF StoreTypeOK
  <2>5. \A x \in User : profile'[x].fp = profile[x].fp /\ profile'[x].score = profile[x].score
    BY <1>1, <1>5, <2>1 DEF StoreTypeOK
  <2>6. Counts'
    <3>1. CompensatedOnce'
      BY <1>1, <2>2, <2>5 DEF Counts, CompensatedOnce, FalsePositives, OfUser
    <3>2. ScoreJustified'
      <4> SUFFICES ASSUME NEW x \in User, profile'[x].score > 0
                   PROVE  /\ OfUser(processed, x)' # {}
                          /\ profile'[x].score < Alerts(x)'
        BY DEF ScoreJustified, Alerts
      <4>1. OfUser(processed, x) # {} /\ profile[x].score < Alerts(x)
        BY <2>5 DEF Counts, ScoreJustified, Alerts
      <4>2. profile[x].score \in Nat
        BY DEF StoreTypeOK, Profile, MaxScore
      <4> QED BY <2>2, <2>3, <2>5, <4>1, <4>2
    <3> QED BY <3>1, <3>2 DEF Counts
  <2>7. ASSUME NEW x \in User, NEW row \in Profile, Fits(row, x)
        PROVE  Fits(row, x)'
    <3>1. row.total \in Int
      BY DEF Profile
    <3> QED BY <2>2, <2>3, <2>7, <3>1 DEF Fits
  <2>8. ReadsFit'
    <3>1. \A x \in User : Fits(profile[x], x)'
      <4> SUFFICES ASSUME NEW x \in User PROVE Fits(profile[x], x)'
        OBVIOUS
      <4>1. CASE x = u
        <5>1. profile'[u] = Counted(profile[u], r.seen)
          BY <1>1, <1>5 DEF StoreTypeOK
        <5> QED BY <4>1, <5>1, <1>1, <2>1, <2>2 DEF Fits, ReadsFit
      <4>2. CASE x # u
        BY <4>2, <1>5, <2>7 DEF ReadsFit, StoreTypeOK, Fits
      <4> QED BY <4>1, <4>2
    <3>2. \A s \in raising' : s.alert \notin raised' /\ Fits(s.seen, UserOf[s.alert])'
      BY <1>1, <1>5, <2>7 DEF ReadsFit, StoreTypeOK
    <3>3. \A w \in Worker, m \in Message :
            (Current(w, m) /\ phase[w] = "write")' => Fits(seen[w], UserOf[EventOf[m]])'
      BY <1>1, <2>7 DEF ReadsFit, StoreTypeOK, inboxVars, streamVars, Current, Fits
    <3> QED BY <1>1, <3>1, <3>2, <3>3 DEF ReadsFit
  <2> QED BY <1>2, <1>3, <2>4, <2>6, <2>8
<1> QED BY <1>4, <1>5 DEF RaiseAlert

----------------------------------------------------------------------------
(* The recalculation                                                       *)

LEMMA ReadForRecalculationIndInv ==
  ASSUME IndInv, NEW w \in Worker, NEW m \in Message, ReadForRecalculation(w, m)
  PROVE  IndInv'
<1> USE DEF IndInv, pipeline
<1>1. /\ Advance(w, m, "write")
      /\ UNCHANGED <<processed, pipeline, profile>>
      /\ seen' = [seen EXCEPT ![w] = profile[UserOf[EventOf[m]]]]
      /\ phase[w] = "work" /\ UserOf[EventOf[m]] \in User
  BY DEF ReadForRecalculation, Advance, InboxInv, InboxTypeOK
<1>2. InboxInv'
  BY <1>1, AdvanceInboxInv DEF Phase
<1>3. /\ \A l \in Message : Current(w, l) => l = m
      /\ \A v \in Worker, l \in Message : Current(v, l)' <=> Current(v, l)
      /\ \A v \in Worker : v # w => phase'[v] = phase[v] /\ seen'[v] = seen[v]
      /\ seen'[w] = profile[UserOf[EventOf[m]]]
  BY <1>1, OneCurrent, GoToMoves DEF Advance, Current, InboxInv, Phase, StoreTypeOK
<1>4. \A u \in User : \A row : Fits(row, u)' <=> Fits(row, u)
  BY <1>1 DEF Fits, Alerts, FalsePositives
<1>5. StoreTypeOK' /\ Counts'
  BY <1>1 DEF StoreTypeOK, Counts, CompensatedOnce, ScoreJustified, OfUser
<1>6. SentIsCleared'
  BY <1>1, <1>3 DEF SentIsCleared, Advance
<1>7. ReadsFit'
  <2>1. ASSUME NEW v \in Worker, NEW l \in Message, Current(v, l), phase'[v] = "write"
        PROVE  Fits(seen'[v], UserOf[EventOf[l]])
    <3>1. CASE v = w
      BY <3>1, <2>1, <1>1, <1>3 DEF ReadsFit
    <3>2. CASE v # w
      BY <3>2, <2>1, <1>3 DEF ReadsFit
    <3> QED BY <3>1, <3>2
  <2>2. \A v \in Worker, l \in Message :
          (Current(v, l) /\ phase[v] = "write")' => Fits(seen[v], UserOf[EventOf[l]])'
    BY <2>1, <1>3, <1>4
  <2> QED BY <1>1, <1>4, <2>2 DEF ReadsFit, StoreTypeOK
<1> QED BY <1>2, <1>5, <1>6, <1>7

\* The row that is written: one false positive more than was read, and a score
\* that the alerts beyond the first false positive justify, or the old one.
LEMMA RecalculatedRowFits ==
  ASSUME NEW row \in Profile, NEW read \in Profile
  PROVE  LET new == Recalculated(row, read) IN
         /\ new \in Profile
         /\ new.total = (IF read = NoProfile THEN 0 ELSE row.total)
         /\ new.fp = (IF read = NoProfile THEN 1 ELSE read.fp + 1)
         /\ \/ new.score = 0
            \/ new.score = row.score
            \/ new.score < read.total
<1>1. CASE read = NoProfile
  BY <1>1 DEF Recalculated, NoProfile, Profile, MaxScore
<1>2. CASE read # NoProfile
  <2> DEFINE fp == read.fp + 1
             score == Score(read.total, fp)
  <2>1. /\ fp \in Nat /\ fp > 0 /\ score \in 0..MaxScore
        /\ score = 0 \/ score < read.total
    BY DEF Profile, Score, MaxScore
  <2>2. Recalculated(row, read) =
          [row EXCEPT !.fp = fp, !.score = IF score = read.score THEN @ ELSE score]
    BY <1>2 DEF Recalculated
  <2> HIDE DEF fp, score
  <2>3. fp = read.fp + 1
    BY DEF fp
  <2> QED BY <1>2, <2>1, <2>2, <2>3 DEF Profile
<1> QED BY <1>1, <1>2

\* The commit: the inbox row and the profile together, of an event that has
\* been cleared and not been compensated before.
LEMMA CommitIndInv ==
  ASSUME IndInv, NEW w \in Worker, NEW m \in Message, CommitRecalculation(w, m)
  PROVE  IndInv'
<1> USE DEF IndInv, pipeline
<1> DEFINE a == EventOf[m]
           u == UserOf[a]
<1>1. /\ Current(w, m) /\ phase[w] = "write"
      /\ a \notin processed /\ a \in Event /\ u \in User
      /\ ~(seen[w] = NoProfile /\ profile[u] # NoProfile)
      /\ profile' = [profile EXCEPT ![u] = Recalculated(@, seen[w])]
      /\ processed' = processed \cup {a}
      /\ UNCHANGED <<raised, raising, cleared, seen>>
      /\ Fits(seen[w], u)
  BY DEF CommitRecalculation, Conflict, ReadsFit
<1>2. Advance(w, m, "ack")
  BY <1>1 DEF CommitRecalculation, Advance, InboxInv, InboxTypeOK
<1>3. InboxInv'
  BY <1>2, AdvanceInboxInv DEF Phase
<1>4. /\ \A l \in Message : Current(w, l) => l = m
      /\ \A v \in Worker, l \in Message : Current(v, l)' <=> Current(v, l)
      /\ phase'[w] = "ack" /\ \A v \in Worker : v # w => phase'[v] = phase[v]
  BY <1>1, <1>2, OneCurrent, GoToMoves DEF Advance, Current, InboxInv, Phase
<1>5. a \in cleared
  <2>1. m \in todo[w] /\ m \notin Corrupt /\ entry[m] # "unsent"
    BY <1>1 DEF SentIsCleared, Current, InboxInv, InHandIsDelivered
  <2> QED BY <2>1 DEF SentIsCleared
<1>6. SentIsCleared'
  BY <1>1, <1>2, <1>4, <1>5 DEF SentIsCleared, Advance
<1>7. /\ processed \subseteq Event /\ IsFiniteSet(processed)
      /\ \A x \in User : OfUser(processed, x)' = OfUser(processed \cup {a}, x)
      /\ \A x \in User : OfUser(raised, x)' = OfUser(raised, x)
  BY <1>1 DEF StoreTypeOK, InboxInv, InboxTypeOK, OfUser
<1>8. /\ IsFiniteSet(processed \cup {a})
      /\ \A x \in User : Cardinality(OfUser(processed \cup {a}, x)) =
                           IF x = u THEN FalsePositives(x) + 1 ELSE FalsePositives(x)
      /\ OfUser(processed \cup {a}, u) # {}
      /\ \A x \in User : x # u => OfUser(processed \cup {a}, x) = OfUser(processed, x)
  BY <1>1, <1>7, OneMore DEF FalsePositives
<1>9. /\ \A x \in User : FalsePositives(x)' = IF x = u THEN FalsePositives(x) + 1
                                              ELSE FalsePositives(x)
      /\ \A x \in User : Alerts(x)' = Alerts(x)
      /\ \A x \in User : FalsePositives(x) \in Nat /\ Alerts(x) \in Nat
  BY <1>7, <1>8, CountsAreNat DEF FalsePositives, Alerts
<1>10. profile[u] \in Profile /\ seen[w] \in Profile
  BY <1>1 DEF StoreTypeOK
<1>11. /\ profile'[u] = Recalculated(profile[u], seen[w])
       /\ \A x \in User : x # u => profile'[x] = profile[x]
  BY <1>1 DEF StoreTypeOK
<1>12. /\ profile'[u] \in Profile
       /\ profile'[u].total = (IF seen[w] = NoProfile THEN 0 ELSE profile[u].total)
       /\ profile'[u].fp = (IF seen[w] = NoProfile THEN 1 ELSE seen[w].fp + 1)
       /\ \/ profile'[u].score = 0
          \/ profile'[u].score = profile[u].score
          \/ profile'[u].score < seen[w].total
  BY <1>10, <1>11, RecalculatedRowFits
<1>13. StoreTypeOK'
  BY <1>1, <1>8, <1>12 DEF StoreTypeOK
<1>14. Fits(profile[u], u)' /\ profile'[u].fp > 0
  <2>1. profile[u].total <= Alerts(u) /\ seen[w].fp <= FalsePositives(u)
    BY <1>1 DEF ReadsFit, Fits
  <2>2. seen[w].fp \in Nat /\ profile[u].total \in Int
    BY <1>10 DEF Profile
  <2> QED BY <1>1, <1>9, <1>12, <2>1, <2>2 DEF Fits
<1>15. Counts'
  <2>1. CompensatedOnce'
    <3> SUFFICES ASSUME NEW x \in User
                 PROVE  /\ profile'[x].fp <= FalsePositives(x)'
                        /\ OfUser(processed, x)' # {} => profile'[x].fp > 0
      <4>1. processed' \subseteq cleared'
        BY <1>1, <1>5 DEF CompensatedOnce, Counts
      <4> QED BY <4>1 DEF CompensatedOnce, FalsePositives
    <3>1. CASE x = u
      BY <3>1, <1>14 DEF Fits
    <3>2. CASE x # u
      <4>1. /\ profile[x].fp <= FalsePositives(x)
            /\ OfUser(processed, x) # {} => profile[x].fp > 0
        BY DEF Counts, CompensatedOnce, FalsePositives
      <4>2. OfUser(processed, x)' = OfUser(processed, x)
        BY <3>2, <1>7, <1>8
      <4> QED BY <3>2, <1>9, <1>11, <4>1, <4>2
    <3> QED BY <3>1, <3>2
  <2>2. ScoreJustified'
    <3> SUFFICES ASSUME NEW x \in User, profile'[x].score > 0
                 PROVE  OfUser(processed, x)' # {} /\ profile'[x].score < Alerts(x)'
      BY DEF ScoreJustified, Alerts
    <3>1. CASE x = u
      <4>1. profile[u].score > 0 => profile[u].score < Alerts(u)
        BY <1>1 DEF Counts, ScoreJustified, Alerts
      <4>2. seen[w].total <= Alerts(u)
        BY <1>1 DEF Fits
      <4>3. profile'[u].score \in Nat /\ seen[w].total \in Int
        BY <1>10, <1>12 DEF Profile, MaxScore
      <4>4. profile'[u].score < Alerts(u)
        BY <3>1, <1>9, <1>12, <4>1, <4>2, <4>3
      <4>5. OfUser(processed, u)' # {}
        BY <1>7, <1>8
      <4> QED BY <3>1, <1>9, <4>4, <4>5
    <3>2. CASE x # u
      <4>1. profile[x].score > 0 =>
              OfUser(processed, x) # {} /\ profile[x].score < Alerts(x)
        BY DEF Counts, ScoreJustified, Alerts
      <4>2. OfUser(processed, x)' = OfUser(processed, x)
        BY <3>2, <1>7, <1>8
      <4> QED BY <3>2, <1>9, <1>11, <4>1, <4>2
    <3> QED BY <3>1, <3>2
  <2> QED BY <2>1, <2>2 DEF Counts
<1>16. ASSUME NEW x \in User, NEW row \in Profile, Fits(row, x)
       PROVE  Fits(row, x)'
  <2>1. row.fp \in Int
    BY DEF Profile
  <2> QED BY <1>9, <1>16, <2>1 DEF Fits
<1>17. ReadsFit'
  <2>1. ASSUME NEW x \in User PROVE Fits(profile[x], x)'
    <3>1. CASE x = u
      BY <3>1, <1>14 DEF Fits
    <3>2. CASE x # u
      BY <3>2, <1>11, <1>16 DEF ReadsFit, StoreTypeOK, Fits
    <3> QED BY <3>1, <3>2
  <2>2. \A r \in raising : r.seen \in Profile /\ UserOf[r.alert] \in User
    BY DEF StoreTypeOK
  <2>3. \A r \in raising' : r.alert \notin raised' /\ Fits(r.seen, UserOf[r.alert])'
    BY <1>1, <1>16, <2>2 DEF ReadsFit, Fits
  <2>4. \A v \in Worker, l \in Message :
          (Current(v, l) /\ phase[v] = "write")' => Fits(seen[v], UserOf[EventOf[l]])'
    BY <1>1, <1>4, <1>16 DEF ReadsFit, StoreTypeOK, Fits
  <2> QED BY <1>1, <2>1, <2>3, <2>4 DEF ReadsFit
<1> QED BY <1>3, <1>6, <1>13, <1>15, <1>17

----------------------------------------------------------------------------
(* Every behaviour                                                         *)

LEMMA InitIndInv == Init => IndInv
<1> SUFFICES ASSUME Init PROVE IndInv
  OBVIOUS
<1>1. InboxInv
  BY InitInboxInv DEF Init
<1>2. /\ raised = {} /\ raising = {} /\ cleared = {} /\ processed = {}
      /\ profile = [u \in User |-> NoProfile] /\ seen = [w \in Worker |-> NoProfile]
      /\ entry = [m \in Message |-> "unsent"] /\ todo = [w \in Worker |-> {}]
  BY DEF Init, InboxInit, StreamInit
<1>3. NoProfile \in Profile
  BY DEF NoProfile, Profile, MaxScore
<1>4. StoreTypeOK
  BY <1>2, <1>3, FS_EmptySet DEF StoreTypeOK
<1>5. SentIsCleared
  BY <1>2 DEF SentIsCleared, Current
<1>6. /\ \A u \in User : OfUser(processed, u) = {} /\ OfUser(raised, u) = {}
      /\ \A u \in User : Alerts(u) = 0 /\ FalsePositives(u) = 0
  BY <1>2, FS_EmptySet DEF OfUser, Alerts, FalsePositives
<1>7. NoProfile.total = -1 /\ NoProfile.fp = 0 /\ NoProfile.score = 0
  BY DEF NoProfile
<1>8. ReadsFit
  BY <1>2, <1>6, <1>7 DEF ReadsFit, Fits, Current
<1>9. Counts
  BY <1>2, <1>6, <1>7 DEF Counts, CompensatedOnce, ScoreJustified, FalsePositives
<1> QED BY <1>1, <1>4, <1>5, <1>8, <1>9 DEF IndInv

\* Steps of the stream, the pipeline and the analysts leave every loop where it
\* is or at the start of a message.
LEMMA StreamMoves ==
  ASSUME IndInv,
         \/ UNCHANGED vars
         \/ \E a \in Event : ReadProfile(a) \/ MarkFalsePositive(a)
         \/ \E r \in raising : RaiseAlert(r)
         \/ StreamStep(SetupGroup) \/ \E m \in Message : AddCleared(m)
         \/ \E c \in Consumer :
              \/ StreamStep(Read(c)) \/ StreamStep(Crash(c))
              \/ \E B \in SUBSET Message : StreamStep(Reclaim(c, B))
  PROVE  InboxInv' /\ DatabaseRests /\ LoopsMove
<1>1. DatabaseRests
  BY DEF StreamStep, AddCleared, DatabaseRests, ReadProfile, MarkFalsePositive, RaiseAlert,
         vars, inboxVars
<1>2. \/ UNCHANGED inboxVars
      \/ SetupGroup \/ \E m \in Message : Add(m)
      \/ \E c \in Consumer :
           Read(c) \/ Crash(c) \/ \E B \in SUBSET Message : Reclaim(c, B)
  BY DEF StreamStep, AddCleared, ReadProfile, MarkFalsePositive, RaiseAlert, vars
<1> QED BY <1>1, <1>2, StreamInboxInv DEF IndInv

\* The work on a message ends, for better or worse, without a commit.
Ends(w, m) ==
  \/ /\ Ack(w, m) \/ AckDeadLetter(w, m) \/ FailDeadLetter(w, m)
     /\ UNCHANGED <<pipeline, profile, seen>>
  \/ FailRecalculation(w, m) \/ FailAround(w, m)

LEMMA EndMoves ==
  ASSUME IndInv, NEW w \in Worker, NEW m \in Message, Ends(w, m)
  PROVE  InboxInv' /\ StoreRests /\ LoopsMove
<1>1. StoreRests
  BY DEF Ends, Ack, AckDeadLetter, FailDeadLetter, FailRecalculation, FailAround, StoreRests,
         DatabaseRests
<1>2. FailRecalculation(w, m) \/ FailAround(w, m) => GiveUp(w, m)
  BY DEF FailRecalculation, FailAround, GiveUp, Fault, IndInv, InboxInv, InboxTypeOK,
         StreamTypeOK
<1> QED BY <1>1, <1>2, EndInboxInv DEF Ends, IndInv, StoreRests

LEMMA NextIndInv == ASSUME IndInv, [Next]_vars PROVE IndInv'
<1>1. CASE \/ UNCHANGED vars
           \/ StreamStep(SetupGroup) \/ \E m \in Message : AddCleared(m)
           \/ \E c \in Consumer :
                \/ StreamStep(Read(c)) \/ StreamStep(Crash(c))
                \/ \E B \in SUBSET Message : StreamStep(Reclaim(c, B))
  <2>1. StoreRests
    BY <1>1 DEF StreamStep, AddCleared, StoreRests, DatabaseRests, vars, inboxVars, pipeline
  <2>2. InboxInv' /\ LoopsMove
    BY <1>1, StreamMoves
  <2>3. \A m \in Message : entry'[m] # "unsent" =>
           entry[m] # "unsent" \/ m \in Corrupt \/ EventOf[m] \in cleared
    <3>1. ASSUME NEW l \in Message, AddCleared(l)
          PROVE  \A m \in Message : entry'[m] # "unsent" =>
                    entry[m] # "unsent" \/ m \in Corrupt \/ EventOf[m] \in cleared
      <4>1. \A m \in Message : m # l => entry'[m] = entry[m]
        BY <3>1 DEF AddCleared, StreamStep, Add, IndInv, InboxInv, InboxTypeOK, StreamTypeOK
      <4> QED BY <3>1, <4>1 DEF AddCleared
    <3>2. ASSUME NEW c \in Consumer, Read(c)
          PROVE  \A m \in Message : entry'[m] # "unsent" => entry[m] # "unsent"
      BY <3>2 DEF Read, IsNewBatch, InState
    <3> QED BY <1>1, <3>1, <3>2 DEF StreamStep, SetupGroup, Crash, Reclaim, vars, inboxVars,
                                streamVars
  <2> QED BY <2>1, <2>2, <2>3, MoveIndInv
<1>2. ASSUME NEW w \in Worker, NEW m \in Message, Ends(w, m)
      PROVE  IndInv'
  <2>1. InboxInv' /\ StoreRests /\ LoopsMove
    BY <1>2, EndMoves
  <2>2. Current(w, m) /\ (entry' = entry \/ entry' = [entry EXCEPT ![m] = "acked"])
    BY <1>2 DEF Ends, Ack, AckDeadLetter, FailDeadLetter, FailRecalculation, FailAround,
                Acknowledge
  <2>3. \A l \in Message : entry'[l] # "unsent" => entry[l] # "unsent"
    <3>1. entry[m] # "unsent"
      BY <2>2 DEF Current, IndInv, InboxInv, InHandIsDelivered
    <3>2. \A l \in Message : l # m => entry'[l] = entry[l]
      BY <2>2 DEF IndInv, InboxInv, InboxTypeOK, StreamTypeOK
    <3> QED BY <3>1, <3>2
  <2> QED BY <2>1, <2>3, MoveIndInv
<1>3. ASSUME NEW w \in Worker, NEW m \in Message, UNCHANGED <<pipeline, profile, seen>>,
             Check(w, m) \/ DeadLetter(w, m)
      PROVE  IndInv'
  <2>1. PICK p \in Phase : Advance(w, m, p) /\ p # "write" /\ (p = "work" => m \notin Corrupt)
    BY <1>3, CheckAdvances, DeadLetterAdvances DEF IndInv, Phase
  <2>2. UNCHANGED processed
    BY <1>3 DEF Check, DeadLetter
  <2> QED BY <1>3, <2>1, <2>2, GoOnIndInv
<1> QED BY <1>1, <1>2, <1>3, ReadProfileIndInv, MarkFalsePositiveIndInv, RaiseAlertIndInv,
           ReadForRecalculationIndInv, CommitIndInv
        DEF Next, Process, ProcessAround, Ends

LEMMA Always == Spec => []IndInv
<1>1. IndInv /\ [Next]_vars => IndInv'
  BY NextIndInv
<1> QED BY <1>1, InitIndInv, PTL DEF Spec

\* The state of the consumer and the profiles stays in its types; only an
\* alert that is in the table is ever cleared.
THEOREM TypeCorrect == Spec => []TypeOK
<1>1. IndInv => TypeOK
  BY DEF IndInv, InboxInv, StoreTypeOK, TypeOK
<1> QED BY <1>1, Always, PTL

\* A recalculation is acknowledged only when it has been committed or its dead
\* letter has, although the inbox query and XACK are outside the try block.
THEOREM NothingForgotten == Spec => []AckedIsSettled
<1>1. IndInv => AckedIsSettled
  BY DEF IndInv, InboxInv
<1> QED BY <1>1, Always, PTL

\* With a threshold above 1 (the default is 5) no analyst's decision ends as a
\* dead letter, however often the conflict with the pipeline or a failure
\* sends it back.
THEOREM NoGoodDeadLetter ==
  ASSUME MAX_CONSUMER_DELIVERIES > 1
  PROVE  Spec => []OnlyCorruptDeadLettered
<1>1. Init => DeadIsCorrupt
  BY DEF Init, InboxInit, StreamInit, DeadIsCorrupt, OnlyCorruptDeadLettered, Current
<1>2. IndInv /\ DeadIsCorrupt /\ [Next]_vars => DeadIsCorrupt'
  <2> SUFFICES ASSUME IndInv, DeadIsCorrupt, [Next]_vars PROVE DeadIsCorrupt'
    OBVIOUS
  <2>1. ASSUME NEW w \in Worker, NEW m \in Message, NEW p \in Phase, Advance(w, m, p),
               p = "dead" => m \in Corrupt,
               p = "dead_ack" => DeadLetter(w, m),
               UNCHANGED dlq_rows \/ DeadLetter(w, m)
        PROVE  DeadIsCorrupt'
    <3>1. DeadLetter(w, m) => phase[w] = "dead"
      BY DEF DeadLetter
    <3>2. \A l \in Message :
            dlq_rows'[l] > 0 => dlq_rows[l] > 0 \/ (l = m /\ phase[w] = "dead")
      BY <2>1 DEF DeadLetter, IndInv, InboxInv, InboxTypeOK
    <3> QED BY <2>1, <3>1, <3>2, AdvanceDeadIsCorrupt DEF IndInv
  <2>2. ASSUME NEW w \in Worker, NEW m \in Message, Check(w, m) PROVE DeadIsCorrupt'
    <3>1. UNCHANGED dlq_rows
      BY <2>2 DEF Check
    <3> QED BY <2>1, <2>2, <3>1, CheckAdvances, CountUnderThreshold DEF IndInv, Phase
  <2>3. ASSUME NEW w \in Worker, NEW m \in Message, DeadLetter(w, m) PROVE DeadIsCorrupt'
    BY <2>1, <2>3, DeadLetterAdvances DEF IndInv, Phase
  <2>4. ASSUME NEW w \in Worker, NEW m \in Message,
               ReadForRecalculation(w, m) \/ CommitRecalculation(w, m)
        PROVE  DeadIsCorrupt'
    <3>1. Advance(w, m, "write") \/ Advance(w, m, "ack")
      BY <2>4 DEF ReadForRecalculation, CommitRecalculation, Advance, IndInv, InboxInv,
                  InboxTypeOK
    <3>2. UNCHANGED dlq_rows
      BY <2>4 DEF ReadForRecalculation, CommitRecalculation
    <3> QED BY <2>1, <3>1, <3>2 DEF Phase
  <2>5. ASSUME NEW w \in Worker, NEW m \in Message, Ends(w, m) PROVE DeadIsCorrupt'
    BY <2>5, EndMoves, MoveDeadIsCorrupt DEF StoreRests
  <2> QED BY <2>2, <2>3, <2>4, <2>5, StreamMoves, MoveDeadIsCorrupt
          DEF Next, Process, ProcessAround, Ends
<1>3. DeadIsCorrupt => OnlyCorruptDeadLettered
  BY DEF DeadIsCorrupt
<1> QED BY <1>1, <1>2, <1>3, Always, PTL DEF Spec

\* However often a recalculation is delivered and whoever writes the row in
\* between, a false positive is counted at most once, only after the analyst
\* has cleared the alert, and the count does not fall back to zero.
THEOREM CountedOnce == Spec => []CompensatedOnce
<1>1. IndInv => CompensatedOnce
  BY DEF IndInv, Counts
<1> QED BY <1>1, Always, PTL

\* The risk score, computed from a row that may be out of date, is never more
\* than the alerts beyond the first false positive justify.
THEOREM ScoreSound == Spec => []ScoreJustified
<1>1. IndInv => ScoreJustified
  BY DEF IndInv, Counts
<1> QED BY <1>1, Always, PTL

\* Compensation and pipeline never overwrite each other's columns.
THEOREM ColumnsSeparate == Spec => ColumnsKept
<1> DEFINE Kept ==
      \A u \in User : profile[u] # NoProfile =>
       /\ processed' # processed => profile'[u].total = profile[u].total
       /\ raised' # raised => /\ profile'[u].fp = profile[u].fp
                              /\ profile'[u].score = profile[u].score
<1>1. IndInv /\ [Next]_vars => [Kept]_vars
  <2> SUFFICES ASSUME IndInv, Next PROVE Kept
    BY DEF vars
  <2>1. ASSUME NEW w \in Worker, NEW m \in Message, CommitRecalculation(w, m) PROVE Kept
    <3> SUFFICES ASSUME NEW u \in User, profile[u] # NoProfile
                 PROVE  profile'[u].total = profile[u].total /\ raised' = raised
      OBVIOUS
    <3>1. /\ profile' = [profile EXCEPT ![UserOf[EventOf[m]]] = Recalculated(@, seen[w])]
          /\ u = UserOf[EventOf[m]] => seen[w] # NoProfile
          /\ raised' = raised
      BY <2>1 DEF CommitRecalculation, Conflict, pipeline
    <3>2. profile \in [User -> Profile] /\ seen[w] \in Profile
      BY DEF IndInv, StoreTypeOK
    <3>3. CASE u = UserOf[EventOf[m]]
      BY <3>1, <3>2, <3>3, RecalculatedRowFits
    <3> QED BY <3>1, <3>2, <3>3
  <2>2. ASSUME NEW r \in raising, RaiseAlert(r) PROVE Kept
    <3>1. processed' = processed
      BY <2>2 DEF RaiseAlert, inboxVars
    <3>2. \A u \in User : profile'[u] = profile[u] \/ profile'[u] = Counted(profile[u], r.seen)
      BY <2>2 DEF RaiseAlert, IndInv, StoreTypeOK
    <3>3. CASE r.seen = NoProfile /\ profile[UserOf[r.alert]] # NoProfile
      BY <2>2, <3>1, <3>3 DEF RaiseAlert
    <3>4. ASSUME NEW u \in User, profile[u] # NoProfile,
                 ~(r.seen = NoProfile /\ profile[UserOf[r.alert]] # NoProfile)
          PROVE  profile'[u].fp = profile[u].fp /\ profile'[u].score = profile[u].score
      <4>1. profile[u] \in Profile /\ profile \in [User -> Profile]
        BY DEF IndInv, StoreTypeOK
      <4>2. CASE u # UserOf[r.alert]
        BY <2>2, <3>4, <4>1, <4>2 DEF RaiseAlert
      <4>3. CASE u = UserOf[r.alert]
        <5>1. r.seen # NoProfile /\ profile'[u] = Counted(profile[u], r.seen)
          BY <2>2, <3>4, <4>1, <4>3 DEF RaiseAlert
        <5> QED BY <4>1, <5>1 DEF Counted, Profile
      <4> QED BY <4>2, <4>3
    <3> QED BY <3>1, <3>3, <3>4
  <2>3. CASE UNCHANGED <<processed, raised>>
    BY <2>3
  <2> QED BY <2>1, <2>2, <2>3
          DEF Next, Process, ProcessAround, StreamStep, AddCleared, ReadProfile,
              MarkFalsePositive, ReadForRecalculation, FailRecalculation, FailAround,
              Check, Ack, DeadLetter, AckDeadLetter, FailDeadLetter, pipeline, inboxVars
<1> QED BY <1>1, Always, PTL DEF Spec, ColumnsKept

----------------------------------------------------------------------------
(* The rows of the alerts                                                  *)

\* The alerts as the diagram of the README sees them; who is escalated when
\* makes no difference here.
AlertRows ==
  [a \in Event |-> IF a \in cleared THEN "FALSE_POSITIVE"
                   ELSE IF a \in raised THEN "PENDING" ELSE "ABSENT"]

Diagram == INSTANCE AlertStateMachine WITH Alert <- Event, status <- AlertRows

\* What this module takes the pipeline and the analysts to do to the alerts is
\* what the state machine of the README allows, and AlertLifecycle does: an alert
\* is raised once, and cleared once after that.
THEOREM RowsFollowDiagram == Spec => Diagram!Spec
<1>1. Init => Diagram!Init
  BY DEF Init, Diagram!Init, AlertRows
<1>2. IndInv /\ [Next]_vars => [Diagram!Next]_AlertRows
  <2> SUFFICES ASSUME IndInv, [Next]_vars
               PROVE  Diagram!Next \/ UNCHANGED AlertRows
    OBVIOUS
  <2>1. UNCHANGED <<raised, cleared>> => UNCHANGED AlertRows
    BY DEF AlertRows
  <2>2. ASSUME NEW a \in Event,
               \/ raised' = raised \cup {a} /\ a \notin raised /\ UNCHANGED cleared
               \/ cleared' = cleared \cup {a} /\ a \in raised \ cleared /\ UNCHANGED raised
        PROVE  Diagram!Next
    <3>1. \A b \in Event : b # a => AlertRows'[b] = AlertRows[b]
      BY <2>2 DEF AlertRows
    <3>2. Diagram!Arrow(AlertRows[a], AlertRows'[a])
      BY <2>2 DEF AlertRows, IndInv, StoreTypeOK, Diagram!Arrow, Diagram!Unresolved,
                  Diagram!Terminal
    <3>3. AlertRows' \in [Event -> Diagram!AlertStatus]
      BY DEF AlertRows, Diagram!AlertStatus, Diagram!Unresolved, Diagram!Terminal
    <3> QED BY <3>1, <3>2, <3>3 DEF Diagram!Next
  <2>3. ASSUME NEW r \in raising, RaiseAlert(r)
        PROVE  Diagram!Next \/ UNCHANGED AlertRows
    <3>1. r.alert \in Event /\ r.alert \notin raised
      BY DEF IndInv, StoreTypeOK, ReadsFit
    <3>2. /\ UNCHANGED cleared
          /\ raised' = raised \/ raised' = raised \cup {r.alert}
      BY <2>3 DEF RaiseAlert
    <3> QED BY <2>1, <2>2, <3>1, <3>2
  <2>4. \/ UNCHANGED <<raised, cleared>>
        \/ \E r \in raising : RaiseAlert(r)
        \/ \E a \in Event : MarkFalsePositive(a)
    BY DEF Next, vars, pipeline, ReadProfile, StreamStep, AddCleared, Process, ProcessAround,
           ReadForRecalculation, CommitRecalculation, FailRecalculation, FailAround
  <2> QED BY <2>1, <2>2, <2>3, <2>4 DEF MarkFalsePositive
<1> QED BY <1>1, <1>2, Always, PTL DEF Spec, Diagram!Spec

============================================================================
