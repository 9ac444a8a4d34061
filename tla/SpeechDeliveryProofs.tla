------------------------ MODULE SpeechDeliveryProofs ------------------------
(***************************************************************************)
(* Theorems about SpeechOutbox, the bridge's end of the delivery of        *)
(* translated captions, and about SpeechDelivery, both ends of it, for     *)
(* every set of captions and every limit of attempts.                      *)
(*                                                                         *)
(* The bridge's end is proved with any answer at any time, IInv; then the  *)
(* service's, ServiceFacts, which makes at most one task of an utterance;  *)
(* DeliveryInv is both, since the bridge in SpeechDelivery takes steps of  *)
(* the bridge of SpeechOutbox only (BridgeIsOutboxStep).                   *)
(***************************************************************************)
EXTENDS SpeechDelivery, SequenceTheorems, WellFoundedInduction, TLAPS

-----------------------------------------------------------------------------
(***************************************************************************)
(* The bridge's end.  Sequences                                            *)
(***************************************************************************)

\* A set of indices has a least element.
LEMMA LeastIndex ==
  ASSUME NEW T \in SUBSET Nat, T # {}
  PROVE  \E x \in T : \A y \in T : x <= y
<1>1. \E x \in T : \A y \in T : ~ (<<y, x>> \in OpToRel(<, Nat))
  BY NatLessThanWellFounded, WFMin
<1>2. PICK x \in T : \A y \in T : ~ (<<y, x>> \in OpToRel(<, Nat))
  BY <1>1
<1>3. \A y \in T : ~ (y < x)
  BY <1>2 DEF OpToRel
<1> QED BY <1>3

\* The oldest row of a set of rows is one of them, and none before it is.
LEMMA OldestProperties ==
  ASSUME order \in Seq(Utterances), RowsListed,
         NEW S, S \subseteq {u \in Utterances : row[u] # "none"}, S # {}
  PROVE  \E k \in DOMAIN order :
           /\ Oldest(S) = order[k] /\ order[k] \in S
           /\ \A j \in 1 .. (k - 1) : order[j] \notin S
<1> DEFINE T == {i \in DOMAIN order : order[i] \in S}
<1>1. T \in SUBSET Nat /\ T # {}
  <2>1. PICK u \in S : u \in Utterances /\ row[u] # "none"
    OBVIOUS
  <2>2. PICK i \in DOMAIN order : order[i] = u
    BY <2>1 DEF RowsListed
  <2> QED BY <2>1, <2>2
<1>2. PICK k \in T : \A y \in T : k <= y
  BY <1>1, LeastIndex
<1>3. \A j \in 1 .. (k - 1) : order[j] \notin S
  <2> SUFFICES ASSUME NEW j \in 1 .. (k - 1), order[j] \in S PROVE FALSE
    OBVIOUS
  <2>1. j \in DOMAIN order /\ j < k
    OBVIOUS
  <2> QED BY <1>2, <2>1
<1> DEFINE P(i) == order[i] \in S /\ \A j \in 1 .. (i - 1) : order[j] \notin S
           c == CHOOSE i \in DOMAIN order : P(i)
<1>4. k \in DOMAIN order /\ P(k)
  BY <1>3
<1>5. c \in DOMAIN order /\ P(c)
  BY <1>4
<1>6. Oldest(S) = order[c]
  BY DEF Oldest
<1> QED BY <1>5, <1>6

\* What the work queue holds after an item was added or finished.
LEMMA WorkProperties ==
  ASSUME work \in Seq(Utterances), NEW u \in Utterances
  PROVE  /\ Append(work, u) \in Seq(Utterances) /\ Append(work, u) # <<>>
         /\ u \in ToSet(Append(work, u))
         /\ \A v \in ToSet(work) : v \in ToSet(Append(work, u))
         /\ work # <<>> => Head(Append(work, u)) = Head(work)
         /\ work # <<>> => Head(work) \in Utterances /\ Tail(work) \in Seq(Utterances)
         /\ work # <<>> => \A v \in ToSet(work) : v = Head(work) \/ v \in ToSet(Tail(work))
<1>1. Append(work, u) \in Seq(Utterances) /\ Append(work, u) # <<>>
  BY AppendProperties
<1>2. u \in ToSet(Append(work, u))
  <2>1. Append(work, u)[Len(work) + 1] = u /\ Len(work) + 1 \in DOMAIN Append(work, u)
    BY AppendProperties
  <2> QED BY <2>1 DEF ToSet
<1>3. \A v \in ToSet(work) : v \in ToSet(Append(work, u))
  <2> SUFFICES ASSUME NEW i \in DOMAIN work PROVE work[i] \in ToSet(Append(work, u))
    BY DEF ToSet
  <2>1. Append(work, u)[i] = work[i] /\ i \in DOMAIN Append(work, u)
    BY AppendProperties
  <2> QED BY <2>1 DEF ToSet
<1>4. work # <<>> => Head(Append(work, u)) = Head(work)
  BY HeadTailAppend
<1>5. work # <<>> => Head(work) \in Utterances /\ Tail(work) \in Seq(Utterances)
  OBVIOUS
<1>6. ASSUME work # <<>>, NEW i \in DOMAIN work
      PROVE  work[i] = Head(work) \/ work[i] \in ToSet(Tail(work))
  <2>1. CASE i = 1
    BY <2>1
  <2>2. CASE i # 1
    <3>1. i - 1 \in DOMAIN Tail(work) /\ Tail(work)[i - 1] = work[i]
      BY <1>6, <2>2
    <3> QED BY <3>1 DEF ToSet
  <2> QED BY <2>1, <2>2
<1>7. work # <<>> => \A v \in ToSet(work) : v = Head(work) \/ v \in ToSet(Tail(work))
  BY <1>6 DEF ToSet
<1> QED BY <1>1, <1>2, <1>3, <1>4, <1>5, <1>7

-----------------------------------------------------------------------------
(***************************************************************************)
(* The delivery thread's queries                                           *)
(***************************************************************************)

\* The row whose status _notify reads is a row.
LEMMA NoticeIsListed ==
  ASSUME OutboxTypeOK, RowsListed, Unnotified # {}
  PROVE  Oldest(Unnotified) \in Utterances /\ row[Oldest(Unnotified)] # "none"
<1>1. Unnotified \subseteq {u \in Utterances : row[u] # "none"}
  BY DEF Unnotified
<1>2. PICK k \in DOMAIN order :
        Oldest(Unnotified) = order[k] /\ order[k] \in Unnotified
  BY <1>1, OldestProperties DEF OutboxTypeOK
<1> QED BY <1>1, <1>2

\* The row _next finds is the first that is to be delivered.
LEMMA NextIsReady ==
  ASSUME OutboxTypeOK, RowsListed, Ready # {}
  PROVE  \E k \in DOMAIN order :
           /\ Oldest(Ready) = order[k] /\ order[k] \in Ready
           /\ \A j \in 1 .. (k - 1) : order[j] \notin Ready
<1>1. Ready \subseteq {u \in Utterances : row[u] # "none"}
  BY DEF Ready
<1> QED BY <1>1, OldestProperties DEF OutboxTypeOK

-----------------------------------------------------------------------------
(***************************************************************************)
(* The initial states                                                      *)
(***************************************************************************)

LEMMA InitIInv == OutboxInit => IInv
<1> SUFFICES ASSUME OutboxInit PROVE IInv
  OBVIOUS
<1> USE DEF OutboxInit
<1>1. 0 \in 0 .. MaxAttempts /\ 0 \notin Utterances
  BY AttemptAssumption, UtteranceAssumption
<1>2. OutboxTypeOK
  <2>1. /\ NoStatus \in (RowStates \cup {"none"}) \X Nat
        /\ NoNotice \in (Utterances \cup {0}) \X ((RowStates \cup {"none"}) \X Nat)
    BY DEF NoStatus, NoNotice
  <2>2. /\ accepted \subseteq Utterances /\ work \in Seq(Utterances) /\ order \in Seq(Utterances)
        /\ row \in [Utterances -> RowStates \cup {"none"}]
        /\ attempts \in [Utterances -> 0 .. MaxAttempts]
        /\ notified \in [Utterances -> BOOLEAN] /\ sent \in [Utterances -> Nat]
    BY <1>1
  <2>3. shown \in [Utterances -> ((RowStates \cup {"none"}) \X Nat) \cup {Rejected}]
    BY <2>1
  <2> QED BY <2>1, <2>2, <2>3 DEF OutboxTypeOK
<1>3. RowsListed /\ ItemKnown /\ TriedInOrder
  BY DEF RowsListed, ItemKnown, TriedInOrder
<1>4. AttemptHeld /\ SeenListed /\ AttemptsCounted /\ NothingDropped
  BY DEF AttemptHeld, SeenListed, AttemptsCounted, NothingDropped
<1> QED BY <1>2, <1>3, <1>4 DEF IInv

-----------------------------------------------------------------------------
(***************************************************************************)
(* Types                                                                   *)
(***************************************************************************)

LEMMA TypeKept ==
  ASSUME IInv, [BridgeNext(AnyAnswer)]_outboxVars
  PROVE  OutboxTypeOK'
<1> USE DEF storeVars, historyVars, flagVars, dispatchVars, deliverVars, NoStatus, NoNotice
<1>1. OutboxTypeOK
  BY DEF IInv
<1>2. ASSUME NEW u \in Utterances, Accept(u) PROVE OutboxTypeOK'
  <2>1. work' \in Seq(Utterances)
    BY <1>1, <1>2, WorkProperties DEF Accept, OutboxTypeOK
  <2> QED BY <1>1, <1>2, <2>1 DEF Accept, OutboxTypeOK
<1>3. CASE Close \/ CloseTimesOut
  BY <1>1, <1>3 DEF Close, CloseTimesOut, OutboxTypeOK
<1>4. ASSUME work # <<>> PROVE Item \in Utterances /\ Status(Item) \in (RowStates \cup {"none"}) \X Nat
  <2>1. Item \in Utterances
    BY <1>1, <1>4, HeadTailProperties DEF OutboxTypeOK, Item
  <2>2. attempts[Item] \in Nat
    BY <1>1, <2>1, AttemptAssumption DEF OutboxTypeOK
  <2> QED BY <1>1, <2>1, <2>2 DEF OutboxTypeOK, Status
<1>5. CASE TakeItem
  BY <1>1, <1>4, <1>5 DEF TakeItem, OutboxTypeOK
<1>6. CASE Restore
  BY <1>1, <1>6 DEF Restore, OutboxTypeOK
<1>7. CASE NoTranslation
  BY <1>1, <1>7 DEF NoTranslation, OutboxTypeOK
<1>8. CASE Enqueue
  <2>1. Item \in Utterances
    BY <1>4, <1>8 DEF IInv, ItemKnown, Enqueue
  <2>2. order' \in Seq(Utterances)
    BY <1>1, <1>8, <2>1, AppendProperties DEF Enqueue, OutboxTypeOK
  <2> QED BY <1>1, <1>8, <2>1, <2>2 DEF Enqueue, OutboxTypeOK, RowStates
<1>9. CASE EnqueueFails
  BY <1>1, <1>9 DEF EnqueueFails, OutboxTypeOK, RowStates, Terminal
<1>10. CASE Announce
  BY <1>1, <1>10 DEF Announce, OutboxTypeOK
<1>11. ASSUME NEW u, NEW status, Acknowledge(u, status)
       PROVE  notified' \in [Utterances -> BOOLEAN]
  BY <1>1, <1>11, Zenon DEF Acknowledge, OutboxTypeOK
<1>12. CASE AcknowledgeShown
  <2>1. notified' \in [Utterances -> BOOLEAN]
    BY <1>11, <1>12 DEF AcknowledgeShown
  <2> QED BY <1>1, <1>12, <2>1 DEF AcknowledgeShown, OutboxTypeOK
<1>13. CASE FinishItem
  <2>1. work # <<>>
    BY <1>13 DEF FinishItem, IInv, ItemKnown
  <2>2. work' \in Seq(Utterances)
    BY <1>1, <1>13, <2>1, HeadTailProperties DEF FinishItem, TaskDone, OutboxTypeOK
  <2> QED BY <1>1, <1>13, <2>2 DEF FinishItem, OutboxTypeOK
<1>14. CASE LeaveLoop \/ JoinDelivery
  BY <1>1, <1>14 DEF LeaveLoop, JoinDelivery, OutboxTypeOK
<1>15. ASSUME ReadNotice, Unnotified # {}
       PROVE  seen' \in (Utterances \cup {0}) \X ((RowStates \cup {"none"}) \X Nat)
  <2>1. Oldest(Unnotified) \in Utterances
    BY <1>1, <1>15, NoticeIsListed DEF IInv
  <2>2. attempts[Oldest(Unnotified)] \in Nat
    BY <1>1, <2>1, AttemptAssumption DEF OutboxTypeOK
  <2> QED BY <1>1, <1>15, <2>1, <2>2 DEF OutboxTypeOK, Status, ReadNotice
<1>16. CASE BeginRound
  BY <1>1, <1>15, <1>16 DEF BeginRound, ReadNotice, OutboxTypeOK
<1>17. CASE Publish
  <2>1. seen[2] \in (RowStates \cup {"none"}) \X Nat
    BY <1>1 DEF OutboxTypeOK
  <2>2. shown' \in [Utterances -> ((RowStates \cup {"none"}) \X Nat) \cup {Rejected}]
    BY <1>1, <1>17, <2>1 DEF Publish, OutboxTypeOK
  <2>3. seen' \in (Utterances \cup {0}) \X ((RowStates \cup {"none"}) \X Nat)
    BY <1>1, <1>17 DEF Publish, LeaveNotify, OutboxTypeOK
  <2> QED BY <1>1, <1>17, <2>2, <2>3 DEF Publish, LeaveNotify, OutboxTypeOK
<1>18. CASE AcknowledgeNotice
  <2>1. notified' \in [Utterances -> BOOLEAN]
    BY <1>11, <1>18 DEF AcknowledgeNotice
  <2> QED BY <1>1, <1>18, <2>1 DEF AcknowledgeNotice, LeaveNotify, OutboxTypeOK
<1>19. CASE TakeRow
  <2>1. CASE Ready = {}
    BY <1>1, <1>19, <2>1 DEF TakeRow, OutboxTypeOK
  <2>2. CASE Ready # {}
    <3>1. Oldest(Ready) \in Utterances
      BY <1>1, <2>2, NextIsReady DEF IInv, Ready
    <3>2. attempts[Oldest(Ready)] \in 0 .. MaxAttempts
      BY <1>1, <3>1 DEF OutboxTypeOK
    <3>3. MayAttempt(Oldest(Ready)) => attempts[Oldest(Ready)] + 1 \in 0 .. MaxAttempts
      BY <3>2, AttemptAssumption DEF MayAttempt
    <3> QED BY <1>1, <1>19, <2>2, <3>1, <3>3 DEF TakeRow, SetRow, OutboxTypeOK, RowStates, Terminal
  <2> QED BY <2>1, <2>2
<1>20. CASE CheckClosing
  BY <1>1, <1>20 DEF CheckClosing, OutboxTypeOK
<1>21. CASE NoticeMarked
  BY <1>1, <1>15, <1>21 DEF NoticeMarked, ReadNotice, LeaveNotify, OutboxTypeOK
<1>22. CASE SendRequest
  <2>1. target \in Utterances /\ sent[target] < attempts[target]
    BY <1>1, <1>22 DEF IInv, AttemptHeld, AttemptsCounted, SendRequest, OutboxTypeOK
  <2>2. attempts[target] - 1 \in 0 .. MaxAttempts /\ sent[target] + 1 \in Nat
    BY <1>1, <2>1, AttemptAssumption DEF OutboxTypeOK
  <2> QED BY <1>1, <1>22, <2>1, <2>2 DEF SendRequest, SetRow, OutboxTypeOK, RowStates
<1>23. ASSUME NEW answer \in AnyAnswer, Answered(answer) PROVE OutboxTypeOK'
  <2>1. Outcome(answer, attempts[target]) \in RowStates
    BY DEF Outcome, RowStates, Terminal
  <2> QED BY <1>1, <1>23, <2>1 DEF Answered, SetRow, OutboxTypeOK
<1>24. CASE DeliveryFails
  BY <1>1, <1>24 DEF DeliveryFails, OutboxTypeOK
<1>25. CASE BridgeStops
  BY <1>1, <1>25 DEF BridgeStops, OutboxTypeOK
<1>26. CASE BridgeStarts
  <2>1. row' \in [Utterances -> RowStates \cup {"none"}] /\ notified' \in [Utterances -> BOOLEAN]
    BY <1>1, <1>26 DEF BridgeStarts, Recover, OutboxTypeOK, RowStates
  <2> QED BY <1>1, <1>26, <2>1 DEF BridgeStarts, Recover, OutboxTypeOK
<1>27. CASE UNCHANGED outboxVars
  BY <1>1, <1>27 DEF outboxVars, OutboxTypeOK
<1> QED BY <1>2, <1>3, <1>5, <1>6, <1>7, <1>8, <1>9, <1>10, <1>12, <1>13, <1>14, <1>16,
     <1>17, <1>18, <1>19, <1>20, <1>21, <1>22, <1>23, <1>24, <1>25, <1>26, <1>27
     DEF BridgeNext, DispatchNext, DeliverNext

-----------------------------------------------------------------------------
(***************************************************************************)
(* The outbox rows                                                         *)
(***************************************************************************)

\* The steps that change a row, and the actions that make them.
RowStep ==
  \/ Enqueue \/ TakeRow \/ SendRequest \/ BridgeStarts
  \/ \E answer \in AnyAnswer : Answered(answer)

\* All others leave the outbox alone, except for the notified flags.
LEMMA OtherSteps ==
  ASSUME [BridgeNext(AnyAnswer)]_outboxVars, ~RowStep
  PROVE  UNCHANGED <<order, row, attempts, sent>>
<1> USE DEF storeVars, historyVars, flagVars, dispatchVars, deliverVars
<1>1. CASE \/ \E u \in Utterances : Accept(u)
           \/ Close \/ CloseTimesOut \/ DeliveryFails \/ BridgeStops
           \/ UNCHANGED outboxVars
  BY <1>1 DEF Accept, Close, CloseTimesOut, DeliveryFails, BridgeStops, outboxVars
<1>2. CASE DispatchNext
  BY <1>2 DEF DispatchNext, RowStep, TakeItem, Restore, NoTranslation, EnqueueFails, Announce,
     AcknowledgeShown, FinishItem, LeaveLoop, JoinDelivery
<1>3. CASE DeliverNext(AnyAnswer)
  BY <1>3 DEF DeliverNext, RowStep, BeginRound, Publish, AcknowledgeNotice, CheckClosing,
     NoticeMarked
<1> QED BY <1>1, <1>2, <1>3 DEF BridgeNext, RowStep

\* A row that _next finds becomes one that is being sent or has failed.
LEMMA TakeRowFacts ==
  ASSUME IInv, TakeRow, Ready # {}
  PROVE  \E k \in DOMAIN order :
           /\ order[k] \in Utterances /\ order[k] \in Ready
           /\ \A j \in 1 .. (k - 1) : order[j] \notin Ready
           /\ \E s \in {"sending", "failed"} :
                /\ row' = [row EXCEPT ![order[k]] = s]
                /\ s = "sending" =>
                     /\ attempts' = [attempts EXCEPT ![order[k]] = @ + 1]
                     /\ target' = order[k] /\ deliver' = "marked"
                /\ s = "failed" =>
                     attempts' = attempts /\ target' = target /\ deliver' = "loop"
<1>1. PICK k \in DOMAIN order :
        /\ Oldest(Ready) = order[k] /\ order[k] \in Ready
        /\ \A j \in 1 .. (k - 1) : order[j] \notin Ready
  BY NextIsReady DEF IInv
<1>2. order[k] \in Utterances
  BY <1>1 DEF Ready
<1>3. CASE MayAttempt(order[k])
  BY <1>1, <1>2, <1>3 DEF TakeRow, SetRow
<1>4. CASE ~MayAttempt(order[k])
  BY <1>1, <1>2, <1>4 DEF TakeRow, SetRow
<1> QED BY <1>3, <1>4

LEMMA RowsListedKept ==
  ASSUME IInv, [BridgeNext(AnyAnswer)]_outboxVars
  PROVE  RowsListed'
<1>1. OutboxTypeOK /\ RowsListed /\ ItemKnown /\ AttemptHeld
  BY DEF IInv
<1>2. ASSUME order' = order, DOMAIN row' = DOMAIN row,
             \A u \in Utterances : row'[u] = "none" <=> row[u] = "none"
      PROVE  RowsListed'
  <2>1. \A i \in DOMAIN order : order[i] \in Utterances
    BY <1>1 DEF OutboxTypeOK
  <2> QED BY <1>1, <1>2, <2>1 DEF RowsListed
<1>3. CASE Enqueue
  <2>1. Item \in Utterances /\ row[Item] = "none"
    BY <1>1, <1>3, HeadTailProperties DEF Enqueue, ItemKnown, OutboxTypeOK, Item
  <2> DEFINE n == Len(order) + 1
  <2>2. /\ DOMAIN order' = DOMAIN order \cup {n} /\ n \notin DOMAIN order
        /\ order'[n] = Item /\ \A i \in DOMAIN order : order'[i] = order[i]
    <3>1. order \in Seq(Utterances) /\ order' = Append(order, Item)
      BY <1>1, <1>3 DEF Enqueue, OutboxTypeOK
    <3>2. Len(order) \in Nat /\ DOMAIN order = 1 .. Len(order)
      BY <3>1, LenProperties
    <3>3. /\ order' \in Seq(Utterances) /\ Len(order') = n /\ order'[n] = Item
          /\ \A i \in 1 .. Len(order) : order'[i] = order[i]
      BY <2>1, <3>1, AppendProperties
    <3>4. DOMAIN order' = 1 .. n
      BY <3>3, LenProperties
    <3> HIDE DEF n
    <3>5. n = Len(order) + 1
      BY DEF n
    <3> QED BY <3>2, <3>3, <3>4, <3>5
  <2>3. /\ row'[Item] # "none"
        /\ \A u \in Utterances \ {Item} : row'[u] = row[u]
    BY <1>1, <1>3, <2>1 DEF Enqueue, OutboxTypeOK
  <2>4. \A i \in DOMAIN order : order[i] \in Utterances /\ order[i] # Item
    BY <1>1, <2>1 DEF OutboxTypeOK, RowsListed
  <2> HIDE DEF n
  <2>5. \A u \in Utterances : row'[u] # "none" => \E i \in DOMAIN order' : order'[i] = u
    <3> SUFFICES ASSUME NEW u \in Utterances, row'[u] # "none"
                 PROVE  \E i \in DOMAIN order' : order'[i] = u
      OBVIOUS
    <3>1. CASE u = Item
      BY <2>2, <3>1
    <3>2. CASE u # Item
      <4>1. PICK i \in DOMAIN order : order[i] = u
        BY <1>1, <2>3, <3>2 DEF RowsListed
      <4> QED BY <2>2, <4>1
    <3> QED BY <3>1, <3>2
  <2>6. \A i \in DOMAIN order' : row'[order'[i]] # "none"
    BY <1>1, <2>2, <2>3, <2>4 DEF RowsListed
  <2>7. \A i, j \in DOMAIN order' : order'[i] = order'[j] => i = j
    BY <1>1, <2>2, <2>4 DEF RowsListed
  <2> QED BY <2>5, <2>6, <2>7 DEF RowsListed
<1>4. CASE TakeRow
  <2>1. CASE Ready = {}
    BY <1>2, <1>4, <2>1 DEF TakeRow
  <2>2. CASE Ready # {}
    <3>1. PICK u \in Ready, s \in {"sending", "failed"} : row' = [row EXCEPT ![u] = s]
      BY <1>4, <2>2, TakeRowFacts
    <3>2. order' = order
      BY <1>4 DEF TakeRow
    <3> QED BY <1>1, <1>2, <3>1, <3>2 DEF Ready, OutboxTypeOK
  <2> QED BY <2>1, <2>2
<1>5. ASSUME target # 0, order' = order, NEW s \in RowStates, row' = [row EXCEPT ![target] = s]
      PROVE  RowsListed'
  BY <1>1, <1>2, <1>5 DEF AttemptHeld, OutboxTypeOK, RowStates, Terminal
<1>6. CASE SendRequest
  BY <1>1, <1>2, <1>5, <1>6 DEF SendRequest, SetRow, AttemptHeld, RowStates
<1>7. ASSUME NEW answer \in AnyAnswer, Answered(answer) PROVE RowsListed'
  <2>1. Outcome(answer, attempts[target]) \in RowStates
    BY DEF Outcome, RowStates, Terminal
  <2> QED BY <1>1, <1>5, <1>7, <2>1 DEF Answered, SetRow, AttemptHeld
<1>8. CASE BridgeStarts
  BY <1>1, <1>2, <1>8 DEF BridgeStarts, Recover, OutboxTypeOK
<1>9. CASE ~RowStep
  BY <1>2, <1>9, OtherSteps
<1> QED BY <1>3, <1>4, <1>6, <1>7, <1>8, <1>9 DEF RowStep

LEMMA TriedInOrderKept ==
  ASSUME IInv, [BridgeNext(AnyAnswer)]_outboxVars
  PROVE  TriedInOrder'
<1>1. OutboxTypeOK /\ RowsListed /\ ItemKnown /\ AttemptHeld /\ TriedInOrder /\ AttemptsCounted
  BY DEF IInv
<1>2. /\ DOMAIN order = 1 .. Len(order) /\ Len(order) \in Nat
      /\ \A i \in DOMAIN order : order[i] \in Utterances
  BY <1>1 DEF OutboxTypeOK
\* Nothing is tried that was not, and what was settled stays settled.
<1>3. ASSUME order' = order,
             \A u \in Utterances : Tried(u)' => Tried(u),
             \A u \in Utterances : row[u] \in Terminal => row'[u] \in Terminal
      PROVE  TriedInOrder'
  BY <1>1, <1>2, <1>3 DEF TriedInOrder
<1>4. CASE Enqueue
  <2>1. PICK u \in Utterances : u = Item /\ row[u] = "none"
    BY <1>1, <1>4, HeadTailProperties DEF Enqueue, ItemKnown, OutboxTypeOK, Item
  <2> DEFINE n == Len(order) + 1
  <2>2. /\ DOMAIN order' = DOMAIN order \cup {n}
        /\ order'[n] = u /\ \A i \in DOMAIN order : order'[i] = order[i]
    <3>1. order' = Append(order, u) /\ order \in Seq(Utterances)
      BY <1>1, <1>4, <2>1 DEF Enqueue, OutboxTypeOK
    <3> QED BY <3>1, AppendProperties
  <2>3. row' = [row EXCEPT ![u] = "queued"] /\ sent' = sent
    BY <1>4, <2>1 DEF Enqueue, historyVars
  <2>4. ~(sent[u] > 0)
    <3>1. sent[u] \in Nat /\ sent[u] <= 0
      BY <1>1, <2>1 DEF AttemptsCounted, OutboxTypeOK
    <3> QED BY <3>1
  <2>5. \A i \in DOMAIN order : order[i] # u
    BY <1>1, <2>1 DEF RowsListed
  <2>6. \A v \in Utterances : row'[v] = IF v = u THEN "queued" ELSE row[v]
    BY <1>1, <2>3 DEF OutboxTypeOK
  <2>7. \A i \in DOMAIN order : i < n
    BY <1>2
  <2> HIDE DEF n
  <2> SUFFICES ASSUME NEW i \in DOMAIN order', NEW j \in DOMAIN order', i < j,
                      row'[order'[j]] \notin {"none", "queued"} \/ sent'[order'[j]] > 0
               PROVE  row'[order'[i]] \in Terminal
    BY DEF TriedInOrder, Tried
  <2>8. j \in DOMAIN order
    BY <2>1, <2>2, <2>3, <2>4, <2>6
  <2>9. i \in DOMAIN order
    <3>1. i # n
      BY <1>2, <2>7, <2>8 DEF n
    <3> QED BY <2>2, <3>1
  <2>10. Tried(order[j])
    BY <1>2, <2>2, <2>3, <2>5, <2>6, <2>8 DEF Tried
  <2> QED BY <1>1, <1>2, <2>2, <2>5, <2>6, <2>8, <2>9, <2>10 DEF TriedInOrder
<1>5. CASE TakeRow
  <2>1. order' = order /\ sent' = sent
    BY <1>5 DEF TakeRow, historyVars
  <2>2. CASE Ready = {}
    BY <1>3, <1>5, <2>1, <2>2 DEF TakeRow, Tried
  <2>3. CASE Ready # {}
    <3>1. PICK k \in DOMAIN order, s \in {"sending", "failed"} :
            /\ order[k] \in Ready /\ \A j \in 1 .. (k - 1) : order[j] \notin Ready
            /\ row' = [row EXCEPT ![order[k]] = s]
      BY <1>5, <2>3, TakeRowFacts
    <3>2. \A u \in Utterances : u # order[k] => row'[u] = row[u] /\ (Tried(u)' <=> Tried(u))
      BY <1>1, <2>1, <3>1 DEF Tried, OutboxTypeOK
    <3>3. row[order[k]] \notin Terminal
      BY <3>1 DEF Ready, Terminal
    <3>4. \A i \in DOMAIN order : i < k => row[order[i]] \in Terminal
      <4> SUFFICES ASSUME NEW i \in DOMAIN order, i < k PROVE row[order[i]] \in Terminal
        OBVIOUS
      <4>1. i \in 1 .. (k - 1)
        BY <1>2
      <4>2. row[order[i]] \notin {"none", "queued", "retrying", "sending"}
        BY <1>1, <1>2, <1>5, <3>1, <4>1, UtteranceAssumption
           DEF RowsListed, AttemptHeld, TakeRow, Ready
      <4>3. row[order[i]] \in RowStates \cup {"none"}
        BY <1>1, <1>2 DEF OutboxTypeOK
      <4> QED BY <4>2, <4>3 DEF RowStates
    <3> SUFFICES ASSUME NEW i \in DOMAIN order, NEW j \in DOMAIN order, i < j,
                        row'[order[j]] \notin {"none", "queued"} \/ sent'[order[j]] > 0
                 PROVE  row'[order[i]] \in Terminal
      BY <2>1 DEF TriedInOrder, Tried
    <3>5. row[order[i]] \in Terminal
      <4>1. CASE j = k
        BY <3>4, <4>1
      <4>2. CASE j # k
        <5>1. order[j] # order[k] /\ order[j] \in Utterances
          BY <1>1, <1>2, <4>2 DEF RowsListed
        <5>2. Tried(order[j])
          BY <2>1, <3>2, <5>1 DEF Tried
        <5> QED BY <1>1, <5>2 DEF TriedInOrder
      <4> QED BY <4>1, <4>2
    <3> QED BY <1>2, <3>2, <3>3, <3>5
  <2> QED BY <2>2, <2>3
<1>6. ASSUME target # 0, order' = order, NEW s \in RowStates, row' = [row EXCEPT ![target] = s],
             \A u \in Utterances : u # target => sent'[u] = sent[u]
      PROVE  TriedInOrder'
  <2>1. target \in Utterances /\ row[target] = "sending"
    BY <1>1, <1>6 DEF AttemptHeld, OutboxTypeOK
  <2>2. Tried(target) /\ row[target] \notin Terminal
    BY <2>1 DEF Tried, Terminal
  <2>3. \A u \in Utterances : u # target => row'[u] = row[u] /\ (Tried(u)' <=> Tried(u))
    BY <1>1, <1>6 DEF Tried, OutboxTypeOK
  <2> QED BY <1>3, <1>6, <2>2, <2>3
<1>7. CASE SendRequest
  <2>1. target \in Utterances /\ row[target] = "sending"
    BY <1>1, <1>7 DEF AttemptHeld, OutboxTypeOK, SendRequest
  <2>2. CASE outbox = "aborted"
    BY <1>1, <1>6, <1>7, <2>1, <2>2 DEF SendRequest, SetRow, AttemptHeld, RowStates
  <2>3. CASE outbox # "aborted"
    <3>1. Tried(target) /\ order' = order /\ row' = row
      BY <1>7, <2>1, <2>3 DEF SendRequest, Tried
    <3>2. \A u \in Utterances : u # target => sent'[u] = sent[u]
      BY <1>1, <1>7, <2>3 DEF SendRequest, OutboxTypeOK
    <3>3. \A u \in Utterances : u # target => (Tried(u)' <=> Tried(u))
      BY <3>1, <3>2 DEF Tried
    <3> QED BY <1>3, <3>1, <3>3
  <2> QED BY <2>2, <2>3
<1>8. ASSUME NEW answer \in AnyAnswer, Answered(answer) PROVE TriedInOrder'
  <2>1. Outcome(answer, attempts[target]) \in RowStates
    BY DEF Outcome, RowStates, Terminal
  <2> QED BY <1>1, <1>6, <1>8, <2>1 DEF Answered, SetRow, AttemptHeld, historyVars
<1>9. CASE BridgeStarts
  <2>1. order' = order /\ sent' = sent
    BY <1>9 DEF BridgeStarts, historyVars
  <2>2. \A u \in Utterances : row'[u] = IF row[u] = "sending" THEN "retrying" ELSE row[u]
    BY <1>9 DEF BridgeStarts, Recover
  <2> QED BY <1>3, <2>1, <2>2 DEF Tried, Terminal
<1>10. CASE ~RowStep
  BY <1>3, <1>10, OtherSteps DEF Tried
<1> QED BY <1>4, <1>5, <1>7, <1>8, <1>9, <1>10 DEF RowStep

\* The translation thread's item.
LEMMA ItemKnownKept ==
  ASSUME IInv, [BridgeNext(AnyAnswer)]_outboxVars
  PROVE  ItemKnown'
<1> USE DEF storeVars, historyVars, flagVars, dispatchVars, deliverVars
<1>1. OutboxTypeOK /\ ItemKnown /\ AttemptHeld /\ SeenListed
  BY DEF IInv
<1>2. work # <<>> => Item \in Utterances
  BY <1>1, HeadTailProperties DEF OutboxTypeOK, Item
\* The other threads change neither the item nor whether it has a row.
<1>3. ASSUME dispatch' = dispatch, work' = work, aborted => aborted',
             \A u \in Utterances : row'[u] = "none" <=> row[u] = "none",
             \A u \in Utterances : row[u] = "none" => shown'[u] = shown[u]
      PROVE  ItemKnown'
  BY <1>1, <1>2, <1>3 DEF ItemKnown, Item
<1>4. ASSUME NEW u \in Utterances, Accept(u) PROVE ItemKnown'
  <2>1. work' # <<>> /\ (work # <<>> => Head(work') = Head(work))
    BY <1>1, <1>4, WorkProperties DEF Accept, OutboxTypeOK
  <2> QED BY <1>1, <1>4, <2>1 DEF Accept, ItemKnown, Item
<1>5. CASE Close \/ CloseTimesOut
  BY <1>3, <1>5 DEF Close, CloseTimesOut
<1>6. CASE TakeItem \/ Restore \/ AcknowledgeShown \/ LeaveLoop \/ JoinDelivery
  BY <1>1, <1>6 DEF TakeItem, Restore, AcknowledgeShown, LeaveLoop, JoinDelivery, ItemKnown, Item
<1>7. CASE NoTranslation
  BY <1>1, <1>2, <1>7 DEF NoTranslation, ItemKnown, Item, OutboxTypeOK
<1>8. CASE Enqueue
  BY <1>1, <1>2, <1>8 DEF Enqueue, ItemKnown, Item, OutboxTypeOK
<1>9. CASE EnqueueFails
  BY <1>9 DEF EnqueueFails, ItemKnown
<1>10. CASE Announce
  BY <1>1, <1>10 DEF Announce, ItemKnown, Item
<1>11. CASE FinishItem \/ BridgeStops
  BY <1>11 DEF FinishItem, BridgeStops, ItemKnown
<1>12. CASE BridgeStarts
  BY <1>12 DEF BridgeStarts, ItemKnown
<1>13. CASE BeginRound \/ AcknowledgeNotice \/ CheckClosing \/ NoticeMarked \/ DeliveryFails
  BY <1>3, <1>13 DEF BeginRound, AcknowledgeNotice, CheckClosing, NoticeMarked, DeliveryFails
<1>14. CASE Publish
  BY <1>1, <1>3, <1>14 DEF Publish, SeenListed, OutboxTypeOK
<1>15. CASE TakeRow
  <2>1. CASE Ready = {}
    BY <1>3, <1>15, <2>1 DEF TakeRow
  <2>2. CASE Ready # {}
    <3>1. PICK u \in Ready, s \in {"sending", "failed"} : row' = [row EXCEPT ![u] = s]
      BY <1>15, <2>2, TakeRowFacts
    <3> QED BY <1>1, <1>3, <1>15, <3>1 DEF TakeRow, Ready, OutboxTypeOK
  <2> QED BY <2>1, <2>2
<1>16. CASE SendRequest
  BY <1>1, <1>3, <1>16 DEF SendRequest, SetRow, AttemptHeld, OutboxTypeOK
<1>17. ASSUME NEW answer \in AnyAnswer, Answered(answer) PROVE ItemKnown'
  <2>1. Outcome(answer, attempts[target]) # "none"
    BY DEF Outcome
  <2> QED BY <1>1, <1>3, <1>17, <2>1 DEF Answered, SetRow, AttemptHeld, OutboxTypeOK
<1>18. CASE UNCHANGED outboxVars
  BY <1>3, <1>18 DEF outboxVars
<1> QED BY <1>4, <1>5, <1>6, <1>7, <1>8, <1>9, <1>10, <1>11, <1>12, <1>13, <1>14, <1>15,
     <1>16, <1>17, <1>18 DEF BridgeNext, DispatchNext, DeliverNext

-----------------------------------------------------------------------------
(***************************************************************************)
(* The attempt under way                                                   *)
(***************************************************************************)

LEMMA AttemptHeldKept ==
  ASSUME IInv, [BridgeNext(AnyAnswer)]_outboxVars
  PROVE  AttemptHeld' /\ SeenListed' /\ AttemptsCounted'
<1> USE DEF storeVars, historyVars, flagVars, dispatchVars, deliverVars
<1>1. OutboxTypeOK /\ RowsListed /\ ItemKnown /\ AttemptHeld /\ SeenListed /\ AttemptsCounted
  BY DEF IInv
<1> DEFINE Goal == AttemptHeld' /\ SeenListed' /\ AttemptsCounted'
<1>2. 0 \notin Utterances /\ \A u \in Utterances : attempts[u] \in Nat /\ sent[u] \in Nat
  BY <1>1, UtteranceAssumption DEF OutboxTypeOK
<1>3. CASE \/ \E u \in Utterances : Accept(u)
           \/ Close \/ CloseTimesOut \/ UNCHANGED outboxVars
  <2>1. UNCHANGED <<row, attempts, sent, deliverVars>> /\ UNCHANGED dispatch
    BY <1>3 DEF Accept, Close, CloseTimesOut, outboxVars
  <2> QED BY <1>1, <2>1 DEF AttemptHeld, SeenListed, AttemptsCounted
<1>4. CASE TakeItem \/ Restore \/ NoTranslation \/ EnqueueFails \/ Announce
           \/ AcknowledgeShown \/ FinishItem \/ LeaveLoop \/ JoinDelivery
  <2>1. UNCHANGED <<row, attempts, sent, deliverVars>> /\ dispatch' # "down"
    BY <1>4 DEF TakeItem, Restore, NoTranslation, EnqueueFails, Announce,
       AcknowledgeShown, FinishItem, LeaveLoop, JoinDelivery
  <2> QED BY <1>1, <2>1 DEF AttemptHeld, SeenListed, AttemptsCounted
<1>5. CASE Enqueue
  <2>1. PICK u \in Utterances : u = Item /\ row[u] = "none"
    BY <1>1, <1>5, HeadTailProperties DEF Enqueue, ItemKnown, OutboxTypeOK, Item
  <2>2. /\ row' = [row EXCEPT ![u] = "queued"] /\ dispatch' # "down"
        /\ UNCHANGED <<attempts, sent, deliver, target, seen>>
    BY <1>5, <2>1 DEF Enqueue
  <2>3. \A v \in Utterances : row'[v] = IF v = u THEN "queued" ELSE row[v]
    BY <1>1, <2>2 DEF OutboxTypeOK
  <2>4. AttemptHeld'
    BY <1>1, <2>1, <2>2, <2>3 DEF AttemptHeld, OutboxTypeOK
  <2>5. SeenListed' /\ AttemptsCounted'
    BY <1>1, <2>1, <2>2, <2>3 DEF SeenListed, AttemptsCounted
  <2> QED BY <2>4, <2>5
<1>6. ASSUME ReadNotice, Unnotified # {}, UNCHANGED row PROVE SeenListed'
  <2>1. seen'[1] = Oldest(Unnotified)
    BY <1>6 DEF ReadNotice
  <2> QED BY <1>1, <1>6, <2>1, NoticeIsListed DEF SeenListed
<1>7. CASE BeginRound
  <2>1. UNCHANGED <<row, attempts, sent, target, dispatch>> /\ deliver = "loop"
    BY <1>7 DEF BeginRound
  <2>2. deliver' \in {"exited", "publish", "next"}
    BY <1>7 DEF BeginRound, ReadNotice
  <2>3. SeenListed'
    BY <1>6, <1>7, <2>1 DEF BeginRound, SeenListed
  <2> QED BY <1>1, <2>1, <2>2, <2>3 DEF AttemptHeld, AttemptsCounted
<1>8. CASE NoticeMarked
  <2>1. UNCHANGED <<row, attempts, sent, target, dispatch>> /\ deliver = "marked"
    BY <1>8 DEF NoticeMarked
  <2>2. deliver' \in {"publish", "send"}
    BY <1>1, <1>8 DEF NoticeMarked, ReadNotice, LeaveNotify, AttemptHeld
  <2>3. SeenListed'
    BY <1>6, <1>8, <2>1 DEF NoticeMarked, SeenListed, LeaveNotify
  <2> QED BY <1>1, <2>1, <2>2, <2>3 DEF AttemptHeld, AttemptsCounted
<1>9. CASE Publish \/ AcknowledgeNotice
  <2>1. /\ UNCHANGED <<row, attempts, sent, target, dispatch>>
        /\ deliver \in {"publish", "acknowledge"}
        /\ \/ deliver' = "acknowledge" /\ seen' = seen
           \/ deliver' = IF target = 0 THEN "loop" ELSE "send"
    BY <1>9 DEF Publish, AcknowledgeNotice, LeaveNotify
  <2> QED BY <1>1, <2>1 DEF AttemptHeld, SeenListed, AttemptsCounted
<1>10. CASE TakeRow
  <2>1. CASE Ready = {}
    BY <1>1, <1>10, <2>1 DEF TakeRow, AttemptHeld, SeenListed, AttemptsCounted
  <2>2. CASE Ready # {}
    <3>1. PICK u \in Ready, s \in {"sending", "failed"} :
            /\ row' = [row EXCEPT ![u] = s]
            /\ s = "sending" => /\ attempts' = [attempts EXCEPT ![u] = @ + 1]
                                /\ target' = u /\ deliver' = "marked"
            /\ s = "failed" => attempts' = attempts /\ target' = target /\ deliver' = "loop"
      BY <1>10, <2>2, TakeRowFacts
    <3>2. /\ u \in Utterances /\ row[u] # "none" /\ target = 0 /\ deliver = "next"
          /\ sent' = sent /\ dispatch' = dispatch
      BY <1>1, <1>10, <3>1 DEF TakeRow, Ready, AttemptHeld
    <3>3. \A v \in Utterances : row'[v] = IF v = u THEN s ELSE row[v]
      BY <1>1, <3>1, <3>2 DEF OutboxTypeOK
    <3>4. SeenListed'
      BY <3>1 DEF SeenListed
    <3>5. CASE s = "sending"
      <4>1. \A v \in Utterances : attempts'[v] = IF v = u THEN attempts[u] + 1 ELSE attempts[v]
        BY <1>1, <3>1, <3>2, <3>5 DEF OutboxTypeOK
      <4>2. AttemptHeld'
        BY <1>1, <1>2, <3>1, <3>2, <3>3, <3>5 DEF AttemptHeld
      <4>3. AttemptsCounted'
        BY <1>1, <1>2, <3>1, <3>2, <3>3, <3>5, <4>1 DEF AttemptsCounted
      <4> QED BY <3>4, <4>2, <4>3
    <3>6. CASE s = "failed"
      BY <1>1, <1>2, <3>1, <3>2, <3>3, <3>4, <3>6 DEF AttemptHeld, AttemptsCounted
    <3> QED BY <3>5, <3>6
  <2> QED BY <2>1, <2>2
<1>11. CASE CheckClosing
  BY <1>1, <1>11 DEF CheckClosing, AttemptHeld, SeenListed, AttemptsCounted
<1>12. CASE SendRequest
  <2>1. /\ target \in Utterances /\ row[target] = "sending" /\ deliver = "send"
        /\ sent[target] < attempts[target] /\ dispatch' = dispatch
    BY <1>1, <1>12 DEF SendRequest, AttemptHeld, AttemptsCounted, OutboxTypeOK
  <2>2. CASE outbox = "aborted"
    <3>1. /\ target' = 0 /\ deliver' = "loop" /\ sent' = sent
          /\ \A v \in Utterances : row'[v] = IF v = target THEN "queued" ELSE row[v]
          /\ \A v \in Utterances :
               attempts'[v] = IF v = target THEN attempts[v] - 1 ELSE attempts[v]
      BY <1>1, <1>12, <2>1, <2>2 DEF SendRequest, SetRow, OutboxTypeOK
    <3> QED BY <1>1, <1>2, <2>1, <3>1 DEF AttemptHeld, SeenListed, AttemptsCounted
  <2>3. CASE outbox # "aborted"
    <3>1. /\ target' = target /\ deliver' = "waiting" /\ row' = row /\ attempts' = attempts
          /\ \A v \in Utterances : sent'[v] = IF v = target THEN sent[v] + 1 ELSE sent[v]
      BY <1>1, <1>12, <2>1, <2>3 DEF SendRequest, OutboxTypeOK
    <3> QED BY <1>1, <1>2, <2>1, <3>1 DEF AttemptHeld, SeenListed, AttemptsCounted
  <2> QED BY <2>2, <2>3
<1>13. ASSUME NEW answer \in AnyAnswer, Answered(answer) PROVE Goal
  <2>1. target \in Utterances /\ row[target] = "sending"
    BY <1>1, <1>13 DEF Answered, AttemptHeld, OutboxTypeOK
  <2>2. PICK s \in RowStates : s = Outcome(answer, attempts[target])
    BY DEF Outcome, RowStates, Terminal
  <2>3. s \notin {"sending", "none"}
    BY <2>2 DEF Outcome
  <2>4. /\ target' = 0 /\ deliver' = "loop" /\ UNCHANGED <<sent, attempts, dispatch>>
        /\ \A v \in Utterances : row'[v] = IF v = target THEN s ELSE row[v]
    BY <1>1, <1>13, <2>1, <2>2 DEF Answered, SetRow, OutboxTypeOK
  <2>5. deliver = "waiting"
    BY <1>13 DEF Answered
  <2> QED BY <1>1, <1>2, <2>1, <2>3, <2>4, <2>5 DEF AttemptHeld, SeenListed, AttemptsCounted
<1>14. CASE DeliveryFails \/ BridgeStops
  <2>1. UNCHANGED <<row, attempts, sent>> /\ target' = 0 /\ deliver' \in {"failed", "down"}
    BY <1>14 DEF DeliveryFails, BridgeStops
  <2>2. dispatch' = "down" => deliver' = "down"
    BY <1>1, <1>14 DEF DeliveryFails, BridgeStops, AttemptHeld, Alive
  <2> QED BY <1>1, <2>1, <2>2 DEF AttemptHeld, SeenListed, AttemptsCounted
<1>15. CASE BridgeStarts
  <2>1. /\ target' = target /\ target = 0 /\ deliver' = "loop" /\ dispatch' = "idle"
        /\ UNCHANGED <<sent, attempts>>
    BY <1>1, <1>15 DEF BridgeStarts, Recover, Up, AttemptHeld
  <2>2. \A u \in Utterances : row'[u] = IF row[u] = "sending" THEN "retrying" ELSE row[u]
    BY <1>15 DEF BridgeStarts, Recover
  <2> QED BY <1>1, <2>1, <2>2 DEF AttemptHeld, SeenListed, AttemptsCounted
<1> QED BY <1>3, <1>4, <1>5, <1>7, <1>8, <1>9, <1>10, <1>11, <1>12, <1>13, <1>14, <1>15
     DEF BridgeNext, DispatchNext, DeliverNext

-----------------------------------------------------------------------------
(***************************************************************************)
(* No caption is lost                                                      *)
(***************************************************************************)

LEMMA NothingDroppedKept ==
  ASSUME IInv, [BridgeNext(AnyAnswer)]_outboxVars
  PROVE  NothingDropped'
<1> USE DEF storeVars, historyVars, flagVars, dispatchVars, deliverVars
<1>1. OutboxTypeOK /\ ItemKnown /\ AttemptHeld /\ SeenListed /\ NothingDropped
  BY DEF IInv
<1>2. work # <<>> => Item \in Utterances /\ Item \in ToSet(work)
  <2>1. work # <<>> => Item = work[1] /\ 1 \in DOMAIN work
    BY <1>1 DEF OutboxTypeOK, Item
  <2> QED BY <1>1, <2>1, HeadTailProperties DEF OutboxTypeOK, Item, ToSet
\* Only the status of an item still queued or of a row is published.
<1>3. ASSUME accepted' = accepted, work' = work,
             \A u \in Utterances : row[u] # "none" => row'[u] # "none",
             \A u \in Utterances : \/ shown'[u] \in {shown[u], Rejected}
                                  \/ u \in ToSet(work) \/ row[u] # "none"
      PROVE  NothingDropped'
  BY <1>1, <1>3 DEF NothingDropped, OutboxTypeOK
<1>4. ASSUME NEW u \in Utterances, Accept(u) PROVE NothingDropped'
  <2>1. u \in ToSet(work') /\ \A v \in ToSet(work) : v \in ToSet(work')
    BY <1>1, <1>4, WorkProperties DEF Accept, OutboxTypeOK
  <2> QED BY <1>1, <1>4, <2>1 DEF Accept, NothingDropped
<1>5. CASE \/ Close \/ CloseTimesOut \/ TakeItem \/ AcknowledgeShown \/ LeaveLoop
           \/ JoinDelivery \/ BeginRound \/ AcknowledgeNotice \/ CheckClosing
           \/ NoticeMarked \/ DeliveryFails \/ BridgeStops \/ UNCHANGED outboxVars
  <2>1. UNCHANGED <<accepted, work, row, shown>>
    BY <1>5 DEF Close, CloseTimesOut, TakeItem, AcknowledgeShown, LeaveLoop,
       JoinDelivery, BeginRound, AcknowledgeNotice, CheckClosing, NoticeMarked,
       DeliveryFails, BridgeStops, outboxVars
  <2> QED BY <1>1, <2>1 DEF NothingDropped
<1>6. ASSUME work # <<>>, UNCHANGED <<accepted, work, row>>,
             NEW status, shown' \in {shown, [shown EXCEPT ![Item] = status]}
      PROVE  NothingDropped'
  <2>1. \A u \in Utterances : u # Item => shown'[u] = shown[u]
    BY <1>1, <1>6 DEF OutboxTypeOK
  <2> QED BY <1>2, <1>3, <1>6, <2>1
<1>7. CASE Restore \/ NoTranslation \/ EnqueueFails \/ Announce
  <2>1. work # <<>> /\ UNCHANGED <<accepted, work, row>>
    BY <1>1, <1>7 DEF Restore, NoTranslation, EnqueueFails, Announce, ItemKnown
  <2>2. \E status : shown' \in {shown, [shown EXCEPT ![Item] = status]}
    BY <1>7 DEF Restore, NoTranslation, EnqueueFails, Announce
  <2> QED BY <1>6, <2>1, <2>2
<1>8. CASE Enqueue
  <2>1. \A u \in Utterances : row[u] # "none" => row'[u] # "none"
    BY <1>1, <1>8 DEF Enqueue, OutboxTypeOK
  <2> QED BY <1>3, <1>8, <2>1 DEF Enqueue
<1>9. CASE FinishItem
  <2>1. work # <<>> /\ UNCHANGED <<accepted, row, shown>>
    BY <1>1, <1>9 DEF FinishItem, ItemKnown
  <2>2. CASE aborted
    BY <1>3, <1>9, <2>1, <2>2 DEF FinishItem, TaskDone
  <2>3. CASE ~aborted
    <3>1. row[Item] # "none" \/ shown[Item] = Rejected
      BY <1>1, <1>9, <2>3 DEF FinishItem, ItemKnown
    <3>2. \A v \in ToSet(work) : v = Item \/ v \in ToSet(work')
      BY <1>1, <1>2, <1>9, <2>1, <2>3, WorkProperties DEF FinishItem, TaskDone, OutboxTypeOK, Item
    <3> QED BY <1>1, <2>1, <3>1, <3>2 DEF NothingDropped
  <2> QED BY <2>2, <2>3
<1>10. CASE Publish
  <2>1. /\ UNCHANGED <<accepted, work, row>> /\ seen[1] \in Utterances
        /\ row[seen[1]] # "none" /\ shown' \in {shown, [shown EXCEPT ![seen[1]] = seen[2]]}
    BY <1>1, <1>10 DEF Publish, SeenListed
  <2>2. \A u \in Utterances : u # seen[1] => shown'[u] = shown[u]
    BY <1>1, <2>1 DEF OutboxTypeOK
  <2> QED BY <1>3, <2>1, <2>2
<1>11. CASE TakeRow
  <2>1. UNCHANGED <<accepted, work, shown>>
    BY <1>11 DEF TakeRow
  <2>2. CASE Ready = {}
    BY <1>3, <1>11, <2>1, <2>2 DEF TakeRow
  <2>3. CASE Ready # {}
    <3>1. PICK u \in Ready, s \in {"sending", "failed"} : row' = [row EXCEPT ![u] = s]
      BY <1>11, <2>3, TakeRowFacts
    <3>2. \A v \in Utterances : row[v] # "none" => row'[v] # "none"
      BY <1>1, <3>1 DEF OutboxTypeOK
    <3> QED BY <1>3, <2>1, <3>2
  <2> QED BY <2>2, <2>3
<1>12. CASE SendRequest
  <2>1. \A v \in Utterances : row[v] # "none" => row'[v] # "none"
    BY <1>1, <1>12 DEF SendRequest, SetRow, OutboxTypeOK
  <2> QED BY <1>3, <1>12, <2>1 DEF SendRequest
<1>13. ASSUME NEW answer \in AnyAnswer, Answered(answer) PROVE NothingDropped'
  <2>1. Outcome(answer, attempts[target]) # "none"
    BY DEF Outcome
  <2>2. \A v \in Utterances : row[v] # "none" => row'[v] # "none"
    BY <1>1, <1>13, <2>1 DEF Answered, SetRow, OutboxTypeOK
  <2> QED BY <1>3, <1>13, <2>2 DEF Answered
<1>14. CASE BridgeStarts
  <2>1. \A v \in Utterances : row[v] # "none" => row'[v] # "none"
    BY <1>1, <1>14 DEF BridgeStarts, Recover, OutboxTypeOK
  <2> QED BY <1>3, <1>14, <2>1 DEF BridgeStarts
<1> QED BY <1>4, <1>5, <1>7, <1>8, <1>9, <1>10, <1>11, <1>12, <1>13, <1>14
     DEF BridgeNext, DispatchNext, DeliverNext

-----------------------------------------------------------------------------
(***************************************************************************)
(* The theorems about the bridge's end                                     *)
(***************************************************************************)

\* Every step of the bridge, whatever the service answers, keeps the invariant.
LEMMA NextKeeps == IInv /\ [BridgeNext(AnyAnswer)]_outboxVars => IInv'
BY TypeKept, RowsListedKept, ItemKnownKept, AttemptHeldKept, TriedInOrderKept,
   NothingDroppedKept DEF IInv

\* The inductive invariant of the bridge's end of speech delivery.
THEOREM OutboxInvariance == OutboxSpec => []IInv
BY InitIInv, NextKeeps, PTL DEF OutboxSpec

\* Types: among them, no row is ever tried more than MAX_ATTEMPTS times.
THEOREM OutboxTypes == OutboxSpec => []OutboxTypeOK
<1>1. IInv => OutboxTypeOK
  BY DEF IInv
<1> QED BY <1>1, OutboxInvariance, PTL

\* MAX_ATTEMPTS bounds the requests of an utterance over all runs of the bridge,
\* through crashes and aborted attempts (speech_outbox.py:138-152, 47-49).
THEOREM AttemptsLimited == OutboxSpec => []AttemptLimit
<1>1. IInv => AttemptLimit
  BY AttemptAssumption DEF IInv, OutboxTypeOK, AttemptsCounted, AttemptLimit
<1> QED BY <1>1, OutboxInvariance, PTL

\* Requests leave in the order of the outbox, through retries, crashes and
\* restarts (speech_outbox.py:133-136).
THEOREM DeliveryInOrder == OutboxSpec => []DeliveredInOrder
<1>1. IInv => DeliveredInOrder
  BY DEF IInv, TriedInOrder, Tried, DeliveredInOrder
<1> QED BY <1>1, OutboxInvariance, PTL

\* Both of it: requests are counted and ordered.
THEOREM RequestsAreInBounds == OutboxSpec => []RequestsInBounds
BY AttemptsLimited, DeliveryInOrder, PTL DEF RequestsInBounds

\* No accepted caption is lost before its row or its rejection
\* (subtitle_bridge.py:575-627, durable_jobs.py:208-214).
THEOREM CaptionsKept == OutboxSpec => []NothingDropped
<1>1. IInv => NothingDropped
  BY DEF IInv
<1> QED BY <1>1, OutboxInvariance, PTL

-----------------------------------------------------------------------------
(***************************************************************************)
(* The service: at most one task of an utterance                           *)
(***************************************************************************)

\* Pruning moves utterances from the job table to the ledger and forgets none.
LEMMA PruneForgetsNothing ==
  ASSUME NEW jobs \in [Utterances -> {"none", "queued", "ended"}],
         NEW known \in SUBSET Utterances,
         health \in {"ok", "stopped", "unstored"}, Prune(jobs, known)
  PROVE  /\ job' \in [Utterances -> {"none", "queued", "ended"}]
         /\ ledger' \subseteq Utterances /\ health' \in {"ok", "stopped", "unstored"}
         /\ \A u \in Utterances :
              (job'[u] # "none" \/ u \in ledger') <=> (jobs[u] # "none" \/ u \in known)
<1>1. PICK archived \in SUBSET {u \in Utterances : jobs[u] = "ended"} :
        \E removed \in SUBSET archived :
        /\ job' = [u \in Utterances |-> IF u \in removed THEN "none" ELSE jobs[u]]
        /\ ledger' = known \cup archived
        /\ health' \in {health, "unstored"}
  BY DEF Prune
<1> QED BY <1>1

\* A job that ends stays a job.
LEMMA EndedStaysKnown ==
  ASSUME AdmissionsTypeOK, NEW done \in SUBSET Unfinished
  PROVE  /\ Ended(done) \in [Utterances -> {"none", "queued", "ended"}]
         /\ \A u \in Utterances : Ended(done)[u] # "none" <=> job[u] # "none"
BY DEF Ended, Unfinished, AdmissionsTypeOK

\* A request makes at most the one task of its utterance, and none once the
\* utterance is known or was heard before a stored stop; the answer "job" means
\* that there is a task.
LEMMA SubmitFacts ==
  ASSUME AdmissionsTypeOK, OneTask, NEW u \in Utterances, NEW answer \in Replies,
         Submit(u, answer)
  PROVE  /\ AdmissionsTypeOK' /\ OneTask' /\ cutoff' = cutoff
         /\ \/ created' = created
            \/ u \notin cutoff /\ created[u] = 0 /\ created' = [created EXCEPT ![u] = 1]
         /\ \A v \in Utterances : created[v] = 1 => created'[v] = 1
         /\ answer = "job" => created'[u] = 1
<1>1. CASE Decline(u, answer)
  BY <1>1 DEF Decline, admissionVars, AdmissionsTypeOK, OneTask, Admitted
<1>2. ASSUME MayAdmit(u), NEW jobs, jobs = [job EXCEPT ![u] = "queued"],
             created' = [created EXCEPT ![u] = @ + 1]
      PROVE  /\ created[u] = 0 /\ created' = [created EXCEPT ![u] = 1]
             /\ created' \in [Utterances -> Nat] /\ u \notin cutoff
             /\ jobs \in [Utterances -> {"none", "queued", "ended"}]
             /\ \A v \in Utterances :
                  created'[v] = IF jobs[v] # "none" \/ v \in ledger THEN 1 ELSE 0
             /\ \A v \in Utterances : created[v] = 1 => created'[v] = 1
             /\ created'[u] = 1
  <2>1. created[u] = 0 /\ job[u] = "none" /\ u \notin ledger /\ u \notin cutoff
    BY <1>2 DEF MayAdmit, OneTask, Admitted
  <2>2. /\ jobs \in [Utterances -> {"none", "queued", "ended"}]
        /\ \A v \in Utterances : jobs[v] = IF v = u THEN "queued" ELSE job[v]
    BY <1>2 DEF AdmissionsTypeOK
  <2>3. created' = [created EXCEPT ![u] = 1] /\ created' \in [Utterances -> Nat]
    BY <1>2, <2>1 DEF AdmissionsTypeOK
  <2>4. \A v \in Utterances : created'[v] = IF v = u THEN 1 ELSE created[v]
    BY <2>3 DEF AdmissionsTypeOK
  <2>5. \A v \in Utterances : created[v] = IF job[v] # "none" \/ v \in ledger THEN 1 ELSE 0
    BY DEF OneTask, Admitted
  <2> QED BY <2>1, <2>2, <2>3, <2>4, <2>5
<1>3. CASE Admit(u, answer)
  <2>1. PICK jobs : jobs = [job EXCEPT ![u] = "queued"]
    OBVIOUS
  <2>2. /\ MayAdmit(u) /\ created' = [created EXCEPT ![u] = @ + 1]
        /\ Prune(jobs, ledger \cup {u}) /\ UNCHANGED <<cutoff, session, silenced>>
    BY <1>3, <2>1 DEF Admit
  <2>3. /\ jobs \in [Utterances -> {"none", "queued", "ended"}] /\ jobs[u] # "none"
        /\ ledger \cup {u} \in SUBSET Utterances
    BY <1>2, <2>1, <2>2 DEF AdmissionsTypeOK
  <2>4. /\ job' \in [Utterances -> {"none", "queued", "ended"}]
        /\ ledger' \subseteq Utterances /\ health' \in {"ok", "stopped", "unstored"}
        /\ \A v \in Utterances : (job'[v] # "none" \/ v \in ledger') <=>
                                 (jobs[v] # "none" \/ v \in ledger \cup {u})
    BY <2>2, <2>3, PruneForgetsNothing DEF AdmissionsTypeOK
  <2>5. AdmissionsTypeOK'
    BY <1>2, <2>1, <2>2, <2>4 DEF AdmissionsTypeOK
  <2>6. OneTask'
    <3>1. \A v \in Utterances :
            created'[v] = IF jobs[v] # "none" \/ v \in ledger THEN 1 ELSE 0
      BY <1>2, <2>1, <2>2
    <3>2. \A v \in Utterances : (job'[v] # "none" \/ v \in ledger') <=>
                                 (jobs[v] # "none" \/ v \in ledger)
      BY <2>3, <2>4
    <3> QED BY <3>1, <3>2 DEF OneTask, Admitted
  <2> QED BY <1>2, <2>1, <2>2, <2>5, <2>6
<1>4. CASE AdmitFails(u, answer)
  <2>1. /\ answer = "busy" /\ health' = "unstored" /\ session' = FALSE
        /\ UNCHANGED <<cutoff, silenced>>
    BY <1>4 DEF AdmitFails
  <2>2. CASE UNCHANGED <<job, created, ledger>>
    BY <2>1, <2>2 DEF AdmissionsTypeOK, OneTask, Admitted
  <2>3. CASE /\ MayAdmit(u) /\ job' = [job EXCEPT ![u] = "queued"]
             /\ created' = [created EXCEPT ![u] = @ + 1]
             /\ ledger' \in {ledger, ledger \cup {u}}
    <3>1. job'[u] # "none" /\ ledger' \subseteq Utterances
      BY <2>3 DEF AdmissionsTypeOK
    <3>2. AdmissionsTypeOK'
      BY <1>2, <2>1, <2>3, <3>1 DEF AdmissionsTypeOK
    <3>3. OneTask'
      BY <1>2, <2>3, <3>1 DEF OneTask, Admitted
    <3> QED BY <1>2, <2>1, <2>3, <3>2, <3>3
  <2> QED BY <1>4, <2>2, <2>3 DEF AdmitFails
<1> QED BY <1>1, <1>3, <1>4 DEF Submit

\* Nothing else the service does makes a task or forgets one, and stops only
\* extend the cut-off.
LEMMA ServiceFacts ==
  ASSUME AdmissionsTypeOK, OneTask, NEW heard \in SUBSET Utterances,
         ServiceNext(heard) \/ RestartService
  PROVE  /\ AdmissionsTypeOK' /\ OneTask' /\ created' = created
         /\ cutoff \subseteq cutoff' /\ cutoff' \subseteq Utterances
<1> DEFINE Known(jobs, known) == \A u \in Utterances :
             (job'[u] # "none" \/ u \in ledger') <=> (jobs[u] # "none" \/ u \in known)
           Typed == /\ job' \in [Utterances -> {"none", "queued", "ended"}]
                    /\ ledger' \subseteq Utterances
                    /\ health' \in {"ok", "stopped", "unstored"}
<1>1. ASSUME Typed, Known(job, ledger), created' = created, session' \in BOOLEAN,
             cutoff' \in {cutoff, cutoff \cup heard},
             silenced' \in {silenced, silenced \cup heard}
      PROVE  /\ AdmissionsTypeOK' /\ OneTask' /\ created' = created
             /\ cutoff \subseteq cutoff' /\ cutoff' \subseteq Utterances
  BY <1>1 DEF AdmissionsTypeOK, OneTask, Admitted
<1>2. ASSUME NEW done \in SUBSET Unfinished, Prune(Ended(done), ledger)
      PROVE  Typed /\ Known(job, ledger)
  BY <1>2, EndedStaysKnown, PruneForgetsNothing DEF AdmissionsTypeOK
<1>3. ASSUME NEW done \in SUBSET Unfinished, job' = Ended(done), ledger' = ledger,
             health' \in {"ok", "stopped", "unstored"}
      PROVE  Typed /\ Known(job, ledger)
  BY <1>3, EndedStaysKnown DEF AdmissionsTypeOK
<1>4. ASSUME NEW u \in Utterances, JobEnds(u)
      PROVE  Typed /\ Known(job, ledger) /\ UNCHANGED <<created, cutoff, session, silenced>>
  <2>1. {u} \in SUBSET Unfinished
    BY <1>4 DEF JobEnds, Unfinished
  <2> QED BY <1>2, <1>4, <2>1 DEF JobEnds
<1>5. CASE ServiceFails
  <2>1. /\ health' \in {"ok", "stopped", "unstored"} /\ session' \in {session, FALSE}
        /\ UNCHANGED <<ledger, created, cutoff, silenced>>
    BY <1>5 DEF ServiceFails
  <2>2. PICK done \in SUBSET Unfinished : job' = Ended(done)
    BY <1>5 DEF ServiceFails
  <2>3. Typed /\ Known(job, ledger)
    BY <1>3, <2>1, <2>2
  <2> QED BY <1>1, <2>1, <2>3 DEF AdmissionsTypeOK
<1>6. ASSUME NEW enabled \in BOOLEAN, SetSession(enabled)
      PROVE  /\ Typed /\ Known(job, ledger) /\ session' \in BOOLEAN
             /\ UNCHANGED <<created, cutoff, silenced>>
  BY <1>6 DEF SetSession, AdmissionsTypeOK
<1>7. CASE Stop(heard)
  <2>1. session' = FALSE /\ created' = created
    BY <1>7 DEF Stop
  <2>2. CASE StopStored(heard)
    <3>1. Typed /\ Known(job, ledger)
      BY <1>2, <2>2 DEF StopStored
    <3> QED BY <1>1, <2>1, <2>2, <3>1 DEF StopStored
  <2>3. CASE StopFails(heard)
    <3>1. PICK done \in SUBSET Unfinished : job' \in {job, Ended(done)}
      BY <2>3 DEF StopFails
    <3>2. Typed /\ Known(job, ledger)
      BY <1>3, <2>3, <3>1 DEF StopFails, AdmissionsTypeOK
    <3> QED BY <1>1, <2>1, <2>3, <3>2 DEF StopFails
  <2>4. CASE StopUnstored(heard)
    <3>1. Typed /\ Known(job, ledger)
      BY <2>4 DEF StopUnstored, AdmissionsTypeOK
    <3> QED BY <1>1, <2>1, <2>4, <3>1 DEF StopUnstored
  <2> QED BY <1>7, <2>2, <2>3, <2>4 DEF Stop
<1>8. CASE RestartService
  <2>1. /\ session' = FALSE /\ health' = "ok"
        /\ UNCHANGED <<created, cutoff, silenced>>
    BY <1>8 DEF RestartService
  <2>2. PICK done \in SUBSET Unfinished :
          \E archived \in SUBSET {u \in Utterances : Ended(done)[u] = "ended"} :
          \E removed \in SUBSET archived :
            /\ job' = [u \in Utterances |-> IF u \in removed THEN "none" ELSE Ended(done)[u]]
            /\ ledger' = ledger \cup archived
    BY <1>8 DEF RestartService
  <2>3. Typed /\ Known(job, ledger)
    BY <2>1, <2>2, EndedStaysKnown DEF AdmissionsTypeOK
  <2> QED BY <1>1, <2>1, <2>3
<1> HIDE DEF Known, Typed
<1>9. CASE ServiceNext(heard)
  <2>1. ASSUME NEW u \in Utterances, JobEnds(u)
        PROVE  /\ AdmissionsTypeOK' /\ OneTask' /\ created' = created
               /\ cutoff \subseteq cutoff' /\ cutoff' \subseteq Utterances
    <3>1. /\ Typed /\ Known(job, ledger) /\ created' = created
          /\ cutoff' = cutoff /\ session' = session /\ silenced' = silenced
      BY <1>4, <2>1
    <3> QED BY <1>1, <3>1 DEF AdmissionsTypeOK
  <2>2. ASSUME NEW enabled \in BOOLEAN, SetSession(enabled)
        PROVE  /\ AdmissionsTypeOK' /\ OneTask' /\ created' = created
               /\ cutoff \subseteq cutoff' /\ cutoff' \subseteq Utterances
    BY <1>1, <1>6, <2>2
  <2> QED BY <1>5, <1>7, <1>9, <2>1, <2>2 DEF ServiceNext
<1> QED BY <1>8, <1>9

-----------------------------------------------------------------------------
(***************************************************************************)
(* The bridge                                                              *)
(***************************************************************************)

\* Whatever answer is under way, the bridge makes a step it could make against
\* any service.
LEMMA BridgeIsOutboxStep ==
  ASSUME reply \in Replies \cup {NoReply}, BridgeNext({reply, NoReply})
  PROVE  BridgeNext(AnyAnswer)
<1>1. ASSUME NEW answer \in {reply, NoReply} PROVE answer \in AnyAnswer
  BY DEF AnyAnswer
<1>2. CASE DeliverNext({reply, NoReply})
  <2>1. DeliverNext(AnyAnswer)
    BY <1>1, <1>2 DEF DeliverNext
  <2> QED BY <2>1 DEF BridgeNext
<1>3. CASE ~DeliverNext({reply, NoReply})
  BY <1>3 DEF BridgeNext
<1> QED BY <1>2, <1>3

\* A row becomes "submitted" only on the answer "job" to the attempt under way,
\* and stays so.
LEMMA SubmittedRows ==
  ASSUME IInv, reply \in Replies \cup {NoReply}, BridgeNext({reply, NoReply})
  PROVE  \/ \A u \in Utterances : row'[u] = "submitted" <=> row[u] = "submitted"
         \/ /\ reply = "job" /\ target \in Utterances
            /\ \A u \in Utterances :
                 row'[u] = "submitted" <=> row[u] = "submitted" \/ u = target
<1>1. OutboxTypeOK /\ ItemKnown /\ AttemptHeld
  BY DEF IInv
<1>2. CASE Enqueue
  <2>1. PICK u \in Utterances : u = Item /\ row[u] = "none"
    BY <1>1, <1>2, HeadTailProperties DEF Enqueue, ItemKnown, OutboxTypeOK, Item
  <2> QED BY <1>1, <1>2, <2>1 DEF Enqueue, OutboxTypeOK
<1>3. CASE TakeRow
  <2>1. CASE Ready = {}
    BY <1>3, <2>1 DEF TakeRow
  <2>2. CASE Ready # {}
    <3>1. PICK u \in Ready, s \in {"sending", "failed"} : row' = [row EXCEPT ![u] = s]
      BY <1>3, <2>2, TakeRowFacts
    <3> QED BY <1>1, <3>1 DEF Ready, OutboxTypeOK
  <2> QED BY <2>1, <2>2
<1>4. CASE SendRequest
  BY <1>1, <1>4 DEF SendRequest, SetRow, AttemptHeld, OutboxTypeOK
<1>5. CASE BridgeStarts
  BY <1>1, <1>5 DEF BridgeStarts, Recover, OutboxTypeOK
<1>6. ASSUME NEW answer \in {reply, NoReply}, Answered(answer)
      PROVE  \/ \A u \in Utterances : row'[u] = "submitted" <=> row[u] = "submitted"
             \/ /\ reply = "job" /\ target \in Utterances
                /\ \A u \in Utterances :
                     row'[u] = "submitted" <=> row[u] = "submitted" \/ u = target
  <2>1. target \in Utterances /\ row[target] = "sending"
    BY <1>1, <1>6 DEF Answered, AttemptHeld, OutboxTypeOK
  <2>2. PICK s : s = Outcome(answer, attempts[target])
    OBVIOUS
  <2>3. \A u \in Utterances : row'[u] = IF u = target THEN s ELSE row[u]
    BY <1>1, <1>6, <2>1, <2>2 DEF Answered, SetRow, OutboxTypeOK
  <2>4. s = "submitted" <=> answer = "job"
    <3>1. CASE answer = "job"
      BY <2>2, <3>1 DEF Outcome, NoReply
    <3>2. CASE answer # "job"
      BY <2>2, <3>2 DEF Outcome, NoReply
    <3> QED BY <3>1, <3>2
  <2>5. answer = "job" => reply = "job"
    BY <1>6 DEF NoReply
  <2> QED BY <2>1, <2>3, <2>4, <2>5
<1>7. CASE \/ \E u \in Utterances : Accept(u)
           \/ Close \/ CloseTimesOut \/ DeliveryFails \/ BridgeStops
  BY <1>7 DEF Accept, Close, CloseTimesOut, DeliveryFails, BridgeStops, storeVars
<1>8. CASE DispatchNext
  BY <1>2, <1>8 DEF DispatchNext, TakeItem, Restore, NoTranslation, EnqueueFails, Announce,
     AcknowledgeShown, FinishItem, LeaveLoop, JoinDelivery, storeVars
<1>9. CASE DeliverNext({reply, NoReply})
  <2>1. CASE BeginRound \/ Publish \/ AcknowledgeNotice \/ CheckClosing \/ NoticeMarked
    BY <2>1 DEF BeginRound, Publish, AcknowledgeNotice, CheckClosing, NoticeMarked, storeVars
  <2> QED BY <1>3, <1>4, <1>6, <1>9, <2>1 DEF DeliverNext
<1> QED BY <1>5, <1>7, <1>8, <1>9 DEF BridgeNext

\* While an attempt waits for its answer it stays the same attempt.
LEMMA WaitingKeepsTarget ==
  ASSUME BridgeNext({reply, NoReply}), deliver = "waiting", deliver' = "waiting"
  PROVE  target' = target
<1> USE DEF deliverVars
<1>1. CASE \/ \E u \in Utterances : Accept(u)
           \/ Close \/ CloseTimesOut \/ DeliveryFails \/ BridgeStops \/ BridgeStarts
  BY <1>1 DEF Accept, Close, CloseTimesOut, DeliveryFails, BridgeStops, BridgeStarts
<1>2. CASE DispatchNext
  BY <1>2 DEF DispatchNext, TakeItem, Restore, NoTranslation, Enqueue, EnqueueFails, Announce,
     AcknowledgeShown, FinishItem, LeaveLoop, JoinDelivery
<1>3. CASE DeliverNext({reply, NoReply})
  BY <1>3 DEF DeliverNext, BeginRound, Publish, AcknowledgeNotice, TakeRow, CheckClosing,
     NoticeMarked, SendRequest, Answered
<1> QED BY <1>1, <1>2, <1>3 DEF BridgeNext

-----------------------------------------------------------------------------
(***************************************************************************)
(* Both ends                                                               *)
(***************************************************************************)

\* Nothing has been heard, sent or made at the start.
LEMMA DeliveryInit == Init => DeliveryInv
<1> SUFFICES ASSUME Init PROVE DeliveryInv
  OBVIOUS
<1>1. IInv /\ OutboxTypeOK
  BY InitIInv DEF Init, IInv
<1>2. AdmissionsTypeOK /\ OneTask
  BY DEF Init, AdmissionsInit, AdmissionsTypeOK, OneTask, Admitted
<1>3. calls \subseteq Utterances \X Nat /\ reply \in Replies \cup {NoReply}
  BY DEF Init
<1>4. AnswersTrue
  BY DEF Init, OutboxInit, NoReply, AnswersTrue
<1> QED BY <1>1, <1>2, <1>3, <1>4 DEF DeliveryInv, TypeOK

\* A step of the bridge keeps the invariant.
LEMMA BridgeKeeps ==
  ASSUME DeliveryInv, Bridge
  PROVE  DeliveryInv'
<1>1. /\ TypeOK /\ IInv /\ OneTask /\ AnswersTrue /\ OutboxTypeOK /\ AdmissionsTypeOK
      /\ calls \subseteq Utterances \X Nat /\ reply \in Replies \cup {NoReply}
  BY DEF DeliveryInv, TypeOK
<1>2. /\ BridgeNext({reply, NoReply}) /\ UNCHANGED admissionVars
      /\ reply' = IF deliver' = "waiting" THEN reply ELSE NoReply
      /\ calls' = IF deliver = "send" /\ deliver' = "waiting"
                  THEN calls \cup {<<target, attempts[target]>>} ELSE calls
  BY DEF Bridge
<1>3. IInv' /\ OutboxTypeOK'
  <2>1. BridgeNext(AnyAnswer)
    BY <1>1, <1>2, BridgeIsOutboxStep
  <2> QED BY <1>1, <2>1, NextKeeps DEF IInv
<1>4. AdmissionsTypeOK' /\ OneTask' /\ created' = created
  BY <1>1, <1>2 DEF admissionVars, AdmissionsTypeOK, OneTask, Admitted
<1>5. calls' \subseteq Utterances \X Nat
  <2>1. CASE deliver = "send"
    <3>1. target \in Utterances
      BY <1>1, <2>1 DEF IInv, AttemptHeld, OutboxTypeOK
    <3>2. attempts[target] \in Nat
      BY <1>1, <3>1, AttemptAssumption DEF OutboxTypeOK
    <3> QED BY <1>1, <1>2, <3>1, <3>2
  <2>2. CASE deliver # "send"
    BY <1>1, <1>2, <2>2
  <2> QED BY <2>1, <2>2
<1>6. AnswersTrue'
  <2>1. ASSUME reply' = "job" PROVE deliver' = "waiting" /\ created'[target'] = 1
    <3>1. deliver' = "waiting" /\ reply = "job"
      BY <1>2, <2>1 DEF NoReply
    <3>2. deliver = "waiting" /\ created[target] = 1
      BY <1>1, <3>1 DEF AnswersTrue
    <3>3. target' = target
      BY <1>2, <3>1, <3>2, WaitingKeepsTarget
    <3> QED BY <1>4, <3>1, <3>2, <3>3
  <2>2. ASSUME NEW u \in Utterances, row'[u] = "submitted" PROVE created'[u] = 1
    <3>1. row[u] = "submitted" \/ (reply = "job" /\ u = target)
      BY <1>1, <1>2, <2>2, SubmittedRows
    <3> QED BY <1>1, <1>4, <3>1 DEF AnswersTrue
  <2> QED BY <2>1, <2>2 DEF AnswersTrue
<1> QED BY <1>1, <1>2, <1>3, <1>4, <1>5, <1>6 DEF DeliveryInv, TypeOK

\* What the service does to its own state keeps it, as long as no task is
\* forgotten and an answer "job" tells of a task.
LEMMA ServiceKeeps ==
  ASSUME DeliveryInv, UNCHANGED outboxVars, AdmissionsTypeOK', OneTask',
         \A v \in Utterances : created[v] = 1 => created'[v] = 1,
         calls' \subseteq calls,
         \/ reply' = reply
         \/ /\ reply' \in Replies \cup {NoReply}
            /\ reply' = "job" => deliver = "waiting" /\ created'[target] = 1
  PROVE  DeliveryInv'
<1>1. /\ TypeOK /\ IInv /\ AnswersTrue /\ OutboxTypeOK
      /\ calls \subseteq Utterances \X Nat /\ reply \in Replies \cup {NoReply}
  BY DEF DeliveryInv, TypeOK
<1>2. IInv' /\ OutboxTypeOK'
  BY <1>1, NextKeeps DEF IInv
<1>3. row' = row /\ deliver' = deliver /\ target' = target
  BY DEF outboxVars, storeVars, deliverVars
<1>4. deliver = "waiting" => target \in Utterances
  BY <1>1 DEF IInv, AttemptHeld, OutboxTypeOK
<1>5. AnswersTrue'
  BY <1>1, <1>3, <1>4 DEF AnswersTrue
<1> QED BY <1>1, <1>2, <1>5 DEF DeliveryInv, TypeOK

\* Every step of either end, and of the net between them, keeps the invariant.
LEMMA DeliveryStep == DeliveryInv /\ [Next]_vars => DeliveryInv'
<1> SUFFICES ASSUME DeliveryInv, [Next]_vars PROVE DeliveryInv'
  OBVIOUS
<1>1. /\ AdmissionsTypeOK /\ OneTask /\ accepted \in SUBSET Utterances
      /\ calls \subseteq Utterances \X Nat
  BY DEF DeliveryInv, TypeOK, OutboxTypeOK
<1>2. CASE Bridge
  BY <1>2, BridgeKeeps
<1>3. CASE Service
  <2>1. AdmissionsTypeOK' /\ OneTask' /\ created' = created
    BY <1>1, <1>3, ServiceFacts DEF Service
  <2> QED BY <1>3, <2>1, ServiceKeeps DEF Service, netVars
<1>4. CASE ServiceRestarts
  <2>1. AdmissionsTypeOK' /\ OneTask' /\ created' = created
    BY <1>1, <1>4, ServiceFacts DEF ServiceRestarts
  <2> QED BY <1>4, <2>1, ServiceKeeps DEF ServiceRestarts
<1>5. ASSUME NEW call \in calls, Lose(call) PROVE DeliveryInv'
  <2>1. /\ UNCHANGED outboxVars /\ UNCHANGED admissionVars /\ calls' \subseteq calls
        /\ reply' = reply \/ reply' = NoReply
    BY <1>5 DEF Lose, Receive
  <2>2. AdmissionsTypeOK' /\ OneTask' /\ created' = created
    BY <1>1, <2>1 DEF admissionVars, AdmissionsTypeOK, OneTask, Admitted
  <2> QED BY <2>1, <2>2, ServiceKeeps DEF NoReply
<1>6. ASSUME NEW call \in calls, NEW answer \in Replies, Handle(call, answer)
      PROVE  DeliveryInv'
  <2>1. PICK u \in Utterances : u = call[1]
    BY <1>1
  <2>2. /\ AdmissionsTypeOK' /\ OneTask'
        /\ \A v \in Utterances : created[v] = 1 => created'[v] = 1
        /\ answer = "job" => created'[u] = 1
    BY <1>1, <1>6, <2>1, SubmitFacts DEF Handle
  <2>3. /\ UNCHANGED outboxVars /\ calls' \subseteq calls
        /\ \/ reply' = reply
           \/ reply' = answer /\ deliver = "waiting" /\ u = target
    BY <1>6, <2>1 DEF Handle, Receive
  <2> QED BY <2>2, <2>3, ServiceKeeps
<1>7. CASE UNCHANGED vars
  <2>1. UNCHANGED outboxVars /\ UNCHANGED admissionVars /\ UNCHANGED netVars
    BY <1>7 DEF vars
  <2>2. AdmissionsTypeOK' /\ OneTask' /\ created' = created
    BY <1>1, <2>1 DEF admissionVars, AdmissionsTypeOK, OneTask, Admitted
  <2> QED BY <2>1, <2>2, ServiceKeeps DEF netVars
<1> QED BY <1>2, <1>3, <1>4, <1>5, <1>6, <1>7 DEF Next

\* The inductive invariant of both ends: an utterance has one task exactly if the
\* service would recognise it, and an answer "job" tells of a task.
THEOREM DeliveryInvariance == Spec => []DeliveryInv
BY DeliveryInit, DeliveryStep, PTL DEF Spec

\* Types of both ends and of the requests between them.
THEOREM DeliveryTypes == Spec => []TypeOK
<1>1. DeliveryInv => TypeOK
  BY DEF DeliveryInv
<1> QED BY <1>1, DeliveryInvariance, PTL

-----------------------------------------------------------------------------
(***************************************************************************)
(* The promise                                                             *)
(***************************************************************************)

\* No task, no stop and no confirmation at the start.
LEMMA PromiseStarts == Init => Promise!Init
BY DEF Init, OutboxInit, AdmissionsInit, Promise!Init

\* Every step makes a task, a confirmation or a stop that the promise allows, or
\* nothing the promise speaks of.
LEMMA PromiseKept ==
  DeliveryInv /\ [Next]_vars => [Promise!Next]_Promise!promiseVars
<1> DEFINE confirmed == {u \in Utterances : row[u] = "submitted"}
<1> SUFFICES ASSUME DeliveryInv, [Next]_vars
             PROVE  [Promise!Next]_Promise!promiseVars
  OBVIOUS
<1>1. /\ AdmissionsTypeOK /\ OneTask /\ accepted \in SUBSET Utterances /\ AnswersTrue
      /\ calls \subseteq Utterances \X Nat /\ IInv /\ reply \in Replies \cup {NoReply}
  BY DEF DeliveryInv, TypeOK, OutboxTypeOK
<1>2. ASSUME UNCHANGED <<created, cutoff>>, confirmed' = confirmed
      PROVE  UNCHANGED Promise!promiseVars
  BY <1>2 DEF Promise!promiseVars
<1>3. CASE Bridge
  <2>1. BridgeNext({reply, NoReply}) /\ UNCHANGED <<created, cutoff>>
    BY <1>3 DEF Bridge, admissionVars
  <2>2. CASE \A u \in Utterances : row'[u] = "submitted" <=> row[u] = "submitted"
    <3>1. confirmed' = confirmed
      BY <2>2
    <3> QED BY <1>2, <2>1, <3>1
  <2>3. CASE /\ reply = "job" /\ target \in Utterances
             /\ \A u \in Utterances :
                  row'[u] = "submitted" <=> row[u] = "submitted" \/ u = target
    <3>1. PICK u \in Utterances : u = target
      BY <2>3
    <3>2. confirmed' = confirmed \cup {u}
      BY <2>3, <3>1
    <3>3. created[u] = 1
      BY <1>1, <2>3, <3>1 DEF AnswersTrue
    <3>4. Promise!Confirm(u)
      BY <2>1, <3>2, <3>3 DEF Promise!Confirm
    <3> QED BY <3>4 DEF Promise!Next
  <2> QED BY <1>1, <2>1, <2>2, <2>3, SubmittedRows
<1>4. ASSUME UNCHANGED outboxVars PROVE confirmed' = confirmed
  BY <1>4 DEF outboxVars, storeVars
<1>5. ASSUME UNCHANGED outboxVars, ServiceNext(accepted) \/ RestartService
      PROVE  Promise!Bar
  <2>1. created' = created /\ cutoff \subseteq cutoff' /\ cutoff' \subseteq Utterances
    BY <1>1, <1>5, ServiceFacts
  <2> QED BY <1>4, <1>5, <2>1 DEF Promise!Bar
<1>6. CASE Service \/ ServiceRestarts
  BY <1>5, <1>6 DEF Service, ServiceRestarts, Promise!Next
<1>7. ASSUME NEW call \in calls, Lose(call) PROVE UNCHANGED Promise!promiseVars
  BY <1>2, <1>4, <1>7 DEF Lose, Receive, admissionVars
<1>8. ASSUME NEW call \in calls, NEW answer \in Replies, Handle(call, answer)
      PROVE  [Promise!Next]_Promise!promiseVars
  <2>1. PICK u \in Utterances : u = call[1]
    BY <1>1
  <2>2. confirmed' = confirmed
    BY <1>4, <1>8 DEF Handle, Receive
  <2>3. /\ cutoff' = cutoff
        /\ \/ created' = created
           \/ u \notin cutoff /\ created[u] = 0 /\ created' = [created EXCEPT ![u] = 1]
    BY <1>1, <1>8, <2>1, SubmitFacts DEF Handle
  <2>4. CASE created' = created
    BY <1>2, <2>2, <2>3, <2>4
  <2>5. CASE u \notin cutoff /\ created[u] = 0 /\ created' = [created EXCEPT ![u] = 1]
    <3>1. Promise!Admit(u)
      BY <2>2, <2>3, <2>5 DEF Promise!Admit
    <3> QED BY <3>1 DEF Promise!Next
  <2> QED BY <2>3, <2>4, <2>5
<1>9. CASE UNCHANGED vars
  BY <1>2, <1>4, <1>9 DEF vars, admissionVars
<1> QED BY <1>3, <1>6, <1>7, <1>8, <1>9 DEF Next

\* The bridge and the service keep the promise of SpeechPromise: at most one task
\* of an utterance, none of one heard before a stored stop, and "submitted" only
\* of an utterance that has its task, through every retry, late or lost request,
\* crash, pruning and failed store.
THEOREM ImplementsPromise == Spec => PromiseSpec
<1>1. Spec => Promise!Init /\ [][Promise!Next]_Promise!promiseVars
  BY PromiseStarts, PromiseKept, DeliveryInvariance, PTL DEF Spec
<1> QED BY <1>1 DEF PromiseSpec, Promise!Spec
=============================================================================
