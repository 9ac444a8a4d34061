---------------------------- MODULE SpeechOutbox ----------------------------
(***************************************************************************)
(* The bridge's side of speech delivery under the coverage policy:         *)
(* CaptionDispatcher (tools/subtitle_bridge.py) with its durable work      *)
(* queue, and SpeechOutbox (tools/speech_outbox.py) with its delivery      *)
(* thread.  Two threads share the outbox table; the dispatcher's lock is   *)
(* held from the insertion of a row to its acknowledgement.  The wait      *)
(* between two attempts is a delivery thread that takes its time.          *)
(***************************************************************************)
EXTENDS SpeechIds, Sequences, SequencesExt

CONSTANT MaxAttempts    \* MAX_ATTEMPTS

ASSUME AttemptAssumption == MaxAttempts \in Nat \ {0}

VARIABLES
  accepted,  \* history: final captions taken by accept
  work,      \* the DiskFifo: its head is the item under way
  order,     \* the outbox rows in rowid order
  row,       \* their state, "none" when there is no row
  attempts,  \* their attempts
  notified,  \* their notified flag
  sent,      \* history: HTTP requests issued
  shown,     \* the last status published, <<state, attempts>>
  closing,   \* CaptionDispatcher.closing
  aborted,   \* CaptionDispatcher.aborted
  outbox,    \* "open", "closing", "aborted" (closing and abort_event)
  dispatch,  \* where the translation thread is
  held,      \* the status the translation thread is about to publish
  deliver,   \* where the delivery thread is
  target,    \* the utterance of the attempt under way, 0 outside _attempt
  seen       \* the snapshot _notify has read, <<utterance, status>>

storeVars   == <<work, order, row, attempts, notified>>
historyVars == <<accepted, sent>>
flagVars    == <<closing, aborted, outbox>>
dispatchVars == <<dispatch, held>>
deliverVars == <<deliver, target, seen>>
outboxVars  == <<storeVars, historyVars, flagVars, dispatchVars, deliverVars,
                 shown>>

Terminal  == {"submitted", "skipped", "failed"}
RowStates == {"queued", "sending", "retrying"} \cup Terminal
NoReply   == "none"
NoStatus  == <<"none", 0>>
Rejected  == <<"untranslated", 0>>   \* translation_status failed
NoNotice  == <<0, NoStatus>>

Up         == dispatch # "down"
Item       == Head(work)
Status(u)  == <<row[u], attempts[u]>>
LockHeld   == dispatch \in {"announce", "announced"}
Alive      == deliver \notin {"exited", "failed", "down"}

\* ORDER BY rowid LIMIT 1 among the rows of the set.
Oldest(S) ==
  order[CHOOSE i \in DOMAIN order :
          order[i] \in S /\ \A j \in 1..(i - 1) : order[j] \notin S]

Unnotified == {u \in Utterances : row[u] # "none" /\ ~notified[u]}

\* Rows that have been tried before are passed over.
BugReady == {u \in Utterances : row[u] = "queued"}
Ready    == {u \in Utterances : row[u] \in {"queued", "retrying"}}

OutboxInit ==
  /\ accepted = {} /\ work = <<>>
  /\ order = <<>>
  /\ row = [u \in Utterances |-> "none"]
  /\ attempts = [u \in Utterances |-> 0]
  /\ notified = [u \in Utterances |-> FALSE]
  /\ sent = [u \in Utterances |-> 0]
  /\ shown = [u \in Utterances |-> NoStatus]
  /\ closing = FALSE /\ aborted = FALSE /\ outbox = "open"
  /\ dispatch = "idle" /\ held = NoStatus
  /\ deliver = "loop" /\ target = 0 /\ seen = NoNotice

\* SpeechOutbox.acknowledge: only the status that was published.
Acknowledge(u, status) ==
  notified' = [notified EXCEPT ![u] = @ \/ Status(u) = status]

-----------------------------------------------------------------------------
(***************************************************************************)
(* The main thread                                                         *)
(***************************************************************************)

\* accept of a final caption; captions arrive in the order they were spoken.
Accept(u) ==
  /\ Up /\ ~closing
  /\ u \notin accepted
  /\ \A v \in Utterances : v < u => v \in accepted
  /\ accepted' = accepted \cup {u}
  /\ work' = Append(work, u)
  /\ UNCHANGED <<order, row, attempts, notified, sent, flagVars,
                 dispatchVars, deliverVars, shown>>

Close ==
  /\ Up /\ ~closing
  /\ closing' = TRUE
  /\ UNCHANGED <<storeVars, historyVars, aborted, outbox, dispatchVars,
                 deliverVars, shown>>

\* close gives up waiting: it needs the dispatcher's lock.
CloseTimesOut ==
  /\ Up /\ closing /\ ~aborted /\ ~LockHeld
  /\ dispatch # "ended"
  /\ aborted' = TRUE
  /\ outbox' = "aborted"
  /\ UNCHANGED <<storeVars, historyVars, closing, dispatchVars, deliverVars,
                 shown>>

-----------------------------------------------------------------------------
(***************************************************************************)
(* The translation thread: run, process_pending                            *)
(***************************************************************************)

\* Lease the oldest item and look its row up.
TakeItem ==
  /\ dispatch = "idle" /\ ~aborted /\ work # <<>>
  /\ IF row[Item] # "none"
     THEN dispatch' = "restore" /\ held' = Status(Item)
     ELSE dispatch' = "translate" /\ UNCHANGED held
  /\ UNCHANGED <<storeVars, historyVars, flagVars, deliverVars, shown>>

\* An item that already has a row is not translated again: its status is
\* published, if the dispatcher may still publish, then acknowledged.
Restore ==
  /\ dispatch = "restore"
  /\ IF aborted
     THEN dispatch' = "done" /\ UNCHANGED shown
     ELSE dispatch' = "restored" /\ shown' = [shown EXCEPT ![Item] = held]
  /\ UNCHANGED <<storeVars, historyVars, flagVars, held, deliverVars>>

\* The translation fails or is rejected, which is published unless the
\* dispatcher was aborted meanwhile.
NoTranslation ==
  /\ dispatch = "translate"
  /\ dispatch' = "done"
  /\ shown' = IF aborted THEN shown ELSE [shown EXCEPT ![Item] = Rejected]
  /\ UNCHANGED <<storeVars, historyVars, flagVars, held, deliverVars>>

\* enqueue_speech up to the insertion: the lock is now held.
Enqueue ==
  /\ dispatch = "translate" /\ ~aborted
  /\ outbox = "open" /\ deliver # "failed"
  /\ order' = Append(order, Item)
  /\ row' = [row EXCEPT ![Item] = "queued"]
  /\ held' = <<"queued", 0>>
  /\ dispatch' = "announce"
  /\ UNCHANGED <<work, attempts, notified, historyVars, flagVars, deliverVars,
                 shown>>

\* The outbox is closed, its thread has died or it cannot store the row: the
\* dispatcher aborts, keeps the item and shuts the outbox down.
EnqueueFails ==
  /\ dispatch = "translate" /\ ~aborted
  /\ shown' = IF outbox = "open" /\ deliver # "failed"
              THEN [shown EXCEPT ![Item] = <<"failed", 0>>] ELSE shown
  /\ aborted' = TRUE
  /\ outbox' = "aborted"
  /\ dispatch' = "joining"
  /\ UNCHANGED <<storeVars, historyVars, closing, held, deliverVars>>

Announce ==
  /\ dispatch = "announce"
  /\ shown' = [shown EXCEPT ![Item] = held]
  /\ dispatch' = "announced"
  /\ UNCHANGED <<storeVars, historyVars, flagVars, held, deliverVars>>

\* acknowledge, after Announce (which lets the lock go) or Restore.
AcknowledgeShown ==
  /\ dispatch \in {"announced", "restored"}
  /\ Acknowledge(Item, held)
  /\ dispatch' = "done"
  /\ UNCHANGED <<work, order, row, attempts, historyVars, flagVars, held,
                 deliverVars, shown>>

\* The item is given up although the dispatcher was aborted.
BugTaskDone == work' = Tail(work)

\* DiskFifo.task_done(retain=self.aborted).
TaskDone == work' = IF aborted THEN work ELSE Tail(work)

FinishItem ==
  /\ dispatch = "done"
  /\ TaskDone
  /\ dispatch' = "idle"
  /\ held' = NoStatus
  /\ UNCHANGED <<order, row, attempts, notified, historyVars, flagVars,
                 deliverVars, shown>>

\* The loop ends; SpeechOutbox.close raises closing and joins the thread.
LeaveLoop ==
  /\ dispatch = "idle"
  /\ aborted \/ (closing /\ work = <<>>)
  /\ outbox' = IF outbox = "open" THEN "closing" ELSE outbox
  /\ dispatch' = "joining"
  /\ UNCHANGED <<storeVars, historyVars, closing, aborted, held, deliverVars,
                 shown>>

JoinDelivery ==
  /\ dispatch = "joining" /\ ~Alive
  /\ dispatch' = "ended"
  /\ UNCHANGED <<storeVars, historyVars, flagVars, held, deliverVars, shown>>

DispatchNext ==
  \/ TakeItem \/ Restore \/ NoTranslation \/ Enqueue \/ EnqueueFails
  \/ Announce \/ AcknowledgeShown \/ FinishItem \/ LeaveLoop \/ JoinDelivery

-----------------------------------------------------------------------------
(***************************************************************************)
(* The delivery thread: SpeechOutbox.run                                   *)
(***************************************************************************)

\* _notify's query: the oldest row whose status has not been acknowledged.
ReadNotice ==
  LET u == Oldest(Unnotified) IN
  /\ seen' = <<u, Status(u)>>
  /\ deliver' = "publish"

\* _notify returns, to _attempt or to the head of the loop.
LeaveNotify ==
  /\ deliver' = IF target = 0 THEN "loop" ELSE "send"
  /\ seen' = NoNotice

\* The head of the loop.
BeginRound ==
  /\ deliver = "loop"
  /\ \/ outbox = "aborted" /\ deliver' = "exited" /\ UNCHANGED seen
     \/ outbox # "aborted" /\ Unnotified # {} /\ ReadNotice
     \/ outbox # "aborted" /\ Unnotified = {} /\ deliver' = "next" /\ UNCHANGED seen
  /\ UNCHANGED <<storeVars, historyVars, flagVars, dispatchVars, target, shown>>

\* publish is CaptionDispatcher.speech_update: it waits for the lock, and once
\* the dispatcher has aborted it publishes nothing and aborts the outbox.
Publish ==
  /\ deliver = "publish" /\ ~LockHeld
  /\ IF aborted
     THEN outbox' = "aborted" /\ LeaveNotify /\ UNCHANGED shown
     ELSE /\ shown' = [shown EXCEPT ![seen[1]] = seen[2]]
          /\ deliver' = "acknowledge"
          /\ UNCHANGED <<outbox, seen>>
  /\ UNCHANGED <<storeVars, historyVars, closing, aborted, dispatchVars, target>>

AcknowledgeNotice ==
  /\ deliver = "acknowledge"
  /\ Acknowledge(seen[1], seen[2])
  /\ LeaveNotify
  /\ UNCHANGED <<work, order, row, attempts, historyVars, flagVars,
                 dispatchVars, target, shown>>

SetRow(u, state) ==
  /\ row' = [row EXCEPT ![u] = state]
  /\ notified' = [notified EXCEPT ![u] = FALSE]

\* The attempt limit is off by one.
BugMayAttempt(u) == attempts[u] <= MaxAttempts
MayAttempt(u)    == attempts[u] < MaxAttempts

\* _next, and _attempt up to its commit: the oldest row that is queued or to be
\* retried is marked as being sent, or fails at the attempt limit.
TakeRow ==
  /\ deliver = "next"
  /\ IF Ready = {}
     THEN deliver' = "check" /\ UNCHANGED <<row, notified, attempts, target>>
     ELSE LET u == Oldest(Ready) IN
          IF MayAttempt(u)
          THEN /\ SetRow(u, "sending")
               /\ attempts' = [attempts EXCEPT ![u] = @ + 1]
               /\ target' = u
               /\ deliver' = "marked"
          ELSE /\ SetRow(u, "failed")
               /\ deliver' = "loop"
               /\ UNCHANGED <<attempts, target>>
  /\ UNCHANGED <<work, order, historyVars, flagVars, dispatchVars, seen, shown>>

\* No row was found: leave if the outbox is closing, else wait.
CheckClosing ==
  /\ deliver = "check"
  /\ deliver' = IF outbox = "open" THEN "loop" ELSE "exited"
  /\ UNCHANGED <<storeVars, historyVars, flagVars, dispatchVars, target, seen,
                 shown>>

\* _attempt's own call of _notify.
NoticeMarked ==
  /\ deliver = "marked"
  /\ IF Unnotified = {} THEN LeaveNotify ELSE ReadNotice
  /\ UNCHANGED <<storeVars, historyVars, flagVars, dispatchVars, target, shown>>

\* An aborted attempt goes back to the queue uncounted; otherwise the request
\* leaves.
SendRequest ==
  /\ deliver = "send"
  /\ IF outbox = "aborted"
     THEN /\ SetRow(target, "queued")
          /\ attempts' = [attempts EXCEPT ![target] = @ - 1]
          /\ target' = 0
          /\ deliver' = "loop"
          /\ UNCHANGED sent
     ELSE /\ sent' = [sent EXCEPT ![target] = @ + 1]
          /\ deliver' = "waiting"
          /\ UNCHANGED <<row, notified, attempts, target>>
  /\ UNCHANGED <<work, order, accepted, flagVars, dispatchVars,
                 seen, shown>>

\* What an answer, or none within the timeout, makes of the row.
Outcome(answer, tries) ==
  CASE answer = "job"     -> "submitted"
    [] answer = "skipped" -> "skipped"
    [] answer \in {"busy", NoReply} /\ tries < MaxAttempts -> "retrying"
    [] OTHER -> "failed"

Answered(answer) ==
  /\ deliver = "waiting"
  /\ SetRow(target, Outcome(answer, attempts[target]))
  /\ target' = 0
  /\ deliver' = "loop"
  /\ UNCHANGED <<work, order, attempts, historyVars, flagVars, dispatchVars,
                 seen, shown>>

\* A storage or program error ends the thread (worker_error).
DeliveryFails ==
  /\ Alive
  /\ deliver' = "failed" /\ target' = 0 /\ seen' = NoNotice
  /\ UNCHANGED <<storeVars, historyVars, flagVars, dispatchVars, shown>>

DeliverNext(answers) ==
  \/ BeginRound \/ Publish \/ AcknowledgeNotice \/ TakeRow \/ CheckClosing
  \/ NoticeMarked \/ SendRequest
  \/ \E answer \in answers : Answered(answer)

-----------------------------------------------------------------------------
(***************************************************************************)
(* The process: a crash, or main returning after close, loses what is not  *)
(* in the two databases.                                                   *)
(***************************************************************************)

BridgeStops ==
  /\ Up
  /\ dispatch' = "down" /\ held' = NoStatus
  /\ deliver' = "down" /\ target' = 0 /\ seen' = NoNotice
  /\ closing' = FALSE /\ aborted' = FALSE /\ outbox' = "open"
  /\ UNCHANGED <<storeVars, historyVars, shown>>

Exit == dispatch = "ended" /\ BridgeStops

\* An interrupted attempt is counted as not made.
BugRecoverUncounted ==
  /\ row' = [u \in Utterances |->
               IF row[u] = "sending" THEN "retrying" ELSE row[u]]
  /\ attempts' = [u \in Utterances |->
                    IF row[u] = "sending" THEN attempts[u] - 1 ELSE attempts[u]]
  /\ notified' = [u \in Utterances |-> notified[u] /\ row[u] # "sending"]

\* An interrupted attempt is left as it was.
BugRecoverNothing == UNCHANGED <<row, attempts, notified>>

\* An attempt that was under way may have been admitted or not: it is repeated,
\* and it counts.
Recover ==
  /\ row' = [u \in Utterances |->
               IF row[u] = "sending" THEN "retrying" ELSE row[u]]
  /\ notified' = [u \in Utterances |-> notified[u] /\ row[u] # "sending"]
  /\ UNCHANGED attempts

BridgeStarts ==
  /\ ~Up
  /\ Recover
  /\ dispatch' = "idle" /\ deliver' = "loop"
  /\ UNCHANGED <<work, order, historyVars, flagVars, held, target, seen, shown>>

-----------------------------------------------------------------------------
(***************************************************************************)
(* The outbox against a service that answers anything or not at all        *)
(***************************************************************************)

BridgeNext(answers) ==
  \/ \E u \in Utterances : Accept(u)
  \/ Close \/ CloseTimesOut
  \/ DispatchNext \/ DeliverNext(answers) \/ DeliveryFails
  \/ BridgeStops \/ BridgeStarts

AnyAnswer == Replies \cup {NoReply}

OutboxSpec == OutboxInit /\ [][BridgeNext(AnyAnswer)]_outboxVars

OutboxTypeOK ==
  /\ accepted \subseteq Utterances
  /\ work \in Seq(Utterances) /\ order \in Seq(Utterances)
  /\ row \in [Utterances -> RowStates \cup {"none"}]
  /\ attempts \in [Utterances -> 0..MaxAttempts]
  /\ notified \in [Utterances -> BOOLEAN]
  /\ sent \in [Utterances -> Nat]
  /\ shown \in [Utterances ->
                ((RowStates \cup {"none"}) \X Nat) \cup {Rejected}]
  /\ closing \in BOOLEAN /\ aborted \in BOOLEAN
  /\ outbox \in {"open", "closing", "aborted"}
  /\ dispatch \in {"idle", "restore", "restored", "translate", "announce",
                   "announced", "done", "joining", "ended", "down"}
  /\ held \in (RowStates \cup {"none"}) \X Nat
  /\ deliver \in {"loop", "publish", "acknowledge", "next", "check", "marked",
                  "send", "waiting", "exited", "failed", "down"}
  /\ target \in Utterances \cup {0}
  /\ seen \in (Utterances \cup {0}) \X ((RowStates \cup {"none"}) \X Nat)

-----------------------------------------------------------------------------
(***************************************************************************)
(* Properties                                                              *)
(***************************************************************************)

\* MAX_ATTEMPTS bounds the requests of an utterance over all runs of the bridge:
\* an attempt cut off by a crash is counted, one given up by an abort is not
\* issued (speech_outbox.py:138-152, 47-49).
AttemptLimit ==
  \A u \in Utterances : sent[u] <= attempts[u] /\ attempts[u] <= MaxAttempts

\* Requests are submitted in FIFO order (REFERENCE_SPEECH.md:393): no utterance
\* is tried while an earlier row is still to be delivered.
DeliveredInOrder ==
  \A i, j \in DOMAIN order :
    i < j /\ sent[order[j]] > 0 => row[order[i]] \in Terminal

\* The service hears of an utterance a bounded number of times, and in order.
RequestsInBounds == AttemptLimit /\ DeliveredInOrder

\* An accepted caption stays in the work queue until it has an outbox row or its
\* viewer was told that there is no translation, whatever is aborted or crashes
\* in between (subtitle_bridge.py:575-627).
NothingDropped ==
  \A u \in accepted :
    u \in ToSet(work) \/ row[u] # "none" \/ shown[u] = Rejected

\* What the safety properties rest on.  The outbox lists each row once.
RowsListed ==
  /\ \A u \in Utterances : row[u] # "none" => \E i \in DOMAIN order : order[i] = u
  /\ \A i \in DOMAIN order : row[order[i]] # "none"
  /\ \A i, j \in DOMAIN order : order[i] = order[j] => i = j

\* What the translation thread knows of the item it works on.
ItemKnown ==
  /\ dispatch \notin {"idle", "joining", "ended", "down"} => work # <<>>
  /\ dispatch = "translate" => row[Item] = "none"
  /\ dispatch \in {"restore", "restored", "announce", "announced"} =>
       row[Item] # "none"
  /\ dispatch = "done" /\ ~aborted => row[Item] # "none" \/ shown[Item] = Rejected

\* Only the row of the attempt under way is marked as being sent, except for what
\* a dead delivery thread left behind.
AttemptHeld ==
  /\ dispatch = "down" => deliver = "down"
  /\ deliver \in {"marked", "send", "waiting"} => target # 0
  /\ deliver \in {"loop", "next", "check", "exited", "failed", "down"} => target = 0
  /\ target # 0 => row[target] = "sending"
  /\ \A u \in Utterances :
       row[u] = "sending" => u = target \/ deliver \in {"failed", "down"}

\* The status about to be published is that of a row.
SeenListed ==
  deliver \in {"publish", "acknowledge"} =>
    seen[1] \in Utterances /\ row[seen[1]] # "none"

\* An attempt is counted before its request leaves.
AttemptsCounted ==
  /\ \A u \in Utterances : sent[u] <= attempts[u]
  /\ \A u \in Utterances : row[u] = "none" => attempts[u] = 0
  /\ target # 0 /\ deliver # "waiting" => sent[target] < attempts[target]

\* Rows are tried in the order of the outbox.
Tried(u) == row[u] \notin {"none", "queued"} \/ sent[u] > 0
TriedInOrder ==
  \A i, j \in DOMAIN order :
    i < j /\ Tried(order[j]) => row[order[i]] \in Terminal

\* The inductive invariant.
IInv ==
  /\ OutboxTypeOK /\ RowsListed /\ ItemKnown /\ AttemptHeld /\ SeenListed
  /\ AttemptsCounted /\ TriedInOrder /\ NothingDropped

\* While the bridge runs and was not aborted, every row comes to a terminal
\* status that has been notified: a busy service, a lost request or a row that
\* keeps failing blocks the rows behind it only for its bounded attempts.
Serving    == Up /\ ~aborted /\ deliver # "failed"
Settled(u) == row[u] \in Terminal /\ notified[u]
DeliveryResolves ==
  \A u \in Utterances :
    row[u] # "none" /\ Serving ~> (Settled(u) \/ ~Serving)

\* Both threads of the bridge are scheduled, every request has a timeout, and
\* main returns once close has joined the threads.
Fairness ==
  /\ WF_outboxVars(DispatchNext)
  /\ WF_outboxVars(DeliverNext(AnyAnswer))
  /\ WF_outboxVars(Exit)

LiveSpec == OutboxSpec /\ Fairness
=============================================================================
