------------------------------ MODULE Captions ------------------------------
(***************************************************************************)
(* What becomes of a recognised utterance: the recogniser with its refiner *)
(* (tools/stt_service.py, asr_refinement.py) writes events into a pipe;    *)
(* the bridge (subtitle_bridge.py, with --final-model and --speak)         *)
(* publishes captions, waits for the refinement, translates, and publishes *)
(* every change of the delivery.  What the outbox does between two changes *)
(* is SpeechOutbox.  Partial results, which only precede their final, are  *)
(* left out.                                                               *)
(*                                                                         *)
(* Definitions named Bug... are plausible bugs of the definition below     *)
(* them.  No specification uses them: the properties are tested on them.   *)
(***************************************************************************)
EXTENDS Integers, Sequences, SequencesExt, FiniteSets

CONSTANTS
  MaxFinals,   \* bound: finals, in all the lives of the bridge
  MaxLives,    \* bound: lives
  Restarts,    \* bound: the policies under which there is a second life
  QueueLimit,  \* pending_limit of CaptionDispatcher (realtime policy)
  RefineLimit, \* pending_limit of UtteranceRefiner
  MaxNews      \* bound: the states a row of the outbox passes through

ASSUME BoundAssumption ==
  MaxFinals \in Nat \ {0} /\ MaxLives \in Nat \ {0} /\ Restarts \subseteq BOOLEAN
ASSUME LimitAssumption ==
  QueueLimit \in Nat \ {0} /\ RefineLimit \in Nat \ {0} /\ MaxNews \in Nat \ {0}

VARIABLES
  durable,   \* the coverage policy: the work queue is a DiskFifo
  life,      \* session_id: the lives of the bridge are numbered
  stt,       \* the recogniser: "running" or "ended"
  finals,    \* its counter
  said,      \* bound: the finals of all lives
  jobs,      \* UtteranceRefiner.jobs, the oldest first
  pipe,      \* the recogniser's standard output
  main,      \* where the bridge's main thread is
  closing,
  aborted,
  broken,    \* an unexpected error has ended process_pending
  latest,    \* the records in memory
  refined,   \* the results the main thread has received
  queue,     \* the utterances that wait for translation
  item,      \* the one under way, or Nobody
  saved,     \* the record stored with each item of a durable queue
  worker,    \* where the translation thread is
  text,      \* whose refinement it translates; Nobody's is the online text
  held,      \* the outbox context it has in hand
  row,       \* how many states the row of an utterance has had; 0 without a row
  context,   \* the context stored with it
  told,      \* its notified flag
  notice,    \* what the delivery thread is publishing
  last,      \* the last record published
  unstored   \* history: those whose acceptance a crash or an abort cut off

sttVars  == <<stt, finals, said, jobs>>
flagVars == <<closing, aborted, broken>>
workVars == <<queue, item, saved>>
handVars == <<worker, text, held>>
rowVars  == <<row, context, told>>
showVars == <<latest, last>>
vars == <<durable, life, sttVars, pipe, main, flagVars, refined, workVars, handVars,
          rowVars, notice, showVars, unstored>>

Lives == 1 .. MaxLives
Seqs == 1 .. MaxFinals
Utterances == Lives \X Seqs
Nobody == <<0, 0>>
Own(seq) == <<life, seq>>

NoRecord == [revision |-> -1, status |-> "none", source |-> Nobody, news |-> 0]
NoNotice == [of |-> Nobody, news |-> 0, record |-> NoRecord, step |-> "none"]
Terminal == {"completed", "failed", "skipped"}
Event(kind, seq) == [kind |-> kind, seq |-> seq, good |-> FALSE]

Up == main \notin {"exited", "down"}

\* CaptionDispatcher.lock, where it is held over several steps.
Locked == main = "storing" \/ worker \in {"announce", "announced"}

None(value) == [u \in Utterances |-> value]
NothingRefined == [seq \in Seqs |-> "none"]

Init ==
  /\ durable \in BOOLEAN /\ life = 1
  /\ stt = "running" /\ finals = 0 /\ said = 0 /\ jobs = <<>> /\ pipe = <<>>
  /\ main = "reading"
  /\ closing = FALSE /\ aborted = FALSE /\ broken = FALSE
  /\ refined = NothingRefined
  /\ queue = <<>> /\ item = Nobody /\ saved = None(NoRecord)
  /\ worker = "idle" /\ text = Nobody /\ held = NoNotice
  /\ row = None(0) /\ context = None(NoRecord) /\ told = None(TRUE)
  /\ notice = NoNotice
  /\ latest = None(NoRecord) /\ last = None(NoRecord) /\ unstored = {}

-----------------------------------------------------------------------------
(***************************************************************************)
(* The recogniser                                                          *)
(***************************************************************************)

\* cut_final: the final is out before the refiner gets the sound, of which there may
\* be none.  With the first of its jobs in hand or not, the refiner has a place or
\* refuses at once.
Final ==
  /\ stt = "running" /\ said < MaxFinals
  /\ finals' = finals + 1 /\ said' = said + 1
  /\ LET seq == finals + 1  out == Append(pipe, Event("final", seq))
     IN  \/ pipe' = out /\ UNCHANGED jobs
         \/ /\ Len(jobs) <= RefineLimit
            /\ jobs' = Append(jobs, seq) /\ pipe' = out
         \/ /\ Len(jobs) >= RefineLimit
            /\ pipe' = Append(out, Event("refined", seq)) /\ UNCHANGED jobs
  /\ UNCHANGED <<durable, life, stt, main, flagVars, refined, workVars, handVars,
                 rowVars, notice, showVars, unstored>>

\* UtteranceRefiner.run: a text, or the error there was.
RefineReport ==
  /\ stt = "running" /\ jobs # <<>>
  /\ \E good \in BOOLEAN :
       pipe' = Append(pipe, [Event("refined", Head(jobs)) EXCEPT !.good = good])
  /\ jobs' = Tail(jobs)
  /\ UNCHANGED <<durable, life, stt, finals, said, main, flagVars, refined,
                 workVars, handVars, rowVars, notice, showVars, unstored>>

\* The end: refiner.close has waited for the thread and reports what it still has, or
\* the process has failed.
SttEnds ==
  /\ stt = "running"
  /\ stt' = "ended" /\ jobs' = <<>>
  /\ pipe' \in {pipe \o [i \in DOMAIN jobs |-> Event("refined", jobs[i])], pipe}
  /\ UNCHANGED <<durable, life, finals, said, main, flagVars, refined, workVars, handVars,
                 rowVars, notice, showVars, unstored>>

Recogniser == Up /\ (Final \/ RefineReport \/ SttEnds)

-----------------------------------------------------------------------------
(***************************************************************************)
(* Publication: CaptionDispatcher.update and speech_update                 *)
(***************************************************************************)

\* The new records of the utterances in S; a stored item keeps its record.
Publishing(S, record) ==
  /\ latest' = [u \in Utterances |-> IF u \in S THEN record[u] ELSE latest[u]]
  /\ last'   = [u \in Utterances |-> IF u \in S THEN record[u] ELSE last[u]]
  /\ saved'  = [u \in Utterances |-> IF u \in S /\ saved[u] # NoRecord
                                     THEN record[u] ELSE saved[u]]

Known(u) == latest[u] # NoRecord \/ saved[u] # NoRecord

Successor(u) ==
  [IF latest[u] # NoRecord THEN latest[u] ELSE saved[u] EXCEPT !.revision = @ + 1]

\* Mutant: what is late is published after an abort too.
BugUpdate(u, record) == Publishing({u}, [v \in {u} |-> record])

Update(u, record) ==
  IF aborted THEN UNCHANGED <<saved, showVars>>
  ELSE Publishing({u}, [v \in {u} |-> record])

\* A record that is not in memory is taken from the context.
SpokenOf(u, record, news) ==
  [IF latest[u] # NoRecord THEN latest[u] ELSE record
     EXCEPT !.revision = @ + 1, !.news = news]

SpeechUpdate(u, record, news) ==
  Publishing({u}, [v \in {u} |-> SpokenOf(u, record, news)])

-----------------------------------------------------------------------------
(***************************************************************************)
(* The bridge's main thread: accept and close                              *)
(***************************************************************************)

\* The next event; nothing is read once the worker's error has been raised.
Reading(kind) ==
  /\ main = "reading" /\ ~Locked
  /\ worker # "ended"
  /\ pipe # <<>> /\ Head(pipe).kind = kind

\* A final that is known is nothing new.  Otherwise the caption is out, and the lock is
\* kept until the item is stored.
AcceptFinal ==
  /\ Reading("final")
  /\ LET u == Own(Head(pipe).seq)
     IN  IF latest[u] # NoRecord
         THEN pipe' = Tail(pipe) /\ UNCHANGED <<main, saved, showVars>>
         ELSE /\ Update(u, [Successor(u) EXCEPT !.status = "pending"])
              /\ main' = "storing" /\ UNCHANGED pipe
  /\ UNCHANGED <<durable, life, sttVars, flagVars, refined, queue, item, handVars,
                 rowVars, notice, unstored>>

\* Mutant: the queue is never full.
BugStore ==
  /\ main = "storing"
  /\ queue' = Append(queue, Own(Head(pipe).seq))
  /\ main' = "reading" /\ pipe' = Tail(pipe)
  /\ UNCHANGED <<durable, life, sttVars, flagVars, refined, item, saved, handVars,
                 rowVars, notice, showVars, unstored>>

\* put_nowait: a full queue skips the translation, a store that fails fails it.  After
\* an abort neither is published; a caption without a record is not stored.
Store ==
  /\ main = "storing"
  /\ LET u == Own(Head(pipe).seq)
         refused(status) ==
           /\ IF latest[u] = NoRecord THEN UNCHANGED <<saved, showVars>>
              ELSE Update(u, [Successor(u) EXCEPT !.status = status])
           /\ unstored' = IF aborted THEN unstored \cup {u} ELSE unstored
           /\ UNCHANGED queue
     IN  \/ durable /\ refused("failed")
         \/ ~durable /\ Len(queue) = QueueLimit /\ refused("skipped")
         \/ ~durable /\ latest[u] = NoRecord /\ refused("failed")
         \/ /\ latest[u] # NoRecord
            /\ IF durable THEN worker # "ended" ELSE Len(queue) < QueueLimit
            /\ queue' = Append(queue, u)
            /\ saved' = IF durable THEN [saved EXCEPT ![u] = latest[u]] ELSE saved
            /\ UNCHANGED <<showVars, unstored>>
  /\ main' = "reading" /\ pipe' = Tail(pipe)
  /\ UNCHANGED <<durable, life, sttVars, flagVars, refined, item, handVars, rowVars,
                 notice>>

\* The result is kept for the worker, and shown.
AcceptRefined ==
  /\ Reading("refined")
  /\ LET event == Head(pipe)  u == Own(event.seq)
     IN  /\ refined' = [refined EXCEPT ![event.seq] =
                          IF event.good THEN "completed" ELSE "failed"]
         /\ IF Known(u) THEN Update(u, Successor(u)) ELSE UNCHANGED <<saved, showVars>>
  /\ pipe' = Tail(pipe)
  /\ UNCHANGED <<durable, life, sttVars, main, flagVars, queue, item, handVars,
                 rowVars, notice, unstored>>

\* Mutant: the bridge closes when the recogniser has ended, whatever it has written.
BugBeginClose ==
  /\ main = "reading" /\ ~Locked
  /\ stt = "ended"
  /\ main' = "closing" /\ closing' = TRUE
  /\ UNCHANGED <<durable, life, sttVars, pipe, aborted, broken, refined, workVars,
                 handVars, rowVars, notice, showVars, unstored>>

\* The end of the recogniser's output, or the worker's error.
BeginClose ==
  /\ main = "reading" /\ ~Locked
  /\ \/ pipe = <<>> /\ stt = "ended"
     \/ worker = "ended"
  /\ main' = "closing" /\ closing' = TRUE
  /\ UNCHANGED <<durable, life, sttVars, pipe, aborted, broken, refined, workVars,
                 handVars, rowVars, notice, showVars, unstored>>

CloseReturns ==
  /\ main = "closing" /\ worker = "ended"
  /\ main' = "leaving"
  /\ UNCHANGED <<durable, life, sttVars, pipe, flagVars, refined, workVars, handVars,
                 rowVars, notice, showVars, unstored>>

\* After 20 seconds, in the realtime policy only, what is pending is marked.  The
\* threads go on until the process ends, which waits for the recogniser.
CloseTimesOut ==
  /\ main = "closing" /\ ~durable /\ worker # "ended" /\ ~Locked
  /\ IF aborted THEN UNCHANGED <<saved, showVars>>
     ELSE Publishing({u \in Utterances : latest[u].status = "pending"},
                     [u \in Utterances |-> [Successor(u) EXCEPT !.status = "skipped"]])
  /\ main' = "leaving" /\ aborted' = TRUE
  /\ UNCHANGED <<durable, life, sttVars, pipe, closing, broken, refined, queue, item,
                 handVars, rowVars, notice, unstored>>

Exit ==
  /\ main = "leaving"
  /\ main' = "exited"
  /\ UNCHANGED <<durable, life, sttVars, pipe, flagVars, refined, workVars, handVars,
                 rowVars, notice, showVars, unstored>>

MainThread ==
  AcceptFinal \/ Store \/ AcceptRefined \/ BeginClose \/ CloseReturns \/ Exit

-----------------------------------------------------------------------------
(***************************************************************************)
(* The translation thread: run, process_pending                            *)
(***************************************************************************)

\* The oldest item; if it has a row its state is published instead.
TakeItem ==
  /\ worker = "idle" /\ ~aborted /\ queue # <<>>
  /\ item' = Head(queue) /\ queue' = Tail(queue)
  /\ IF row[item'] # 0
     THEN /\ held' = [NoNotice EXCEPT !.of = item', !.news = row[item'],
                                      !.record = context[item']]
          /\ worker' = "restore"
     ELSE worker' = "await" /\ UNCHANGED held
  /\ UNCHANGED <<durable, life, sttVars, pipe, main, flagVars, refined, saved, text,
                 rowVars, notice, showVars, unstored>>

\* Mutant: a restored item takes what this session has for its number.
BugAwait ==
  /\ worker = "await" /\ ~Locked
  /\ IF refined[item[2]] # "none"
     THEN /\ text' \in IF refined[item[2]] = "completed" THEN {Nobody, Own(item[2])}
                       ELSE {Nobody}
          /\ refined' = [refined EXCEPT ![item[2]] = "none"]
     ELSE text' = Nobody /\ UNCHANGED refined
  /\ worker' = "translate"
  /\ UNCHANGED <<durable, life, sttVars, pipe, main, flagVars, workVars, held, rowVars,
                 notice, showVars, unstored>>

\* await_refinement: a result that is there is taken, and used if it resembles the
\* source; else the deadline passes, or the bridge closes.  An item of an earlier
\* session does not wait.
Await ==
  /\ worker = "await" /\ ~Locked
  /\ IF item[1] = life /\ refined[item[2]] # "none"
     THEN /\ text' \in IF refined[item[2]] = "completed" THEN {Nobody, item}
                       ELSE {Nobody}
          /\ refined' = [refined EXCEPT ![item[2]] = "none"]
     ELSE text' = Nobody /\ UNCHANGED refined
  /\ worker' = "translate"
  /\ UNCHANGED <<durable, life, sttVars, pipe, main, flagVars, workVars, held, rowVars,
                 notice, showVars, unstored>>

\* caption_updates: a translation, or a rejection or an error.
Translate ==
  /\ worker = "translate" /\ ~Locked
  /\ \E status \in {"completed", "failed"} :
       /\ Update(item, [Successor(item) EXCEPT !.status = status, !.source = text])
       /\ worker' = IF status = "completed" /\ ~aborted THEN "context" ELSE "done"
  /\ text' = Nobody
  /\ UNCHANGED <<durable, life, sttVars, pipe, main, flagVars, refined, queue, item,
                 held, rowVars, notice, unstored>>

\* The outbox context is a copy of the record, made without the lock.
TakeContext ==
  /\ worker = "context"
  /\ held' = [NoNotice EXCEPT !.of = item, !.news = 1, !.record = latest[item]]
  /\ worker' = "enqueue"
  /\ UNCHANGED <<durable, life, sttVars, pipe, main, flagVars, refined, workVars, text,
                 rowVars, notice, showVars, unstored>>

\* enqueue_speech: the lock is held from here to the acknowledgement.
Enqueue ==
  /\ worker = "enqueue" /\ ~Locked
  /\ IF aborted
     THEN worker' = "done" /\ UNCHANGED rowVars
     ELSE /\ row' = [row EXCEPT ![item] = 1]
          /\ context' = [context EXCEPT ![item] = held.record]
          /\ told' = [told EXCEPT ![item] = FALSE]
          /\ worker' = "announce"
  /\ UNCHANGED <<durable, life, sttVars, pipe, main, flagVars, refined, workVars, text,
                 held, notice, showVars, unstored>>

\* An outbox that cannot store it is an error nobody expects, and is shown.
EnqueueFails ==
  /\ worker = "enqueue" /\ ~Locked /\ ~aborted
  /\ SpeechUpdate(item, held.record, 0)
  /\ aborted' = TRUE /\ broken' = TRUE /\ worker' = "done"
  /\ UNCHANGED <<durable, life, sttVars, pipe, main, closing, refined, queue, item,
                 text, held, rowVars, notice, unstored>>

Announce ==
  /\ worker = "announce"
  /\ SpeechUpdate(item, held.record, held.news)
  /\ held' = [held EXCEPT !.record = latest'[item]]
  /\ worker' = "announced"
  /\ UNCHANGED <<durable, life, sttVars, pipe, main, flagVars, refined, queue, item,
                 text, rowVars, notice, unstored>>

Restore ==
  /\ worker = "restore" /\ ~Locked
  /\ IF aborted
     THEN worker' = "done" /\ UNCHANGED <<held, saved, showVars>>
     ELSE /\ SpeechUpdate(item, held.record, held.news)
          /\ held' = [held EXCEPT !.record = latest'[item]]
          /\ worker' = "restored"
  /\ UNCHANGED <<durable, life, sttVars, pipe, main, flagVars, refined, queue, item,
                 text, rowVars, notice, unstored>>

\* SpeechOutbox.acknowledge of what was published.
Acknowledge(that) ==
  IF row[that.of] = that.news
  THEN /\ told' = [told EXCEPT ![that.of] = TRUE]
       /\ context' = [context EXCEPT ![that.of] = that.record]
       /\ UNCHANGED row
  ELSE UNCHANGED rowVars

AcknowledgeShown ==
  /\ worker \in {"announced", "restored"}
  /\ Acknowledge(held)
  /\ worker' = "done"
  /\ UNCHANGED <<durable, life, sttVars, pipe, main, flagVars, refined, workVars, text,
                 held, notice, showVars, unstored>>

\* task_done: an abort keeps a stored item.
FinishItem ==
  /\ worker = "done"
  /\ queue' = IF aborted /\ durable THEN <<item>> \o queue ELSE queue
  /\ saved' = IF aborted THEN saved ELSE [saved EXCEPT ![item] = NoRecord]
  /\ item' = Nobody /\ held' = NoNotice /\ text' = Nobody /\ worker' = "idle"
  /\ UNCHANGED <<durable, life, sttVars, pipe, main, flagVars, refined, rowVars,
                 notice, showVars, unstored>>

\* An error nobody expects ends the thread; the outbox is aborted.
WorkerFails ==
  /\ worker \in {"await", "translate", "context", "restore"}
  /\ aborted' = TRUE /\ broken' = TRUE /\ worker' = "done"
  /\ UNCHANGED <<durable, life, sttVars, pipe, main, closing, refined, workVars, text,
                 held, rowVars, notice, showVars, unstored>>

LeaveLoop ==
  /\ worker = "idle" /\ (aborted \/ (closing /\ queue = <<>>))
  /\ worker' = "joining"
  /\ UNCHANGED <<durable, life, sttVars, pipe, main, flagVars, refined, workVars, text,
                 held, rowVars, notice, showVars, unstored>>

\* Mutant: the delivery thread looks for work only.
BugJoin ==
  /\ worker = "joining" /\ notice = NoNotice
  /\ \A u \in Utterances : told[u] /\ row[u] \in {0, MaxNews}
  /\ worker' = "ended"
  /\ UNCHANGED <<durable, life, sttVars, pipe, main, flagVars, refined, workVars, text,
                 held, rowVars, notice, showVars, unstored>>

\* SpeechOutbox.close: unless aborted, the delivery thread ends with nothing to do.
Join ==
  /\ worker = "joining" /\ notice = NoNotice
  /\ \/ aborted
     \/ \A u \in Utterances : told[u] /\ row[u] \in {0, MaxNews}
  /\ worker' = "ended"
  /\ UNCHANGED <<durable, life, sttVars, pipe, main, flagVars, refined, workVars, text,
                 held, rowVars, notice, showVars, unstored>>

Worker ==
  /\ Up
  /\ \/ TakeItem \/ Await \/ Translate \/ TakeContext \/ Enqueue \/ Announce
     \/ Restore \/ AcknowledgeShown \/ FinishItem \/ LeaveLoop \/ Join

-----------------------------------------------------------------------------
(***************************************************************************)
(* The delivery thread, as far as captions see it                          *)
(***************************************************************************)

\* An abort of the bridge reaches the outbox when the translation thread has left its
\* loop.
Delivering == Up /\ worker # "ended" /\ (aborted => worker # "joining")

\* Rows are in the order of their utterances, which the queue keeps.
Earlier(u, v) == u[1] < v[1] \/ (u[1] = v[1] /\ u[2] < v[2])
OldestOf(S) == {u \in S : \A v \in S : v = u \/ Earlier(u, v)}

\* The oldest row under way changes its state: it is sent, retried, or has its answer.
RowMoves ==
  /\ Delivering /\ notice = NoNotice
  /\ \E u \in OldestOf({v \in Utterances : row[v] \in 1 .. MaxNews - 1}) :
       /\ row' = [row EXCEPT ![u] = @ + 1] /\ told' = [told EXCEPT ![u] = FALSE]
  /\ UNCHANGED <<durable, life, sttVars, pipe, main, flagVars, refined, workVars,
                 handVars, context, notice, showVars, unstored>>

ReadNotice ==
  /\ Delivering /\ notice = NoNotice
  /\ \E u \in OldestOf({v \in Utterances : ~told[v]}) :
       notice' = [of |-> u, news |-> row[u], record |-> context[u],
                   step |-> "publish"]
  /\ UNCHANGED <<durable, life, sttVars, pipe, main, flagVars, refined, workVars,
                 handVars, rowVars, showVars, unstored>>

PublishNotice ==
  /\ Up /\ notice.step = "publish" /\ ~Locked
  /\ IF aborted
     THEN notice' = NoNotice /\ UNCHANGED <<saved, showVars>>
     ELSE /\ SpeechUpdate(notice.of, notice.record, notice.news)
          /\ notice' = [notice EXCEPT !.step = "acknowledge",
                                      !.record = latest'[notice.of]]
  /\ UNCHANGED <<durable, life, sttVars, pipe, main, flagVars, refined, queue, item,
                 handVars, rowVars, unstored>>

AcknowledgeNotice ==
  /\ Up /\ notice.step = "acknowledge"
  /\ Acknowledge(notice)
  /\ notice' = NoNotice
  /\ UNCHANGED <<durable, life, sttVars, pipe, main, flagVars, refined, workVars,
                 handVars, showVars, unstored>>

Delivery == RowMoves \/ ReadNotice \/ PublishNotice \/ AcknowledgeNotice

-----------------------------------------------------------------------------
(***************************************************************************)
(* The process                                                             *)
(***************************************************************************)

\* What a process has in memory when it starts, and what the databases have kept.
Fresh ==
  /\ stt' = "running" /\ finals' = 0 /\ jobs' = <<>> /\ pipe' = <<>>
  /\ closing' = FALSE /\ aborted' = FALSE /\ broken' = FALSE
  /\ refined' = NothingRefined /\ latest' = None(NoRecord)
  /\ queue' = IF ~durable THEN <<>>
              ELSE IF item = Nobody THEN queue ELSE <<item>> \o queue
  /\ item' = Nobody /\ worker' = "idle" /\ text' = Nobody /\ held' = NoNotice
  /\ notice' = NoNotice
  /\ UNCHANGED <<durable, said, saved, rowVars, last>>

Crash ==
  /\ Up
  /\ main' = "down" /\ Fresh
  /\ unstored' = IF main = "storing" THEN unstored \cup {Own(Head(pipe).seq)}
                 ELSE unstored
  /\ UNCHANGED life

\* A new session.
Start ==
  /\ ~Up /\ life < MaxLives /\ durable \in Restarts
  /\ life' = life + 1 /\ main' = "reading" /\ Fresh
  /\ UNCHANGED unstored

-----------------------------------------------------------------------------
Next ==
  \/ Recogniser \/ MainThread \/ CloseTimesOut
  \/ Worker \/ (Up /\ (EnqueueFails \/ WorkerFails))
  \/ Delivery \/ Crash \/ Start

Spec == Init /\ [][Next]_vars

\* The threads run, a wait for a refinement, for the translator and for the service
\* has its time limit, and the recogniser has written what it had when it ends.
Fairness ==
  /\ WF_vars(MainThread) /\ WF_vars(Worker) /\ WF_vars(Delivery)

FairSpec == Spec /\ Fairness

-----------------------------------------------------------------------------
(***************************************************************************)
(* Properties                                                              *)
(***************************************************************************)

Statuses == {"none", "pending"} \cup Terminal
Record == [revision : Int, status : Statuses, source : Utterances \cup {Nobody}, news : Nat]
Notices == [of : Utterances \cup {Nobody}, news : Nat, record : Record,
            step : {"none", "publish", "acknowledge"}]
Events == [kind : {"final", "refined"}, seq : Seqs, good : BOOLEAN]

StateTypes ==
  /\ durable \in BOOLEAN /\ life \in Lives /\ stt \in {"running", "ended"}
  /\ finals \in 0 .. said /\ said \in 0 .. MaxFinals
  /\ jobs \in Seq(Seqs) /\ pipe \in Seq(Events)
  /\ main \in {"reading", "storing", "closing", "leaving", "exited", "down"}
  /\ closing \in BOOLEAN /\ aborted \in BOOLEAN /\ broken \in BOOLEAN
  /\ refined \in [Seqs -> {"none", "completed", "failed"}]
  /\ queue \in Seq(Utterances) /\ item \in Utterances \cup {Nobody}
  /\ worker \in {"idle", "await", "translate", "context", "enqueue", "announce",
                 "announced", "restore", "restored", "done", "joining", "ended"}
  /\ worker \in {"idle", "joining", "ended"} <=> item = Nobody
  /\ unstored \subseteq Utterances

RecordTypes ==
  /\ latest \in [Utterances -> Record] /\ last \in [Utterances -> Record]
  /\ saved \in [Utterances -> Record] /\ context \in [Utterances -> Record]
  /\ row \in [Utterances -> Nat] /\ told \in [Utterances -> BOOLEAN]
  /\ held \in Notices /\ notice \in Notices /\ text \in Utterances \cup {Nobody}

\* An item waits once, and no more wait than there is room for.
QueueSound ==
  /\ durable \/ Len(queue) <= QueueLimit
  /\ IsInjective(queue) /\ item \notin ToSet(queue)

TypeOK == StateTypes /\ RecordTypes /\ QueueSound /\ Len(jobs) <= RefineLimit + 1

\* A caption is translated from its own words, although every session counts its
\* utterances from one and restored items meet the results of the new session.
OwnWords == \A u \in Utterances : last[u].source \in {Nobody, u}

\* A caption that is shown as waiting for its translation is waiting for it, except
\* where memory was all there was.
PendingIsHeld ==
  \A u \in Utterances :
      last[u].status = "pending"
    => \/ u \in ToSet(queue) \cup {item} \cup unstored
       \/ main = "storing" /\ u = Own(Head(pipe).seq)
       \/ ~durable /\ (broken \/ u[1] # life \/ ~Up)

\* A bridge that ends with no error has said the last word about everything the
\* recogniser had said.
NothingUnsaid ==
  main = "exited" /\ ~broken =>
    \A seq \in 1 .. finals :
      last[Own(seq)].status \in Terminal

NothingForgotten == PendingIsHeld /\ NothingUnsaid

-----------------------------------------------------------------------------
(***************************************************************************)
(* What OwnWords and NothingForgotten rest on                              *)
(***************************************************************************)

Work == ToSet(queue) \cup {item}
Handing == {"enqueue", "announce", "announced", "restore", "restored"}

\* What memory and the stored items have is what was published last.
RecordsAgree ==
  \A u \in Utterances :
    /\ last[u] # NoRecord => last[u].status # "none"
    /\ latest[u] \in {NoRecord, last[u]} /\ saved[u] \in {NoRecord, last[u]}
    /\ u[1] = life /\ main # "down" => latest[u] = last[u]
    /\ u[1] > life => last[u] = NoRecord
    /\ last[u].source \in {Nobody, u}

\* Only a translated utterance has a row, and what is in hand for it is its own.
Translated(u, record) == record.status \in Terminal /\ record.source \in {Nobody, u}
RowsTranslated ==
  /\ \A u \in Utterances :
       /\ ~told[u] => row[u] # 0
       /\ row[u] # 0 => last[u].status \in Terminal /\ Translated(u, context[u])
  /\ notice.step # "none" => /\ notice.of \in Utterances /\ row[notice.of] # 0
                             /\ Translated(notice.of, notice.record)
  /\ worker \in Handing => held.of = item /\ Translated(item, held.record)
  /\ worker \in Handing \cup {"context"} => last[item].status \in Terminal
  /\ worker = "context" => latest[item] # NoRecord
  /\ text \in {Nobody, item}

\* How the bridge ends: aborted by an error, by the time limit, or not at all.
EndsInOrder ==
  /\ main = "storing" => pipe # <<>>
  /\ closing <=> main \in {"closing", "leaving", "exited"}
  /\ broken => aborted
  /\ aborted /\ ~broken => main \in {"leaving", "exited"} /\ ~durable
  /\ worker \in {"joining", "ended"} /\ ~aborted => closing /\ queue = <<>>
  /\ closing /\ ~broken => pipe = <<>> /\ stt = "ended"

Pending(u) == last[u].status = "pending"

\* The work is on utterances that were published, and is finished when their last word
\* is, unless the end leaves it; where a store was cut off, an error or a crash did it.
WorkIsPending ==
  /\ \A u \in Work \ {Nobody} :
       last[u] # NoRecord /\ (u[1] = life \/ (durable /\ u[1] < life))
  /\ main = "storing" /\ ~aborted => last[Own(Head(pipe).seq)] # NoRecord
  /\ main = "storing" => Own(Head(pipe).seq) \notin Work
  /\ worker = "done" /\ Pending(item) => aborted /\ (durable \/ broken)
  /\ \A u \in unstored : u[1] < life \/ (u[1] = life /\ (broken \/ main = "down"))

\* What the recogniser has said is in the pipe until it is published, and a bridge that
\* leaves with no error has nothing pending.
FinalsHeard ==
  main # "down" /\ ~broken =>
    /\ \A seq \in 1 .. finals :
         \/ last[Own(seq)] # NoRecord
         \/ \E i \in DOMAIN pipe : pipe[i].kind = "final" /\ pipe[i].seq = seq
    /\ main \in {"leaving", "exited"} =>
         \A u \in Utterances : u[1] = life => ~Pending(u)

Inv ==
  /\ StateTypes /\ RecordTypes /\ RecordsAgree /\ RowsTranslated /\ EndsInOrder
  /\ WorkIsPending /\ PendingIsHeld /\ FinalsHeard

-----------------------------------------------------------------------------
\* A revision is used once, but by a caption of which only the outbox has a record.
RevisionsRise ==
  [][\A u \in Utterances :
       last'[u] # last[u] /\ (latest[u] # NoRecord \/ row[u] = 0)
         => last'[u].revision > last[u].revision]_vars

\* Within a session the outcome of a translation stays, whatever is late: the
\* translation after the close has given up, or a store that failed.
OutcomeStays ==
  [][\A u \in Utterances :
       last[u].status \in Terminal /\ life' = life /\ u[1] = life
         => last'[u].status = last[u].status]_vars

\* What is published later is newer.
UpdatesInOrder == RevisionsRise /\ OutcomeStays

\* The bridge ends after the recogniser has ended.
ComesToAnEnd == stt = "ended" /\ Up ~> ~Up
=============================================================================
