--------------------------- MODULE CaptionsProofs ---------------------------
(***************************************************************************)
(* The captions keep their words and none is forgotten, for every number   *)
(* of finals, of lives and of states of a row, and for queues of every     *)
(* length: TypeOK, OwnWords and NothingForgotten of Captions; and what is  *)
(* published of a caption later is newer: UpdatesInOrder.                  *)
(*                                                                         *)
(* The argument is Inv.  Memory, the durable queue and what is on the      *)
(* screen agree about a record (RecordsAgree); a row and what a thread has *)
(* in hand for it are of an utterance whose translation has ended          *)
(* (RowsTranslated), so nothing but accept makes a caption pending.  An    *)
(* abort without an error comes with the time limit of close, which leaves *)
(* nothing pending (EndsInOrder, FinalsHeard); hence an item that is done  *)
(* and pending goes back to a durable queue or an error has been raised    *)
(* (WorkIsPending), and what is pending is held (PendingIsHeld).  The      *)
(* order of updates needs that an update has the latest record to start    *)
(* from (BasesKept) and that nothing that waits for its translation has an *)
(* outcome already (UndecidedWork).                                        *)
(***************************************************************************)
EXTENDS Captions, SequenceTheorems, TLAPS

LEMMA LifeIsCounted == Nobody \notin Utterances
BY BoundAssumption DEF Nobody, Utterances, Lives, Seqs

LEMMA OwnIsUtterance ==
  ASSUME StateTypes, NEW seq \in Seqs
  PROVE  /\ Own(seq) \in Utterances /\ Own(seq)[1] = life
BY DEF StateTypes, Own, Utterances

LEMMA HeadIsOwn ==
  ASSUME StateTypes, pipe # <<>>
  PROVE  /\ Head(pipe) \in Events /\ Tail(pipe) \in Seq(Events)
         /\ Head(pipe).seq \in Seqs
         /\ Own(Head(pipe).seq) \in Utterances /\ Own(Head(pipe).seq)[1] = life
<1>1. Head(pipe) \in Events /\ Tail(pipe) \in Seq(Events)
  BY DEF StateTypes
<1>2. Head(pipe).seq \in Seqs
  BY <1>1 DEF Events
<1> QED  BY <1>1, <1>2, OwnIsUtterance

LEMMA NoRecordTyped == NoRecord \in Record /\ NoNotice \in Notices
BY DEF NoRecord, Record, Statuses, NoNotice, Notices

-----------------------------------------------------------------------------
(***************************************************************************)
(* The state in general                                                    *)
(***************************************************************************)

LEMMA InitStateTypes == Init => StateTypes
<1>1. 1 \in Lives /\ 0 \in 0 .. 0 /\ 0 \in 0 .. MaxFinals
  BY BoundAssumption DEF Lives
<1>2. <<>> \in Seq(Events) /\ <<>> \in Seq(Seqs) /\ <<>> \in Seq(Utterances)
  OBVIOUS
<1>3. NothingRefined \in [Seqs -> {"none", "completed", "failed"}]
  BY DEF NothingRefined
<1> QED  BY <1>1, <1>2, <1>3 DEF Init, StateTypes

\* The recogniser only adds to the pipe, and a new final is in it.
LEMMA PipeGrows ==
  ASSUME StateTypes, Recogniser
  PROVE  /\ Len(pipe) <= Len(pipe') /\ pipe' \in Seq(Events)
         /\ \A i \in 1 .. Len(pipe) : pipe'[i] = pipe[i]
         /\ \/ finals' = finals
            \/ /\ finals' = finals + 1
               /\ Len(pipe) + 1 \in 1 .. Len(pipe')
               /\ pipe'[Len(pipe) + 1] = Event("final", finals + 1)
<1>0. pipe \in Seq(Events) /\ Len(pipe) \in Nat
  BY DEF StateTypes
<1>1. ASSUME NEW p \in Seq(Events), NEW e \in Events
      PROVE  /\ Append(p, e) \in Seq(Events) /\ Len(Append(p, e)) = Len(p) + 1
             /\ \A i \in 1 .. Len(p) : Append(p, e)[i] = p[i]
             /\ Append(p, e)[Len(p) + 1] = e
  BY AppendProperties
<1>2. \A kind \in {"final", "refined"}, seq \in Seqs : Event(kind, seq) \in Events
  BY DEF Event, Events
<1>3. CASE Final
  <2> DEFINE said1 == Event("final", finals + 1)
             out == Append(pipe, said1)
             out2 == Append(out, Event("refined", finals + 1))
  <2>1. finals + 1 \in Seqs /\ finals' = finals + 1
    BY <1>3, BoundAssumption DEF Final, StateTypes, Seqs
  <2>2. said1 \in Events /\ Event("refined", finals + 1) \in Events
    BY <1>2, <2>1
  <2>3. pipe' = out \/ pipe' = out2
    BY <1>3 DEF Final
  <2> HIDE DEF said1
  <2>4. /\ out \in Seq(Events) /\ Len(out) = Len(pipe) + 1 /\ out[Len(pipe) + 1] = said1
        /\ \A i \in 1 .. Len(pipe) : out[i] = pipe[i]
    BY <1>0, <1>1, <2>2
  <2> HIDE DEF out
  <2>5. /\ out2 \in Seq(Events) /\ Len(out2) = Len(out) + 1
        /\ \A i \in 1 .. Len(out) : out2[i] = out[i]
    BY <1>1, <2>2, <2>4
  <2> HIDE DEF out2
  <2>6. /\ Len(pipe) <= Len(pipe') /\ pipe' \in Seq(Events)
        /\ \A i \in 1 .. Len(pipe) : pipe'[i] = pipe[i]
        /\ Len(pipe) + 1 \in 1 .. Len(pipe')
        /\ pipe'[Len(pipe) + 1] = said1
    BY <1>0, <2>3, <2>4, <2>5
  <2> QED  BY <2>1, <2>6 DEF said1
<1>4. CASE RefineReport
  <2>1. Head(jobs) \in Seqs /\ finals' = finals
    BY <1>4 DEF RefineReport, StateTypes
  <2>2. \A good \in BOOLEAN : [Event("refined", Head(jobs)) EXCEPT !.good = good] \in Events
    BY <2>1 DEF Event, Events
  <2>3. PICK e \in Events : pipe' = Append(pipe, e)
    BY <1>4, <2>2 DEF RefineReport
  <2> QED  BY <1>0, <1>1, <2>1, <2>3
<1>5. CASE SttEnds
  <2> DEFINE late == [i \in DOMAIN jobs |-> Event("refined", jobs[i])]
  <2>1. late \in Seq(Events) /\ Len(late) \in Nat
    <3>1. DOMAIN jobs = 1 .. Len(jobs) /\ Len(jobs) \in Nat
      BY DEF StateTypes
    <3>2. \A i \in 1 .. Len(jobs) : Event("refined", jobs[i]) \in Events
      BY <3>1 DEF StateTypes, Event, Events
    <3>3. [i \in 1 .. Len(jobs) |-> Event("refined", jobs[i])] \in Seq(Events)
      BY <3>1, <3>2
    <3>4. late \in Seq(Events)
      BY <3>1, <3>3
    <3> HIDE DEF late
    <3> QED  BY <3>4
  <2>2. finals' = finals /\ (pipe' = pipe \o late \/ pipe' = pipe)
    BY <1>5 DEF SttEnds
  <2> HIDE DEF late
  <2>3. /\ pipe \o late \in Seq(Events) /\ Len(pipe \o late) = Len(pipe) + Len(late)
        /\ \A i \in 1 .. Len(pipe) + Len(late) : (pipe \o late)[i] =
             IF i <= Len(pipe) THEN pipe[i] ELSE late[i - Len(pipe)]
    BY <1>0, <2>1, ConcatProperties
  <2>4. \A i \in 1 .. Len(pipe) : (pipe \o late)[i] = pipe[i]
    BY <1>0, <2>1, <2>3
  <2>5. Len(pipe) <= Len(pipe \o late)
    BY <1>0, <2>1, <2>3
  <2>6. CASE pipe' = pipe
    BY <1>0, <2>2, <2>6
  <2>7. CASE pipe' = pipe \o late
    BY <2>2, <2>3, <2>4, <2>5, <2>7
  <2> QED  BY <2>2, <2>6, <2>7
<1> QED  BY <1>3, <1>4, <1>5 DEF Recogniser

LEMMA HeadStays ==
  ASSUME StateTypes, Recogniser, pipe # <<>>
  PROVE  pipe' # <<>> /\ Head(pipe') = Head(pipe)
<1>1. Len(pipe) \in Nat \ {0} /\ Head(pipe) = pipe[1]
  BY DEF StateTypes
<1>2. /\ pipe' \in Seq(Events) /\ Len(pipe) <= Len(pipe')
      /\ \A i \in 1 .. Len(pipe) : pipe'[i] = pipe[i]
  BY PipeGrows
<1> QED  BY <1>1, <1>2

LEMMA RecogniserStateTypes ==
  ASSUME StateTypes, Recogniser PROVE StateTypes'
<1>1. pipe' \in Seq(Events)
  BY PipeGrows
<1>2. jobs' \in Seq(Seqs) /\ finals' \in 0 .. said' /\ said' \in 0 .. MaxFinals
  <2>1. CASE Final
    <3>1. finals + 1 \in Seqs /\ finals' \in 0 .. said' /\ said' \in 0 .. MaxFinals
      BY <2>1, BoundAssumption DEF Final, StateTypes, Seqs
    <3>2. Append(jobs, finals + 1) \in Seq(Seqs)
      BY <3>1, AppendProperties DEF StateTypes
    <3> QED  BY <2>1, <3>1, <3>2 DEF Final, StateTypes
  <2>2. CASE RefineReport \/ SttEnds
    <3>1. jobs \in Seq(Seqs) /\ <<>> \in Seq(Seqs) /\ (jobs # <<>> => Tail(jobs) \in Seq(Seqs))
      BY DEF StateTypes
    <3> QED  BY <2>2, <3>1 DEF RefineReport, SttEnds, StateTypes
  <2> QED  BY <2>1, <2>2 DEF Recogniser
<1> QED  BY <1>1, <1>2 DEF Recogniser, Final, RefineReport, SttEnds, StateTypes, flagVars,
                           workVars, handVars

LEMMA MainStateTypes ==
  ASSUME StateTypes, EndsInOrder, MainThread \/ CloseTimesOut PROVE StateTypes'
<1>1. CASE AcceptFinal
  BY <1>1, HeadIsOwn DEF AcceptFinal, Reading, StateTypes, sttVars, flagVars, handVars
<1>2. CASE Store
  <2>1. /\ Own(Head(pipe).seq) \in Utterances /\ Tail(pipe) \in Seq(Events)
    BY <1>2, HeadIsOwn DEF Store, EndsInOrder
  <2>2. queue' \in Seq(Utterances) /\ unstored' \subseteq Utterances
    <3>1. Append(queue, Own(Head(pipe).seq)) \in Seq(Utterances)
      BY <2>1, AppendProperties DEF StateTypes
    <3> QED  BY <1>2, <2>1, <3>1 DEF Store, StateTypes
  <2> QED  BY <1>2, <2>1, <2>2 DEF Store, StateTypes, sttVars, flagVars, handVars
<1>3. CASE AcceptRefined
  <2>1. refined' \in [Seqs -> {"none", "completed", "failed"}] /\ pipe' \in Seq(Events)
    BY <1>3, HeadIsOwn DEF AcceptRefined, Reading, StateTypes
  <2> QED  BY <1>3, <2>1 DEF AcceptRefined, Reading, StateTypes, sttVars, flagVars, handVars
<1>4. CASE BeginClose \/ CloseReturns \/ Exit \/ CloseTimesOut
  <2>1. CASE BeginClose
    BY <2>1 DEF BeginClose, StateTypes, sttVars, workVars, handVars
  <2>2. CASE CloseReturns \/ Exit
    BY <2>2 DEF CloseReturns, Exit, StateTypes, sttVars, flagVars, workVars, handVars
  <2>3. CASE CloseTimesOut
    BY <2>3 DEF CloseTimesOut, StateTypes, sttVars, handVars
  <2> QED  BY <1>4, <2>1, <2>2, <2>3
<1> QED  BY <1>1, <1>2, <1>3, <1>4 DEF MainThread

LEMMA WorkerStateTypes ==
  ASSUME StateTypes, Worker \/ EnqueueFails \/ WorkerFails PROVE StateTypes'
<1> USE LifeIsCounted
<1>1. CASE TakeItem
  <2>1. Head(queue) \in Utterances /\ Tail(queue) \in Seq(Utterances)
    BY <1>1 DEF TakeItem, StateTypes
  <2> QED  BY <1>1, <2>1 DEF TakeItem, StateTypes, sttVars, flagVars
<1>2. CASE Await
  <2>1. refined' \in [Seqs -> {"none", "completed", "failed"}]
    BY <1>2 DEF Await, StateTypes
  <2> QED  BY <1>2, <2>1 DEF Await, StateTypes, sttVars, flagVars, workVars
<1>3. CASE FinishItem
  <2>1. queue' \in Seq(Utterances)
    BY <1>3 DEF FinishItem, StateTypes
  <2> QED  BY <1>3, <2>1 DEF FinishItem, StateTypes, sttVars, flagVars
<1>4. CASE Translate \/ TakeContext \/ Enqueue \/ Announce \/ Restore
  <2>1. CASE Translate \/ TakeContext
    BY <2>1 DEF Translate, TakeContext, StateTypes, sttVars, flagVars, workVars
  <2>2. CASE Enqueue
    BY <2>2 DEF Enqueue, StateTypes, sttVars, flagVars, workVars
  <2>3. CASE Announce \/ Restore
    BY <2>3 DEF Announce, Restore, StateTypes, sttVars, flagVars
  <2> QED  BY <1>4, <2>1, <2>2, <2>3
<1>5. CASE AcknowledgeShown \/ LeaveLoop \/ Join \/ EnqueueFails \/ WorkerFails
  <2>1. CASE AcknowledgeShown
    BY <2>1 DEF AcknowledgeShown, StateTypes, sttVars, flagVars, workVars
  <2>2. CASE LeaveLoop \/ Join
    BY <2>2 DEF LeaveLoop, Join, StateTypes, sttVars, flagVars, workVars
  <2>3. CASE EnqueueFails \/ WorkerFails
    BY <2>3 DEF EnqueueFails, WorkerFails, StateTypes, sttVars, workVars
  <2> QED  BY <1>5, <2>1, <2>2, <2>3
<1> QED  BY <1>1, <1>2, <1>3, <1>4, <1>5 DEF Worker

LEMMA DeliveryStateTypes ==
  ASSUME StateTypes, Delivery PROVE StateTypes'
<1>1. CASE RowMoves \/ ReadNotice \/ AcknowledgeNotice
  BY <1>1 DEF RowMoves, ReadNotice, AcknowledgeNotice, StateTypes, sttVars, flagVars,
              workVars, handVars
<1>2. CASE PublishNotice
  BY <1>2 DEF PublishNotice, StateTypes, sttVars, flagVars, handVars
<1> QED  BY <1>1, <1>2 DEF Delivery

LEMMA FreshTypes ==
  ASSUME StateTypes, Fresh
  PROVE  /\ queue' \in Seq(Utterances) /\ pipe' \in Seq(Events) /\ jobs' \in Seq(Seqs)
         /\ finals' \in 0 .. said' /\ said' \in 0 .. MaxFinals
         /\ refined' \in [Seqs -> {"none", "completed", "failed"}]
         /\ durable' \in BOOLEAN
<1>1. queue' \in Seq(Utterances)
  BY DEF StateTypes, Fresh
<1>2. pipe' \in Seq(Events) /\ jobs' \in Seq(Seqs)
  BY DEF Fresh
<1>3. finals' \in 0 .. said' /\ said' \in 0 .. MaxFinals
  BY DEF StateTypes, Fresh
<1>4. refined' \in [Seqs -> {"none", "completed", "failed"}] /\ durable' \in BOOLEAN
  BY DEF StateTypes, Fresh, NothingRefined
<1> QED  BY <1>1, <1>2, <1>3, <1>4

LEMMA ProcessStateTypes ==
  ASSUME StateTypes, EndsInOrder, Crash \/ Start PROVE StateTypes'
<1>1. CASE Crash
  <2>1. unstored' \subseteq Utterances
    BY <1>1, HeadIsOwn DEF Crash, StateTypes, EndsInOrder
  <2> QED  BY <1>1, <2>1, FreshTypes DEF Crash, Fresh, StateTypes
<1>2. CASE Start
  <2>1. life' \in Lives
    BY <1>2, BoundAssumption DEF Start, StateTypes, Lives
  <2> QED  BY <1>2, <2>1, FreshTypes DEF Start, Fresh, StateTypes
<1> QED  BY <1>1, <1>2

-----------------------------------------------------------------------------
(***************************************************************************)
(* Publication                                                             *)
(***************************************************************************)

\* What a publication of the record r of u leaves.
LEMMA OnePublished ==
  ASSUME RecordTypes, NEW u \in Utterances, NEW r \in Record,
         Publishing({u}, [v \in {u} |-> r])
  PROVE  /\ latest' = [latest EXCEPT ![u] = r]
         /\ last' = [last EXCEPT ![u] = r]
         /\ saved' = IF saved[u] = NoRecord THEN saved ELSE [saved EXCEPT ![u] = r]
         /\ latest' \in [Utterances -> Record] /\ last' \in [Utterances -> Record]
         /\ saved' \in [Utterances -> Record]
<1>1. latest' = [latest EXCEPT ![u] = r]
  BY DEF RecordTypes, Publishing
<1>2. last' = [last EXCEPT ![u] = r]
  BY DEF RecordTypes, Publishing
<1>3. saved' = IF saved[u] = NoRecord THEN saved ELSE [saved EXCEPT ![u] = r]
  BY DEF RecordTypes, Publishing
<1> QED  BY <1>1, <1>2, <1>3 DEF RecordTypes

\* A record fit to be published for u.
Fit(u, r) == r \in Record /\ r.status # "none" /\ r.source \in {Nobody, u}

LEMMA PublishedAgrees ==
  ASSUME StateTypes, RecordTypes, RecordsAgree, NEW u \in Utterances, u[1] <= life, NEW r,
         Fit(u, r), Publishing({u}, [v \in {u} |-> r]),
         life' = life, main # "down"
  PROVE  RecordsAgree'
<1>1. /\ latest' = [latest EXCEPT ![u] = r] /\ last' = [last EXCEPT ![u] = r]
      /\ saved' = IF saved[u] = NoRecord THEN saved ELSE [saved EXCEPT ![u] = r]
  BY OnePublished DEF Fit
<1>2. r # NoRecord
  BY DEF Fit, NoRecord
<1>3. u[1] \in Nat /\ life \in Nat
  BY DEF StateTypes, Utterances, Lives
<1>4. ASSUME NEW v \in Utterances
      PROVE  /\ last'[v] # NoRecord => last'[v].status # "none"
             /\ latest'[v] \in {NoRecord, last'[v]} /\ saved'[v] \in {NoRecord, last'[v]}
             /\ v[1] = life' /\ main' # "down" => latest'[v] = last'[v]
             /\ v[1] > life' => last'[v] = NoRecord
             /\ last'[v].source \in {Nobody, v}
  <2>1. CASE v = u
    BY <1>1, <1>2, <1>3, <2>1 DEF RecordsAgree, RecordTypes, Fit
  <2>2. CASE v # u
    BY <1>1, <1>3, <2>2 DEF RecordsAgree, RecordTypes
  <2> QED  BY <2>1, <2>2
<1> QED  BY <1>4 DEF RecordsAgree

\* What a successor of a record is.
LEMMA SuccessorOf ==
  ASSUME StateTypes, RecordTypes, RecordsAgree, NEW u \in Utterances
  PROVE  /\ Successor(u) \in Record
         /\ Successor(u).source \in {Nobody, u}
         /\ Known(u) => Successor(u).status = last[u].status /\ last[u] # NoRecord
<1> DEFINE base == IF latest[u] # NoRecord THEN latest[u] ELSE saved[u]
<1>1. base \in Record /\ base.source \in {Nobody, u}
  <2>1. NoRecord.source = Nobody
    BY DEF NoRecord
  <2> QED  BY <2>1 DEF RecordTypes, RecordsAgree
<1>2. Known(u) => base = last[u] /\ last[u] # NoRecord
  BY DEF Known, RecordsAgree
<1>3. Successor(u) = [base EXCEPT !.revision = @ + 1]
  BY DEF Successor
<1> QED  BY <1>1, <1>2, <1>3 DEF Record

\* What every step does to the records.
MemoryTypes ==
  /\ latest \in [Utterances -> Record] /\ last \in [Utterances -> Record]
  /\ saved \in [Utterances -> Record]
Kept ==
  \A v \in Utterances :
    /\ last[v].status \in Terminal => last'[v].status \in Terminal
    /\ latest[v] # NoRecord => latest'[v] # NoRecord
    /\ last[v] # NoRecord => last'[v] # NoRecord
Effect == MemoryTypes' /\ RecordsAgree' /\ Kept

LEMMA PublishedEffect ==
  ASSUME StateTypes, RecordTypes, RecordsAgree, NEW u \in Utterances, u[1] <= life, NEW r,
         Fit(u, r), last[u].status \in Terminal => r.status \in Terminal,
         Publishing({u}, [v \in {u} |-> r]), life' = life, main # "down"
  PROVE  /\ Effect
         /\ latest'[u] = r /\ last'[u] = r
         /\ \A v \in Utterances \ {u} : last'[v] = last[v] /\ latest'[v] = latest[v]
<1>1. /\ latest' = [latest EXCEPT ![u] = r] /\ last' = [last EXCEPT ![u] = r]
      /\ latest' \in [Utterances -> Record] /\ last' \in [Utterances -> Record]
      /\ saved' \in [Utterances -> Record]
  BY OnePublished DEF Fit
<1>2. r # NoRecord
  BY DEF Fit, NoRecord
<1>3. /\ latest'[u] = r /\ last'[u] = r
      /\ \A v \in Utterances \ {u} : last'[v] = last[v] /\ latest'[v] = latest[v]
  BY <1>1 DEF RecordTypes
<1> QED  BY <1>1, <1>2, <1>3, PublishedAgrees DEF Effect, Kept, MemoryTypes

LEMMA NothingPublished ==
  ASSUME RecordTypes, RecordsAgree, UNCHANGED <<latest, last, saved, life>>,
         main' = "down" \/ main # "down"
  PROVE  Effect
<1>1. MemoryTypes' /\ Kept
  BY DEF RecordTypes, MemoryTypes, Kept
<1>2. RecordsAgree'
  BY DEF RecordsAgree
<1> QED  BY <1>1, <1>2 DEF Effect

LEMMA RecogniserEffect ==
  ASSUME RecordTypes, RecordsAgree, Recogniser PROVE Effect
BY NothingPublished DEF Recogniser, Up, Final, RefineReport, SttEnds, showVars, workVars

\* An update of an utterance of this session.
LEMMA UpdateEffect ==
  ASSUME StateTypes, RecordTypes, RecordsAgree, NEW u \in Utterances, u[1] <= life, NEW r,
         Fit(u, r), last[u].status \in Terminal => r.status \in Terminal,
         Update(u, r), life' = life, main # "down"
  PROVE  /\ Effect
         /\ \A v \in Utterances \ {u} : last'[v] = last[v] /\ latest'[v] = latest[v]
         /\ (last'[u] = r /\ latest'[u] = r) \/ (aborted /\ last' = last /\ latest' = latest)
<1>1. CASE aborted
  BY <1>1, NothingPublished DEF Update, showVars
<1>2. CASE ~aborted
  BY <1>2, PublishedEffect DEF Update
<1> QED  BY <1>1, <1>2

LEMMA WithStatus ==
  ASSUME StateTypes, RecordTypes, RecordsAgree, NEW u \in Utterances,
         NEW s \in Statuses \ {"none"}
  PROVE  /\ Fit(u, [Successor(u) EXCEPT !.status = s])
         /\ [Successor(u) EXCEPT !.status = s].status = s
BY SuccessorOf DEF Fit, Record

LEMMA StoreEffect ==
  ASSUME StateTypes, RecordTypes, RecordsAgree, EndsInOrder, Store
  PROVE  /\ Effect
         /\ \A v \in Utterances : last'[v] = last[v] \/ last'[v].status \in Terminal
<1> DEFINE u == Own(Head(pipe).seq)
<1>1. u \in Utterances /\ u[1] = life /\ life \in Nat
  BY HeadIsOwn DEF Store, EndsInOrder, StateTypes, Lives
<1>2. main # "down" /\ life' = life
  BY DEF Store
<1>3. last[u] = latest[u]
  BY <1>1, <1>2 DEF RecordsAgree
<1>4. ASSUME NEW s \in Terminal, latest[u] # NoRecord,
             Update(u, [Successor(u) EXCEPT !.status = s])
      PROVE  /\ Effect
             /\ \A v \in Utterances : last'[v] = last[v] \/ last'[v].status \in Terminal
  <2> DEFINE r == [Successor(u) EXCEPT !.status = s]
  <2>1. Fit(u, r) /\ r.status = s
    BY <1>1, WithStatus DEF Statuses, Terminal
  <2>2. Update(u, r)
    BY <1>4
  <2> HIDE DEF u, r
  <2>3. /\ Effect /\ \A v \in Utterances \ {u} : last'[v] = last[v]
        /\ last'[u] = r \/ last' = last
    BY <1>1, <1>2, <1>4, <2>1, <2>2, UpdateEffect
  <2> QED  BY <1>4, <2>1, <2>3
<1>5. CASE UNCHANGED <<latest, last, saved>>
  BY <1>2, <1>5, NothingPublished
<1>6. CASE /\ latest[u] # NoRecord /\ UNCHANGED <<latest, last>>
           /\ saved' = IF durable THEN [saved EXCEPT ![u] = latest[u]] ELSE saved
  <2> HIDE DEF u
  <2>1. MemoryTypes' /\ Kept
    BY <1>1, <1>6 DEF RecordTypes, MemoryTypes, Kept
  <2>2. \A v \in Utterances : saved'[v] \in {NoRecord, last[v]}
    BY <1>1, <1>3, <1>6 DEF RecordTypes, RecordsAgree
  <2>3. RecordsAgree'
    BY <1>2, <1>6, <2>2 DEF RecordsAgree
  <2> QED  BY <1>6, <2>1, <2>3 DEF Effect
<1> QED
  <2>1. \/ UNCHANGED <<latest, last, saved>>
        \/ /\ latest[u] # NoRecord
           /\ \E s \in Terminal : Update(u, [Successor(u) EXCEPT !.status = s])
        \/ /\ latest[u] # NoRecord /\ UNCHANGED <<latest, last>>
           /\ saved' = IF durable THEN [saved EXCEPT ![u] = latest[u]] ELSE saved
    <3>1. "failed" \in Terminal /\ "skipped" \in Terminal
      BY DEF Terminal
    <3> QED  BY <3>1 DEF Store, showVars
  <2> HIDE DEF u
  <2> QED  BY <1>4, <1>5, <1>6, <2>1

LEMMA AcceptEffect ==
  ASSUME StateTypes, RecordTypes, RecordsAgree, AcceptFinal \/ AcceptRefined
  PROVE  /\ Effect
         /\ \A v \in Utterances :
              \/ last'[v].status = last[v].status /\ (last[v] # NoRecord => last'[v] # NoRecord)
              \/ AcceptFinal /\ v = Own(Head(pipe).seq) /\ main' = "storing"
<1> DEFINE u == Own(Head(pipe).seq)
<1>1. u \in Utterances /\ u[1] = life /\ life \in Nat
  BY HeadIsOwn DEF AcceptFinal, AcceptRefined, Reading, StateTypes, Lives
<1>2. main # "down" /\ life' = life
  BY DEF AcceptFinal, AcceptRefined, Reading
<1>3. last[u] = latest[u]
  BY <1>1, <1>2 DEF RecordsAgree
<1>4. CASE UNCHANGED <<latest, last, saved>>
  BY <1>2, <1>4, NothingPublished
<1>5. CASE /\ AcceptFinal /\ latest[u] = NoRecord /\ main' = "storing"
           /\ Update(u, [Successor(u) EXCEPT !.status = "pending"])
  <2>1. Fit(u, [Successor(u) EXCEPT !.status = "pending"])
    BY <1>1, WithStatus DEF Statuses, Terminal
  <2>2. last[u].status \notin Terminal
    BY <1>3, <1>5 DEF NoRecord, Terminal
  <2> HIDE DEF u
  <2>3. Effect /\ \A v \in Utterances \ {u} : last'[v] = last[v]
    BY <1>1, <1>2, <1>5, <2>1, <2>2, UpdateEffect
  <2> USE DEF u
  <2> QED  BY <1>5, <2>3
<1>6. CASE Known(u) /\ Update(u, Successor(u))
  <2>1. /\ Successor(u).status = last[u].status /\ last[u] # NoRecord
        /\ Successor(u) \in Record /\ Successor(u).source \in {Nobody, u}
    BY <1>1, <1>6, SuccessorOf
  <2>2. Fit(u, Successor(u))
    BY <1>1, <2>1 DEF Fit, RecordsAgree
  <2>3. Successor(u) # NoRecord
    BY <2>2 DEF Fit, NoRecord
  <2> HIDE DEF u
  <2>4. Effect /\ \A v \in Utterances : last'[v] = last[v]
                    \/ (last'[v] = Successor(u) /\ v = u)
    BY <1>1, <1>2, <1>6, <2>1, <2>2, UpdateEffect
  <2> QED  BY <2>1, <2>3, <2>4
<1> QED
  <2>1. \/ UNCHANGED <<latest, last, saved>>
        \/ /\ AcceptFinal /\ latest[u] = NoRecord /\ main' = "storing"
           /\ Update(u, [Successor(u) EXCEPT !.status = "pending"])
        \/ Known(u) /\ Update(u, Successor(u))
    BY DEF AcceptFinal, AcceptRefined, showVars
  <2> QED  BY <1>4, <1>5, <1>6, <2>1

Settles == \A v \in Utterances : last'[v] = last[v] \/ last'[v].status \in Terminal

LEMMA TerminalIsKnown ==
  ASSUME StateTypes, RecordsAgree, NEW u \in Utterances, last[u].status \in Terminal
  PROVE  last[u] # NoRecord /\ u[1] <= life
<1>1. last[u] # NoRecord
  BY DEF NoRecord, Terminal
<1>2. u[1] \in Nat /\ life \in Nat
  BY DEF StateTypes, Utterances, Lives
<1> QED  BY <1>1, <1>2 DEF RecordsAgree

LEMMA SpokenEffect ==
  ASSUME StateTypes, RecordTypes, RecordsAgree, NEW u \in Utterances, NEW r \in Record,
         NEW news \in Nat, Translated(u, r), last[u].status \in Terminal,
         SpeechUpdate(u, r, news), life' = life, main # "down"
  PROVE  /\ Effect /\ Settles
         /\ latest'[u] \in Record /\ Translated(u, latest'[u])
<1> DEFINE base == IF latest[u] # NoRecord THEN latest[u] ELSE r
           spoken == SpokenOf(u, r, news)
<1>1. u[1] <= life
  BY TerminalIsKnown
<1>2. base \in Record /\ base.status \in Terminal /\ base.source \in {Nobody, u}
  BY DEF RecordTypes, RecordsAgree, Translated
<1>3. spoken = [base EXCEPT !.revision = @ + 1, !.news = news]
  BY DEF SpokenOf
<1>6. Publishing({u}, [v \in {u} |-> spoken])
  BY DEF SpeechUpdate
<1> HIDE DEF base, spoken
<1>4. spoken \in Record /\ spoken.status \in Terminal /\ spoken.source \in {Nobody, u}
  <2>1. base.revision + 1 \in Int
    BY <1>2 DEF Record
  <2>2. spoken = [base EXCEPT !.revision = base.revision + 1, !.news = news]
    BY <1>3
  <2>3. spoken.status = base.status /\ spoken.source = base.source
    BY <1>2, <2>2 DEF Record
  <2>4. spoken \in Record
    BY <1>2, <2>1, <2>2 DEF Record
  <2> QED  BY <1>2, <2>3, <2>4
<1>5. Fit(u, spoken)
  BY <1>4 DEF Fit, Terminal
<1>7. /\ Effect /\ latest'[u] = spoken /\ last'[u] = spoken
      /\ \A v \in Utterances \ {u} : last'[v] = last[v]
  BY <1>1, <1>4, <1>5, <1>6, PublishedEffect
<1> QED  BY <1>4, <1>7 DEF Settles, Translated

LEMMA ItemKnown ==
  ASSUME StateTypes, WorkIsPending, item # Nobody
  PROVE  item \in Utterances /\ item[1] <= life
<1>1. item \in Utterances /\ item[1] \in Nat /\ life \in Nat
  BY DEF StateTypes, Utterances, Lives
<1> QED  BY <1>1 DEF WorkIsPending, Work

LEMMA TranslateEffect ==
  ASSUME StateTypes, RecordTypes, RecordsAgree, RowsTranslated, WorkIsPending,
         Translate, main # "down"
  PROVE  /\ Effect /\ Settles
         /\ last'[item].status \in Terminal \/ aborted
         /\ latest'[item] # NoRecord \/ aborted
<1>1. item \in Utterances /\ item[1] <= life
  BY ItemKnown DEF Translate, StateTypes
<1>2. PICK s \in {"completed", "failed"} :
        Update(item, [Successor(item) EXCEPT !.status = s, !.source = text])
  BY DEF Translate
<1> DEFINE r == [Successor(item) EXCEPT !.status = s, !.source = text]
<1>3. /\ r \in Record /\ r.status = s /\ r.source = text
  BY <1>1, SuccessorOf DEF Record, Statuses, Terminal, RecordTypes
<1>4. Fit(item, r) /\ r.status \in Terminal
  BY <1>3 DEF Fit, Terminal, RowsTranslated
<1>5. Update(item, r) /\ life' = life
  BY <1>2 DEF Translate
<1> HIDE DEF r
<1>6. /\ Effect /\ \A v \in Utterances \ {item} : last'[v] = last[v]
      /\ (last'[item] = r /\ latest'[item] = r) \/ (aborted /\ last' = last)
  BY <1>1, <1>4, <1>5, UpdateEffect
<1>7. r # NoRecord
  BY <1>4 DEF Fit, NoRecord
<1> QED  BY <1>1, <1>4, <1>6, <1>7 DEF Settles

LEMMA HeldSpoken ==
  ASSUME StateTypes, RecordTypes, RecordsAgree, RowsTranslated, worker \in Handing,
         NEW news \in Nat, SpeechUpdate(item, held.record, news), life' = life, main # "down"
  PROVE  /\ Effect /\ Settles
         /\ latest'[item] \in Record /\ Translated(item, latest'[item])
<1>1. item \in Utterances
  BY DEF StateTypes, Handing
<1>2. held.record \in Record
  BY DEF RecordTypes, Notices
<1> QED  BY <1>1, <1>2, SpokenEffect DEF RowsTranslated

LEMMA FinishEffect ==
  ASSUME StateTypes, RecordTypes, RecordsAgree, FinishItem, main # "down"
  PROVE  Effect /\ Settles
<1>1. UNCHANGED <<latest, last, life, main>>
  BY DEF FinishItem, showVars
<1>2. saved' \in [Utterances -> Record]
      /\ \A v \in Utterances : saved'[v] \in {NoRecord, saved[v]}
  BY NoRecordTyped DEF FinishItem, RecordTypes
<1>3. MemoryTypes' /\ Kept
  BY <1>1, <1>2 DEF RecordTypes, MemoryTypes, Kept
<1>4. RecordsAgree'
  BY <1>1, <1>2 DEF RecordsAgree
<1> QED  BY <1>1, <1>3, <1>4 DEF Effect, Settles

LEMMA WorkerEffect ==
  ASSUME StateTypes, RecordTypes, RecordsAgree, RowsTranslated, WorkIsPending,
         Worker \/ (Up /\ (EnqueueFails \/ WorkerFails))
  PROVE  Effect /\ Settles
<1>1. main # "down"
  BY DEF Worker, Up
<1>2. CASE UNCHANGED <<latest, last, saved, life>>
  BY <1>1, <1>2, NothingPublished DEF Settles
<1>3. CASE Translate
  BY <1>1, <1>3, TranslateEffect
<1>4. CASE Announce \/ Restore \/ EnqueueFails
  <2>1. CASE UNCHANGED <<latest, last, saved>>
    BY <1>2, <1>4, <2>1 DEF Announce, Restore, EnqueueFails
  <2>2. CASE \E news \in {held.news, 0} : SpeechUpdate(item, held.record, news)
    <3>1. held.news \in Nat /\ 0 \in Nat
      BY DEF RecordTypes, Notices
    <3>2. worker \in Handing /\ life' = life
      BY <1>4 DEF Announce, Restore, EnqueueFails, Handing
    <3> QED  BY <1>1, <2>2, <3>1, <3>2, HeldSpoken
  <2> QED  BY <1>4, <2>1, <2>2 DEF Announce, Restore, EnqueueFails, showVars
<1>5. CASE FinishItem
  BY <1>1, <1>5, FinishEffect
<1>6. CASE TakeItem \/ Await \/ TakeContext \/ Enqueue
  BY <1>2, <1>6 DEF TakeItem, Await, TakeContext, Enqueue, showVars, workVars
<1>7. CASE AcknowledgeShown \/ LeaveLoop \/ Join \/ WorkerFails
  BY <1>2, <1>7 DEF AcknowledgeShown, LeaveLoop, Join, WorkerFails, showVars, workVars
<1> QED  BY <1>3, <1>4, <1>5, <1>6, <1>7 DEF Worker

LEMMA NoticeSpoken ==
  ASSUME StateTypes, RecordTypes, RecordsAgree, RowsTranslated, notice.step # "none",
         SpeechUpdate(notice.of, notice.record, notice.news), life' = life, main # "down"
  PROVE  /\ Effect /\ Settles
         /\ latest'[notice.of] \in Record /\ Translated(notice.of, latest'[notice.of])
<1>1. notice.of \in Utterances /\ notice.record \in Record /\ notice.news \in Nat
  BY DEF RecordTypes, Notices, RowsTranslated
<1> QED  BY <1>1, SpokenEffect DEF RowsTranslated

LEMMA DeliveryEffect ==
  ASSUME StateTypes, RecordTypes, RecordsAgree, RowsTranslated, Delivery
  PROVE  Effect /\ Settles
<1>1. main # "down" /\ life' = life
  BY DEF Delivery, RowMoves, ReadNotice, PublishNotice, AcknowledgeNotice, Delivering, Up
<1>2. CASE UNCHANGED <<latest, last, saved>>
  BY <1>1, <1>2, NothingPublished DEF Settles
<1>3. CASE PublishNotice /\ SpeechUpdate(notice.of, notice.record, notice.news)
  BY <1>1, <1>3, NoticeSpoken DEF PublishNotice
<1> QED  BY <1>2, <1>3 DEF Delivery, RowMoves, ReadNotice, PublishNotice,
                         AcknowledgeNotice, showVars, workVars

LEMMA TimeOutEffect ==
  ASSUME StateTypes, RecordTypes, RecordsAgree, CloseTimesOut
  PROVE  /\ Effect /\ Settles
         /\ ~aborted => \A v \in Utterances : latest[v].status = "pending" =>
                                                last'[v].status \in Terminal
<1>1. main # "down" /\ life' = life /\ main' # "down"
  BY DEF CloseTimesOut
<1>2. CASE aborted
  BY <1>1, <1>2, NothingPublished DEF CloseTimesOut, showVars, Settles
<1>3. CASE ~aborted
  <2> DEFINE S == {u \in Utterances : latest[u].status = "pending"}
             skipped(u) == [Successor(u) EXCEPT !.status = "skipped"]
  <2>1. \A u \in Utterances : Fit(u, skipped(u)) /\ skipped(u).status = "skipped"
    BY WithStatus DEF Statuses, Terminal
  <2>2. /\ latest' = [u \in Utterances |-> IF u \in S THEN skipped(u) ELSE latest[u]]
        /\ last' = [u \in Utterances |-> IF u \in S THEN skipped(u) ELSE last[u]]
        /\ saved' = [u \in Utterances |-> IF u \in S /\ saved[u] # NoRecord
                                          THEN skipped(u) ELSE saved[u]]
    BY <1>3 DEF CloseTimesOut, Publishing
  <2>3. \A u \in S : u \in Utterances /\ latest[u] # NoRecord /\ latest[u] = last[u]
    BY DEF NoRecord, RecordsAgree
  <2> HIDE DEF skipped, S
  <2>4. MemoryTypes'
    BY <2>1, <2>2 DEF RecordTypes, MemoryTypes, Fit
  <2>5. \A u \in S : skipped(u) # NoRecord /\ skipped(u).status \in Terminal
    BY <2>1, <2>3 DEF Fit, NoRecord, Terminal
  <2>6. Kept
    BY <2>2, <2>5 DEF RecordTypes, Kept
  <2>7. ASSUME NEW v \in Utterances
        PROVE  /\ last'[v] # NoRecord => last'[v].status # "none"
               /\ latest'[v] \in {NoRecord, last'[v]} /\ saved'[v] \in {NoRecord, last'[v]}
               /\ v[1] = life' /\ main' # "down" => latest'[v] = last'[v]
               /\ v[1] > life' => last'[v] = NoRecord
               /\ last'[v].source \in {Nobody, v}
    <3>1. CASE v \in S
      <4>1. v[1] \in Nat /\ life \in Nat
        BY DEF StateTypes, Utterances, Lives
      <4>2. ~(v[1] > life)
        BY <3>1, <2>3, <4>1 DEF RecordsAgree
      <4>3. latest'[v] = skipped(v) /\ last'[v] = skipped(v)
            /\ saved'[v] \in {skipped(v), saved[v]} /\ (saved[v] # NoRecord => saved'[v] = skipped(v))
        BY <2>2, <3>1
      <4> QED  BY <1>1, <2>1, <2>5, <3>1, <4>2, <4>3 DEF Fit
    <3>2. CASE v \notin S
      BY <1>1, <2>2, <3>2 DEF RecordsAgree
    <3> QED  BY <3>1, <3>2
  <2>8. RecordsAgree'
    BY <2>7 DEF RecordsAgree
  <2>9. Settles
    BY <2>2, <2>5 DEF Settles
  <2>10. \A v \in Utterances : latest[v].status = "pending" => last'[v].status \in Terminal
    BY <2>2, <2>5 DEF S
  <2> QED  BY <2>4, <2>6, <2>8, <2>9, <2>10 DEF Effect
<1> QED  BY <1>2, <1>3

LEMMA FreshEffect ==
  ASSUME StateTypes, RecordTypes, RecordsAgree, Crash \/ Start
  PROVE  MemoryTypes' /\ RecordsAgree' /\ last' = last
<1>1. MemoryTypes' /\ last' = last /\ saved' = saved /\ latest' = None(NoRecord)
  BY NoRecordTyped DEF Crash, Start, Fresh, RecordTypes, MemoryTypes, None
<1>2. \A v \in Utterances : latest'[v] = NoRecord
  BY <1>1 DEF None
<1>3. \/ life' = life /\ main' = "down"
      \/ life' = life + 1
  BY DEF Crash, Start
<1>4. life \in Nat /\ \A v \in Utterances : v[1] \in Nat
  BY DEF StateTypes, Utterances, Lives
<1>5. ASSUME NEW v \in Utterances
      PROVE  /\ v[1] = life' /\ main' # "down" => latest'[v] = last'[v]
             /\ v[1] > life' => last'[v] = NoRecord
  BY <1>1, <1>2, <1>3, <1>4 DEF RecordsAgree
<1> QED  BY <1>1, <1>2, <1>5 DEF RecordsAgree

LEMMA MainEffect ==
  ASSUME StateTypes, RecordTypes, RecordsAgree, EndsInOrder, MainThread \/ CloseTimesOut
  PROVE  Effect
<1>1. CASE BeginClose \/ CloseReturns \/ Exit
  <2>1. main # "down" /\ UNCHANGED <<latest, last, saved, life>>
    BY <1>1 DEF BeginClose, CloseReturns, Exit, showVars, workVars
  <2> QED  BY <2>1, NothingPublished
<1> QED  BY <1>1, AcceptEffect, StoreEffect, TimeOutEffect DEF MainThread

LEMMA StepAgrees ==
  ASSUME Inv, Next PROVE MemoryTypes' /\ RecordsAgree'
<1> USE DEF Inv
<1>1. CASE Recogniser
  BY <1>1, RecogniserEffect DEF Effect
<1>2. CASE MainThread \/ CloseTimesOut
  BY <1>2, MainEffect DEF Effect
<1>3. CASE Worker \/ (Up /\ (EnqueueFails \/ WorkerFails))
  BY <1>3, WorkerEffect DEF Effect
<1>4. CASE Delivery
  BY <1>4, DeliveryEffect DEF Effect
<1>5. CASE Crash \/ Start
  BY <1>5, FreshEffect
<1> QED  BY <1>1, <1>2, <1>3, <1>4, <1>5 DEF Next

-----------------------------------------------------------------------------
(***************************************************************************)
(* The rows, and what the two threads have in hand                         *)
(***************************************************************************)

LEMMA HandsUnchanged ==
  ASSUME RecordTypes, RowsTranslated, MemoryTypes', Kept, StateTypes,
         UNCHANGED <<row, context, told, notice, worker, text, held, item>>
  PROVE  RecordTypes' /\ RowsTranslated'
<1>1. RecordTypes'
  BY DEF RecordTypes, MemoryTypes
<1>2. worker \in Handing \cup {"context"} => item \in Utterances
  BY DEF StateTypes, Handing
<1>3. RowsTranslated'
  BY <1>2 DEF RowsTranslated, Translated, Kept
<1> QED  BY <1>1, <1>3

LEMMA TakeItemRows ==
  ASSUME StateTypes, RecordTypes, RecordsAgree, RowsTranslated, TakeItem
  PROVE  RecordTypes' /\ RowsTranslated'
<1>1. item' \in Utterances /\ text' = Nobody /\ UNCHANGED <<row, context, told, notice, latest, last, saved>>
  BY DEF TakeItem, StateTypes, RowsTranslated, rowVars, showVars
<1>2. CASE row[item'] # 0
  <2>1. held' = [NoNotice EXCEPT !.of = item', !.news = row[item'], !.record = context[item']]
        /\ worker' = "restore"
    BY <1>2 DEF TakeItem
  <2>2. /\ held'.of = item' /\ held'.record = context[item'] /\ held' \in Notices
    <3>1. row[item'] \in Nat /\ context[item'] \in Record
      BY <1>1 DEF RecordTypes
    <3> QED  BY <1>1, <2>1, <3>1 DEF NoNotice, Notices
  <2>3. RecordTypes'
    BY <1>1, <2>2 DEF RecordTypes
  <2>4. RowsTranslated'
    BY <1>1, <1>2, <2>1, <2>2 DEF RowsTranslated, Translated, Handing
  <2> QED  BY <2>3, <2>4
<1>3. CASE row[item'] = 0
  BY <1>1, <1>3 DEF TakeItem, RecordTypes, RowsTranslated, Translated, Handing
<1> QED  BY <1>2, <1>3

LEMMA TranslateRows ==
  ASSUME StateTypes, RecordTypes, RecordsAgree, RowsTranslated, WorkIsPending,
         main # "down", Translate
  PROVE  RecordTypes' /\ RowsTranslated'
<1>1. Effect /\ (aborted \/ (last'[item].status \in Terminal /\ latest'[item] # NoRecord))
  BY TranslateEffect
<1>2. /\ UNCHANGED <<row, context, told, notice, held, item>> /\ text' = Nobody
      /\ worker' \in {"context", "done"} /\ (worker' = "context" => ~aborted)
  BY DEF Translate, rowVars
<1>3. RecordTypes'
  BY <1>1, <1>2 DEF RecordTypes, Effect, MemoryTypes
<1>4. RowsTranslated'
  BY <1>1, <1>2 DEF RowsTranslated, Translated, Effect, Kept, Handing
<1> QED  BY <1>3, <1>4

LEMMA TakeContextRows ==
  ASSUME StateTypes, RecordTypes, RecordsAgree, RowsTranslated, TakeContext
  PROVE  RecordTypes' /\ RowsTranslated'
<1>1. /\ UNCHANGED <<row, context, told, notice, latest, last, saved, text, item>>
      /\ worker = "context" /\ worker' = "enqueue"
      /\ held' = [NoNotice EXCEPT !.of = item, !.news = 1, !.record = latest[item]]
  BY DEF TakeContext, rowVars, showVars, workVars
<1>2. item \in Utterances
  BY <1>1 DEF StateTypes
<1>3. latest[item] \in Record /\ Translated(item, latest[item])
  BY <1>1, <1>2 DEF RowsTranslated, RecordsAgree, Translated, RecordTypes, Handing
<1>4. held'.of = item /\ held'.record = latest[item] /\ held' \in Notices
  BY <1>1, <1>2, <1>3 DEF NoNotice, Notices
<1>5. RecordTypes'
  BY <1>1, <1>4 DEF RecordTypes
<1>6. RowsTranslated'
  BY <1>1, <1>3, <1>4 DEF RowsTranslated, Translated, Handing
<1> QED  BY <1>5, <1>6

LEMMA EnqueueRows ==
  ASSUME StateTypes, RecordTypes, RowsTranslated, Enqueue
  PROVE  RecordTypes' /\ RowsTranslated'
<1>1. /\ UNCHANGED <<notice, latest, last, saved, text, item, held>> /\ worker = "enqueue"
  BY DEF Enqueue, showVars, workVars
<1>2. item \in Utterances /\ held.record \in Record
  BY <1>1 DEF StateTypes, RecordTypes, Notices
<1>3. held.of = item /\ Translated(item, held.record) /\ last[item].status \in Terminal
  BY <1>1 DEF RowsTranslated, Handing
<1>4. CASE worker' = "done" /\ UNCHANGED <<row, context, told>>
  BY <1>1, <1>4 DEF RecordTypes, RowsTranslated, Translated, Handing
<1>5. CASE /\ row' = [row EXCEPT ![item] = 1] /\ context' = [context EXCEPT ![item] = held.record]
           /\ told' = [told EXCEPT ![item] = FALSE] /\ worker' = "announce"
  <2>1. RecordTypes'
    BY <1>1, <1>2, <1>5 DEF RecordTypes
  <2>2. ASSUME NEW u \in Utterances
        PROVE  /\ ~told'[u] => row'[u] # 0
               /\ row'[u] # 0 => last[u].status \in Terminal /\ Translated(u, context'[u])
    <3>1. CASE u = item
      BY <1>2, <1>3, <1>5, <3>1 DEF RecordTypes
    <3>2. CASE u # item
      BY <1>2, <1>5, <3>2 DEF RecordTypes, RowsTranslated
    <3> QED  BY <3>1, <3>2
  <2>3. notice.step # "none" => row'[notice.of] # 0
    BY <1>2, <1>5 DEF RecordTypes, RowsTranslated
  <2>4. RowsTranslated'
    BY <1>1, <1>3, <1>5, <2>2, <2>3 DEF RowsTranslated, Translated, Handing
  <2> QED  BY <2>1, <2>4
<1> QED  BY <1>4, <1>5 DEF Enqueue, rowVars

LEMMA SpokenRows ==
  ASSUME StateTypes, RecordTypes, RecordsAgree, RowsTranslated, main # "down",
         Announce \/ Restore
  PROVE  RecordTypes' /\ RowsTranslated'
<1>1. /\ UNCHANGED <<row, context, told, notice, text, item, life>>
      /\ worker \in Handing
  BY DEF Announce, Restore, rowVars, Handing
<1>2. item \in Utterances
  BY <1>1 DEF StateTypes, Handing
<1>3. CASE worker' = "done" /\ UNCHANGED <<held, saved, latest, last>>
  BY <1>1, <1>3 DEF RecordTypes, RowsTranslated, Translated, Handing
<1>4. CASE /\ SpeechUpdate(item, held.record, held.news)
           /\ held' = [held EXCEPT !.record = latest'[item]]
           /\ worker' \in Handing
  <2>1. held.news \in Nat /\ held \in Notices
    BY DEF RecordTypes, Notices
  <2>2. Effect /\ latest'[item] \in Record /\ Translated(item, latest'[item])
    BY <1>1, <1>4, <2>1, HeldSpoken
  <2>3. held' \in Notices /\ held'.of = held.of /\ held'.record = latest'[item]
    BY <1>4, <2>1, <2>2 DEF Notices
  <2>4. RecordTypes'
    BY <1>1, <2>2, <2>3 DEF RecordTypes, Effect, MemoryTypes
  <2>5. held.of = item /\ last[item].status \in Terminal
    BY <1>1 DEF RowsTranslated
  <2>6. RowsTranslated'
    BY <1>1, <1>2, <1>4, <2>2, <2>3, <2>5 DEF RowsTranslated, Translated, Effect, Kept, Handing
  <2> QED  BY <2>4, <2>6
<1> QED  BY <1>3, <1>4 DEF Announce, Restore, Handing, showVars

LEMMA AcknowledgedRows ==
  ASSUME RecordTypes, NEW that \in Notices, that.of \in Utterances,
         Translated(that.of, that.record), Acknowledge(that),
         \A u \in Utterances :
           /\ ~told[u] => row[u] # 0
           /\ row[u] # 0 => last[u].status \in Terminal /\ Translated(u, context[u])
  PROVE  /\ context' \in [Utterances -> Record] /\ told' \in [Utterances -> BOOLEAN]
         /\ row' = row
         /\ \A u \in Utterances :
              /\ ~told'[u] => row[u] # 0
              /\ row[u] # 0 => last[u].status \in Terminal /\ Translated(u, context'[u])
<1>1. CASE UNCHANGED <<row, context, told>>
  BY <1>1 DEF RecordTypes
<1>2. CASE /\ told' = [told EXCEPT ![that.of] = TRUE] /\ row' = row
           /\ context' = [context EXCEPT ![that.of] = that.record]
  <2>1. that.record \in Record
    BY DEF Notices
  <2>2. context' \in [Utterances -> Record] /\ told' \in [Utterances -> BOOLEAN]
    BY <1>2, <2>1 DEF RecordTypes
  <2>3. ASSUME NEW u \in Utterances
        PROVE  /\ ~told'[u] => row[u] # 0
               /\ row[u] # 0 => last[u].status \in Terminal /\ Translated(u, context'[u])
    <3>1. CASE u = that.of
      BY <1>2, <3>1 DEF RecordTypes
    <3>2. CASE u # that.of
      BY <1>2, <3>2 DEF RecordTypes
    <3> QED  BY <3>1, <3>2
  <2> QED  BY <1>2, <2>2, <2>3
<1> QED  BY <1>1, <1>2 DEF Acknowledge, rowVars

LEMMA AcknowledgeShownRows ==
  ASSUME StateTypes, RecordTypes, RowsTranslated, AcknowledgeShown
  PROVE  RecordTypes' /\ RowsTranslated'
<1>1. /\ UNCHANGED <<notice, latest, last, saved, text, item, held>>
      /\ worker \in Handing /\ worker' = "done" /\ Acknowledge(held)
  BY DEF AcknowledgeShown, showVars, workVars, Handing
<1>2. held \in Notices /\ held.of \in Utterances /\ Translated(held.of, held.record)
  BY <1>1 DEF RecordTypes, RowsTranslated, StateTypes, Handing
<1>3. /\ context' \in [Utterances -> Record] /\ told' \in [Utterances -> BOOLEAN]
      /\ row' = row
      /\ \A u \in Utterances :
           /\ ~told'[u] => row[u] # 0
           /\ row[u] # 0 => last[u].status \in Terminal /\ Translated(u, context'[u])
  BY <1>1, <1>2, AcknowledgedRows DEF RowsTranslated
<1> QED  BY <1>1, <1>3 DEF RecordTypes, RowsTranslated, Translated, Handing

LEMMA OtherWorkerRows ==
  ASSUME StateTypes, RecordTypes, RowsTranslated,
         Await \/ FinishItem \/ LeaveLoop \/ Join \/ WorkerFails
  PROVE  RecordTypes' /\ RowsTranslated'
<1>1. UNCHANGED <<row, context, told, notice, latest, last>>
  BY DEF Await, FinishItem, LeaveLoop, Join, WorkerFails, rowVars, showVars
<1>2. CASE Await
  <2>1. item \in Utterances /\ text' \in {Nobody, item} /\ worker' = "translate"
        /\ UNCHANGED <<item, saved, held>>
    BY <1>2 DEF Await, StateTypes, workVars
  <2> QED  BY <1>1, <2>1 DEF RecordTypes, RowsTranslated, Translated, Handing
<1>3. CASE FinishItem
  <2>1. saved' \in [Utterances -> Record]
    BY <1>3, NoRecordTyped DEF FinishItem, RecordTypes
  <2>2. text' = Nobody /\ worker' = "idle" /\ held' = NoNotice
    BY <1>3 DEF FinishItem
  <2> QED  BY <1>1, <2>1, <2>2, NoRecordTyped DEF RecordTypes, RowsTranslated, Translated, Handing
<1>4. CASE LeaveLoop \/ Join \/ WorkerFails
  <2>1. UNCHANGED <<text, held, item, saved>> /\ worker' \in {"joining", "ended", "done"}
    BY <1>4 DEF LeaveLoop, Join, WorkerFails, workVars
  <2> QED  BY <1>1, <2>1 DEF RecordTypes, RowsTranslated, Translated, Handing
<1> QED  BY <1>2, <1>3, <1>4

LEMMA EnqueueFailsRows ==
  ASSUME StateTypes, RecordTypes, RecordsAgree, RowsTranslated, main # "down", EnqueueFails
  PROVE  RecordTypes' /\ RowsTranslated'
<1>1. /\ UNCHANGED <<row, context, told, notice, text, item, held>>
      /\ worker \in Handing /\ worker' = "done" /\ life' = life
      /\ SpeechUpdate(item, held.record, 0)
  BY DEF EnqueueFails, rowVars, Handing
<1>2. Effect
  BY <1>1, HeldSpoken
<1>3. RecordTypes'
  BY <1>1, <1>2 DEF RecordTypes, Effect, MemoryTypes
<1> QED  BY <1>1, <1>2, <1>3 DEF RowsTranslated, Translated, Effect, Kept, Handing

LEMMA WorkerRows ==
  ASSUME StateTypes, RecordTypes, RecordsAgree, RowsTranslated, WorkIsPending,
         Worker \/ (Up /\ (EnqueueFails \/ WorkerFails))
  PROVE  RecordTypes' /\ RowsTranslated'
<1>1. main # "down"
  BY DEF Worker, Up
<1> QED  BY <1>1, TakeItemRows, TranslateRows, TakeContextRows, EnqueueRows, SpokenRows,
            AcknowledgeShownRows, OtherWorkerRows, EnqueueFailsRows DEF Worker

LEMMA DeliveryRows ==
  ASSUME StateTypes, RecordTypes, RecordsAgree, RowsTranslated, Delivery
  PROVE  RecordTypes' /\ RowsTranslated'
<1>1. UNCHANGED <<worker, text, held, item, life>> /\ main # "down"
  BY DEF Delivery, RowMoves, ReadNotice, PublishNotice, AcknowledgeNotice, workVars,
         handVars, Delivering, Up
<1>2. worker \in Handing \cup {"context"} => item \in Utterances
  BY DEF StateTypes, Handing
<1>3. CASE RowMoves
  <2>1. PICK u \in Utterances :
          /\ row[u] \in 1 .. MaxNews - 1
          /\ row' = [row EXCEPT ![u] = @ + 1] /\ told' = [told EXCEPT ![u] = FALSE]
    BY <1>3 DEF RowMoves, OldestOf
  <2>2. UNCHANGED <<context, notice, latest, last, saved>>
    BY <1>3 DEF RowMoves, showVars, workVars
  <2>3. row[u] \in Nat /\ row[u] # 0 /\ row[u] + 1 \in Nat /\ row[u] + 1 # 0
    BY <2>1 DEF RecordTypes
  <2>4. row' \in [Utterances -> Nat] /\ told' \in [Utterances -> BOOLEAN]
    BY <2>1, <2>3 DEF RecordTypes
  <2>5. \A v \in Utterances : (row'[v] = 0 <=> row[v] = 0) /\ (~told'[v] => ~told[v] \/ v = u)
    BY <2>1, <2>3 DEF RecordTypes
  <2>6. \A v \in Utterances : ~told'[v] => row'[v] # 0
    BY <2>3, <2>5 DEF RowsTranslated
  <2> QED  BY <1>1, <1>2, <2>2, <2>4, <2>5, <2>6 DEF RecordTypes, RowsTranslated
<1>4. CASE ReadNotice
  <2>1. PICK u \in Utterances :
          /\ ~told[u]
          /\ notice' = [of |-> u, news |-> row[u], record |-> context[u], step |-> "publish"]
    BY <1>4 DEF ReadNotice, OldestOf
  <2>2. UNCHANGED <<row, context, told, latest, last, saved>>
    BY <1>4 DEF ReadNotice, showVars, workVars, rowVars
  <2>3. row[u] # 0 /\ Translated(u, context[u]) /\ row[u] \in Nat /\ context[u] \in Record
    BY <2>1 DEF RowsTranslated, RecordTypes
  <2>4. /\ notice' \in Notices /\ notice'.of = u /\ notice'.record = context[u]
    BY <2>1, <2>3 DEF Notices
  <2> QED  BY <1>1, <2>2, <2>3, <2>4 DEF RecordTypes, RowsTranslated, Translated
<1>5. CASE PublishNotice
  <2>1. UNCHANGED <<row, context, told>> /\ notice.step = "publish"
    BY <1>5 DEF PublishNotice, rowVars
  <2>2. CASE notice' = NoNotice /\ UNCHANGED <<saved, latest, last>>
    BY <1>1, <2>1, <2>2, NoRecordTyped DEF RecordTypes, RowsTranslated, Translated, NoNotice
  <2>3. CASE /\ SpeechUpdate(notice.of, notice.record, notice.news)
             /\ notice' = [notice EXCEPT !.step = "acknowledge", !.record = latest'[notice.of]]
    <3>1. /\ Effect /\ latest'[notice.of] \in Record
          /\ Translated(notice.of, latest'[notice.of])
      BY <1>1, <2>1, <2>3, NoticeSpoken
    <3>2. /\ notice' \in Notices /\ notice'.of = notice.of
          /\ notice'.record = latest'[notice.of]
      BY <2>3, <3>1 DEF Notices, RecordTypes
    <3>3. RecordTypes'
      BY <1>1, <2>1, <3>1, <3>2 DEF RecordTypes, Effect, MemoryTypes
    <3> QED  BY <1>1, <1>2, <2>1, <3>1, <3>2, <3>3
             DEF RowsTranslated, Translated, Effect, Kept
  <2> QED  BY <1>5, <2>2, <2>3 DEF PublishNotice, showVars
<1>6. CASE AcknowledgeNotice
  <2>1. /\ UNCHANGED <<latest, last, saved>> /\ notice' = NoNotice
        /\ notice.step # "none" /\ Acknowledge(notice)
    BY <1>6 DEF AcknowledgeNotice, showVars, workVars
  <2>2. notice \in Notices /\ notice.of \in Utterances
        /\ Translated(notice.of, notice.record)
    BY <2>1 DEF RecordTypes, RowsTranslated
  <2>3. /\ context' \in [Utterances -> Record] /\ told' \in [Utterances -> BOOLEAN]
        /\ row' = row
        /\ \A u \in Utterances :
             /\ ~told'[u] => row[u] # 0
             /\ row[u] # 0 => last[u].status \in Terminal /\ Translated(u, context'[u])
    BY <2>1, <2>2, AcknowledgedRows DEF RowsTranslated
  <2> QED  BY <1>1, <2>1, <2>3, NoRecordTyped DEF RecordTypes, RowsTranslated, Translated, NoNotice
<1> QED  BY <1>3, <1>4, <1>5, <1>6 DEF Delivery

LEMMA FreshRows ==
  ASSUME StateTypes, RecordTypes, RecordsAgree, RowsTranslated, Crash \/ Start
  PROVE  RecordTypes' /\ RowsTranslated'
<1>1. MemoryTypes' /\ last' = last
  BY FreshEffect
<1>2. /\ UNCHANGED <<row, context, told>> /\ notice' = NoNotice /\ held' = NoNotice
      /\ text' = Nobody /\ worker' = "idle"
  BY DEF Crash, Start, Fresh, rowVars
<1> QED  BY <1>1, <1>2, NoRecordTyped
         DEF RecordTypes, MemoryTypes, RowsTranslated, Translated, NoNotice, Handing

LEMMA StepRows ==
  ASSUME Inv, Next PROVE RecordTypes' /\ RowsTranslated'
<1> USE DEF Inv
<1>1. CASE Recogniser
  <2>1. UNCHANGED <<row, context, told, notice, worker, text, held, item>>
    BY <1>1 DEF Recogniser, Final, RefineReport, SttEnds, rowVars, handVars, workVars
  <2> QED  BY <1>1, <2>1, RecogniserEffect, HandsUnchanged DEF Effect
<1>2. CASE MainThread \/ CloseTimesOut
  <2>1. UNCHANGED <<row, context, told, notice, worker, text, held, item>>
    BY <1>2 DEF MainThread, AcceptFinal, Store, AcceptRefined, BeginClose, CloseReturns,
                Exit, CloseTimesOut, rowVars, handVars, workVars
  <2> QED  BY <1>2, <2>1, MainEffect, HandsUnchanged DEF Effect
<1> QED  BY <1>1, <1>2, WorkerRows, DeliveryRows, FreshRows DEF Next

-----------------------------------------------------------------------------
(***************************************************************************)
(* The work, and what the pipe still has                                   *)
(***************************************************************************)

LEMMA SetOfAppended ==
  ASSUME NEW S, NEW s \in Seq(S), NEW e \in S
  PROVE  ToSet(Append(s, e)) = ToSet(s) \cup {e}
<1>1. /\ Append(s, e) \in Seq(S) /\ Len(Append(s, e)) = Len(s) + 1
      /\ \A i \in 1 .. Len(s) : Append(s, e)[i] = s[i]
      /\ Append(s, e)[Len(s) + 1] = e
  BY AppendProperties
<1>2. DOMAIN s = 1 .. Len(s) /\ DOMAIN Append(s, e) = 1 .. Len(s) + 1 /\ Len(s) \in Nat
  BY <1>1
<1> QED  BY <1>1, <1>2 DEF ToSet

LEMMA SetOfPrepended ==
  ASSUME NEW S, NEW s \in Seq(S), NEW e \in S
  PROVE  ToSet(<<e>> \o s) = ToSet(s) \cup {e}
<1>1. <<e>> \in Seq(S) /\ Len(<<e>>) = 1 /\ <<e>>[1] = e
  OBVIOUS
<1>2. /\ <<e>> \o s \in Seq(S) /\ Len(<<e>> \o s) = 1 + Len(s)
      /\ \A i \in 1 .. 1 + Len(s) : (<<e>> \o s)[i] = IF i <= 1 THEN <<e>>[i] ELSE s[i - 1]
  BY <1>1, ConcatProperties
<1>3. DOMAIN s = 1 .. Len(s) /\ DOMAIN (<<e>> \o s) = 1 .. 1 + Len(s) /\ Len(s) \in Nat
  BY <1>2
<1>4. ASSUME NEW i \in DOMAIN (<<e>> \o s) PROVE (<<e>> \o s)[i] \in ToSet(s) \cup {e}
  <2>1. CASE i = 1
    BY <1>1, <1>2, <1>3, <2>1
  <2>2. CASE i # 1
    BY <1>2, <1>3, <2>2 DEF ToSet
  <2> QED  BY <2>1, <2>2
<1>5. ASSUME NEW i \in DOMAIN s PROVE s[i] \in ToSet(<<e>> \o s)
  <2>1. i + 1 \in DOMAIN (<<e>> \o s) /\ (<<e>> \o s)[i + 1] = s[i]
    BY <1>2, <1>3
  <2> QED  BY <2>1 DEF ToSet
<1>6. e \in ToSet(<<e>> \o s)
  <2>1. 1 \in DOMAIN (<<e>> \o s) /\ (<<e>> \o s)[1] = e
    BY <1>1, <1>2, <1>3
  <2> QED  BY <2>1 DEF ToSet
<1> QED  BY <1>4, <1>5, <1>6 DEF ToSet

LEMMA SetOfHeadAndTail ==
  ASSUME NEW S, NEW s \in Seq(S), s # <<>>
  PROVE  ToSet(s) = ToSet(Tail(s)) \cup {Head(s)}
<1>1. /\ Tail(s) \in Seq(S) /\ Len(Tail(s)) = Len(s) - 1
      /\ \A i \in 1 .. Len(Tail(s)) : Tail(s)[i] = s[i + 1]
  BY HeadTailProperties
<1>2. DOMAIN s = 1 .. Len(s) /\ DOMAIN Tail(s) = 1 .. Len(s) - 1 /\ Len(s) \in Nat \ {0}
      /\ Head(s) = s[1]
  BY <1>1
<1>3. ASSUME NEW i \in DOMAIN s PROVE s[i] \in ToSet(Tail(s)) \cup {Head(s)}
  <2>1. CASE i = 1
    BY <1>2, <2>1
  <2>2. CASE i # 1
    <3>1. i - 1 \in DOMAIN Tail(s) /\ Tail(s)[i - 1] = s[i]
      BY <1>1, <1>2, <2>2
    <3> QED  BY <3>1 DEF ToSet
  <2> QED  BY <2>1, <2>2
<1>4. \A i \in DOMAIN Tail(s) : Tail(s)[i] \in ToSet(s)
  BY <1>1, <1>2 DEF ToSet
<1>5. Head(s) \in ToSet(s)
  BY <1>2 DEF ToSet
<1> QED  BY <1>3, <1>4, <1>5 DEF ToSet

LEMMA SetOfNone == ToSet(<<>>) = {}
BY DEF ToSet

\* The worker loses an item only when it has finished it.
LEMMA WorkerItems ==
  ASSUME StateTypes, Worker \/ EnqueueFails \/ WorkerFails
  PROVE  /\ Work' \subseteq Work \cup {Nobody}
         /\ \A u \in Work : \/ u \in Work' \/ u = Nobody
                            \/ worker = "done" /\ u = item /\ ~(aborted /\ durable)
         /\ UNCHANGED <<durable, life, main, pipe, unstored, finals>>
         /\ broken => broken'
         /\ item' \in {item, Nobody} \/ (worker' # "done" /\ worker' # "storing")
<1>1. /\ UNCHANGED <<durable, life, main, pipe, unstored, finals>>
      /\ broken => broken'
      /\ item' \in {item, Nobody} \/ (worker' # "done" /\ worker' # "storing")
  BY DEF Worker, TakeItem, Await, Translate, TakeContext, Enqueue, Announce, Restore,
         AcknowledgeShown, FinishItem, LeaveLoop, Join, EnqueueFails, WorkerFails,
         sttVars, flagVars, workVars
<1>2. CASE TakeItem
  <2>1. ToSet(queue) = ToSet(queue') \cup {item'} /\ item = Nobody
    BY <1>2, SetOfHeadAndTail DEF TakeItem, StateTypes
  <2> QED  BY <1>1, <2>1 DEF Work
<1>3. CASE FinishItem
  <2>1. item \in Utterances /\ worker = "done" /\ item' = Nobody
        /\ queue' = IF aborted /\ durable THEN <<item>> \o queue ELSE queue
    BY <1>3 DEF FinishItem, StateTypes
  <2>2. ToSet(<<item>> \o queue) = ToSet(queue) \cup {item}
    BY <2>1, SetOfPrepended DEF StateTypes
  <2> QED  BY <1>1, <2>1, <2>2 DEF Work
<1>4. CASE UNCHANGED <<queue, item>>
  BY <1>1, <1>4 DEF Work
<1> QED  BY <1>2, <1>3, <1>4
         DEF Worker, Await, Translate, TakeContext, Enqueue, Announce, Restore,
             AcknowledgeShown, LeaveLoop, Join, EnqueueFails, WorkerFails, workVars

-----------------------------------------------------------------------------
(***************************************************************************)
(* How the bridge ends                                                     *)
(***************************************************************************)

LEMMA StepEnds ==
  ASSUME StateTypes, EndsInOrder, Next PROVE EndsInOrder'
<1>1. CASE Recogniser
  <2>1. stt = "running" /\ UNCHANGED <<main, closing, aborted, broken, durable, worker, queue>>
    BY <1>1 DEF Recogniser, Final, RefineReport, SttEnds, flagVars, handVars, workVars
  <2>2. pipe # <<>> => pipe' # <<>>
    BY <1>1, HeadStays
  <2> QED  BY <2>1, <2>2 DEF EndsInOrder
<1>2. CASE MainThread \/ CloseTimesOut
  BY <1>2 DEF MainThread, AcceptFinal, Store, AcceptRefined, BeginClose, CloseReturns,
              Exit, CloseTimesOut, Reading, EndsInOrder, StateTypes, sttVars, flagVars,
              handVars, workVars
<1>3. CASE Worker \/ (Up /\ (EnqueueFails \/ WorkerFails))
  <2>1. UNCHANGED <<main, closing, durable, pipe, stt>>
    BY <1>3 DEF Worker, TakeItem, Await, Translate, TakeContext, Enqueue, Announce,
                Restore, AcknowledgeShown, FinishItem, LeaveLoop, Join, EnqueueFails,
                WorkerFails, sttVars, flagVars
  <2>2. \/ UNCHANGED <<aborted, broken>>
        \/ aborted' = TRUE /\ broken' = TRUE
    BY <1>3 DEF Worker, TakeItem, Await, Translate, TakeContext, Enqueue, Announce,
                Restore, AcknowledgeShown, FinishItem, LeaveLoop, Join, EnqueueFails,
                WorkerFails, flagVars
  <2>3. worker' \in {"joining", "ended"} /\ ~aborted' => closing /\ queue' = <<>>
    BY <1>3 DEF Worker, TakeItem, Await, Translate, TakeContext, Enqueue, Announce,
                Restore, AcknowledgeShown, FinishItem, LeaveLoop, Join, EnqueueFails,
                WorkerFails, flagVars, workVars, EndsInOrder
  <2> QED  BY <2>1, <2>2, <2>3 DEF EndsInOrder
<1>4. CASE Delivery
  BY <1>4 DEF Delivery, RowMoves, ReadNotice, PublishNotice, AcknowledgeNotice,
              EndsInOrder, sttVars, flagVars, handVars, workVars
<1>5. CASE Crash \/ Start
  BY <1>5 DEF Crash, Start, Fresh, EndsInOrder
<1> QED  BY <1>1, <1>2, <1>3, <1>4, <1>5 DEF Next

LEMMA OnlyStart ==
  ASSUME Next, main = "down" PROVE Start
BY DEF Next, Recogniser, MainThread, AcceptFinal, Store, AcceptRefined, BeginClose,
       CloseReturns, Exit, CloseTimesOut, Reading, Worker, Delivery, RowMoves, ReadNotice,
       PublishNotice, AcknowledgeNotice, Delivering, Crash, Up

-----------------------------------------------------------------------------
(***************************************************************************)
(* The work is pending                                                     *)
(***************************************************************************)

\* A caption that was published does not become pending.
NotAgain == \A v \in Utterances : Pending(v)' => Pending(v) \/ last[v] = NoRecord

\* What is kept where the work stays as it is.
LEMMA WorkKept ==
  ASSUME StateTypes, EndsInOrder, WorkIsPending, Kept, NotAgain,
         UNCHANGED <<life, durable, queue, item, unstored, worker, aborted, broken>>,
         main' = main \/ main' # "storing", main # "down",
         main = "storing" => Head(pipe') = Head(pipe)
  PROVE  WorkIsPending'
<1>1. Work' = Work /\ Work \subseteq Utterances \cup {Nobody}
  BY DEF Work, StateTypes, ToSet
<1>2. worker = "done" => item \in Work /\ item \in Utterances /\ last[item] # NoRecord
  BY LifeIsCounted DEF WorkIsPending, Work, StateTypes
<1>3. \A u \in Work' \ {Nobody} : last'[u] # NoRecord /\ (u[1] = life' \/ (durable' /\ u[1] < life'))
  BY <1>1 DEF WorkIsPending, Kept
<1>4. main' = "storing" /\ ~aborted' => last'[Own(Head(pipe).seq)] # NoRecord
  BY HeadIsOwn DEF WorkIsPending, Kept, EndsInOrder
<1>5. main' = "storing" /\ ~aborted' => last'[Own(Head(pipe).seq)'] # NoRecord
  BY <1>4 DEF Own
<1>6. worker' = "done" /\ Pending(item)' => aborted' /\ (durable' \/ broken')
  BY <1>2 DEF WorkIsPending, NotAgain
<1>7. \A u \in unstored' : u[1] < life' \/ (u[1] = life' /\ (broken' \/ main' = "down"))
  BY DEF WorkIsPending
<1>8. main' = "storing" => Own(Head(pipe).seq)' \notin Work'
  BY <1>1 DEF WorkIsPending, Own
<1> QED  BY <1>3, <1>5, <1>6, <1>7, <1>8 DEF WorkIsPending

LEMMA SettledIsNotAgain ==
  ASSUME Settles PROVE NotAgain
BY DEF Settles, NotAgain, Pending, Terminal

LEMMA RecogniserWork ==
  ASSUME Inv, Recogniser PROVE WorkIsPending'
<1> USE DEF Inv
<1>1. /\ UNCHANGED <<life, durable, queue, item, unstored, worker, aborted, broken, main, last>>
      /\ main # "down"
  BY DEF Recogniser, Up, Final, RefineReport, SttEnds, flagVars, workVars, handVars, showVars
<1>2. Kept /\ NotAgain
  BY <1>1, RecogniserEffect DEF Effect, NotAgain, Pending
<1>3. main = "storing" => Head(pipe') = Head(pipe)
  BY HeadStays DEF EndsInOrder
<1> QED  BY <1>1, <1>2, <1>3, WorkKept

LEMMA DeliveryWork ==
  ASSUME Inv, Delivery PROVE WorkIsPending'
<1> USE DEF Inv
<1>1. /\ UNCHANGED <<life, durable, queue, item, unstored, worker, aborted, broken, main, pipe>>
      /\ main # "down"
  BY DEF Delivery, RowMoves, ReadNotice, PublishNotice, AcknowledgeNotice, Delivering, Up,
         flagVars, workVars, handVars
<1> QED  BY <1>1, DeliveryEffect, SettledIsNotAgain, WorkKept DEF Effect

LEMMA MainWork ==
  ASSUME Inv, MainThread \/ CloseTimesOut PROVE WorkIsPending'
<1> USE DEF Inv
<1>0. Kept
  BY MainEffect DEF Effect
<1>1. CASE AcceptFinal
  <2> DEFINE u == Own(Head(pipe).seq)
  <2>1. /\ UNCHANGED <<life, durable, queue, item, unstored, worker, aborted, broken>>
        /\ main = "reading" /\ pipe # <<>>
    BY <1>1 DEF AcceptFinal, Reading, flagVars, handVars
  <2>2. u \in Utterances /\ u[1] = life
    BY <2>1, HeadIsOwn
  <2>3. NotAgain
    <3>1. main' = "storing" => latest[u] = NoRecord
      BY <1>1, <2>1 DEF AcceptFinal
    <3>2. main' = "storing" => last[u] = NoRecord
      BY <2>1, <2>2, <3>1 DEF RecordsAgree
    <3> HIDE DEF u
    <3>3. \A v \in Utterances : last'[v].status = last[v].status \/ (v = u /\ main' = "storing")
      BY <1>1, AcceptEffect DEF u
    <3> QED  BY <3>2, <3>3 DEF NotAgain, Pending
  <2>4. CASE main' = "reading"
    BY <1>0, <2>1, <2>3, <2>4, WorkKept
  <2>5. CASE main' = "storing"
    <3>1. pipe' = pipe /\ Update(u, [Successor(u) EXCEPT !.status = "pending"])
      BY <1>1, <2>1, <2>5 DEF AcceptFinal
    <3>2. Fit(u, [Successor(u) EXCEPT !.status = "pending"])
      BY <2>2, WithStatus DEF Statuses, Terminal
    <3>3. [Successor(u) EXCEPT !.status = "pending"] # NoRecord
      BY <3>2 DEF Fit, NoRecord
    <3>4. ~aborted => last'[u] # NoRecord
      <4> DEFINE r == [Successor(u) EXCEPT !.status = "pending"]
      <4>1. ~aborted => Publishing({u}, [v \in {u} |-> r])
        BY <3>1 DEF Update
      <4>2. r \in Record /\ r # NoRecord
        BY <3>2, <3>3 DEF Fit
      <4> HIDE DEF u, r
      <4>3. ~aborted => last' = [last EXCEPT ![u] = r]
        BY <2>2, <4>1, <4>2, OnePublished
      <4> QED  BY <2>2, <4>2, <4>3 DEF RecordTypes
    <3>5. Own(Head(pipe).seq)' = u
      BY <2>1, <3>1 DEF Own
    <3>6. Work' = Work /\ Work \subseteq Utterances \cup {Nobody}
      BY <2>1 DEF Work, StateTypes, ToSet
    <3>7. worker = "done" => item \in Work /\ item \in Utterances /\ last[item] # NoRecord
      BY LifeIsCounted DEF WorkIsPending, Work, StateTypes
    <3>8. \A v \in Work' \ {Nobody} : last'[v] # NoRecord /\ (v[1] = life' \/ (durable' /\ v[1] < life'))
      BY <1>0, <2>1, <3>6 DEF WorkIsPending, Kept
    <3>9. worker' = "done" /\ Pending(item)' => aborted' /\ (durable' \/ broken')
      BY <2>1, <2>3, <3>7 DEF WorkIsPending, NotAgain
    <3>10. \A v \in unstored' : v[1] < life' \/ (v[1] = life' /\ (broken' \/ main' = "down"))
      BY <2>1 DEF WorkIsPending
    <3>11. u \notin Work'
      <4>1. last[u] = NoRecord /\ u # Nobody
        BY <1>1, <2>1, <2>2, <2>5, LifeIsCounted DEF AcceptFinal, RecordsAgree
      <4> QED  BY <3>6, <4>1 DEF WorkIsPending
    <3> HIDE DEF u
    <3> QED  BY <2>1, <3>4, <3>5, <3>8, <3>9, <3>10, <3>11 DEF WorkIsPending
  <2> QED  BY <1>1, <2>1, <2>4, <2>5 DEF AcceptFinal
<1>2. CASE Store
  <2> DEFINE u == Own(Head(pipe).seq)
  <2>1. /\ UNCHANGED <<life, durable, item, worker, aborted, broken>>
        /\ main = "storing" /\ main' = "reading"
    BY <1>2 DEF Store, flagVars, handVars
  <2>2. u \in Utterances /\ u[1] = life
    BY <2>1, HeadIsOwn DEF EndsInOrder
  <2>3. NotAgain
    BY <1>2, StoreEffect DEF NotAgain, Pending, Terminal
  <2>4. /\ queue' = queue \/ (queue' = Append(queue, u) /\ latest[u] # NoRecord)
        /\ unstored' = unstored \/ (unstored' = unstored \cup {u} /\ aborted)
    BY <1>2 DEF Store
  <2> HIDE DEF u
  <2>5. latest[u] # NoRecord => last[u] # NoRecord
    BY <2>2 DEF RecordsAgree
  <2>6. Work \subseteq Utterances \cup {Nobody} /\ (Work' = Work \/ (Work' = Work \cup {u} /\ last[u] # NoRecord))
    <3>1. ToSet(Append(queue, u)) = ToSet(queue) \cup {u}
      BY <2>2, SetOfAppended DEF StateTypes
    <3>2. Work \subseteq Utterances \cup {Nobody}
      BY DEF Work, StateTypes, ToSet
    <3> QED  BY <2>1, <2>4, <2>5, <3>1, <3>2 DEF Work
  <2>7. worker = "done" => item \in Work /\ item \in Utterances /\ last[item] # NoRecord
    BY LifeIsCounted DEF WorkIsPending, Work, StateTypes
  <2>8. \A v \in Work' \ {Nobody} : last'[v] # NoRecord /\ (v[1] = life' \/ (durable' /\ v[1] < life'))
    BY <1>0, <2>1, <2>2, <2>6 DEF WorkIsPending, Kept
  <2>9. worker' = "done" /\ Pending(item)' => aborted' /\ (durable' \/ broken')
    BY <2>1, <2>3, <2>7 DEF WorkIsPending, NotAgain
  <2>10. aborted => broken
    BY <2>1 DEF EndsInOrder
  <2>11. \A v \in unstored' : v[1] < life' \/ (v[1] = life' /\ (broken' \/ main' = "down"))
    BY <2>1, <2>2, <2>4, <2>10 DEF WorkIsPending
  <2> QED  BY <2>1, <2>8, <2>9, <2>11 DEF WorkIsPending
<1>3. CASE AcceptRefined
  <2>1. /\ UNCHANGED <<life, durable, queue, item, unstored, worker, aborted, broken, main>>
        /\ main = "reading"
    BY <1>3 DEF AcceptRefined, Reading, flagVars, handVars
  <2>2. NotAgain
    BY <1>3, <2>1, AcceptEffect DEF NotAgain, Pending
  <2> QED  BY <1>0, <2>1, <2>2, WorkKept
<1>4. CASE BeginClose \/ CloseReturns \/ Exit
  <2>1. /\ UNCHANGED <<life, durable, queue, item, unstored, worker, aborted, broken, last>>
        /\ main' # "storing" /\ main \notin {"storing", "down"}
    BY <1>4 DEF BeginClose, CloseReturns, Exit, flagVars, workVars, handVars, showVars
  <2>2. NotAgain
    BY <2>1 DEF NotAgain, Pending
  <2> QED  BY <1>0, <2>1, <2>2, WorkKept
<1>5. CASE CloseTimesOut
  <2>1. /\ UNCHANGED <<life, durable, queue, item, unstored, worker, broken>> /\ ~durable
        /\ main' # "storing" /\ main = "closing" /\ aborted' = TRUE
    BY <1>5 DEF CloseTimesOut, handVars
  <2>2. NotAgain
    BY <1>5, TimeOutEffect, SettledIsNotAgain
  <2>3. ~aborted => \A v \in Utterances : v[1] = life => ~Pending(v)'
    <3>1. ~aborted => \A v \in Utterances : latest[v].status = "pending" => last'[v].status \in Terminal
      BY <1>5, TimeOutEffect
    <3>2. \A v \in Utterances : v[1] = life => latest[v] = last[v]
      BY <2>1 DEF RecordsAgree
    <3>3. \A v \in Utterances : last[v].status = "pending" \/ last'[v] = last[v] \/ last'[v].status \in Terminal
      BY <1>5, TimeOutEffect DEF Settles
    <3> QED  BY <3>1, <3>2, <3>3 DEF Pending, Terminal
  <2>4. Work' = Work /\ Work \subseteq Utterances \cup {Nobody}
    BY <2>1 DEF Work, StateTypes, ToSet
  <2>5. worker = "done" => item \in Work /\ item \in Utterances /\ item[1] = life /\ last[item] # NoRecord
    BY <2>1, LifeIsCounted DEF WorkIsPending, Work, StateTypes
  <2>6. \A v \in Work' \ {Nobody} : last'[v] # NoRecord /\ (v[1] = life' \/ (durable' /\ v[1] < life'))
    BY <1>0, <2>1, <2>4 DEF WorkIsPending, Kept
  <2>7. worker' = "done" /\ Pending(item)' => aborted' /\ (durable' \/ broken')
    BY <2>1, <2>2, <2>3, <2>5 DEF WorkIsPending, NotAgain, EndsInOrder
  <2>8. \A v \in unstored' : v[1] < life' \/ (v[1] = life' /\ (broken' \/ main' = "down"))
    BY <2>1 DEF WorkIsPending
  <2> QED  BY <2>1, <2>6, <2>7, <2>8 DEF WorkIsPending
<1> QED  BY <1>1, <1>2, <1>3, <1>4, <1>5 DEF MainThread

LEMMA WorkerWork ==
  ASSUME Inv, Worker \/ (Up /\ (EnqueueFails \/ WorkerFails)) PROVE WorkIsPending'
<1> USE DEF Inv
<1>1. main # "down" /\ Kept /\ NotAgain
  BY WorkerEffect, SettledIsNotAgain DEF Effect, Worker, Up
<1>2. /\ Work' \subseteq Work \cup {Nobody} /\ UNCHANGED <<durable, life, main, pipe, unstored>>
      /\ broken => broken'
      /\ item' \in {item, Nobody} \/ worker' # "done"
  BY WorkerItems
<1>3. Work \subseteq Utterances \cup {Nobody}
  BY DEF Work, StateTypes, ToSet
<1>4. \A v \in Work' \ {Nobody} : last'[v] # NoRecord /\ (v[1] = life' \/ (durable' /\ v[1] < life'))
  BY <1>1, <1>2, <1>3 DEF WorkIsPending, Kept
<1>5. aborted => aborted'
  BY DEF Worker, TakeItem, Await, Translate, TakeContext, Enqueue, Announce, Restore,
         AcknowledgeShown, FinishItem, LeaveLoop, Join, EnqueueFails, WorkerFails, flagVars
<1>6. main' = "storing" /\ ~aborted' => last'[Own(Head(pipe).seq)'] # NoRecord
  <2>1. Own(Head(pipe).seq)' = Own(Head(pipe).seq)
    BY <1>2 DEF Own
  <2> QED  BY <1>1, <1>2, <1>5, <2>1, HeadIsOwn DEF WorkIsPending, Kept, EndsInOrder
<1>7. \A v \in unstored' : v[1] < life' \/ (v[1] = life' /\ (broken' \/ main' = "down"))
  BY <1>2 DEF WorkIsPending
<1>8. ASSUME worker' = "done", Pending(item)'
      PROVE  aborted' /\ (durable' \/ broken')
  <2>1. StateTypes'
    BY WorkerStateTypes
  <2>2. item' = item /\ item \in Utterances /\ last[item] # NoRecord
        /\ (item[1] = life \/ durable)
    <3>1. item' # Nobody
      BY <1>8, <2>1 DEF StateTypes
    <3>2. item' = item /\ item \in Work \ {Nobody}
      BY <1>2, <1>8, <3>1 DEF Work
    <3> QED  BY <1>3, <3>2 DEF WorkIsPending
  <2>3. Pending(item)
    BY <1>1, <1>8, <2>2 DEF NotAgain, Pending
  <2>4. worker = "done" => aborted /\ (durable \/ broken)
    BY <2>3 DEF WorkIsPending
  <2>5. worker \notin Handing
    BY <2>3 DEF RowsTranslated, Pending, Terminal
  <2>6. CASE EnqueueFails \/ WorkerFails
    BY <2>6 DEF EnqueueFails, WorkerFails
  <2>7. CASE Translate
    <3>1. aborted
      BY <1>1, <1>8, <2>2, <2>7, TranslateEffect DEF Pending, Terminal
    <3>2. ~durable /\ ~broken => ~Pending(item)
      BY <2>2, <3>1 DEF EndsInOrder, FinalsHeard
    <3> QED  BY <1>2, <1>5, <2>3, <3>1, <3>2
  <2> QED  BY <1>2, <1>5, <1>8, <2>4, <2>5, <2>6, <2>7
           DEF Worker, TakeItem, Await, TakeContext, Enqueue, Announce, Restore,
               AcknowledgeShown, FinishItem, LeaveLoop, Join, Handing
<1>9. main' = "storing" => Own(Head(pipe).seq)' \notin Work'
  <2>1. Own(Head(pipe).seq)' = Own(Head(pipe).seq)
    BY <1>2 DEF Own
  <2> QED  BY <1>2, <2>1, HeadIsOwn, LifeIsCounted DEF WorkIsPending, EndsInOrder
<1> QED  BY <1>4, <1>6, <1>7, <1>8, <1>9 DEF WorkIsPending

LEMMA FreshWork ==
  ASSUME Inv, Crash \/ Start PROVE WorkIsPending'
<1> USE DEF Inv
<1>1. /\ UNCHANGED <<durable, last>> /\ worker' = "idle" /\ main' # "storing" /\ item' = Nobody
      /\ queue' = IF ~durable THEN <<>> ELSE IF item = Nobody THEN queue ELSE <<item>> \o queue
  BY DEF Crash, Start, Fresh
<1>2. life \in Nat /\ \A u \in Utterances : u[1] \in Nat
  BY DEF StateTypes, Utterances, Lives
<1>3. ToSet(queue') \subseteq Work \cup {Nobody} /\ (~durable => ToSet(queue') = {})
  BY <1>1, SetOfPrepended, SetOfNone DEF Work, StateTypes
<1>4. Work \subseteq Utterances \cup {Nobody}
  BY DEF Work, StateTypes, ToSet
<1>5. CASE Crash
  <2>1. life' = life /\ main' = "down" /\ main # "down"
    BY <1>5 DEF Crash, Up
  <2>2. \A u \in unstored' : u[1] < life \/ u[1] = life
    BY <1>5, HeadIsOwn DEF Crash, WorkIsPending, EndsInOrder
  <2> QED  BY <1>1, <1>3, <1>4, <2>1, <2>2 DEF WorkIsPending, Work
<1>6. CASE Start
  <2>1. life' = life + 1 /\ unstored' = unstored /\ unstored \subseteq Utterances
    BY <1>6 DEF Start, StateTypes
  <2>2. \A u \in unstored' : u[1] < life'
    BY <1>2, <2>1 DEF WorkIsPending
  <2>3. \A u \in ToSet(queue') \ {Nobody} : durable /\ u[1] < life' /\ last[u] # NoRecord
    BY <1>2, <1>3, <1>4, <2>1 DEF WorkIsPending
  <2> QED  BY <1>1, <2>2, <2>3 DEF WorkIsPending, Work
<1> QED  BY <1>5, <1>6

LEMMA StepWork ==
  ASSUME Inv, Next PROVE WorkIsPending'
BY RecogniserWork, MainWork, WorkerWork, DeliveryWork, FreshWork DEF Next

-----------------------------------------------------------------------------
(***************************************************************************)
(* What is pending is held                                                 *)
(***************************************************************************)

\* Where a pending caption is.
Held(u) ==
  \/ u \in ToSet(queue) \cup {item} \cup unstored
  \/ main = "storing" /\ u = Own(Head(pipe).seq)
  \/ ~durable /\ (broken \/ u[1] # life \/ ~Up)

LEMMA StaysHeld ==
  ASSUME UNCHANGED <<durable, life, queue, item, unstored, broken>>,
         main # "storing" \/ (main' = main /\ Head(pipe') = Head(pipe)), ~Up => ~Up',
         NEW u, Held(u)
  PROVE  Held(u)'
<1>1. main = "storing" /\ main' = main /\ Head(pipe') = Head(pipe)
        => Own(Head(pipe).seq)' = Own(Head(pipe).seq)
  BY DEF Own
<1> QED  BY <1>1 DEF Held

LEMMA MainHeld ==
  ASSUME Inv, MainThread \/ CloseTimesOut, NEW v \in Utterances, Pending(v)'
  PROVE  Held(v)'
<1> USE DEF Inv
<1>1. CASE Pending(v) /\ main # "storing"
  <2>1. UNCHANGED <<durable, life, queue, item, unstored, broken>> /\ Up
    BY <1>1 DEF MainThread, AcceptFinal, Store, AcceptRefined, BeginClose, CloseReturns,
                Exit, CloseTimesOut, Reading, flagVars, workVars, handVars, Up
  <2>2. Held(v)
    BY <1>1 DEF PendingIsHeld, Pending, Held
  <2> QED  BY <1>1, <2>1, <2>2, StaysHeld
<1>2. CASE AcceptFinal /\ ~Pending(v)
  <2>1. /\ v = Own(Head(pipe).seq) /\ main' = "storing" /\ pipe' = pipe /\ life' = life
    BY <1>2, AcceptEffect DEF Pending, AcceptFinal, Reading
  <2>2. Own(Head(pipe).seq)' = Own(Head(pipe).seq)
    BY <2>1 DEF Own
  <2> QED  BY <2>1, <2>2 DEF Held
<1>3. CASE Store
  <2> DEFINE u == Own(Head(pipe).seq)
  <2>1. u \in Utterances /\ u[1] = life /\ main = "storing" /\ main # "down" /\ Up /\ life' = life
    BY <1>3, HeadIsOwn DEF Store, EndsInOrder, Up
  <2>2. Pending(v) /\ last'[v] = last[v]
    BY <1>3, StoreEffect DEF Pending, Terminal
  <2>3. Held(v)
    BY <2>2 DEF PendingIsHeld, Pending, Held
  <2>4. UNCHANGED <<durable, life, item, broken>> /\ unstored \subseteq unstored'
    BY <1>3 DEF Store, flagVars
  <2>5. ToSet(queue) \subseteq ToSet(queue') /\ (queue' = Append(queue, u) => u \in ToSet(queue'))
    <3> HIDE DEF u
    <3>1. ToSet(Append(queue, u)) = ToSet(queue) \cup {u}
      BY <2>1, SetOfAppended DEF StateTypes
    <3>2. queue' = queue \/ queue' = Append(queue, u)
      BY <1>3 DEF Store, u
    <3> QED  BY <3>1, <3>2
  <2>6. CASE v = u
    <3>1. latest[u] = last[u] /\ latest[u] # NoRecord
      BY <2>1, <2>2, <2>6 DEF RecordsAgree, Pending, NoRecord
    <3>2. CASE queue' = Append(queue, u)
      BY <2>5, <2>6, <3>2 DEF Held
    <3>3. CASE aborted /\ unstored' = unstored \cup {u}
      BY <2>6, <3>3 DEF Held
    <3>4. ASSUME ~aborted, NEW s \in Terminal, Update(u, [Successor(u) EXCEPT !.status = s])
          PROVE  FALSE
      <4> DEFINE r == [Successor(u) EXCEPT !.status = s]
      <4>1. Fit(u, r) /\ r.status = s
        BY <2>1, WithStatus DEF Statuses, Terminal
      <4>2. Publishing({u}, [w \in {u} |-> r])
        BY <3>4 DEF Update
      <4>3. r \in Record
        BY <4>1 DEF Fit
      <4> HIDE DEF r, u
      <4>4. last' = [last EXCEPT ![u] = r]
        BY <2>1, <4>2, <4>3, OnePublished
      <4> QED  BY <2>1, <2>2, <2>6, <4>1, <4>4 DEF RecordTypes, Pending, Terminal
    <3>5. \/ queue' = Append(queue, u)
          \/ aborted /\ unstored' = unstored \cup {u}
          \/ ~aborted /\ \E s \in Terminal : Update(u, [Successor(u) EXCEPT !.status = s])
      <4>1. "failed" \in Terminal /\ "skipped" \in Terminal
        BY DEF Terminal
      <4> QED  BY <1>3, <3>1, <4>1 DEF Store
    <3> QED  BY <3>2, <3>3, <3>4, <3>5
  <2>7. CASE v # u
    BY <2>1, <2>3, <2>4, <2>5, <2>7 DEF Held
  <2> QED  BY <2>6, <2>7
<1>4. Pending(v) \/ AcceptFinal
  BY AcceptEffect, StoreEffect, TimeOutEffect
     DEF MainThread, BeginClose, CloseReturns, Exit, showVars, Pending, Settles, Terminal
<1>5. main = "storing" => Store
  BY DEF MainThread, AcceptFinal, AcceptRefined, Reading, BeginClose, CloseReturns, Exit,
         CloseTimesOut
<1> QED  BY <1>1, <1>2, <1>3, <1>4, <1>5

LEMMA WorkerHeld ==
  ASSUME Inv, Worker \/ (Up /\ (EnqueueFails \/ WorkerFails)),
         NEW v \in Utterances, Pending(v)'
  PROVE  Held(v)'
<1> USE DEF Inv
<1>1. Pending(v)
  BY WorkerEffect DEF Settles, Pending, Terminal
<1>2. Held(v)
  BY <1>1 DEF PendingIsHeld, Pending, Held
<1>3. /\ \A u \in Work : \/ u \in Work' \/ u = Nobody
                         \/ worker = "done" /\ u = item /\ ~(aborted /\ durable)
      /\ UNCHANGED <<durable, life, main, pipe, unstored>>
      /\ broken => broken'
  BY WorkerItems
<1>4. v # Nobody
  BY LifeIsCounted
<1>5. worker = "done" /\ v = item /\ ~(aborted /\ durable) => ~durable /\ broken
  BY <1>1 DEF WorkIsPending
<1>6. Own(Head(pipe).seq)' = Own(Head(pipe).seq)
  BY <1>3 DEF Own
<1>7. v \in Work => Held(v)'
  BY <1>3, <1>4, <1>5 DEF Held, Work
<1> QED  BY <1>2, <1>3, <1>6, <1>7 DEF Held, Work, Up

LEMMA FreshHeld ==
  ASSUME Inv, Crash \/ Start, NEW v \in Utterances, Pending(v)'
  PROVE  Held(v)'
<1> USE DEF Inv
<1>1. /\ UNCHANGED <<durable, last>>
      /\ queue' = IF ~durable THEN <<>> ELSE IF item = Nobody THEN queue ELSE <<item>> \o queue
  BY DEF Crash, Start, Fresh
<1>2. Pending(v) /\ last[v] # NoRecord
  BY <1>1 DEF Pending, NoRecord
<1>3. Held(v)
  BY <1>2 DEF PendingIsHeld, Pending, Held
<1>4. durable /\ v \in ToSet(queue) \cup {item} => v \in ToSet(queue')
  BY <1>1, SetOfPrepended, LifeIsCounted DEF StateTypes
<1>5. ~durable => ~Up' \/ v[1] # life'
  <2>1. CASE Crash
    BY <2>1 DEF Crash, Up
  <2>2. CASE Start
    <3>1. life' = life + 1 /\ life \in Nat /\ v[1] \in Nat
      BY <2>2 DEF Start, StateTypes, Lives, Utterances
    <3> QED  BY <1>2, <3>1 DEF RecordsAgree
  <2> QED  BY <2>1, <2>2
<1>6. unstored \subseteq unstored' /\ (main = "storing" => Own(Head(pipe).seq) \in unstored')
  BY DEF Crash, Start, Up
<1> QED  BY <1>1, <1>3, <1>4, <1>5, <1>6 DEF Held

LEMMA StepHeld ==
  ASSUME Inv, Next PROVE PendingIsHeld'
<1> USE DEF Inv
<1> SUFFICES ASSUME NEW v \in Utterances, Pending(v)' PROVE Held(v)'
  BY DEF PendingIsHeld, Held, Pending
<1>1. CASE Recogniser
  <2>1. /\ UNCHANGED <<durable, life, queue, item, unstored, broken, main, last>> /\ Up
    BY <1>1 DEF Recogniser, Final, RefineReport, SttEnds, flagVars, workVars, showVars
  <2>2. main = "storing" => Head(pipe') = Head(pipe)
    BY <1>1, HeadStays DEF EndsInOrder
  <2>3. Held(v)
    BY <2>1 DEF PendingIsHeld, Pending, Held
  <2> QED  BY <2>1, <2>2, <2>3, StaysHeld
<1>2. CASE Delivery
  <2>1. UNCHANGED <<durable, life, queue, item, unstored, broken, main, pipe>> /\ Up
    BY <1>2 DEF Delivery, RowMoves, ReadNotice, PublishNotice, AcknowledgeNotice,
                Delivering, flagVars, workVars
  <2>2. Pending(v)
    BY <1>2, DeliveryEffect DEF Settles, Pending, Terminal
  <2>3. Held(v)
    BY <2>2 DEF PendingIsHeld, Pending, Held
  <2> QED  BY <2>1, <2>3, StaysHeld
<1> QED  BY <1>1, <1>2, MainHeld, WorkerHeld, FreshHeld DEF Next

-----------------------------------------------------------------------------
(***************************************************************************)
(* Every final is heard                                                    *)
(***************************************************************************)

Waits(seq) == \E i \in DOMAIN pipe : pipe[i].kind = "final" /\ pipe[i].seq = seq
Heard(seq) == last[Own(seq)] # NoRecord \/ Waits(seq)
LeavesNothing ==
  main \in {"leaving", "exited"} => \A u \in Utterances : u[1] = life => ~Pending(u)

LEMMA FinalIsOwn ==
  ASSUME StateTypes, NEW seq \in 1 .. finals
  PROVE  Own(seq) \in Utterances /\ Own(seq)[1] = life
<1>1. seq \in Seqs
  BY BoundAssumption DEF StateTypes, Seqs
<1> QED  BY <1>1, OwnIsUtterance

\* A final that has been read needs to have been published.
LEMMA TailWaits ==
  ASSUME StateTypes, pipe # <<>>, pipe' = Tail(pipe), NEW seq, Waits(seq),
         Head(pipe).kind # "final" \/ Head(pipe).seq # seq
  PROVE  Waits(seq)'
<1>1. /\ Tail(pipe) \in Seq(Events) /\ Len(Tail(pipe)) = Len(pipe) - 1
      /\ \A i \in 1 .. Len(Tail(pipe)) : Tail(pipe)[i] = pipe[i + 1]
  BY HeadTailProperties DEF StateTypes
<1>2. DOMAIN pipe = 1 .. Len(pipe) /\ DOMAIN Tail(pipe) = 1 .. Len(pipe) - 1
      /\ Len(pipe) \in Nat \ {0} /\ Head(pipe) = pipe[1]
  BY <1>1 DEF StateTypes
<1>3. PICK i \in DOMAIN pipe : pipe[i].kind = "final" /\ pipe[i].seq = seq
  BY DEF Waits
<1>4. i # 1
  BY <1>2, <1>3
<1>5. i - 1 \in DOMAIN Tail(pipe) /\ Tail(pipe)[i - 1] = pipe[i]
  BY <1>1, <1>2, <1>3, <1>4
<1> QED  BY <1>3, <1>5 DEF Waits

LEMMA RecogniserHeard ==
  ASSUME Inv, Recogniser, ~broken, NEW seq \in 1 .. finals' PROVE Heard(seq)'
<1> USE DEF Inv
<1>1. UNCHANGED <<last, life>> /\ main # "down"
  BY DEF Recogniser, Final, RefineReport, SttEnds, showVars, Up
<1>2. Own(seq)' = Own(seq)
  BY <1>1 DEF Own
<1>3. /\ Len(pipe) <= Len(pipe') /\ pipe' \in Seq(Events) /\ pipe \in Seq(Events)
      /\ \A i \in 1 .. Len(pipe) : pipe'[i] = pipe[i]
      /\ \/ finals' = finals
         \/ /\ finals' = finals + 1
            /\ Len(pipe) + 1 \in 1 .. Len(pipe')
            /\ pipe'[Len(pipe) + 1] = Event("final", finals + 1)
  BY PipeGrows DEF StateTypes
<1>4. CASE seq \in 1 .. finals
  <2>1. Heard(seq)
    BY <1>1, <1>4 DEF FinalsHeard, Heard, Waits
  <2>2. Waits(seq) => Waits(seq)'
    <3> SUFFICES ASSUME NEW i \in DOMAIN pipe, pipe[i].kind = "final", pipe[i].seq = seq
                 PROVE  Waits(seq)'
      BY DEF Waits
    <3>1. i \in 1 .. Len(pipe) /\ i \in DOMAIN pipe'
      BY <1>3
    <3>2. pipe'[i] = pipe[i]
      BY <1>3, <3>1
    <3> QED  BY <3>1, <3>2 DEF Waits
  <2> QED  BY <1>1, <1>2, <2>1, <2>2 DEF Heard
<1>5. CASE seq \notin 1 .. finals
  <2>1. seq = finals + 1 /\ finals' = finals + 1
    BY <1>3, <1>5 DEF StateTypes
  <2>2. Len(pipe) + 1 \in DOMAIN pipe' /\ pipe'[Len(pipe) + 1] = Event("final", seq)
    BY <1>3, <2>1 DEF StateTypes
  <2>3. Event("final", seq).kind = "final" /\ Event("final", seq).seq = seq
    BY DEF Event
  <2>4. Waits(seq)'
    BY <2>2, <2>3 DEF Waits
  <2> QED  BY <2>4 DEF Heard
<1> QED  BY <1>4, <1>5

LEMMA MainHeard ==
  ASSUME Inv, MainThread \/ CloseTimesOut, ~broken, NEW seq \in 1 .. finals'
  PROVE  Heard(seq)'
<1> USE DEF Inv
<1>1. UNCHANGED <<life, finals>> /\ main # "down"
  BY DEF MainThread, AcceptFinal, Store, AcceptRefined, BeginClose, CloseReturns, Exit,
         CloseTimesOut, Reading, sttVars
<1>2. Heard(seq) /\ Own(seq)' = Own(seq) /\ Own(seq) \in Utterances
  BY <1>1, FinalIsOwn DEF FinalsHeard, Heard, Waits, Own
<1>3. last[Own(seq)] # NoRecord => last'[Own(seq)] # NoRecord
  BY <1>2, MainEffect DEF Effect, Kept
<1>4. CASE pipe' = pipe
  BY <1>2, <1>3, <1>4 DEF Heard, Waits
<1>5. CASE pipe # <<>> /\ pipe' = Tail(pipe) /\ Waits(seq)
  <2>1. CASE Head(pipe).kind # "final" \/ Head(pipe).seq # seq
    BY <1>5, <2>1, TailWaits DEF Heard
  <2>2. CASE Head(pipe).kind = "final" /\ Head(pipe).seq = seq
    <3>1. CASE AcceptFinal
      <4>1. latest[Own(seq)] # NoRecord \/ pipe' = pipe
        BY <2>2, <3>1 DEF AcceptFinal
      <4> QED  BY <1>2, <1>3, <1>4, <4>1 DEF Heard, RecordsAgree
    <3>2. CASE Store
      <4>1. ~aborted
        BY <3>2 DEF Store, EndsInOrder
      <4>2. last[Own(seq)] # NoRecord
        BY <2>2, <3>2, <4>1 DEF Store, WorkIsPending
      <4> QED  BY <1>2, <1>3, <4>2 DEF Heard
    <3>3. CASE AcceptRefined
      BY <2>2, <3>3 DEF AcceptRefined, Reading
    <3> QED  BY <1>4, <3>1, <3>2, <3>3
             DEF MainThread, BeginClose, CloseReturns, Exit, CloseTimesOut
  <2> QED  BY <2>1, <2>2
<1>6. pipe' = pipe \/ (pipe # <<>> /\ pipe' = Tail(pipe))
  BY DEF MainThread, AcceptFinal, Store, AcceptRefined, BeginClose, CloseReturns, Exit,
         CloseTimesOut, Reading, EndsInOrder
<1> QED  BY <1>2, <1>3, <1>4, <1>5, <1>6 DEF Heard

\* Nothing that was settled becomes pending, and the bridge leaves with nothing pending.
LEMMA MainLeaves ==
  ASSUME Inv, MainThread \/ CloseTimesOut, ~broken PROVE LeavesNothing'
<1> USE DEF Inv
<1>1. life' = life /\ main # "down"
  BY DEF MainThread, AcceptFinal, Store, AcceptRefined, BeginClose, CloseReturns, Exit,
         CloseTimesOut, Reading
<1>2. CASE CloseTimesOut
  <2>1. ~aborted
    BY <1>2 DEF CloseTimesOut, EndsInOrder
  <2>2. \A v \in Utterances : latest[v].status = "pending" => last'[v].status \in Terminal
    BY <1>2, <2>1, TimeOutEffect
  <2>3. \A v \in Utterances : v[1] = life => latest[v] = last[v]
    BY <1>1 DEF RecordsAgree
  <2>4. \A v \in Utterances : last'[v] = last[v] \/ last'[v].status \in Terminal
    BY <1>2, TimeOutEffect DEF Settles
  <2> QED  BY <1>1, <2>2, <2>3, <2>4 DEF LeavesNothing, Pending, Terminal
<1>3. CASE CloseReturns
  <2>1. main = "closing" /\ worker = "ended" /\ last' = last
    BY <1>3 DEF CloseReturns, showVars
  <2>2. ~aborted
    BY <2>1 DEF EndsInOrder
  <2>3. queue = <<>> /\ item = Nobody
    BY <2>1, <2>2 DEF EndsInOrder, StateTypes
  <2>4. ToSet(queue) = {} /\ Up
    BY <2>1, <2>3, SetOfNone DEF Up
  <2>5. ASSUME NEW u \in Utterances, u[1] = life, Pending(u) PROVE FALSE
    <3>1. u \in unstored
      BY <1>1, <2>1, <2>3, <2>4, <2>5, LifeIsCounted DEF PendingIsHeld, Pending
    <3>2. life \in Nat
      BY DEF StateTypes, Lives
    <3> QED  BY <2>1, <2>5, <3>1, <3>2 DEF WorkIsPending
  <2> QED  BY <1>1, <2>1, <2>5 DEF LeavesNothing, Pending
<1>4. CASE Exit
  BY <1>1, <1>4 DEF Exit, showVars, FinalsHeard, LeavesNothing, Pending
<1>5. CASE AcceptFinal \/ Store \/ AcceptRefined \/ BeginClose
  BY <1>5 DEF AcceptFinal, Store, AcceptRefined, BeginClose, Reading, LeavesNothing
<1> QED  BY <1>2, <1>3, <1>4, <1>5 DEF MainThread

LEMMA OtherHeard ==
  ASSUME Inv, Worker \/ (Up /\ (EnqueueFails \/ WorkerFails)) \/ Delivery, ~broken
  PROVE  LeavesNothing' /\ \A seq \in 1 .. finals' : Heard(seq)'
<1> USE DEF Inv
<1>1. UNCHANGED <<finals, pipe, life, main>> /\ main # "down"
  BY WorkerItems DEF Worker, Up, Delivery, RowMoves, ReadNotice, PublishNotice,
     AcknowledgeNotice, Delivering, sttVars
<1>2. Kept /\ Settles
  BY WorkerEffect, DeliveryEffect DEF Effect
<1>3. LeavesNothing'
  BY <1>1, <1>2 DEF FinalsHeard, LeavesNothing, Settles, Pending, Terminal
<1>4. ASSUME NEW seq \in 1 .. finals PROVE Heard(seq)'
  <2>1. Heard(seq) /\ Own(seq)' = Own(seq) /\ Own(seq) \in Utterances
    BY <1>1, FinalIsOwn DEF FinalsHeard, Heard, Waits, Own
  <2> QED  BY <1>1, <1>2, <2>1 DEF Kept, Heard, Waits
<1> QED  BY <1>1, <1>3, <1>4

LEMMA StepHeard ==
  ASSUME Inv, Next PROVE FinalsHeard'
<1>1. CASE Crash \/ Start
  <2>1. main' = "down" \/ (main' = "reading" /\ finals' = 0)
    BY <1>1 DEF Crash, Start, Fresh
  <2> QED  BY <2>1 DEF FinalsHeard
<1>2. CASE ~(Crash \/ Start)
  <2>1. broken => broken'
    BY <1>2, WorkerItems
       DEF Next, Recogniser, Final, RefineReport, SttEnds, MainThread, AcceptFinal, Store,
           AcceptRefined, BeginClose, CloseReturns, Exit, CloseTimesOut, Delivery,
           RowMoves, ReadNotice, PublishNotice, AcknowledgeNotice, flagVars, Inv
  <2>2. CASE Recogniser /\ ~broken
    <3>1. LeavesNothing'
      BY <2>2 DEF Recogniser, Up, Final, RefineReport, SttEnds, showVars, Inv, FinalsHeard,
                  LeavesNothing, Pending
    <3> QED  BY <2>2, <3>1, RecogniserHeard DEF FinalsHeard, LeavesNothing, Heard, Waits
  <2>3. CASE (MainThread \/ CloseTimesOut) /\ ~broken
    BY <2>3, MainHeard, MainLeaves DEF FinalsHeard, LeavesNothing, Heard, Waits
  <2>4. CASE (Worker \/ (Up /\ (EnqueueFails \/ WorkerFails)) \/ Delivery) /\ ~broken
    BY <2>4, OtherHeard DEF FinalsHeard, LeavesNothing, Heard, Waits
  <2>5. CASE broken
    BY <2>1, <2>5 DEF FinalsHeard
  <2> QED  BY <1>2, <2>2, <2>3, <2>4, <2>5 DEF Next
<1> QED  BY <1>1, <1>2

-----------------------------------------------------------------------------
(***************************************************************************)
(* The theorems                                                            *)
(***************************************************************************)

LEMMA InitInv == Init => Inv
<1> SUFFICES ASSUME Init PROVE Inv
  OBVIOUS
<1>1. StateTypes
  BY InitStateTypes
<1>2. \A u \in Utterances : /\ latest[u] = NoRecord /\ last[u] = NoRecord /\ saved[u] = NoRecord
                            /\ row[u] = 0 /\ told[u] = TRUE
  BY DEF Init, None
<1>3. NoRecord.source = Nobody /\ NoRecord.status = "none"
  BY DEF NoRecord
<1>4. RecordTypes
  BY NoRecordTyped DEF Init, None, RecordTypes
<1>5. RecordsAgree
  BY <1>2, <1>3 DEF RecordsAgree
<1>6. RowsTranslated
  BY <1>2 DEF Init, RowsTranslated, NoNotice, Handing
<1>7. EndsInOrder
  BY DEF Init, EndsInOrder
<1>8. WorkIsPending
  BY SetOfNone DEF Init, WorkIsPending, Work
<1>9. PendingIsHeld
  BY <1>2, <1>3 DEF PendingIsHeld
<1>10. FinalsHeard
  BY <1>2, <1>3 DEF Init, FinalsHeard, Pending
<1> QED  BY <1>1, <1>4, <1>5, <1>6, <1>7, <1>8, <1>9, <1>10 DEF Inv

LEMMA StepStateTypes ==
  ASSUME Inv, Next PROVE StateTypes'
BY RecogniserStateTypes, MainStateTypes, WorkerStateTypes, DeliveryStateTypes,
   ProcessStateTypes DEF Inv, Next

LEMMA StutterInv == Inv /\ UNCHANGED vars => Inv'
<1> SUFFICES ASSUME Inv, UNCHANGED vars PROVE Inv'
  OBVIOUS
<1> USE DEF vars, sttVars, flagVars, workVars, handVars, rowVars, showVars
<1>1. StateTypes' /\ RecordTypes'
  BY DEF Inv, StateTypes, RecordTypes
<1>2. RecordsAgree' /\ RowsTranslated' /\ EndsInOrder'
  BY DEF Inv, RecordsAgree, RowsTranslated, EndsInOrder
<1>3. WorkIsPending'
  BY DEF Inv, WorkIsPending, Work, Pending, Own
<1>4. PendingIsHeld'
  BY DEF Inv, PendingIsHeld, Own, Up
<1>5. FinalsHeard'
  BY DEF Inv, FinalsHeard, Pending, Own
<1> QED  BY <1>1, <1>2, <1>3, <1>4, <1>5 DEF Inv

LEMMA InvStep ==
  ASSUME Inv, Next PROVE Inv'
<1>1. StateTypes' /\ RecordTypes' /\ RecordsAgree' /\ RowsTranslated'
  BY StepStateTypes, StepAgrees, StepRows
<1>2. EndsInOrder' /\ WorkIsPending' /\ PendingIsHeld' /\ FinalsHeard'
  BY StepEnds, StepWork, StepHeld, StepHeard DEF Inv
<1> QED  BY <1>1, <1>2 DEF Inv

\* Inv is inductive.
THEOREM CaptionsInvariance == Spec => []Inv
<1>1. Inv /\ [Next]_vars => Inv'
  BY InvStep, StutterInv
<1> QED  BY InitInv, <1>1, PTL DEF Spec

\* A caption is translated from its own words: no result of the refiner, and no context
\* kept with a row, of another utterance or of another session with the same number,
\* gets into its record.
THEOREM WordsAreOwn == Spec => []OwnWords
<1>1. Inv => OwnWords
  BY DEF Inv, RecordsAgree, OwnWords
<1> QED  BY <1>1, CaptionsInvariance, PTL

\* A caption shown as waiting is queued, under way or stored, and a bridge that ends
\* with no error has said the last word about every final, for any number of finals,
\* of lives and of states of a row, and for queues of any length.
THEOREM NothingIsForgotten == Spec => []NothingForgotten
<1>1. Inv => NothingForgotten
  <2> SUFFICES ASSUME Inv PROVE NothingUnsaid
    BY DEF Inv, NothingForgotten
  <2> SUFFICES ASSUME main = "exited", ~broken, NEW seq \in 1 .. finals
               PROVE  last[Own(seq)].status \in Terminal
    BY DEF NothingUnsaid
  <2>1. Own(seq) \in Utterances /\ Own(seq)[1] = life
    BY FinalIsOwn DEF Inv
  <2>2. pipe = <<>>
    BY DEF Inv, EndsInOrder
  <2>3. last[Own(seq)] # NoRecord
    BY <2>2 DEF Inv, FinalsHeard
  <2>4. ~Pending(Own(seq))
    BY <2>1 DEF Inv, FinalsHeard
  <2>5. last[Own(seq)].status \in Statuses \ {"none"}
    BY <2>1, <2>3 DEF Inv, RecordTypes, RecordsAgree, Record
  <2> QED  BY <2>4, <2>5 DEF Pending, Statuses
<1> QED  BY <1>1, CaptionsInvariance, PTL

-----------------------------------------------------------------------------
(***************************************************************************)
(* Types, and the bounds of the queues                                     *)
(***************************************************************************)

LEMMA AppendedOnce ==
  ASSUME NEW S, NEW s \in Seq(S), NEW e \in S, IsInjective(s), e \notin ToSet(s)
  PROVE  IsInjective(Append(s, e))
<1>1. /\ Len(Append(s, e)) = Len(s) + 1 /\ Append(s, e) \in Seq(S)
      /\ \A i \in 1 .. Len(s) : Append(s, e)[i] = s[i]
      /\ Append(s, e)[Len(s) + 1] = e
  BY AppendProperties
<1>2. DOMAIN s = 1 .. Len(s) /\ DOMAIN Append(s, e) = 1 .. Len(s) + 1 /\ Len(s) \in Nat
  BY <1>1
<1>3. \A i \in 1 .. Len(s) : s[i] # e
  BY <1>2 DEF ToSet
<1> QED  BY <1>1, <1>2, <1>3 DEF IsInjective

LEMMA PrependedOnce ==
  ASSUME NEW S, NEW s \in Seq(S), NEW e \in S, IsInjective(s), e \notin ToSet(s)
  PROVE  IsInjective(<<e>> \o s)
<1>1. <<e>> \in Seq(S) /\ Len(<<e>>) = 1 /\ <<e>>[1] = e
  OBVIOUS
<1>2. /\ <<e>> \o s \in Seq(S) /\ Len(<<e>> \o s) = 1 + Len(s)
      /\ \A i \in 1 .. 1 + Len(s) : (<<e>> \o s)[i] = IF i <= 1 THEN <<e>>[i] ELSE s[i - 1]
  BY <1>1, ConcatProperties
<1>3. DOMAIN s = 1 .. Len(s) /\ DOMAIN (<<e>> \o s) = 1 .. 1 + Len(s) /\ Len(s) \in Nat
  BY <1>2
<1>4. \A i \in 1 .. Len(s) : s[i] # e
  BY <1>3 DEF ToSet
<1> DEFINE all == <<e>> \o s
<1>5. all[1] = e /\ \A i \in 2 .. Len(s) + 1 : all[i] = s[i - 1] /\ i - 1 \in 1 .. Len(s)
  BY <1>1, <1>2, <1>3
<1> HIDE DEF all
<1>6. \A i, j \in 1 .. 1 + Len(s) : all[i] = all[j] => i = j
  <2> SUFFICES ASSUME NEW i \in 1 .. 1 + Len(s), NEW j \in 1 .. 1 + Len(s), all[i] = all[j]
               PROVE  i = j
    OBVIOUS
  <2>1. CASE i = 1 \/ j = 1
    BY <1>3, <1>4, <1>5, <2>1
  <2>2. CASE i # 1 /\ j # 1
    <3>1. i - 1 \in DOMAIN s /\ j - 1 \in DOMAIN s /\ s[i - 1] = s[j - 1]
      BY <1>3, <1>5, <2>2
    <3>2. i - 1 = j - 1
      BY <3>1 DEF IsInjective
    <3> QED  BY <1>3, <3>2
  <2> QED  BY <2>1, <2>2
<1> QED  BY <1>3, <1>6 DEF IsInjective, all

LEMMA TailOnce ==
  ASSUME NEW S, NEW s \in Seq(S), s # <<>>, IsInjective(s)
  PROVE  IsInjective(Tail(s)) /\ Head(s) \notin ToSet(Tail(s)) /\ Len(Tail(s)) = Len(s) - 1
<1>1. /\ Tail(s) \in Seq(S) /\ Len(Tail(s)) = Len(s) - 1
      /\ \A i \in 1 .. Len(Tail(s)) : Tail(s)[i] = s[i + 1]
  BY HeadTailProperties
<1>2. DOMAIN s = 1 .. Len(s) /\ DOMAIN Tail(s) = 1 .. Len(s) - 1 /\ Len(s) \in Nat \ {0}
      /\ Head(s) = s[1]
  BY <1>1
<1>3. \A i \in DOMAIN Tail(s) : i + 1 \in DOMAIN s /\ i + 1 # 1 /\ Tail(s)[i] = s[i + 1]
  BY <1>1, <1>2
<1>4. Head(s) \notin ToSet(Tail(s))
  BY <1>2, <1>3 DEF IsInjective, ToSet
<1>5. IsInjective(Tail(s))
  <2> SUFFICES ASSUME NEW i \in DOMAIN Tail(s), NEW j \in DOMAIN Tail(s), Tail(s)[i] = Tail(s)[j]
               PROVE  i = j
    BY DEF IsInjective
  <2>1. i + 1 = j + 1
    BY <1>3 DEF IsInjective
  <2> QED  BY <1>2, <2>1
<1> QED  BY <1>1, <1>4, <1>5

JobsBounded == Len(jobs) <= RefineLimit + 1

LEMMA JobsStep ==
  ASSUME StateTypes, JobsBounded, Next PROVE JobsBounded'
<1>1. jobs \in Seq(Seqs) /\ Len(jobs) \in Nat /\ RefineLimit \in Nat
  BY LimitAssumption DEF StateTypes
<1>2. CASE Final
  <2>1. finals + 1 \in Seqs
    BY <1>2, BoundAssumption DEF Final, StateTypes, Seqs
  <2>2. Len(Append(jobs, finals + 1)) = Len(jobs) + 1
    BY <1>1, <2>1, AppendProperties
  <2> QED  BY <1>1, <1>2, <2>2 DEF Final, JobsBounded
<1>3. CASE RefineReport
  <2>1. Len(Tail(jobs)) = Len(jobs) - 1
    BY <1>1, <1>3, HeadTailProperties DEF RefineReport
  <2> QED  BY <1>1, <1>3, <2>1 DEF RefineReport, JobsBounded
<1>4. CASE jobs' = <<>>
  BY <1>1, <1>4 DEF JobsBounded
<1>5. CASE jobs' = jobs
  BY <1>5 DEF JobsBounded
<1>6. Final \/ RefineReport \/ jobs' = <<>> \/ jobs' = jobs
  BY DEF Next, Recogniser, SttEnds, MainThread, AcceptFinal, Store, AcceptRefined,
         BeginClose, CloseReturns, Exit, CloseTimesOut, Worker, TakeItem, Await, Translate,
         TakeContext, Enqueue, Announce, Restore, AcknowledgeShown, FinishItem, LeaveLoop,
         Join, EnqueueFails, WorkerFails, Delivery, RowMoves, ReadNotice, PublishNotice,
         AcknowledgeNotice, Crash, Start, Fresh, sttVars
<1> QED  BY <1>2, <1>3, <1>4, <1>5, <1>6

LEMMA QueueStep ==
  ASSUME Inv, QueueSound, Next PROVE QueueSound'
<1> USE DEF Inv
<1>1. queue \in Seq(Utterances) /\ item \in Utterances \cup {Nobody} /\ Len(queue) \in Nat
      /\ QueueLimit \in Nat
  BY LimitAssumption DEF StateTypes
<1>2. CASE UNCHANGED <<durable, queue, item>>
  BY <1>2 DEF QueueSound
<1>3. CASE Store
  <2> DEFINE u == Own(Head(pipe).seq)
  <2>1. UNCHANGED <<durable, item>> /\ u \in Utterances /\ u \notin Work
    BY <1>3, HeadIsOwn DEF Store, WorkIsPending, EndsInOrder
  <2>2. \/ queue' = queue
        \/ queue' = Append(queue, u) /\ (durable \/ Len(queue) < QueueLimit)
    BY <1>3 DEF Store
  <2> HIDE DEF u
  <2>3. CASE queue' = Append(queue, u) /\ (durable \/ Len(queue) < QueueLimit)
    <3>1. IsInjective(Append(queue, u)) /\ Len(Append(queue, u)) = Len(queue) + 1
          /\ ToSet(Append(queue, u)) = ToSet(queue) \cup {u}
      BY <1>1, <2>1, AppendedOnce, AppendProperties, SetOfAppended DEF QueueSound, Work
    <3> QED  BY <1>1, <2>1, <2>3, <3>1 DEF QueueSound, Work
  <2> QED  BY <1>2, <2>1, <2>2, <2>3
<1>4. CASE TakeItem
  BY <1>1, <1>4, TailOnce DEF TakeItem, QueueSound
<1>5. CASE FinishItem
  <2>1. item \in Utterances /\ item' = Nobody /\ durable' = durable
        /\ queue' = IF aborted /\ durable THEN <<item>> \o queue ELSE queue
    BY <1>5 DEF FinishItem, StateTypes
  <2>2. IsInjective(queue')
    BY <1>1, <2>1, PrependedOnce DEF QueueSound
  <2>3. durable \/ Len(queue') <= QueueLimit
    BY <2>1 DEF QueueSound
  <2>4. Nobody \notin ToSet(queue')
    <3>1. ToSet(queue') \subseteq Utterances
      BY StepStateTypes DEF StateTypes, ToSet
    <3> QED  BY <3>1, LifeIsCounted
  <2> QED  BY <2>1, <2>2, <2>3, <2>4 DEF QueueSound
<1>6. CASE Crash \/ Start
  <2>1. durable' = durable /\ item' = Nobody
        /\ queue' = IF ~durable THEN <<>> ELSE IF item = Nobody THEN queue ELSE <<item>> \o queue
    BY <1>6 DEF Crash, Start, Fresh
  <2>2. IsInjective(<<>>)
    BY DEF IsInjective
  <2>3. IsInjective(queue')
    BY <1>1, <2>1, <2>2, PrependedOnce DEF QueueSound
  <2>4. durable' \/ Len(queue') <= QueueLimit
    BY <1>1, <2>1
  <2>5. Nobody \notin ToSet(queue')
    <3>1. ToSet(queue') \subseteq Utterances
      BY StepStateTypes DEF StateTypes, ToSet
    <3> QED  BY <3>1, LifeIsCounted
  <2> QED  BY <2>1, <2>3, <2>4, <2>5 DEF QueueSound
<1>7. \/ Store \/ TakeItem \/ FinishItem \/ Crash \/ Start
      \/ UNCHANGED <<durable, queue, item>>
  BY DEF Next, Recogniser, Final, RefineReport, SttEnds, MainThread, AcceptFinal,
         AcceptRefined, BeginClose, CloseReturns, Exit, CloseTimesOut, Worker, Await,
         Translate, TakeContext, Enqueue, Announce, Restore, AcknowledgeShown, LeaveLoop,
         Join, EnqueueFails, WorkerFails, Delivery, RowMoves, ReadNotice, PublishNotice,
         AcknowledgeNotice, workVars
<1> QED  BY <1>2, <1>3, <1>4, <1>5, <1>6, <1>7

\* No utterance waits twice or waits and is under way, and both queues keep to their
\* limits: an item goes back, after an abort or a restart, to a durable queue only.
THEOREM CaptionsTypes == Spec => []TypeOK
<1>1. Init => QueueSound /\ JobsBounded
  <2>1. Len(<<>>) = 0 /\ IsInjective(<<>>) /\ RefineLimit \in Nat /\ QueueLimit \in Nat
    BY LimitAssumption DEF IsInjective
  <2> QED  BY <2>1, SetOfNone DEF Init, QueueSound, JobsBounded
<1>2. Inv /\ QueueSound /\ JobsBounded /\ [Next]_vars => (QueueSound /\ JobsBounded)'
  <2> SUFFICES ASSUME Inv, QueueSound, JobsBounded, [Next]_vars
               PROVE  (QueueSound /\ JobsBounded)'
    OBVIOUS
  <2>1. CASE Next
    BY <2>1, QueueStep, JobsStep DEF Inv
  <2>2. CASE UNCHANGED vars
    BY <2>2 DEF vars, workVars, sttVars, QueueSound, JobsBounded
  <2> QED  BY <2>1, <2>2
<1>3. Inv /\ QueueSound /\ JobsBounded => TypeOK
  BY DEF Inv, TypeOK, JobsBounded
<1> QED  BY <1>1, <1>2, <1>3, CaptionsInvariance, PTL DEF Spec

-----------------------------------------------------------------------------
(***************************************************************************)
(* What the order of updates rests on                                      *)
(***************************************************************************)

\* The translation thread has what its next update starts from: of a stored item the
\* record, of one that was translated the record in memory or the row.
BasesKept ==
  /\ durable => \A u \in Work \ {Nobody} : saved[u] # NoRecord
  /\ worker \in {"context", "enqueue"} => latest[item] # NoRecord
  /\ worker \in Handing \ {"enqueue"} => row[item] # 0

\* Until an abort, what waits for its translation in this session has no outcome.
UndecidedWork ==
  main # "down" /\ ~aborted =>
    /\ \A u \in ToSet(queue) : u[1] = life => Pending(u)
    /\ worker \in {"await", "translate"} /\ item[1] = life => Pending(item)
    /\ main = "storing" => Pending(Own(Head(pipe).seq))

SoundInv == Inv /\ QueueSound
OrderInv == SoundInv /\ BasesKept /\ UndecidedWork

LEMMA WorkTyped ==
  ASSUME StateTypes
  PROVE  /\ Work \subseteq Utterances \cup {Nobody} /\ ToSet(queue) \subseteq Utterances
         /\ ToSet(queue) \subseteq Work /\ item \in Work
BY DEF Work, StateTypes, ToSet

\* The publication of some records changes no other, and stores what it publishes.
LEMMA PublishedOnly ==
  ASSUME NEW S, NEW record, Publishing(S, record)
  PROVE  /\ \A v \in Utterances \ S : last'[v] = last[v]
         /\ \A v \in Utterances : saved'[v] = saved[v] \/ saved'[v] = last'[v]
BY DEF Publishing

\* A stored item has a record until it is finished.
SavedStays == \A v \in Utterances : saved[v] # NoRecord => saved'[v] # NoRecord

LEMMA PublishedStays ==
  ASSUME RecordsAgree, Kept, NEW S, NEW record, Publishing(S, record)
  PROVE  SavedStays
<1>1. \A v \in Utterances : saved[v] # NoRecord => last'[v] # NoRecord
  BY DEF RecordsAgree, Kept
<1> QED  BY <1>1, PublishedOnly DEF SavedStays

-----------------------------------------------------------------------------
(***************************************************************************)
(* The bases of updates                                                    *)
(***************************************************************************)

\* Where the translation thread stays where it is, the bases stay too.
LEMMA BasesStay ==
  ASSUME Inv, BasesKept, Kept, SavedStays,
         UNCHANGED <<durable, queue, item, worker>>,
         \A v \in Utterances : row[v] # 0 => row'[v] # 0
  PROVE  BasesKept'
<1>1. Work' = Work /\ Work \subseteq Utterances \cup {Nobody}
  BY WorkTyped DEF Work, Inv
<1>2. worker \in Handing \cup {"context"} => item \in Utterances
  BY DEF Inv, StateTypes, Handing
<1>3. durable' => \A u \in Work' \ {Nobody} : saved'[u] # NoRecord
  BY <1>1 DEF BasesKept, SavedStays
<1>4. worker' \in {"context", "enqueue"} => latest'[item'] # NoRecord
  BY <1>2 DEF BasesKept, Kept, Handing
<1>5. worker' \in Handing \ {"enqueue"} => row'[item'] # 0
  BY <1>2 DEF BasesKept
<1> QED  BY <1>3, <1>4, <1>5 DEF BasesKept

\* The main thread, the translation thread and the others keep the bases.
LEMMA MainBases ==
  ASSUME SoundInv, BasesKept, MainThread \/ CloseTimesOut PROVE BasesKept'
<1> USE DEF SoundInv, Inv
<1>1. Kept /\ UNCHANGED <<durable, item, worker, row>>
  BY MainEffect DEF Effect, MainThread, AcceptFinal, Store, AcceptRefined, BeginClose,
                    CloseReturns, Exit, CloseTimesOut, workVars, handVars, rowVars
<1>2. CASE Store
  <2> DEFINE u == Own(Head(pipe).seq)
  <2>1. u \in Utterances /\ u \notin Work
    BY <1>2, HeadIsOwn DEF Store, WorkIsPending, EndsInOrder
  <2>2. \/ queue' = queue /\ SavedStays
        \/ /\ queue' = Append(queue, u) /\ latest[u] # NoRecord
           /\ saved' = IF durable THEN [saved EXCEPT ![u] = latest[u]] ELSE saved
    <3>1. CASE queue' = queue
      <4>1. \/ UNCHANGED saved
            \/ \E r : Publishing({u}, [v \in {u} |-> r])
            \/ /\ latest[u] # NoRecord
               /\ saved' = IF durable THEN [saved EXCEPT ![u] = latest[u]] ELSE saved
        BY <1>2 DEF Store, Update, showVars
      <4> HIDE DEF u
      <4>2. SavedStays
        BY <1>1, <2>1, <4>1, PublishedStays DEF SavedStays, RecordTypes
      <4> QED  BY <3>1, <4>2
    <3> QED  BY <1>2, <3>1 DEF Store
  <2> HIDE DEF u
  <2>3. CASE queue' = queue /\ SavedStays
    BY <1>1, <2>3, BasesStay
  <2>4. CASE /\ queue' = Append(queue, u) /\ latest[u] # NoRecord
             /\ saved' = IF durable THEN [saved EXCEPT ![u] = latest[u]] ELSE saved
    <3>1. Work' = Work \cup {u} /\ Work \subseteq Utterances \cup {Nobody}
      BY <1>1, <2>1, <2>4, SetOfAppended, WorkTyped DEF Work, StateTypes
    <3>2. durable => \A v \in Work' \ {Nobody} : saved'[v] # NoRecord
      BY <2>1, <2>4, <3>1 DEF BasesKept, RecordTypes
    <3>3. worker \in Handing \cup {"context"} => item \in Utterances
      BY DEF StateTypes, Handing
    <3> QED  BY <1>1, <3>2, <3>3 DEF BasesKept, Kept, Handing
  <2> QED  BY <2>2, <2>3, <2>4
<1>3. CASE ~Store
  <2>1. queue' = queue
    BY <1>3 DEF MainThread, AcceptFinal, AcceptRefined, BeginClose, CloseReturns, Exit,
                CloseTimesOut, workVars
  <2>2. UNCHANGED saved \/ \E S, record : Publishing(S, record)
    BY <1>3 DEF MainThread, AcceptFinal, AcceptRefined, BeginClose, CloseReturns, Exit,
                CloseTimesOut, Update, workVars, showVars
  <2>3. SavedStays
    BY <1>1, <2>2, PublishedStays DEF SavedStays
  <2> QED  BY <1>1, <2>1, <2>3, BasesStay
<1> QED  BY <1>2, <1>3

LEMMA WorkerBases ==
  ASSUME SoundInv, BasesKept, Worker \/ (Up /\ (EnqueueFails \/ WorkerFails))
  PROVE  BasesKept'
<1> USE DEF SoundInv, Inv
<1>1. Kept /\ main # "down" /\ durable' = durable /\ Work' \subseteq Work \cup {Nobody}
  BY WorkerEffect, WorkerItems DEF Effect, Worker, Up
<1>2. Work \subseteq Utterances \cup {Nobody}
  BY WorkTyped
<1>3. durable => \A u \in Work' \ {Nobody} : saved'[u] # NoRecord
  <2>1. CASE FinishItem
    <3>1. item \in Utterances /\ item \notin ToSet(queue) /\ item' = Nobody
      BY <2>1 DEF FinishItem, StateTypes, QueueSound
    <3>2. CASE aborted
      <4>1. saved' = saved
        BY <2>1, <3>2 DEF FinishItem
      <4> QED  BY <1>1, <4>1 DEF BasesKept
    <3>3. CASE ~aborted
      <4>0. queue' = queue /\ saved' = [saved EXCEPT ![item] = NoRecord]
        BY <2>1, <3>3 DEF FinishItem
      <4>1. Work' \ {Nobody} \subseteq ToSet(queue)
        BY <3>1, <4>0 DEF Work
      <4>2. ToSet(queue) \subseteq Utterances /\ ToSet(queue) \subseteq Work
        BY WorkTyped
      <4>3. \A u \in ToSet(queue) : saved'[u] = saved[u]
        BY <3>1, <4>0, <4>2 DEF RecordTypes
      <4>4. \A u \in ToSet(queue) : u # Nobody
        BY <4>2, LifeIsCounted
      <4> QED  BY <4>1, <4>2, <4>3, <4>4 DEF BasesKept
    <3> QED  BY <3>2, <3>3
  <2>2. CASE ~FinishItem
    <3>1. UNCHANGED saved \/ \E S, record : Publishing(S, record)
      BY <2>2 DEF Worker, TakeItem, Await, Translate, TakeContext, Enqueue, Announce,
                  Restore, AcknowledgeShown, LeaveLoop, Join, EnqueueFails, WorkerFails,
                  Update, SpeechUpdate, workVars, showVars
    <3>2. SavedStays
      BY <1>1, <3>1, PublishedStays DEF SavedStays
    <3> QED  BY <1>1, <1>2, <3>2 DEF BasesKept, SavedStays
  <2> QED  BY <2>1, <2>2
<1>4. CASE TakeItem
  <2>1. /\ (worker' = "restore" /\ row[item'] # 0) \/ worker' = "await"
        /\ UNCHANGED row
    BY <1>4 DEF TakeItem, rowVars
  <2> QED  BY <1>1, <1>3, <2>1 DEF BasesKept, Handing
<1>5. CASE Translate
  <2>0. item' = item /\ worker' \in {"context", "done"}
    BY <1>5 DEF Translate
  <2>1. worker' = "context" => ~aborted
    <3>1. CASE aborted
      BY <1>5, <3>1 DEF Translate
    <3> QED  BY <3>1
  <2>2. latest'[item] # NoRecord \/ aborted
    BY <1>1, <1>5, TranslateEffect
  <2> QED  BY <1>1, <1>3, <2>0, <2>1, <2>2 DEF BasesKept, Handing
<1>6. CASE TakeContext
  BY <1>1, <1>3, <1>6 DEF TakeContext, BasesKept, Handing, workVars, showVars
<1>7. CASE Enqueue
  <2>1. item \in Utterances /\ item' = item /\ worker' \in {"done", "announce"}
    BY <1>7 DEF Enqueue, StateTypes, workVars
  <2>2. worker' = "announce" => row'[item] # 0
    BY <1>7, <2>1 DEF Enqueue, RecordTypes
  <2> QED  BY <1>1, <1>3, <2>1, <2>2 DEF BasesKept, Handing
<1>8. CASE Announce
  BY <1>1, <1>3, <1>8 DEF Announce, BasesKept, Handing, rowVars
<1>9. CASE Restore
  BY <1>1, <1>3, <1>9 DEF Restore, BasesKept, Handing, rowVars
<1>10. CASE Await \/ AcknowledgeShown \/ FinishItem \/ LeaveLoop \/ Join
            \/ EnqueueFails \/ WorkerFails
  <2>1. worker' \in {"translate", "done", "idle", "joining", "ended"}
    BY <1>10 DEF Await, AcknowledgeShown, FinishItem, LeaveLoop, Join, EnqueueFails,
                 WorkerFails
  <2> QED  BY <1>1, <1>3, <2>1 DEF BasesKept, Handing
<1> QED  BY <1>4, <1>5, <1>6, <1>7, <1>8, <1>9, <1>10 DEF Worker

LEMMA OtherBases ==
  ASSUME SoundInv, BasesKept, Recogniser \/ Delivery \/ Crash \/ Start
  PROVE  BasesKept'
<1> USE DEF SoundInv, Inv
<1>1. CASE Recogniser
  <2>1. UNCHANGED <<durable, queue, item, saved, worker, row>> /\ Kept
    BY <1>1, RecogniserEffect DEF Effect, Recogniser, Final, RefineReport, SttEnds,
                                  workVars, handVars, rowVars
  <2> QED  BY <2>1, BasesStay DEF SavedStays
<1>2. CASE Delivery
  <2>1. UNCHANGED <<durable, queue, item, worker>> /\ Kept
    BY <1>2, DeliveryEffect DEF Effect, Delivery, RowMoves, ReadNotice, PublishNotice,
                                AcknowledgeNotice, workVars, handVars
  <2>2. \A v \in Utterances : row[v] # 0 => row'[v] # 0
    <3>1. CASE RowMoves
      <4>1. PICK u \in Utterances :
              row[u] \in 1 .. MaxNews - 1 /\ row' = [row EXCEPT ![u] = @ + 1]
        BY <3>1 DEF RowMoves, OldestOf
      <4>2. row[u] \in Nat /\ row[u] + 1 # 0
        BY <4>1 DEF RecordTypes
      <4> QED  BY <4>1, <4>2 DEF RecordTypes
    <3>2. CASE ~RowMoves
      <4>1. row' = row
        BY <1>2, <3>2 DEF Delivery, ReadNotice, PublishNotice, AcknowledgeNotice,
                          Acknowledge, rowVars
      <4> QED  BY <4>1
    <3> QED  BY <3>1, <3>2
  <2>3. UNCHANGED saved \/ \E S, record : Publishing(S, record)
    BY <1>2 DEF Delivery, RowMoves, ReadNotice, PublishNotice, AcknowledgeNotice,
                SpeechUpdate, workVars
  <2>4. SavedStays
    BY <2>1, <2>3, PublishedStays DEF SavedStays
  <2> QED  BY <2>1, <2>2, <2>4, BasesStay
<1>3. CASE Crash \/ Start
  <2>1. UNCHANGED <<durable, saved>> /\ worker' = "idle" /\ item' = Nobody
        /\ queue' = IF ~durable THEN <<>> ELSE IF item = Nobody THEN queue ELSE <<item>> \o queue
    BY <1>3 DEF Crash, Start, Fresh
  <2>2. durable => Work' \subseteq Work \cup {Nobody}
    BY <2>1, SetOfPrepended DEF Work, StateTypes
  <2> QED  BY <2>1, <2>2 DEF BasesKept, Handing
<1> QED  BY <1>1, <1>2, <1>3

-----------------------------------------------------------------------------
(***************************************************************************)
(* What waits has no outcome                                               *)
(***************************************************************************)

\* So do they what is undecided: an update is of an item or of what has an outcome.
LEMMA MainUndecided ==
  ASSUME SoundInv, UndecidedWork, MainThread \/ CloseTimesOut PROVE UndecidedWork'
<1> USE DEF SoundInv, Inv
<1>1. ToSet(queue) \subseteq Utterances /\ item \in Utterances \cup {Nobody}
      /\ ToSet(queue) \subseteq Work /\ item \in Work
  BY WorkTyped DEF StateTypes
<1>2. worker \in {"await", "translate"} => item \in Utterances
  BY DEF StateTypes
<1>3. CASE AcceptFinal
  <2> DEFINE u == Own(Head(pipe).seq)
             r == [Successor(u) EXCEPT !.status = "pending"]
  <2>1. /\ UNCHANGED <<life, queue, item, worker, aborted>>
        /\ main = "reading" /\ pipe # <<>> /\ main' \in {"reading", "storing"}
    BY <1>3 DEF AcceptFinal, Reading, flagVars, handVars
  <2>2. u \in Utterances /\ u[1] = life
    BY <2>1, HeadIsOwn
  <2>3. main' = "storing" => last[u] = NoRecord /\ Update(u, r) /\ pipe' = pipe
    <3>1. main' = "storing" => latest[u] = NoRecord /\ Update(u, r) /\ pipe' = pipe
      BY <1>3, <2>1 DEF AcceptFinal
    <3> QED  BY <2>1, <2>2, <3>1 DEF RecordsAgree
  <2>4. \A v \in Utterances : last'[v].status = last[v].status \/ (v = u /\ main' = "storing")
    BY <1>3, AcceptEffect
  <2>5. main' = "storing" => u \notin Work
    BY <2>2, <2>3, LifeIsCounted DEF WorkIsPending
  <2>6. Fit(u, r) /\ r.status = "pending"
    BY <2>2, WithStatus DEF Statuses, Terminal
  <2>7. main' = "storing" => Own(Head(pipe).seq)' = u
    BY <2>1, <2>3 DEF Own
  <2> HIDE DEF u, r
  <2>8. main' = "storing" /\ ~aborted => last'[u].status = "pending"
    <3>1. main' = "storing" /\ ~aborted => Publishing({u}, [v \in {u} |-> r])
      BY <2>3 DEF Update
    <3>2. main' = "storing" /\ ~aborted => last' = [last EXCEPT ![u] = r]
      BY <2>2, <2>6, <3>1, OnePublished DEF Fit
    <3> QED  BY <2>2, <2>6, <3>2 DEF RecordTypes
  <2>9. ~aborted => \A v \in ToSet(queue) : v[1] = life => Pending(v)'
    BY <1>1, <2>1, <2>4, <2>5 DEF UndecidedWork, Pending
  <2>10. ~aborted /\ worker \in {"await", "translate"} /\ item[1] = life => last'[item].status = "pending"
    BY <1>1, <1>2, <2>1, <2>4, <2>5 DEF UndecidedWork, Pending
  <2>11. ~aborted /\ main' = "storing" => last'[Own(Head(pipe).seq)'].status = "pending"
    BY <2>7, <2>8
  <2> QED  BY <2>1, <2>9, <2>10, <2>11 DEF UndecidedWork, Pending
<1>4. CASE AcceptRefined
  <2>1. /\ UNCHANGED <<life, queue, item, worker, aborted, main>> /\ main = "reading"
        /\ \A v \in Utterances : last'[v].status = last[v].status
    BY <1>4, AcceptEffect DEF AcceptRefined, Reading, flagVars, handVars
  <2> QED  BY <1>1, <1>2, <2>1 DEF UndecidedWork, Pending
<1>5. CASE Store
  <2> DEFINE u == Own(Head(pipe).seq)
  <2>1. /\ UNCHANGED <<life, item, worker, aborted>>
        /\ main = "storing" /\ main' = "reading"
    BY <1>5 DEF Store, flagVars, handVars
  <2>2. u \in Utterances /\ u \notin Work /\ (~aborted => Pending(u))
    BY <2>1, HeadIsOwn DEF EndsInOrder, WorkIsPending, UndecidedWork
  <2>3. \/ queue' = queue /\ (last' = last \/ \E r : Publishing({u}, [v \in {u} |-> r]))
        \/ queue' = Append(queue, u) /\ last' = last
    BY <1>5 DEF Store, Update, showVars
  <2> HIDE DEF u
  <2>4. \A v \in Utterances \ {u} : last'[v] = last[v]
    BY <2>3, PublishedOnly
  <2>5. ~aborted => \A v \in ToSet(queue') : v[1] = life => last'[v].status = "pending"
    <3>1. CASE queue' = queue
      BY <1>1, <2>1, <2>2, <2>4, <3>1 DEF UndecidedWork, Pending
    <3>2. CASE queue' = Append(queue, u) /\ last' = last
      <4>1. ToSet(queue') = ToSet(queue) \cup {u}
        BY <2>2, <3>2, SetOfAppended DEF StateTypes
      <4> QED  BY <2>1, <2>2, <3>2, <4>1 DEF UndecidedWork, Pending
    <3> QED  BY <2>3, <3>1, <3>2
  <2>6. ~aborted /\ worker \in {"await", "translate"} /\ item[1] = life => last'[item].status = "pending"
    BY <1>1, <1>2, <2>1, <2>2, <2>4 DEF UndecidedWork, Pending
  <2> QED  BY <2>1, <2>5, <2>6 DEF UndecidedWork, Pending
<1>6. CASE BeginClose \/ CloseReturns \/ Exit
  <2>1. UNCHANGED <<life, queue, item, worker, aborted, last>>
        /\ main' # "storing" /\ main \notin {"down", "storing"}
    BY <1>6 DEF BeginClose, CloseReturns, Exit, flagVars, workVars, handVars, showVars
  <2> QED  BY <2>1 DEF UndecidedWork, Pending
<1>7. CASE CloseTimesOut
  BY <1>7 DEF CloseTimesOut, UndecidedWork
<1> QED  BY <1>3, <1>4, <1>5, <1>6, <1>7 DEF MainThread

LEMMA WorkerUndecided ==
  ASSUME SoundInv, UndecidedWork, Worker \/ (Up /\ (EnqueueFails \/ WorkerFails))
  PROVE  UndecidedWork'
<1> USE DEF SoundInv, Inv
<1>1. main # "down" /\ UNCHANGED <<life, main, pipe>> /\ (aborted => aborted')
  BY DEF Worker, TakeItem, Await, Translate, TakeContext, Enqueue, Announce, Restore,
         AcknowledgeShown, FinishItem, LeaveLoop, Join, EnqueueFails, WorkerFails,
         flagVars, Up
<1>2. SUFFICES ASSUME ~aborted' PROVE UndecidedWork'
  BY DEF UndecidedWork
<1>3. ~aborted
  BY <1>1, <1>2
<1>4. \A v \in Utterances \ {item} : last'[v] = last[v]
  <2>1. last' = last \/ \E r : Publishing({item}, [v \in {item} |-> r])
    BY DEF Worker, TakeItem, Await, Translate, TakeContext, Enqueue, Announce,
           Restore, AcknowledgeShown, FinishItem, LeaveLoop, Join, EnqueueFails,
           WorkerFails, Update, SpeechUpdate, showVars
  <2> QED  BY <2>1, PublishedOnly
<1>5. ToSet(queue) \subseteq Utterances /\ item \notin ToSet(queue)
  BY WorkTyped DEF QueueSound
<1>6. main = "storing" => last'[Own(Head(pipe).seq)'].status = "pending"
  <2>1. Own(Head(pipe).seq)' = Own(Head(pipe).seq)
    BY <1>1 DEF Own
  <2>2. main = "storing" => Own(Head(pipe).seq) \in Utterances \ {item}
    BY HeadIsOwn, WorkTyped DEF EndsInOrder, WorkIsPending
  <2> QED  BY <1>1, <1>3, <1>4, <2>1, <2>2 DEF UndecidedWork, Pending
<1>7. CASE TakeItem
  <2>1. item' = Head(queue) /\ queue' = Tail(queue) /\ queue # <<>> /\ last' = last
    BY <1>7 DEF TakeItem, showVars
  <2>2. ToSet(queue) = ToSet(queue') \cup {item'}
    BY <2>1, SetOfHeadAndTail DEF StateTypes
  <2> QED  BY <1>1, <1>3, <1>6, <2>1, <2>2 DEF UndecidedWork, Pending
<1>8. CASE ~TakeItem
  <2>1. queue' = queue
    BY <1>3, <1>8 DEF Worker, Await, Translate, TakeContext, Enqueue, Announce, Restore,
                AcknowledgeShown, FinishItem, LeaveLoop, Join, EnqueueFails, WorkerFails,
                workVars
  <2>2. worker' \in {"await", "translate"} => Await
    BY <1>8 DEF Worker, Translate, TakeContext, Enqueue, Announce, Restore,
                AcknowledgeShown, FinishItem, LeaveLoop, Join, EnqueueFails, WorkerFails
  <2>3. Await => worker = "await" /\ item' = item /\ last' = last
    BY DEF Await, workVars, showVars
  <2>4. \A v \in ToSet(queue') : v[1] = life => last'[v].status = "pending"
    BY <1>1, <1>3, <1>4, <1>5, <2>1 DEF UndecidedWork, Pending
  <2>5. worker' \in {"await", "translate"} /\ item'[1] = life => last'[item'].status = "pending"
    BY <1>1, <1>3, <2>2, <2>3 DEF UndecidedWork, Pending
  <2> QED  BY <1>1, <1>6, <2>4, <2>5 DEF UndecidedWork, Pending
<1> QED  BY <1>7, <1>8

LEMMA OtherUndecided ==
  ASSUME SoundInv, UndecidedWork, Recogniser \/ Delivery \/ Crash \/ Start
  PROVE  UndecidedWork'
<1> USE DEF SoundInv, Inv
<1>1. ToSet(queue) \subseteq Utterances /\ Work \subseteq Utterances \cup {Nobody}
  BY WorkTyped
<1>2. CASE Recogniser
  <2>1. UNCHANGED <<life, queue, item, worker, aborted, last, main>> /\ main # "down"
    BY <1>2 DEF Recogniser, Up, Final, RefineReport, SttEnds, flagVars, workVars,
                handVars, showVars
  <2>2. main = "storing" => Own(Head(pipe).seq)' = Own(Head(pipe).seq)
    BY <1>2, <2>1, HeadStays DEF EndsInOrder, Own
  <2> QED  BY <2>1, <2>2 DEF UndecidedWork, Pending
<1>3. CASE Delivery
  <2>1. UNCHANGED <<life, queue, item, worker, aborted, main, pipe>> /\ main # "down"
    BY <1>3 DEF Delivery, RowMoves, ReadNotice, PublishNotice, AcknowledgeNotice,
                Delivering, Up, flagVars, workVars, handVars
  <2>2. \A v \in Utterances : Pending(v) => last'[v].status = "pending"
    <3>1. CASE last' = last
      BY <3>1 DEF Pending
    <3>2. CASE /\ notice.step # "none"
               /\ \E r : Publishing({notice.of}, [v \in {notice.of} |-> r])
      <4>1. \A v \in Utterances \ {notice.of} : last'[v] = last[v]
        BY <3>2, PublishedOnly
      <4>2. ~Pending(notice.of)
        BY <3>2 DEF RowsTranslated, Pending, Terminal
      <4> QED  BY <4>1, <4>2 DEF Pending
    <3> QED  BY <1>3, <3>1, <3>2
             DEF Delivery, RowMoves, ReadNotice, PublishNotice, AcknowledgeNotice,
                 SpeechUpdate, showVars
  <2>3. worker \in {"await", "translate"} => item \in Utterances
    BY DEF StateTypes
  <2>4. main = "storing" => Own(Head(pipe).seq) \in Utterances
    BY HeadIsOwn DEF EndsInOrder
  <2>5. Own(Head(pipe).seq)' = Own(Head(pipe).seq)
    BY <2>1 DEF Own
  <2> QED  BY <1>1, <2>1, <2>2, <2>3, <2>4, <2>5 DEF UndecidedWork, Pending
<1>4. CASE Crash
  BY <1>4 DEF Crash, UndecidedWork
<1>5. CASE Start
  <2>1. life' = life + 1 /\ main' = "reading" /\ worker' = "idle"
        /\ queue' = IF ~durable THEN <<>> ELSE IF item = Nobody THEN queue ELSE <<item>> \o queue
    BY <1>5 DEF Start, Fresh
  <2>2. ToSet(queue') \subseteq Work
    BY <2>1, SetOfPrepended, SetOfNone DEF Work, StateTypes
  <2>3. life \in Nat /\ \A u \in Utterances : u[1] \in Nat
    BY DEF StateTypes, Utterances, Lives
  <2>4. ToSet(queue') \subseteq Utterances
    BY <1>5, ProcessStateTypes DEF StateTypes, ToSet
  <2>5. \A u \in ToSet(queue') : u[1] <= life
    BY <2>2, <2>3, <2>4, LifeIsCounted DEF WorkIsPending
  <2>6. \A u \in ToSet(queue') : u[1] # life'
    BY <2>1, <2>3, <2>4, <2>5
  <2> QED  BY <2>1, <2>6 DEF UndecidedWork
<1> QED  BY <1>2, <1>3, <1>4, <1>5

\* Both parts are kept by every step.
LEMMA OrderStep ==
  ASSUME OrderInv, [Next]_vars PROVE OrderInv'
<1> USE DEF OrderInv
<1>1. CASE Next
  <2>1. SoundInv'
    <3>1. Inv'
      BY <1>1, InvStep DEF SoundInv
    <3>2. QueueSound'
      BY <1>1, QueueStep DEF SoundInv
    <3> QED  BY <3>1, <3>2 DEF SoundInv
  <2>2. BasesKept'
    BY <1>1, MainBases, WorkerBases, OtherBases DEF Next
  <2>3. UndecidedWork'
    BY <1>1, MainUndecided, WorkerUndecided, OtherUndecided DEF Next
  <2> QED  BY <2>1, <2>2, <2>3
<1>2. CASE UNCHANGED vars
  <2> USE DEF vars, sttVars, flagVars, workVars, handVars, rowVars, showVars
  <2>1. SoundInv'
    BY <1>2, StutterInv DEF SoundInv, QueueSound
  <2>2. BasesKept'
    BY <1>2 DEF BasesKept, Work
  <2>3. UndecidedWork'
    BY <1>2 DEF UndecidedWork, Pending, Own
  <2> QED  BY <2>1, <2>2, <2>3
<1> QED  BY <1>1, <1>2

\* Hence they hold in every behaviour.
LEMMA OrderInvariance == Spec => []OrderInv
<1>1. Init => OrderInv
  <2> SUFFICES ASSUME Init PROVE OrderInv
    OBVIOUS
  <2>1. Inv
    BY InitInv
  <2>2. queue = <<>> /\ item = Nobody /\ worker = "idle" /\ main = "reading"
    BY DEF Init
  <2>3. Len(<<>>) = 0 /\ IsInjective(<<>>) /\ QueueLimit \in Nat
    BY LimitAssumption DEF IsInjective
  <2>4. QueueSound
    BY <2>2, <2>3, SetOfNone DEF QueueSound
  <2>5. BasesKept /\ UndecidedWork
    BY <2>2, SetOfNone DEF BasesKept, UndecidedWork, Work, Handing
  <2> QED  BY <2>1, <2>4, <2>5 DEF OrderInv, SoundInv
<1> QED  BY <1>1, OrderStep, PTL DEF Spec

-----------------------------------------------------------------------------
(***************************************************************************)
(* Updates in order                                                        *)
(***************************************************************************)

Rises(u) == latest[u] # NoRecord \/ row[u] = 0 => last'[u].revision > last[u].revision
Stays(u) ==
  last[u].status \in Terminal /\ life' = life /\ u[1] = life => last'[u].status = last[u].status
Orderly == \A u \in Utterances : last'[u] # last[u] => Rises(u) /\ Stays(u)

\* An update starts from the record published last.
LEMMA UpdateOrderly ==
  ASSUME StateTypes, RecordTypes, RecordsAgree, NEW u \in Utterances,
         Known(u) \/ last[u] = NoRecord,
         NEW r \in Record, r.revision = Successor(u).revision,
         last[u].status = r.status \/ last[u].status \notin Terminal \/ u[1] # life,
         Update(u, r)
  PROVE  Orderly
<1>1. CASE aborted
  BY <1>1 DEF Update, showVars, Orderly
<1>2. CASE ~aborted
  <2> DEFINE base == IF latest[u] # NoRecord THEN latest[u] ELSE saved[u]
  <2>1. last' = [last EXCEPT ![u] = r]
    BY <1>2, OnePublished DEF Update
  <2>2. base = last[u] /\ last[u] \in Record
    BY DEF Known, RecordsAgree, RecordTypes
  <2>3. Successor(u) = [base EXCEPT !.revision = @ + 1]
    BY DEF Successor
  <2> HIDE DEF base
  <2>4. r.revision = last[u].revision + 1 /\ last[u].revision \in Int
    BY <2>2, <2>3 DEF Record
  <2>5. last'[u] = r /\ \A v \in Utterances \ {u} : last'[v] = last[v]
    BY <2>1 DEF RecordTypes
  <2>6. Rises(u)
    BY <2>4, <2>5 DEF Rises
  <2>7. Stays(u)
    BY <2>5 DEF Stays
  <2> QED  BY <2>5, <2>6, <2>7 DEF Orderly
<1> QED  BY <1>1, <1>2

\* A state of the outbox is shown with the record in memory, or with the one kept in a row.
LEMMA SpeechOrderly ==
  ASSUME StateTypes, RecordTypes, RecordsAgree, main # "down", NEW u \in Utterances,
         latest[u] # NoRecord \/ row[u] # 0,
         NEW record \in Record, NEW news \in Nat, SpeechUpdate(u, record, news)
  PROVE  Orderly
<1> DEFINE base == IF latest[u] # NoRecord THEN latest[u] ELSE record
           r == SpokenOf(u, record, news)
<1>1. base \in Record
  BY DEF RecordTypes
<1>2. r = [base EXCEPT !.revision = @ + 1, !.news = news]
  BY DEF SpokenOf
<1>3. Publishing({u}, [v \in {u} |-> r])
  BY DEF SpeechUpdate
<1>4. latest[u] # NoRecord => base = last[u]
  BY DEF RecordsAgree
<1>5. u[1] = life => latest[u] = last[u]
  BY DEF RecordsAgree
<1> HIDE DEF base, r
<1>6. /\ r \in Record /\ r.revision = base.revision + 1 /\ base.revision \in Int
      /\ r.status = base.status
  <2>1. base.revision + 1 \in Int /\ base.revision \in Int
    BY <1>1 DEF Record
  <2>2. r = [base EXCEPT !.revision = base.revision + 1, !.news = news]
    BY <1>2
  <2>3. r.revision = base.revision + 1 /\ r.status = base.status
    BY <1>1, <2>2 DEF Record
  <2>4. r \in Record
    BY <1>1, <2>1, <2>2 DEF Record
  <2> QED  BY <2>1, <2>3, <2>4
<1>7. last'[u] = r /\ \A v \in Utterances \ {u} : last'[v] = last[v]
  <2>1. last' = [last EXCEPT ![u] = r]
    BY <1>3, <1>6, OnePublished
  <2> QED  BY <2>1 DEF RecordTypes
<1>8. Rises(u)
  <2>1. CASE latest[u] # NoRecord
    BY <1>4, <1>6, <1>7, <2>1 DEF Rises
  <2>2. CASE latest[u] = NoRecord
    BY <2>2 DEF Rises
  <2> QED  BY <2>1, <2>2
<1>9. Stays(u)
  <2>1. last[u].status \in Terminal => last[u] # NoRecord
    BY DEF NoRecord, Terminal
  <2> QED  BY <1>4, <1>5, <1>6, <1>7, <2>1 DEF Stays
<1> QED  BY <1>7, <1>8, <1>9 DEF Orderly

\* Every update a step makes is in order.
LEMMA MainOrderly ==
  ASSUME OrderInv, MainThread \/ CloseTimesOut PROVE Orderly
<1> USE DEF OrderInv, SoundInv, Inv
<1> DEFINE u == Own(Head(pipe).seq)
<1>1. CASE last' = last
  BY <1>1 DEF Orderly
<1>2. CASE AcceptFinal \/ AcceptRefined \/ Store
  <2>1. u \in Utterances /\ u[1] = life /\ main # "down"
    BY <1>2, HeadIsOwn DEF AcceptFinal, AcceptRefined, Store, Reading, EndsInOrder
  <2>2. latest[u] = last[u]
    BY <2>1 DEF RecordsAgree
  <2>3. /\ Successor(u) \in Record
        /\ Known(u) => Successor(u).status = last[u].status
    BY <2>1, SuccessorOf
  <2>4. \A s \in Statuses : /\ [Successor(u) EXCEPT !.status = s] \in Record
                            /\ [Successor(u) EXCEPT !.status = s].revision = Successor(u).revision
    BY <2>3 DEF Record
  <2>5. "pending" \in Statuses /\ "failed" \in Statuses /\ "skipped" \in Statuses
    BY DEF Statuses, Terminal
  <2> HIDE DEF u
  <2>6. CASE last[u] = NoRecord /\ Update(u, [Successor(u) EXCEPT !.status = "pending"])
    <3>1. last[u].status \notin Terminal
      BY <2>6 DEF NoRecord, Terminal
    <3> QED  BY <2>1, <2>4, <2>5, <2>6, <3>1, UpdateOrderly
  <2>7. CASE Known(u) /\ Update(u, Successor(u))
    BY <2>1, <2>3, <2>7, UpdateOrderly
  <2>8. CASE /\ Store /\ latest[u] # NoRecord
             /\ \E s \in {"failed", "skipped"} : Update(u, [Successor(u) EXCEPT !.status = s])
    <3>1. CASE aborted
      BY <1>1, <2>8, <3>1 DEF Update, showVars
    <3>2. CASE ~aborted
      <4>1. last[u].status \notin Terminal
        BY <2>8, <3>2 DEF UndecidedWork, Pending, Terminal, Store, u
      <4> QED  BY <2>1, <2>4, <2>5, <2>8, <4>1, UpdateOrderly DEF Known
    <3> QED  BY <3>1, <3>2
  <2>9. \/ last' = last
        \/ latest[u] = NoRecord /\ Update(u, [Successor(u) EXCEPT !.status = "pending"])
        \/ Known(u) /\ Update(u, Successor(u))
        \/ /\ Store /\ latest[u] # NoRecord
           /\ \E s \in {"failed", "skipped"} : Update(u, [Successor(u) EXCEPT !.status = s])
    BY <1>2 DEF AcceptFinal, AcceptRefined, Store, showVars, u
  <2> QED  BY <1>1, <2>2, <2>6, <2>7, <2>8, <2>9
<1>3. CASE BeginClose \/ CloseReturns \/ Exit
  BY <1>1, <1>3 DEF BeginClose, CloseReturns, Exit, showVars
<1>4. CASE CloseTimesOut
  <2>1. CASE aborted
    BY <1>1, <1>4, <2>1 DEF CloseTimesOut, showVars
  <2>2. CASE ~aborted
    <3> DEFINE S == {v \in Utterances : latest[v].status = "pending"}
               skipped(v) == [Successor(v) EXCEPT !.status = "skipped"]
    <3>1. last' = [v \in Utterances |-> IF v \in S THEN skipped(v) ELSE last[v]]
      BY <1>4, <2>2 DEF CloseTimesOut, Publishing
    <3>2. ASSUME NEW v \in S PROVE Rises(v) /\ Stays(v)
      <4>1. v \in Utterances /\ latest[v] # NoRecord /\ latest[v] = last[v]
            /\ last[v] \in Record
        BY DEF NoRecord, RecordsAgree, RecordTypes
      <4>2. skipped(v).revision = last[v].revision + 1 /\ last[v].revision \in Int
        BY <4>1 DEF Successor, Record
      <4>3. last'[v] = skipped(v) /\ last[v].status = "pending"
        BY <3>1, <4>1
      <4> HIDE DEF skipped, S
      <4> QED  BY <4>2, <4>3 DEF Rises, Stays, Terminal
    <3> HIDE DEF S, skipped
    <3>3. \A v \in Utterances \ S : last'[v] = last[v]
      BY <3>1
    <3> QED  BY <3>2, <3>3 DEF Orderly
  <2> QED  BY <2>1, <2>2
<1> QED  BY <1>2, <1>3, <1>4 DEF MainThread

LEMMA WorkerOrderly ==
  ASSUME OrderInv, Worker \/ (Up /\ (EnqueueFails \/ WorkerFails)) PROVE Orderly
<1> USE DEF OrderInv, SoundInv, Inv
<1>0. main # "down"
  BY DEF Worker, Up
<1>1. CASE last' = last
  BY <1>1 DEF Orderly
<1>2. CASE Translate
  <2>1. item \in Utterances /\ item \in Work \ {Nobody} /\ worker = "translate"
        /\ text \in Utterances \cup {Nobody}
    BY <1>2, LifeIsCounted DEF Translate, StateTypes, Work, RecordTypes
  <2>2. PICK s \in {"completed", "failed"} :
          Update(item, [Successor(item) EXCEPT !.status = s, !.source = text])
    BY <1>2 DEF Translate
  <2> DEFINE r == [Successor(item) EXCEPT !.status = s, !.source = text]
  <2>3. r \in Record /\ r.revision = Successor(item).revision
    BY <2>1, SuccessorOf DEF Record, Statuses, Terminal
  <2>4. Known(item)
    <3>1. item[1] = life => latest[item] # NoRecord
      BY <1>0, <2>1 DEF WorkIsPending, RecordsAgree
    <3>2. item[1] # life => saved[item] # NoRecord
      BY <2>1 DEF WorkIsPending, BasesKept
    <3> QED  BY <3>1, <3>2 DEF Known
  <2>5. CASE aborted
    BY <1>1, <2>2, <2>5 DEF Update, showVars
  <2>6. CASE ~aborted
    <3>1. last[item].status \notin Terminal \/ item[1] # life
      BY <1>0, <2>1, <2>6 DEF UndecidedWork, Pending, Terminal
    <3>2. Update(item, r)
      BY <2>2
    <3> HIDE DEF r
    <3> QED  BY <2>1, <2>3, <2>4, <3>1, <3>2, UpdateOrderly
  <2> QED  BY <2>5, <2>6
<1>3. CASE Announce \/ Restore \/ EnqueueFails
  <2>1. worker \in Handing /\ item \in Utterances
    BY <1>3 DEF Announce, Restore, EnqueueFails, Handing, StateTypes
  <2>2. latest[item] # NoRecord \/ row[item] # 0
    BY <2>1 DEF BasesKept
  <2>3. held.record \in Record /\ held.news \in Nat /\ 0 \in Nat
    BY DEF RecordTypes, Notices
  <2>4. last' = last \/ \E news \in {held.news, 0} : SpeechUpdate(item, held.record, news)
    BY <1>3 DEF Announce, Restore, EnqueueFails, showVars
  <2> QED  BY <1>0, <1>1, <2>1, <2>2, <2>3, <2>4, SpeechOrderly
<1>4. CASE ~(Translate \/ Announce \/ Restore \/ EnqueueFails)
  BY <1>1, <1>4 DEF Worker, TakeItem, Await, TakeContext, Enqueue, AcknowledgeShown,
                    FinishItem, LeaveLoop, Join, WorkerFails, showVars
<1> QED  BY <1>2, <1>3, <1>4

LEMMA StepOrderly ==
  ASSUME OrderInv, Next PROVE Orderly
<1> USE DEF OrderInv, SoundInv, Inv
<1>1. CASE last' = last
  BY <1>1 DEF Orderly
<1>2. CASE Recogniser \/ Crash \/ Start
  BY <1>1, <1>2 DEF Recogniser, Final, RefineReport, SttEnds, Crash, Start, Fresh, showVars
<1>3. CASE Delivery
  <2>1. main # "down"
    BY <1>3 DEF Delivery, RowMoves, ReadNotice, PublishNotice, AcknowledgeNotice,
                Delivering, Up
  <2>2. CASE /\ notice.step # "none"
             /\ SpeechUpdate(notice.of, notice.record, notice.news)
    <3>1. notice.of \in Utterances /\ notice.record \in Record /\ notice.news \in Nat
          /\ row[notice.of] # 0
      BY <2>2 DEF RecordTypes, Notices, RowsTranslated
    <3> QED  BY <2>1, <2>2, <3>1, SpeechOrderly
  <2> QED  BY <1>1, <1>3, <2>2 DEF Delivery, RowMoves, ReadNotice, PublishNotice,
                                   AcknowledgeNotice, showVars
<1> QED  BY <1>2, <1>3, MainOrderly, WorkerOrderly DEF Next

\* What is published later is newer: but for the first record of a restored row its
\* revision is higher, and within a session the outcome of a translation is final,
\* although three threads publish and what is late arrives after the close
\* (CaptionDispatcher.update, speech_update, close).
THEOREM UpdatesComeInOrder == Spec => UpdatesInOrder
<1>1. OrderInv /\ [Next]_vars =>
        [\A u \in Utterances :
           last'[u] # last[u] /\ (latest[u] # NoRecord \/ row[u] = 0)
             => last'[u].revision > last[u].revision]_vars
  BY StepOrderly DEF Orderly, Rises
<1>2. OrderInv /\ [Next]_vars =>
        [\A u \in Utterances :
           last[u].status \in Terminal /\ life' = life /\ u[1] = life
             => last'[u].status = last[u].status]_vars
  BY StepOrderly DEF Orderly, Stays
<1> QED  BY <1>1, <1>2, OrderInvariance, PTL DEF Spec, UpdatesInOrder, RevisionsRise, OutcomeStays
=============================================================================
