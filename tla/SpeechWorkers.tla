---------------------------- MODULE SpeechWorkers ----------------------------
(***************************************************************************)
(* What happens to an admitted task of the speech service under the        *)
(* coverage policy (tools/speech_service.py, tools/durable_jobs.py): the   *)
(* synthesis thread takes tasks from the disk queue and makes their audio  *)
(* piece by piece, the playback thread plays the pieces, requests cancel   *)
(* tasks or stop everything, the service is closed, killed and restarted.  *)
(* Every step is one hold of SpeechService.lock, or one of the stretches   *)
(* without it that the other threads can see.  Admission is in             *)
(* SpeechAdmissions; here it only makes the tasks.                         *)
(***************************************************************************)
EXTENDS Integers, Sequences, FiniteSets, SequencesExt

CONSTANTS
  NJobs,        \* tasks, numbered in the order of "created, rowid"
  Pieces,       \* how many pieces of audio each task is made of
  Kinds,        \* the ways the tasks may be played, assignments to all of them
  BufferLimit,  \* pieces that may wait for playback (playback_limit_seconds)
  MaxFaults,    \* bound: failures of the disk and of the threads
  MaxRestarts   \* bound: starts of the service after the first one

Jobs == 1 .. NJobs

\* "stream": continuous_playback, one player for the whole task; "pieces": one
\* aplay per piece; "silent": synthesised for download only.
AllKinds == {"stream", "pieces", "silent"}

ASSUME SpeechWorkersAssumption ==
  /\ NJobs \in Nat
  /\ Pieces \in [Jobs -> Nat \ {0}]
  /\ Kinds \subseteq [Jobs -> AllKinds]
  /\ BufferLimit \in Nat \ {0}
  /\ MaxFaults \in Nat
  /\ MaxRestarts \in Nat

NoJob == 0
NoPiece == <<NoJob, 0>>

VARIABLES
  job,         \* the records the threads share: status, pieces made and played,
               \* generation_done, 'playback_started_at' in job
  stored,      \* what DiskJobs holds of them that a restart uses
  kind,        \* playback, live and the runtime's protocol, as kept with the task
  pending,     \* DiskPending: jobs with pending = 1
  playQueue,   \* play_pending
  active,      \* the job of the synthesis thread
  step,        \* where the synthesis thread is
  activePlay,  \* active_play
  playing,     \* the piece the playback thread has taken, <<job, number>>
  playStep,    \* where the playback thread is
  player,      \* the player process: its job, playback_tempo > 1, pieces in and out
  broken,      \* worker_error is set
  unstored,    \* storage_failed
  mode,        \* "up", "closing", "closed" (after close), "down" (killed)
  restore,     \* close's copies of the tasks to keep
  restarts,
  faults,
  heard,       \* history: the pieces that reached the output device
  filtered,    \* history: the tasks ever played through the tempo filter
  kept,        \* history: tasks close has to keep for a later start
  lostStore    \* history: a store has failed

workerVars == <<active, step>>
playVars == <<activePlay, playing, playStep, player>>
threadVars == <<workerVars, playVars>>
faultVars == <<broken, unstored, faults, lostStore>>
historyVars == <<heard, filtered, kept>>
serviceVars == <<mode, restore, restarts>>
vars == <<job, stored, kind, pending, playQueue, threadVars, faultVars,
          serviceVars, historyVars>>

TERMINAL == {"completed", "failed", "cancelled"}
Statuses == {"none", "queued", "processing", "ready", "playing"} \cup TERMINAL

\* A record as submit and reset_waiting leave it, and one not yet submitted.
Waiting == [status |-> "queued", made |-> 0, played |-> 0,
            done |-> FALSE, started |-> FALSE]
Absent == [Waiting EXCEPT !.status = "none"]

\* What of a record outlives the process.
OnDisk(r) == [status |-> r.status, started |-> r.started]

NoPlayer == [of |-> NoJob, fast |-> FALSE, up |-> FALSE, fed |-> 0, out |-> 0]

Ended(j) == job[j].status \in TERMINAL
Unfinished == {j \in Jobs : job[j].status \notin TERMINAL \cup {"none"}}
Closed == mode = "closing"

\* Both threads return as soon as they see one of these.
Stopping(j) == Ended(j) \/ Closed

Killed == [player EXCEPT !.up = FALSE]
Without(S) ==
  LET rest[n \in 0 .. Len(playQueue)] ==
        IF n = 0 THEN <<>>
        ELSE IF playQueue[n][1] \in S THEN rest[n - 1]
        ELSE Append(rest[n - 1], playQueue[n])
  IN rest[Len(playQueue)]

\* sync_playback_start: with a tempo filter the start of playback is known to
\* the player only, and is taken over when the job is saved.
Synced(j, r) ==
  IF activePlay = j /\ player.of = j /\ player.fast /\ player.out > 0
  THEN [r EXCEPT !.started = TRUE] ELSE r

\* save_job on records as the caller leaves them: nothing is stored once
\* storage has failed.
Save(S, mem) ==
  /\ job' = [j \in Jobs |-> IF j \in S THEN Synced(j, mem[j]) ELSE mem[j]]
  /\ stored' = [j \in Jobs |-> IF j \in S /\ ~unstored
                               THEN OnDisk(Synced(j, mem[j])) ELSE stored[j]]

Faults(n) == faults' = faults + n /\ faults' <= MaxFaults

\* fatal_error: the tasks in hand and those with audio waiting fail; tasks
\* waiting on disk stay.  Nothing is saved when it was a store that failed; one
\* that fails only now is a second fault and leaves some unsaved.
FatalError(mem, owned, store) ==
  LET lost == owned \cup ({active, activePlay} \ {NoJob})
                \cup {piece[1] : piece \in ToSet(playQueue)}
      failed == [j \in Jobs |->
                   IF j \in lost /\ mem[j].status \notin TERMINAL
                   THEN [mem[j] EXCEPT !.status = "failed"] ELSE mem[j]]
  IN /\ broken' = TRUE
     /\ job' = failed
     /\ \E saved \in SUBSET lost :
          /\ stored' = [j \in Jobs |-> IF j \in saved THEN OnDisk(failed[j])
                                       ELSE stored[j]]
          /\ IF store \/ unstored
             THEN saved = {} /\ unstored' = TRUE /\ Faults(1)
             ELSE /\ unstored' = (saved # lost)
                  /\ Faults(IF saved = lost THEN 1 ELSE 2)
     /\ lostStore' = (lostStore \/ unstored')
     /\ playQueue' = <<>>
     /\ activePlay' = NoJob
     /\ player' = NoPlayer
     /\ UNCHANGED <<kind, serviceVars, historyVars>>

\* prune: archiving an old task may fail, which nobody turns into a fatal error.
Prune ==
  \/ UNCHANGED <<unstored, faults, lostStore>>
  \/ ~unstored /\ unstored' = TRUE /\ lostStore' = TRUE /\ Faults(1)

-----------------------------------------------------------------------------
(***************************************************************************)
(* Requests                                                                *)
(***************************************************************************)

\* submit, once it has decided to admit: record, then pending flag.
Submit(j) ==
  /\ mode = "up" /\ ~broken /\ ~unstored
  /\ job[j].status = "none"
  /\ \A i \in 1 .. j - 1 : job[i].status # "none"
  /\ Save({j}, [job EXCEPT ![j] = Waiting])
  /\ pending' = pending \cup {j}
  /\ Prune
  /\ UNCHANGED <<kind, playQueue, threadVars, broken, serviceVars, historyVars>>

\* cancel of each of the jobs, and what it does to the player.
Cancelled(S) ==
  [j \in Jobs |-> IF j \in S /\ ~Ended(j) THEN [job[j] EXCEPT !.status = "cancelled"]
                  ELSE job[j]]
\* Mutant: the player goes on.
BugPlayerWithout(S) == player
PlayerWithout(S) == IF activePlay \in S THEN Killed ELSE player

CancelJobs(S) ==
  /\ Save(S, Cancelled(S))
  /\ pending' = IF unstored THEN pending ELSE pending \ S
  /\ playQueue' = Without(S)

Withdraw(S) ==
  /\ mode = "up" /\ S # {}
  /\ CancelJobs(S)
  /\ player' = PlayerWithout(S)
  /\ UNCHANGED <<kind, workerVars, activePlay, playing, playStep, broken,
                 serviceVars, historyVars>>

\* route's DELETE of a job.
Cancel(j) ==
  j \in Unfinished /\ Withdraw({j}) /\ UNCHANGED <<unstored, faults, lostStore>>

\* route's "stop" cancels every task.
Stop == Withdraw(Unfinished) /\ Prune

\* The stop time cannot be written: the tasks end in memory only; or the tasks
\* cannot be listed, and none ends.
StopFails ==
  /\ mode = "up" /\ ~unstored
  /\ \E S \in {{}, Unfinished} :
       /\ job' = Cancelled(S)
       /\ playQueue' = Without(S)
       /\ player' = PlayerWithout(S)
  /\ unstored' = TRUE /\ lostStore' = TRUE /\ Faults(1)
  /\ UNCHANGED <<stored, kind, pending, workerVars, activePlay, playing, playStep,
                 broken, serviceVars, historyVars>>

\* The pending flag of a cancelled job cannot be cleared.
CancelFails(j) ==
  /\ mode = "up" /\ ~unstored /\ j \in Unfinished
  /\ FatalError([job EXCEPT ![j].status = "cancelled"], {j}, TRUE)
  /\ pending' = {i \in pending : stored'[i].status \notin TERMINAL}
  /\ UNCHANGED <<workerVars, playing, playStep>>

-----------------------------------------------------------------------------
(***************************************************************************)
(* The synthesis thread (run_worker, ensure_child, queue_audio)            *)
(***************************************************************************)

\* Mutant: self.active is not set.
BugTakeJobNotHeld ==
  /\ step = "idle" /\ ~Closed /\ ~broken
  /\ \E j \in pending :
       /\ \A k \in pending : j <= k
       /\ pending' = pending \ {j}
       /\ job' = [job EXCEPT ![j].status = "processing"]
       /\ step' = "synth"
  /\ UNCHANGED <<stored, kind, active, playQueue, playVars, faultVars, serviceVars,
                 historyVars>>

\* Mutant: the last task waiting is taken.
BugTakeJobLast ==
  /\ step = "idle" /\ ~Closed /\ ~broken
  /\ \E j \in pending :
       /\ \A k \in pending : k <= j
       /\ pending' = pending \ {j}
       /\ active' = j
       /\ job' = [job EXCEPT ![j].status = "processing"]
       /\ step' = "synth"
  /\ UNCHANGED <<stored, kind, playQueue, playVars, faultVars, serviceVars,
                 historyVars>>

\* popleft, and the decision to work on the task, in one hold of the lock.  A
\* cancelled task is still queued when storage had failed.
TakeJob ==
  /\ step = "idle" /\ ~Closed /\ ~broken
  /\ \E j \in pending :
       /\ \A k \in pending : j <= k
       /\ pending' = pending \ {j}
       /\ IF Ended(j)
          THEN UNCHANGED <<job, workerVars>>
          ELSE /\ job' = [job EXCEPT ![j].status = "processing"]
               /\ active' = j
               /\ step' = "synth"
  /\ UNCHANGED <<stored, kind, playQueue, playVars, faultVars, serviceVars,
                 historyVars>>

WorkerReturns ==
  /\ step = "idle" /\ (Closed \/ broken)
  /\ step' = "ended"
  /\ UNCHANGED <<job, stored, kind, pending, playQueue, active, playVars,
                 faultVars, serviceVars, historyVars>>

\* buffered_audio_seconds: what waits, and perhaps the rest of the piece that
\* is being played.
Buffered == Len(SelectSeq(playQueue, LAMBDA piece : ~Ended(piece[1])))
HasRoom == kind[active] = "silent" \/ Buffered < BufferLimit

\* The runtime is ready and a piece of audio is asked for, made and queued
\* (ensure_child, write_child, read_child, queue_audio).  Both waits for room
\* are one: only this thread adds pieces.  worker_error is not asked for: the
\* task in hand ends with it.
QueuePiece ==
  /\ step = "synth" /\ ~Stopping(active) /\ HasRoom
  /\ LET made == job[active].made + 1
         ready == IF kind[active] = "silent" \/ Synced(active, job[active]).started
                  THEN job[active].status ELSE "ready"
     IN /\ Save({active}, [job EXCEPT ![active].made = made,
                                       ![active].status = ready])
        /\ playQueue' = IF kind[active] = "silent" THEN playQueue
                        ELSE Append(playQueue, <<active, made>>)
        /\ step' = IF made < Pieces[active] THEN "synth" ELSE "join"
  /\ UNCHANGED <<kind, pending, active, playVars, faultVars, serviceVars,
                 historyVars>>

\* expire_before_first_audio: while it waits for room the thread takes over the
\* start of playback, without saving it.
WaitForRoom ==
  /\ step = "synth" /\ ~Stopping(active) /\ ~HasRoom
  /\ job' = [job EXCEPT ![active] = Synced(active, job[active])]
  /\ UNCHANGED <<stored, kind, pending, playQueue, workerVars, playVars,
                 faultVars, serviceVars, historyVars>>

\* Who plays the last piece completes a continuous task; of a task played piece by
\* piece, generation and playback, the later one.
CompletesHere ==
  \/ kind[active] = "silent"
  \/ kind[active] = "pieces" /\ job[active].played = Pieces[active]

\* Mutant: generation_done is set for tasks that complete here only.
BugGenerated ==
  /\ step = "join" /\ ~Stopping(active)
  /\ job' = [job EXCEPT ![active].done = CompletesHere,
                        ![active].status = IF CompletesHere THEN "completed" ELSE @]
  /\ step' = "end"
  /\ UNCHANGED <<stored, kind, pending, playQueue, active, playVars, faultVars,
                 serviceVars, historyVars>>

\* The download file is joined and the generation is done.
Generated ==
  /\ step = "join" /\ ~Stopping(active)
  /\ job' = [job EXCEPT ![active].done = TRUE,
                        ![active].status = IF CompletesHere THEN "completed" ELSE @]
  /\ step' = "end"
  /\ UNCHANGED <<stored, kind, pending, playQueue, active, playVars, faultVars,
                 serviceVars, historyVars>>

\* WorkerError and TaskRejected: the runtime fails, dies, times out or rejects
\* the text, or the audio is not what was announced.
WorkerFails ==
  /\ step \in {"synth", "join"} /\ ~Ended(active)
  /\ job' = [job EXCEPT ![active].status = "failed"]
  /\ playQueue' = Without({active})
  /\ player' = IF activePlay = active THEN Killed ELSE player
  /\ step' = "end"
  /\ UNCHANGED <<stored, kind, pending, active, activePlay, playing, playStep,
                 faultVars, serviceVars, historyVars>>

\* A file, a pipe or the database fails while the task is worked on.
WorkerFatal ==
  /\ step \in {"synth", "join"}
  /\ \E store \in BOOLEAN : FatalError(job, {}, store)
  /\ step' = "end"
  /\ UNCHANGED <<pending, active, playing, playStep>>

\* Mutant: the wait for room does not look at the task.
BugEndJob ==
  /\ step = "end"
  /\ Save({active}, job)
  /\ active' = NoJob
  /\ step' = "idle"
  /\ Prune
  /\ UNCHANGED <<kind, pending, playQueue, playVars, broken, serviceVars,
                 historyVars>>

\* The finally clause, also reached from every look at the task that finds it
\* ended or the service closing.
EndJob ==
  /\ step = "end" \/ (step \in {"synth", "join"} /\ Stopping(active))
  /\ Save({active}, job)
  /\ active' = NoJob
  /\ step' = "idle"
  /\ Prune
  /\ UNCHANGED <<kind, pending, playQueue, playVars, broken, serviceVars,
                 historyVars>>

\* Taking a task or the finally clause's save fails: run ends the thread.
WorkerDies ==
  /\ \/ step = "idle" /\ ~Closed /\ ~broken
     \/ step = "end" /\ ~unstored
  /\ FatalError(job, {}, TRUE)
  /\ step' = "ended"
  /\ UNCHANGED <<pending, active, playing, playStep>>

SynthesisThread ==
  \/ TakeJob \/ QueuePiece \/ WaitForRoom \/ Generated \/ EndJob \/ WorkerReturns

-----------------------------------------------------------------------------
(***************************************************************************)
(* The playback thread (play_loop, play_stream) and its player             *)
(***************************************************************************)

Played == playing[1]
NextIsPlayed == playQueue # <<>> /\ Head(playQueue)[1] = Played

\* play_pending.popleft: a piece of a task that ended meanwhile is dropped.
TakePiece ==
  /\ playStep = "wait" /\ ~Closed /\ ~broken /\ playQueue # <<>>
  /\ playQueue' = Tail(playQueue)
  /\ IF Ended(Head(playQueue)[1])
     THEN UNCHANGED <<playing, playStep>>
     ELSE playing' = Head(playQueue) /\ playStep' = "open"
  /\ UNCHANGED <<job, stored, kind, pending, workerVars, activePlay, player,
                 faultVars, serviceVars, historyVars>>

PlayerReturns ==
  /\ playStep = "wait" /\ (Closed \/ broken)
  /\ playStep' = "ended"
  /\ UNCHANGED <<job, stored, kind, pending, playQueue, workerVars, activePlay,
                 playing, player, faultVars, serviceVars, historyVars>>

\* Mutant: the start of playback is saved with the end of the piece only.
BugMarkPlaying(known) ==
  /\ job' = [job EXCEPT ![Played].status = "playing",
                        ![Played].started = @ \/ known]
  /\ activePlay' = Played
  /\ UNCHANGED stored

\* The piece is recorded as playing, and the task as started, before anything
\* reaches the player; with a tempo filter only the filter's thread knows.
MarkPlaying(known) ==
  /\ Save({Played}, [job EXCEPT ![Played].status = "playing",
                                ![Played].started = @ \/ known])
  /\ activePlay' = Played

\* The task was dropped between the two holds of the lock.
Dropped ==
  /\ playStep = "open" /\ Stopping(Played)
  /\ playStep' = "wait"
  /\ playing' = NoPiece
  /\ UNCHANGED <<job, stored, kind, pending, playQueue, workerVars, activePlay,
                 player, faultVars, serviceVars, historyVars>>

\* play_stream chooses the tempo and starts one player for all the pieces.
OpenStream ==
  /\ playStep = "open" /\ ~Stopping(Played) /\ kind[Played] = "stream"
  /\ activePlay' = Played
  /\ \E fast \in BOOLEAN :
       /\ player' = [of |-> Played, fast |-> fast, up |-> TRUE,
                     fed |-> playing[2] - 1, out |-> playing[2] - 1]
       /\ filtered' = IF fast THEN filtered \cup {Played} ELSE filtered
  /\ playStep' = "begin"
  /\ UNCHANGED <<job, stored, kind, pending, playQueue, workerVars, playing,
                 faultVars, serviceVars, heard, kept>>

\* Mutant: the next piece begins without another look at the task.
BugBeginStreamPiece ==
  /\ playStep = "begin" /\ kind[Played] = "stream"
  /\ MarkPlaying(~player.fast)
  /\ playStep' = "feed"
  /\ UNCHANGED <<kind, pending, playQueue, workerVars, playing, player,
                 faultVars, serviceVars, historyVars>>

BeginStreamPiece ==
  /\ playStep = "begin" /\ ~Stopping(Played) /\ kind[Played] = "stream"
  /\ MarkPlaying(~player.fast)
  /\ playStep' = "feed"
  /\ UNCHANGED <<kind, pending, playQueue, workerVars, playing, player,
                 faultVars, serviceVars, historyVars>>

\* feed_player, without the lock, until the piece is in the pipe: of aplay,
\* which may play it at once, or of the tempo filter.
FeedPiece ==
  /\ playStep = "feed" /\ player.up
  /\ player' = [player EXCEPT !.fed = playing[2],
                              !.out = IF player.fast THEN @ ELSE playing[2]]
  /\ heard' = IF player.fast THEN heard ELSE heard \cup {playing}
  /\ playStep' = "fed"
  /\ UNCHANGED <<job, stored, kind, pending, playQueue, workerVars, activePlay,
                 playing, faultVars, serviceVars, filtered, kept>>

\* TempoPlayer.forward: the filter's thread hands the next piece to aplay.
FilterForwards ==
  /\ player.up /\ player.out < player.fed
  /\ player' = [player EXCEPT !.out = @ + 1]
  /\ heard' = heard \cup {<<player.of, player.out + 1>>}
  /\ UNCHANGED <<job, stored, kind, pending, playQueue, workerVars, activePlay,
                 playing, playStep, faultVars, serviceVars, filtered, kept>>

\* The piece counts as played.  If the next one is there it is taken at once and
\* the save is left to its start; otherwise the thread waits, untimed.
PieceDone ==
  /\ playStep = "fed" /\ ~Stopping(Played)
  /\ LET counted == [job EXCEPT ![Played].played = @ + 1]
     IN IF NextIsPlayed
        THEN /\ job' = counted
             /\ playing' = Head(playQueue) /\ playQueue' = Tail(playQueue)
             /\ playStep' = "begin"
             /\ UNCHANGED stored
        ELSE /\ Save({Played}, counted)
             /\ playStep' = "next"
             /\ UNCHANGED <<playing, playQueue>>
  /\ UNCHANGED <<kind, pending, workerVars, activePlay, player, faultVars,
                 serviceVars, historyVars>>

NextPiece ==
  /\ playStep = "next" /\ ~Stopping(Played) /\ NextIsPlayed
  /\ playing' = Head(playQueue) /\ playQueue' = Tail(playQueue)
  /\ playStep' = "begin"
  /\ UNCHANGED <<job, stored, kind, pending, workerVars, activePlay, player,
                 faultVars, serviceVars, historyVars>>

\* Mutant: an empty queue is taken for the end of the task.
BugDrained ==
  /\ playStep = "next" /\ ~Stopping(Played) /\ ~NextIsPlayed
  /\ player.up /\ player.out = player.fed
  /\ job' = [job EXCEPT ![Played].status = "completed"]
  /\ playStep' = "reap"
  /\ UNCHANGED <<stored, kind, pending, playQueue, workerVars, activePlay,
                 playing, player, faultVars, serviceVars, historyVars>>

\* No piece is left: the player's input is closed and it has played everything.
Drained ==
  /\ playStep = "next" /\ ~Stopping(Played) /\ ~NextIsPlayed /\ job[Played].done
  /\ player.up /\ player.out = player.fed
  /\ job' = [job EXCEPT ![Played].status = "completed"]
  /\ playStep' = "reap"
  /\ UNCHANGED <<stored, kind, pending, playQueue, workerVars, activePlay,
                 playing, player, faultVars, serviceVars, historyVars>>

\* play_loop's own branch: one aplay for one piece.
MarkPiece ==
  /\ playStep = "open" /\ ~Stopping(Played) /\ kind[Played] = "pieces"
  /\ MarkPlaying(TRUE)
  /\ playStep' = "begin"
  /\ UNCHANGED <<kind, pending, playQueue, workerVars, playing, player,
                 faultVars, serviceVars, historyVars>>

OpenPiece ==
  /\ playStep = "begin" /\ ~Stopping(Played) /\ kind[Played] = "pieces"
  /\ player' = [of |-> Played, fast |-> FALSE, up |-> TRUE,
                fed |-> playing[2], out |-> playing[2]]
  /\ heard' = heard \cup {playing}
  /\ playStep' = "sound"
  /\ UNCHANGED <<job, stored, kind, pending, playQueue, workerVars, activePlay,
                 playing, faultVars, serviceVars, filtered, kept>>

PieceSounded ==
  /\ playStep = "sound" /\ ~Stopping(Played)
  /\ LET played == job[Played].played + 1 IN
     job' = [job EXCEPT ![Played].played = played,
                        ![Played].status = IF job[Played].done /\ played = Pieces[Played]
                                           THEN "completed" ELSE @]
  /\ playStep' = "reap"
  /\ UNCHANGED <<stored, kind, pending, playQueue, workerVars, activePlay,
                 playing, player, faultVars, serviceVars, historyVars>>

\* RuntimeError and timeouts: the player exits early or with an error, its pipe
\* stays full, or the next piece waiting is another task's.  Only an aplay for
\* one piece is killed before the task is shown as failed.
PlayerFails ==
  /\ playStep \in {"feed", "next", "sound"} /\ ~Stopping(Played)
  /\ playStep = "next" => ~NextIsPlayed /\ (job[Played].done \/ playQueue # <<>>)
  /\ job' = [job EXCEPT ![Played].status = "failed"]
  /\ playQueue' = Without({Played})
  /\ player' \in {Killed} \cup (IF kind[Played] = "pieces" THEN {} ELSE {player})
  /\ playStep' = "reap"
  /\ UNCHANGED <<stored, kind, pending, workerVars, activePlay, playing,
                 faultVars, serviceVars, historyVars>>

\* The finally clause, also reached from every look at the task that finds it
\* ended or the service closing.
Reap ==
  /\ \/ playStep = "reap"
     \/ playStep \in {"begin", "feed", "fed", "next", "sound"} /\ Stopping(Played)
  /\ Save({Played}, job)
  /\ activePlay' = NoJob
  /\ playing' = NoPiece
  /\ player' = NoPlayer
  /\ playStep' = "wait"
  /\ Prune
  /\ UNCHANGED <<kind, pending, playQueue, workerVars, broken, serviceVars,
                 historyVars>>

\* Anything else, a save that fails included, ends the thread; the finally
\* clause before it is part of the step.
PlayerDies ==
  /\ playStep \in {"open", "begin", "feed", "fed", "next", "sound", "reap"}
  /\ \E store \in BOOLEAN : FatalError(job, {Played}, store)
  /\ playStep' = "ended"
  /\ playing' = NoPiece
  /\ UNCHANGED <<pending, workerVars>>

PlaybackThread ==
  \/ TakePiece \/ Dropped \/ OpenStream \/ BeginStreamPiece \/ FeedPiece
  \/ PieceDone \/ NextPiece \/ Drained
  \/ MarkPiece \/ OpenPiece \/ PieceSounded
  \/ Reap \/ PlayerReturns

-----------------------------------------------------------------------------
(***************************************************************************)
(* Close, crash, restart                                                   *)
(***************************************************************************)

\* Mutant: only tasks still without audio are copied.
BugRestorable(j) == job[j].status = "processing"

\* "'playback_started_at' not in job"
Restorable(j) == ~job[j].started

\* close, under the lock: what was taken from the disk queue and not started is
\* copied, then all that was taken is cancelled, unless it cannot be listed.
Close ==
  /\ mode = "up"
  /\ LET taken == {j \in Unfinished \ pending : stored[j].status \notin TERMINAL}
     IN \/ /\ CancelJobs(taken)
           /\ restore' = {j \in taken : Restorable(j)}
           /\ UNCHANGED <<unstored, faults, lostStore>>
        \/ /\ ~unstored /\ unstored' = TRUE /\ lostStore' = TRUE /\ Faults(1)
           /\ UNCHANGED <<job, stored, pending, playQueue, restore>>
  /\ player' = Killed
  /\ mode' = "closing"
  /\ kept' = {j \in Unfinished : ~job[j].started}
  /\ UNCHANGED <<kind, workerVars, activePlay, playing, playStep, broken,
                 restarts, heard, filtered>>

\* What the process held is gone.
ProcessEnds ==
  /\ job' = [j \in Jobs |-> Absent]
  /\ playQueue' = <<>>
  /\ active' = NoJob /\ step' = "ended"
  /\ activePlay' = NoJob /\ playing' = NoPiece /\ playStep' = "ended"
  /\ player' = NoPlayer
  /\ broken' = FALSE /\ unstored' = FALSE
  /\ restore' = {}

\* close, once both threads have been joined: the copies wait again.
CloseEnds ==
  /\ mode = "closing" /\ step = "ended" /\ playStep = "ended"
  /\ \E saved \in SUBSET restore :
       /\ unstored => saved = {}
       /\ IF unstored \/ saved = restore THEN UNCHANGED <<faults, lostStore>>
          ELSE Faults(1) /\ lostStore' = TRUE
       /\ stored' = [j \in Jobs |-> IF j \in saved THEN OnDisk(Waiting)
                                    ELSE stored[j]]
       /\ pending' = pending \cup saved
  /\ mode' = "closed"
  /\ ProcessEnds
  /\ UNCHANGED <<kind, restarts, historyVars>>

\* The process is killed, while closing too (a join that times out after five
\* seconds leaves the same state).
Crash ==
  /\ mode \in {"up", "closing"}
  /\ mode' = "down"
  /\ ProcessEnds
  /\ kept' = {}
  /\ UNCHANGED <<stored, kind, pending, restarts, faults, heard, filtered,
                 lostStore>>

\* __init__: a task whose playback was started fails, every other unfinished
\* one waits again from its first piece.
Recovered(r) ==
  LET old == [Waiting EXCEPT !.status = r.status, !.started = r.started]
  IN IF r.status \in TERMINAL \cup {"none"} THEN old
     ELSE [old EXCEPT !.status = IF r.started THEN "failed" ELSE "queued"]

Restart ==
  /\ mode \in {"closed", "down"} /\ restarts < MaxRestarts
  /\ job' = [j \in Jobs |-> Recovered(stored[j])]
  /\ stored' = [j \in Jobs |-> OnDisk(job'[j])]
  /\ pending' = {j \in Jobs : job'[j].status = "queued"}
  /\ step' = "idle" /\ playStep' = "wait"
  /\ mode' = "up"
  /\ kept' = {}
  /\ restarts' = restarts + 1
  /\ UNCHANGED <<kind, playQueue, active, activePlay, playing, player,
                 faultVars, restore, heard, filtered>>

-----------------------------------------------------------------------------
Init ==
  /\ job = [j \in Jobs |-> Absent]
  /\ stored = [j \in Jobs |-> OnDisk(Absent)]
  /\ kind \in Kinds
  /\ pending = {}
  /\ playQueue = <<>>
  /\ active = NoJob /\ step = "idle"
  /\ activePlay = NoJob /\ playing = NoPiece /\ playStep = "wait"
  /\ player = NoPlayer
  /\ broken = FALSE /\ unstored = FALSE
  /\ mode = "up" /\ restore = {} /\ restarts = 0 /\ faults = 0
  /\ heard = {} /\ filtered = {} /\ kept = {} /\ lostStore = FALSE

Requests ==
  \/ \E j \in Jobs : Submit(j)
  \/ \E j \in Jobs : Cancel(j) \/ CancelFails(j)
  \/ Stop
  \/ Close

Failures ==
  \/ StopFails
  \/ WorkerFails \/ WorkerFatal \/ WorkerDies
  \/ PlayerFails \/ PlayerDies
  \/ Crash

Next ==
  \/ Requests \/ Failures
  \/ SynthesisThread \/ PlaybackThread \/ FilterForwards
  \/ CloseEnds \/ Restart

Spec == Init /\ [][Next]_vars

\* The threads are scheduled, the runtime and the player answer or fail within
\* their time limits, and close goes on when the threads have ended.
FairSpec ==
  /\ Spec
  /\ WF_vars(SynthesisThread) /\ WF_vars(PlaybackThread)
  /\ WF_vars(FilterForwards) /\ WF_vars(CloseEnds)

-----------------------------------------------------------------------------
(***************************************************************************)
(* Properties                                                              *)
(***************************************************************************)

WorkerSteps == {"synth", "join", "end"}
PlaySteps == {"open", "begin", "feed", "fed", "next", "sound", "reap"}
PieceNumbers == UNION {1 .. Pieces[j] : j \in Jobs}

\* Type invariant of the service's state.
TypeOK ==
  /\ job \in [Jobs -> [status : Statuses, made : Nat, played : Nat,
                       done : BOOLEAN, started : BOOLEAN]]
  /\ stored \in [Jobs -> [status : Statuses, started : BOOLEAN]]
  /\ kind \in [Jobs -> AllKinds]
  /\ pending \subseteq Jobs
  /\ playQueue \in Seq(Jobs \X PieceNumbers)
  /\ active \in Jobs \cup {NoJob} /\ step \in WorkerSteps \cup {"idle", "ended"}
  /\ step \in WorkerSteps => active \in Jobs
  /\ activePlay \in Jobs \cup {NoJob}
  /\ playStep \in PlaySteps \cup {"wait", "ended"}
  /\ playing \in (Jobs \X PieceNumbers) \cup {NoPiece}
  /\ playStep \in PlaySteps => playing # NoPiece
  /\ player \in [of : Jobs \cup {NoJob}, fast : BOOLEAN, up : BOOLEAN,
                 fed : Nat, out : Nat]
  /\ broken \in BOOLEAN /\ unstored \in BOOLEAN /\ lostStore \in BOOLEAN
  /\ mode \in {"up", "closing", "closed", "down"}
  /\ restarts \in 0 .. MaxRestarts /\ faults \in 0 .. MaxFaults
  /\ restore \subseteq Jobs /\ kept \subseteq Jobs
  /\ filtered \subseteq Jobs
  /\ heard \subseteq Jobs \X PieceNumbers

\* A task of which something may have been heard is never one that a restart
\* would play again: it is on record as started or ended, as long as storage
\* works and the tempo filter is not used.
HeardOnRecord ==
  \A j \in Jobs : \A p \in PieceNumbers :
    <<j, p>> \in heard =>
      stored[j].started \/ stored[j].status \in TERMINAL
        \/ j \in filtered \/ lostStore

\* A task that is shown as completed with playback was heard to its end.
CompletedWasHeard ==
  \A j \in Jobs : job[j].status = "completed" /\ kind[j] # "silent" =>
    \A p \in 1 .. Pieces[j] : <<j, p>> \in heard

\* The records and what came out of the loudspeaker agree.
RecordIsTrue == HeardOnRecord /\ CompletedWasHeard

\* A task that ended stays ended on disk, whatever the threads save afterwards
\* and however the service is stopped and started; only the end of an orderly
\* shutdown puts back what it has to keep.
EndedStaysEnded ==
  [][\A j \in Jobs : stored[j].status \in TERMINAL =>
       \/ stored'[j].status \in TERMINAL
       \/ mode = "closing" /\ j \in kept]_vars

\* An orderly shutdown keeps every unfinished task that was not started: none
\* stays behind as cancelled.
CloseKeepsTasks ==
  mode = "closed" /\ ~lostStore =>
    \A j \in kept : stored[j].status = "queued" /\ j \in pending

\* While the playback thread waits for more of a task, no other task's piece
\* comes first: "playback order changed before completion" cannot happen.
BlocksStayTogether ==
  playStep = "next" /\ ~Stopping(Played) /\ ~job[Played].done =>
    \A i \in 1 .. Len(playQueue) : playQueue[i][1] = Played

\* Pieces reach the device in the order of the tasks and of their pieces, across
\* cancellations, failures and restarts.
PiecesInOrder ==
  [][~lostStore => \A piece \in heard' \ heard :
       /\ \A p \in 1 .. piece[2] - 1 : <<piece[1], p>> \in heard
       /\ \A j \in piece[1] + 1 .. NJobs, p \in PieceNumbers :
            <<j, p>> \notin heard]_vars

\* One player serves the pieces of one task, and what was said first is heard first.
HeardInOrder == []BlocksStayTogether /\ PiecesInOrder

\* Nothing more of a task reaches the device once it is cancelled or completed,
\* or the service is closing.
CancelledIsSilent ==
  [][\A piece \in heard' \ heard :
       job[piece[1]].status \notin {"cancelled", "completed"} /\ ~Closed]_vars

\* What ended is neither heard nor revived.
EndIsFinal == EndedStaysEnded /\ CancelledIsSilent

\* Every admitted task ends while the service is up and sound, and close gets past
\* its threads: again and again the service comes to rest, so neither thread waits
\* for ever for the other, nor for a piece, room or a player.
AtRest == mode # "closing" /\ (mode = "up" /\ ~broken => Unfinished = {})
ComesToRest == []<>AtRest

\* After an orderly shutdown nothing of which audio has reached the device is
\* kept for a later start.
ClosedKeepsUnheard ==
  mode = "closed" /\ ~lostStore =>
    \A j \in pending : \A p \in PieceNumbers : <<j, p>> \notin heard
=============================================================================
