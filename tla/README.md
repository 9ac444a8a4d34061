# Mozart: specifications, model checking and proofs

TLA+ models of the Mozart voice system (voice capture and routing, realtime
voice conversion, file conversion, translated captions and reference speech),
the TLC runs that check them on small instances, and TLAPS proofs for any size
of instance. `PROJECT.json` lists the runs, the code each definition models, the
hazards the properties are for, the findings and the theorems.

    tlc -config MCModeController.cfg MCModeController     # one run
    tlapm ModeControllerProofs.tla                        # the proofs of one module

## 1. The system

Mozart is a set of processes on one Jetson board.

    microphone -> mozart-pre (C: ALSA, noise suppression)
                    -> UDP -> mozart_stated (C++: realtime RVC) -> UDP -> mozart-pre -> speaker
                    -> UDP -> stt_service -> subtitle_bridge (Python) -> captions (JSONL, SSE)
                                               -> speech_service (Python: TTS, playback)
    browser -> HTTP API of mozart_stated (modes, files, models) and of speech_service

| Component | State it keeps | Operations | Hard behaviour | What makes it correct |
| --- | --- | --- | --- | --- |
| Control plane `ModeController` with `FileRvcWorker` (rvc-backend/src/state) | mode, deferred mode switch, job list, cancel flags, routing, cached files; the pipeline's model and parameters | mode, model, routing, parameter, upload, cancel, pause, remove, clear requests; file thread; shutdown | HTTP threads against the file thread, which leaves the mutex for minutes; cancellation; failing model loads; shutdown | one user of the pipeline; files converted with the model asked for; no source lost; switches, cancellations and shutdown end |
| Realtime session `RealtimeRvcWorker`, `AudioWorker`, `UdpStream`, `SpscRing` | worker threads, socket, frame ring, client, mute and bypass | start, route, stop, receive, read, answer | start and stop against running threads, a second client, overflow of the ring, waiting threads | one client's voice goes to that client; mute silences; stop returns and leaves nothing running |
| Realtime conversion `StreamingRvc` (rvc-backend/src/rvc) | input ring and counters, generation, output ring, crossfade tail | push, pop, window read, join, emit, reset, re-anchor | three mutexes, a reset while a block is in conversion, backlog, overruns | windows never span a discontinuity, old sound comes to an end, joins are close, no stall |
| Preprocessor `mozart-pre` (preprocessor/src/main.c, playback.c) | route asked for and in force, fade, frames sent and played, status | period loop, route and stage requests, playback of replies, status file, exit | four threads on one playback device, requests during a fade, signals, failing devices, late replies | routes do not mix, a switch is a fade, requests and signals take effect, status and exit code tell the truth |
| Capture process control: `PreControl` and `run-realtime-voice.sh` | pid file, status file, the session's client | choose devices, pre-restart, stop | overlapping scripts, time limit that kills half of them, reuse of process identifiers | never signals another program; stop leaves no mozart-pre behind; the session listens to the new one |
| Subtitle bridge `CaptionDispatcher` (tools/subtitle_bridge.py) with the recogniser's `UtteranceRefiner` | latest record per utterance, translation queue (in memory or on disk), refinement results, the recogniser's finals and jobs | final, refine, accept, translate, publish, close, restart | three threads that publish, full queues, refinement deadline, crash between publishing and storing, a close that gives up | every final caption is translated from its own words or marked; what is shown last is newest |
| Speech delivery `SpeechOutbox`, `AdmissionLedger`, durable queues (tools) | SQLite rows: state, attempts, notified; admissions | enqueue, attempt, retry, notify, acknowledge, restart | lost answers, crash between two commits, abort | each utterance admitted at most once, no result lost |
| Reference speech service (tools/speech_service.py) | job records in memory and on disk, waiting queue, playback queue, player and tempo filter | submit, synthesise, play, cancel, stop, prune, close, restart | two threads and a player process, failing stores, crash while sound is played | ended tasks stay ended and silent, heard audio is on record, order of sound, nobody waits for ever |
| HTTP API, daemon (api, state) | connections, uploads | request parsing, dispatch, SSE, shutdown | connection limits, slow clients | bounded threads, ordered shutdown |
| Pipeline, model loader, numeric inference | current model, caches | load, switch, process | partial model loads | the old model stays on failure |
| USB audio bridge (usb-audio) | framing state, rings, links | send, receive, reconnect | unplugging, resynchronisation | frames never mixed |
| Supervision, console, monitor | process table, displayed state | start, stop, poll | partial starts | cleanup |

The components talk through HTTP (browser to both services, bridge to speech
service), UDP contract frames of 20 ms (preprocessor, backend, recogniser), a
control socket (backend to preprocessor), the pid and status files (launcher,
`PreControl`, mozart-pre) and, inside `mozart_stated`, through mutex-protected
objects: `ModeController` owns the one `RVCPipeline`, creates and destroys the
realtime worker, and runs the file thread.

## 2. Modules

| Module | Models |
| --- | --- |
| `PipelineLease` | what the control plane promises about the pipeline (abstract) |
| `ModeController` | `ModeController`, its file thread and `FileRvcWorker` |
| `RealtimeSession` | `RealtimeRvcWorker`, `AudioWorker`, `UdpStream` and their threads |
| `StreamingRvc` | the realtime sliding-window converter |
| `Preprocessor` | `mozart-pre`: main, playback, control and status threads |
| `CaptureControl` | `PreControl::set_devices` and the launcher's `pre-restart` and `stop` |
| `SpeechIds` | the utterances and the kinds of answers, shared by both ends of speech delivery |
| `SpeechPromise` | what speech delivery promises about an utterance (abstract) |
| `SpeechOutbox` | the bridge: `CaptionDispatcher`, its work queue, `SpeechOutbox` and its thread |
| `SpeechAdmissions` | the admission side of `SpeechService`, with `AdmissionLedger` |
| `SpeechDelivery` | both, over HTTP |
| `Captions` | recogniser, refiner and bridge: what is published of an utterance, and when |
| `SpeechWorkers` | synthesis, playback, cancellation, close and restart of `SpeechService` |
| `MC...` | the instances for TLC |
| `...Proofs` | inductive invariants and refinements, proved |

Where two modules meet: `ModeController.realtime` is what `RealtimeSession`
details, whose inference thread is the one of `StreamingRvc`; the rebuilt session
at the end of `CaptureControl` is `RebuildSession` of `ModeController`;
`Preprocessor` is one of the processes that `CaptureControl` starts and stops;
`SpeechWorkers` takes over a task where `SpeechAdmissions` has admitted it;
`Captions` and `SpeechOutbox` are two views of the bridge, the first with what is
published and a row of the outbox as a counter of its states, the second with the
row's delivery and a caption as a name. They
are composed where one end can break what the other promises (`SpeechDelivery`);
the rest meets at one request, whose outcome the other module leaves open.

### ModeController

Every public operation takes `mutex_` for its whole body, so it is one action.
The file thread holds the mutex only at the head of its loop, in parts of
`process_job` and in `evict_cache`'s look at the jobs; in between requests
interleave. Its position is the variable `step`:

| step | code |
| --- | --- |
| `waiting`, `ready` | `file_loop`: blocked in, or about to evaluate, `jobs_changed_.wait` |
| `begin` | `FileRvcWorker::process`, before and around the model switch (no controller mutex) |
| `decode`, `infer`, `encode`, `publish` | its stages; each ends with a look at the cancel flag |
| `finish` | `process_job` after the worker returned |
| `evict` | `evict_cache` |
| `deferred` | back in `file_loop`, before the deferred mode switch is looked at |
| `exited` | the loop is over |

`notify_all` is `Woken`: it turns `waiting` into `ready`. An operation that does
not notify leaves `step` alone, so a lost wakeup is expressible (and
`SpuriousWakeup` is not fair, so it cannot hide one). `Transition` is
`transition_locked` with its three outcomes: model load failed, realtime start
failed, success. Files are sets of jobs: committed sources, published outputs,
temporary files. A job that is erased frees its identifier for a new upload.
The cache size is not counted: eviction may take any file that the code does not
protect.

`FinishShutdown` includes the destruction of members: `FileApplyDeferred` does
not look at `shutting_down_` (mode_controller.cpp:627), so a deferred switch to
realtime can start a worker after the destructor stopped realtime; the
`unique_ptr` member ends it.

### RealtimeSession

The thread that holds the controller's mutex has the position `request`, from
opening the stream (`OpenStream`) over starting the threads and setting mute and
bypass to the stop, step by step. The receive thread takes a packet, decides
about its owner and appends it under `input_mutex_`, dropping the oldest frame
of a full ring. The pump (`AudioWorker::process_loop`) tests and waits
(`dozing` still holds the mutex, `asleep` has given it up), reads mute and bypass
in two steps as the code does, takes the address of its answer and sends. A lost
wakeup is expressible: only a notification moves a pump that is asleep. Until
`SetMuted` and `SetBypass` have run, a new worker works with its own default
flags (the window listed below as an uncovered hazard); `MutedIsSilent` speaks of
frames read after the mute was in force. What the inference thread makes of the
frames is left to `StreamingRvc`; here it runs or has ended.

### StreamingRvc

Lengths are in contract frames (20 ms). A frame is known by its stream (the
stretch of input between two discontinuities) and its position in it, so the
properties can tell what audio a window, the tail or the output ring holds.
`push` is three actions, because it takes `cv_mutex_` and the other mutexes for
the discontinuity, `ring_mutex_` alone to append, `cv_mutex_` alone to count.
The inference thread's position is `inference`: the locked turn of the loop
(`loop`), the unlocked second look at the generation (`recheck`), the locked
part of `try_process_one` (`take`), the conversion (`infer`), a silent block
(`quiet`), the check of the generation (`check`) and the unlocked rest (`emit`).
`profile` chooses the sliding window, the upstream realtime or the quality (full
history) configuration of `AudioWorker::start`. While the microphone is muted or
bypassed the pump neither pushes nor pops, which the model covers by the pump not
moving and a discontinuity when it resumes. Gaps of up to four frames are not
discontinuities in the code; positions count the frames that were pushed.

### Preprocessor

The unit of sound is the chunk written to the device at once; a fade lasts
`FadeChunks` of them and `fade.gain` counts in that step. `main` is where the main
thread is, from the command line to its exit; `player` the playback thread, which
reads `route_cur` once per reply and then waits for the device; `holder` the owner
of `write_mutex`; `writer` the thread that writes the status file. The control
thread is `SetRoute`, the signal handler `Signal`. `Halted` is `io_should_stop`,
which every wait asks. The backend is the set `net` of replies under way, in any
order, some lost.

What the model shows of the code and no property forbids: without `-o` a switch
back to "ai" never completes, since the fade is driven by chunks that are written;
on the USB endpoint the read waits for the host without asking for a stop, a
remainder below one chunk of the direct sound is dropped, and a request for the
backend that comes during the fade-in cuts over when that ends, without a fade; a
request taken back during a fade-out lets the fade-out run to its end, after which
direct sound returns at full level; so are frames behind the fade-out in the same
period. `RoutesChangeCleanly` bounds exactly what is left.

Left out: the stage switches (they change sound only), the second target, the
clock of the replay and a failing `pack_frame`, statistics.

### CaptureControl

A script (a PUT's `pre-restart`, one typed by an operator, a `stop`) is a process
with a position in `run-realtime-voice.sh`; between any two of its steps other
scripts and the processes of the machine move, mozart-pre may end, and its
identifier may be given to another program (`Fork`). A pidfd is the process it
was opened for. `PreControl`'s time limit may kill the shell of a PUT at any step;
the child that is signalling goes on (`killed`). The time limits of the script's
own waits may expire at any time.

Left out: the pid file of the stack with `start` and its trap, the devices file,
descendants of a killed process, and a rebuild that fails (`ModeController` has
it). That mozart-pre opens the control port, is ready and says so is one step
(`PreReady`), though devices and sockets are opened in between; one that fails there
ends while it is starting (`PreEnds`).

### SpeechOutbox, SpeechAdmissions, SpeechDelivery

A final caption is put into the bridge's durable work queue; the translation
thread takes it, and a translation becomes a row of the outbox table; the
delivery thread posts the rows, oldest first, to the speech service, which makes
a synthesis task of an utterance it does not know.

In `SpeechOutbox` each SQLite transaction is one action, and so is each passage
under the dispatcher's lock, except for `enqueue_speech`, which holds that lock
over several transactions (`LockHeld`). Both threads have a position:

| thread | position | code |
| --- | --- | --- |
| `dispatch` | `idle` | head of `process_pending` |
| | `restore`, `restored` | between `lookup`, `speech_update` and `acknowledge` of an item that has its row |
| | `translate` | up to the insertion of the row or the failure of the translation |
| | `announce`, `announced` | the rest of `enqueue_speech` |
| | `done` | before `task_done` |
| | `joining`, `ended` | in `SpeechOutbox.close`, after it |
| `deliver` | `loop`, `next`, `check` | `run`: `_notify`, `_next`, the look at `closing` |
| | `publish`, `acknowledge` | inside `_notify`, called from `run` or, with `target` set, from `_attempt` |
| | `marked`, `send`, `waiting` | inside `_attempt`: row marked as sending, before and after the request |

`work`, `order`, `row`, `attempts` and `notified` are what the databases hold and
survive `BridgeStops`; the rest is lost. A crash may come at any step, a restart
does what the constructors do (`Recover`, leases dropped). The model is that of
the coverage policy, with its durable work queue; close with a deadline
(`CloseTimesOut`) is an argument of `CaptionDispatcher.close`.

`SpeechAdmissions` takes each request as one step, since `route` holds
`SpeechService.lock`, and keeps of a job its stored record. Each place where a
store can fail is a choice: an admission may fail with nothing, the record or
the record and the ledger entry written (`AdmitFails`); a stop may fail before or
after the cut-off is stored (`StopFails`). `health` keeps apart the errors that
stop the service in memory (`worker_error`) and `storage_failed`, after which
nothing is stored. `created`, `sent`, `accepted` and `silenced` are history
variables.

Abstracted: the length of the retry wait (the thread takes its time), which
ended jobs the history limit gives up (any), the budgets and profiles that refuse
a request (a choice in `Decline`), the policy after a restart (which interrupted
tasks fail and which wait again is a choice), the time of a caption (a stop bars
what the bridge had accepted).

In `SpeechDelivery` a request carries its attempt number; any number may be
under way, because the bridge stops waiting after its timeout while the service
still handles the request. They are handled in any order, or lost; an answer
counts while the delivery thread still waits for that attempt.

### Captions

| thread | position | code |
| --- | --- | --- |
| `main` | `reading`, `storing` | the loop over the recogniser's output; `accept` between publishing a final and `put_nowait` |
| | `closing`, `leaving` | in `close`, behind it |
| | `exited`, `down` | the process has ended, or was killed |
| `worker` | `idle`, `await`, `translate` | `process_pending`: head of the loop, `await_refinement`, `caption_updates` |
| | `context`, `enqueue` | the copy of the record, and the wait for the lock of `enqueue_speech` |
| | `announce`, `announced`, `restore`, `restored` | `speech_update` and `acknowledge` of a new row, of an item that has one |
| | `done`, `joining`, `ended` | `task_done`; `SpeechOutbox.close`; behind it |
| `notice` | | what the delivery thread holds between `_notify`'s read and its `acknowledge` |

`Locked` is `CaptionDispatcher.lock` where it is held over several steps; every
other hold of it is one action. An utterance is the session and its number in it,
since every session counts from one. A record has the revision, the outcome of the
translation, whose refined words it was made from (`source`), and the state of the
row it tells of (`news`). `durable` is the delivery policy: with it the queue and
the records of its items (`saved`) survive a crash, without it the queue has a limit
and `close` a deadline. `row`, `context` and `told` are the outbox, which survives
under both policies. `Delivering` says until when the delivery thread works: an
abort reaches it when the translation thread has left its loop. `last` is what has
been written to the captions file, and `unstored` a history of the stores that a
crash or an abort cut off.

Abstracted: what captions and translations say (a translation is a success or a
failure; a refinement is used or not), the length of deadlines (a wait ends when it
likes, `close` may give up at any time), errors nobody expects (`WorkerFails`,
`EnqueueFails`: at every step of the translation thread that can raise one). Left
out: partial captions, which only precede their final; stable clauses; the
forgetting of all but the latest 128 records.

### SpeechWorkers

Each action is one hold of `SpeechService.lock`, or a stretch without it that
another thread can see. `job` is the record in memory, `stored` what a restart
reads; `Save` is `save_job` with `sync_playback_start`, and does nothing once
storage has failed. `step` and `playStep` are the two threads; `player` is the
player process with the tempo filter in front of it or not, and counts the pieces
that went in and that came out, so the model knows what was heard. `FatalError`,
`Prune` and the failing stores are charged to `MaxFaults`. `Close` is
`SpeechService.close` with its copies (`restore`); `Crash` may come at any step.

Abstracted: how a task is played and how many pieces it has are fixed per
instance; only the coverage policy; a write that is under way when the player is
killed; the moment between `os.write` and `first_audio_at`. Where the code loses
track (with a tempo filter, or after a failed store) the properties say so
(`filtered`, `lostStore`): the first is the finding `replay`, the second what
`storage_failed` stands for.

## 3. Runs

| Run | Instance | Shows |
| --- | --- | --- |
| `control` | 2 jobs, 2 models, 1 parameter set, 1 routing, depth 2; 475,922 states | mode and worker agree, deferred switches, files, requested model, completion, refinement of `PipelineLease`, and that switches, jobs, cancellations and shutdown resolve |
| `session` | 2 clients, 4 frames over a ring of 2, 2 sessions, 2 routing requests; 347,374 states | one client's voice, mute, nothing left after a stop, no lost wakeup |
| `stream` | hop 2, window 3, lookahead 1, rings of 7 and 5, 2 streams of up to 15 frames; 1,156,087 states | ring, counters, resets, joins, progress |
| `preprocessor` | 4 command lines (replay played, microphone played, recording sent with a status file, USB), fades, frames and enhancer bursts of 2 chunks, 2 route requests, frames told apart up to 2; 913,233 states | routes, fades, exit code and status file, requests and signals take effect |
| `capture` | 2 PUTs and a stop, 2 identifiers, 3 processes, symmetry on the PUTs; 5,818,718 states | nobody else is signalled, stop reclaims, the session follows |
| `outbox` | 2 captions, 2 attempts; 771,041 states | attempt limit and order, no caption lost, every row resolves |
| `delivery` | 1 caption, 2 attempts; 1,823,054 states | refinement of `SpeechPromise` |
| `captions` | 2 finals, 2 sessions (the second under the coverage policy), room for 1 item and 1 refinement, 2 states of a row; 1,082,327 states | nothing is forgotten, own words, last words are newest, the bridge ends |
| `workers` | 2 tasks of 2 and 1 pieces, room for 1, 1 fault, 1 restart; 1,329,800 states | order of sound, record, ended tasks, shutdown, no mutual waiting |
| `stale_tail` | the instance of `stream` | finding |
| `repeated_stop` | the instance of `delivery` | finding |
| `replay` | 1 task of one piece, 1 restart | finding |

Every property of a passing run is falsified by a mutated definition (`Bug...`,
next to the definition it mutates), listed under "mutants". Properties that are
conjunctions (`RequestsResolve`, `JobsKeepTheirFiles`, `ModeIsHonest`,
`ConversionIsOwn`, `InputKept`, `OldSoundEnds`, `JoinsAreClose`, `RequestsInBounds`,
`RecordIsTrue`, `HeardInOrder`, `EndIsFinal`, `ExitOnRecord`, `RoutesChangeCleanly`,
`CommandsTakeEffect`, `OrderAtRest`) have a mutant for each of their parts where
one mutant cannot serve both.

**Bounds.** In `control` one job converts while another waits, or is refused
because both places are taken, or has finished; two models are the current one
and the wanted one. A second routing multiplies the liveness graph beyond what is
useful: that a rebuilt worker gets the routing last asked for is the part of
`ModeIsHonest` that `ModeTellsTheTruth` proves for every set of routings, and
`RealtimeSession` checks that the flags so set silence the microphone. In
`session` the ring of two frames overflows with the third frame, and each of two
clients can be first. In `StreamingRvc` the lengths keep the order of the real
ones: hop < window < ring, window not a multiple of the hop, the output ring not a
multiple of a block, the reserve at most the ring. Fifteen frames of a stream
overrun the input ring, fill the output ring, let the quality profile re-anchor, and
overwrite a full history once more, so that `ring_head_` is at 0 again and a join
leaves a whole ring out (`QualityJoinsInStep`; the case is reached from the fourteenth
frame on). Two streams give one
discontinuity at any point; what a second one could add is a third generation, and
the code compares generations with equality only.

In `preprocessor` a fade of two chunks has a first, an inner and a last gain; a
period yields none, one or two chunks, so a fade spans periods and a period spans
fades; two requests are one and its reversal at any moment. Frame numbers stick at
`MaxSent`, so a long run is folded into the last number and liveness is checked on
a finite graph. `capture` needs two identifiers for one to be taken by another
program while the other is the new mozart-pre, and three processes for the first
to end, be replaced and be confused; a `pre-restart` typed by hand (`Hands`) differs
from a PUT only in that no session is rebuilt and no time limit kills it, and is left
to the proofs, which cover any number of them. In `captions` the second final finds
the queue or the refiner full or the first still under way; a second session restores
what the first has left and reuses its numbers; two states of a row are the insertion
and one change that overtakes it. In `outbox` two captions are one that is
blocked, retried or interrupted and one behind it; two attempts (three in the code)
give a first one, a last one and the row that has reached the limit. Crashes,
restarts, aborts and closes are not bounded. `delivery` has one caption, because the
service decides about each utterance alone (the properties of order are those of
`outbox`); two attempts give the retry whose predecessor is still under way, and
the number of crashes, failed stores, stops and sessions is not bounded either.
`workers` has a long task and a short one behind it, the buffer room for less than
the long one, and every kind of playback in front of another; the fault may be any
failing store, worker or player.

**Fairness.** `FairSpec` of `ModeController` has weak fairness of the file
thread and of the destructor's end: the operating system schedules a runnable
thread, and the worker's stages end (FFmpeg has a timeout, inference is finite).
Nothing is assumed of requests, and a blocked thread has to be woken by a
notification. `RealtimeSession`: weak fairness of the request under way, of the
receive thread (its socket has a timeout), the pump and the end of the inference
thread, which looks at `running_` every 50 ms; nobody has to send or to ask.
`StreamingRvc`: weak fairness of the inference thread, which polls at least every
50 ms; the pump may stop at any point. `LiveSpec` of `SpeechOutbox`: weak fairness of
the two threads (every request has a timeout, `REQUEST_TIMEOUT_SECONDS`, so an
attempt ends without an answer too) and of `main`'s return after `close`; captions,
close, crashes and restarts may never come. `DeliveryResolves` is promised only to a
bridge that keeps serving. `SpeechWorkers`: weak fairness of the two threads, of the
tempo filter and of `close`: the runtime and the player answer, or fail within
their time limits. `Preprocessor`: weak fairness of the main thread (except in the
read of the USB endpoint, whose host need not send), of the player, whose write ends
or gives up after a second, and of the status writer; strong fairness of a period
that yields sound, since the enhancer holds back only a bounded number of samples.
`Captions`: weak fairness of the main thread, of the translation thread and of the
delivery thread: the waits for a refinement, the translator and the speech service
have time limits. The recogniser may run for ever; `ComesToAnEnd` speaks of the time
after its end. `CaptureControl` has safety properties only.

`CHECK_DEADLOCK FALSE` stands where the system may really stop: after the
destructor, after the program's exit or the last permitted start, and when the
input, the sessions or the scripts end.

## 4. Proofs

`ModeControllerProofs` proves, for every set of jobs (finite), models,
parameters and routings and every queue depth:

- `Invariance`: `IInv` is inductive. The safety properties are not inductive by
  themselves: that the active job is the current one needs to know where the
  file thread holds a job (`CurIsHeld`) and that the queue lists each queued job
  once (`QueueListsQueued`); the requested model needs that file mode cannot end
  while a job is held and that the realtime worker runs in its mode only
  (`RealtimeOnlyInItsMode`); a completed job's output needs `SuccessIsPublished`
  and `CancellingIsFlagged`. There is one lemma per action (`...Keeps`), put
  together in `NextKeeps`.
- the safety properties of `control` (`TypeCorrect`, `ModeTellsTheTruth`,
  `ConversionIsTheJobs`, `FilesAreKept`) and `QueueIsBounded`, from `Invariance`;
- `CompletionIsPublished`, an action property, from the invariant and one case
  per action that changes a job's state; with `FilesAreKept` it is `JobFilesAreKept`;
- `ImplementsLease`: each step of the controller is a step of `PipelineLease`
  or leaves its variables alone, with the users of the pipeline read off `step`
  and `realtime`.

`RealtimeSessionProofs` proves `SessionTypes`, `VoiceIsTheClients`, `MuteSilences`
and `NothingOutlives` for any clients, ring and number of sessions. `OwnVoiceOnly`
speaks of one moment of the pump; that it holds there needs that everything in the
ring and in both threads' hands belongs to the one client (`OneClient`), and that the
client is forgotten only when the receive thread has ended (`Phases`, which ties
each position of the request to what may still run). `MutedIsSilent` needs where the
mute that was in force has got to (`MuteKnown`).

`StreamingRvcProofs` proves `StreamTypes`, `InputIsKept` and
`OldSoundComesToAnEnd` for any lengths, any number of streams and frames.
`OldOutputBounded` is a number; induction needs to know where the old sound is: at
the front of the output ring (`OldFirst`), and no more of it can come once the
block in conversion is out (`WindowKnown`). `BacklogNotNegative` needs that a window
is not ready while nothing is counted (`RingHasPushed`).

What a block is joined to (`JoinsAreClose`) rests on a second invariant, `JoinInv`: the
tail and the window in hand were taken from the stream one after the other. What was
taken last is known from `owned_` up to the frame that `push` has stored and not yet
counted (`LatestTaken`, `Counted`), and in the quality profile from the place where
the history is anchored, which a push leaves alone (`AppendKeepsAnchor`).
When the head of a full ring comes round to 0 (`AppendMovesAnchor`), the history seems
to be anchored a ring later, so a block taken before may lag behind by whole rings
(`Lost`, `Rings`). `BlocksFollow` says of every behaviour, for streams of any length,
that nothing but whole rings is left out of a join, and only when the stream has pushed
another ring since; so in a stream shorter than two rings the quality profile's joins
are consecutive. `RealtimeBlocksFollow` is the part about the other profiles.

`CaptureControlProofs` proves `CaptureTypes` and `OnlyItsOwn` for any number of
scripts, identifiers and processes: a script that has reached a signal holds a
process that is no other program, because it has compared the start time or opened
the pidfd before it looked at the command line (`Aimed`), and an identifier's
process is told apart from its successor by its start (`Known`). `MachineIsInOrder`
speaks of scripts that ran one after the other, and is proved from `Order`: one script
is under way at most (`Alone`), it knows of every mozart-pre that runs, step by step
(`Managed`), what runs is in the pid file or about to be entered (`OnRecord`), a script
killed by its time limit has answered nothing (`KilledIsNoAnswer`), and the request
answered last is the one the session listens to (`Answered`).

`SpeechDeliveryProofs` first takes the bridge alone. It proves, for every finite set
of captions and every limit of attempts, against a service that answers anything or
nothing: `OutboxTypes`, `RequestsAreInBounds` and `CaptionsKept`. All follow from
`IInv` of `SpeechOutbox`, whose parts are needed for this:

- `AttemptLimit` is lost unless an attempt is counted before its request leaves
  (`AttemptsCounted`), which needs that only the row of the attempt under way is
  marked as sending (`AttemptHeld`).
- `DeliveredInOrder` speaks of requests; induction needs the stronger
  `TriedInOrder` (a row that has left "queued" counts as tried too), that a row
  stands once in the table (`RowsListed`), and that `ORDER BY rowid LIMIT 1` is
  the least index (`LeastIndex`, from well-foundedness of the naturals).
- `NothingDropped` needs what the translation thread knows of its item when it
  gives the item up (`ItemKnown`): it has its row, or its rejection was shown.

Then it puts the service beside it. `DeliveryInv` adds that an
utterance has one task exactly if its job record or its ledger entry is there
(`OneTask`) and that an answer "job" under way tells of a task (`AnswersTrue`).
`SubmitFacts` and `ServiceFacts` show what each side of the admission does to
that; `BridgeIsOutboxStep` lets the bridge's invariant be reused as it is. From it
follow `DeliveryTypes` and `ImplementsPromise`: each step is a step of
`SpeechPromise` or a stutter.

`PreprocessorProofs` proves `PreTypes`, `RoutesApart` and `SwitchesAreFaded` (together
`CleanChanges`) and `EndOnRecord` for any command lines, any lengths of frames, fades
and bursts and any number of requests. `RoutesNotMixed` counts what is written late; induction needs to
know which reply the player still holds and how much of the period is left
(`LateKnown`). `SwitchIsFaded` needs that the gain never exceeds what remains of a
fade-out (`FadeKnown`). `ExitOnRecord` speaks of the end: it needs whom the main
thread has joined (`Phases`), that a reply counts as played on the backend's route
only once it was heard (`RepliesKnown`), what the drain has established
(`DrainKnown`) and that nobody else speaks of the end (`EndKnown`).

`CaptionsProofs` proves `CaptionsTypes`, `WordsAreOwn` and `NothingIsForgotten` for
any number of utterances and sessions, any limits of the queues and both policies.
`Inv` is what they rest on: what memory and the stored items have is what was
published last (`RecordsAgree`), since a record that is older would bring back
"pending"; only translated utterances have rows, and what the threads hold for a row
is its own (`RowsTranslated`); how the bridge may come to its end (`EndsInOrder`); the
item in hand is finished only when its last word is said (`WorkIsPending`); and a
final is in the pipe until it is published (`FinalsHeard`), without which a bridge that
closes could leave one unsaid. There is one lemma per part and group of actions.
`UpdatesComeInOrder` needs two things more. An update starts from the record that was
published last, or from the row; so a stored item always has a record and an item in
hand its record or row (`BasesKept`), or a revision would be used again. And the
outcome of a translation stays only if nothing that still waits in this session has
one, until an abort (`UndecidedWork`): that is why a late translation is dropped.

`SpeechWorkersProofs` proves the safety properties of `workers` (`TypesHoldAlways`,
`RecordsAreTrue`, `ClosingKeepsTasks`, `EndsAreFinal`, `SpeechIsHeardInOrder`) for any
number of tasks and pieces, every kind of playback, any room in the buffer and any
number of faults and restarts. `IInv` says

- in which order pieces wait (`Queue`): sorted, behind the one in hand, none missing.
  It holds because a task is begun only when every earlier one has been made (`InTurn`);
- what the counts of a record say of the pieces made, waiting and in hand (`Counts`),
  and what has come out of the player in hand (`Sound`): a piece is heard after the
  start of its task was stored and before it is counted, so a task whose pieces
  are all counted was heard to its end;
- what the disk knows (`Records`, `Heard`): the same as memory as far as a restart uses
  it, as long as no store has failed (`lostStore`), and of a process that is gone there
  is nothing else (`Gone`);
- what `close` has copied, cancelled and is to put back (`Keeping`).

There is one lemma per action, with a step for each part it can disturb.

All rest on the assumptions on constants named in the modules
(`...Assumption`, `JobsFinite`), which the runs evaluate.

Only model-checked: the liveness properties, since the prover has no rules for
fairness (`RequestsResolve`, `NobodySleepsForever`, `ReadyWindowTaken`,
`CommandsTakeEffect`, `DeliveryResolves`, `ComesToRest`, `ComesToAnEnd`), and the
violations of section 5. Every other property of a passing run is a theorem.

## 5. Findings

- `stale_tail` (streaming_pipeline.cpp:444): a discontinuity between the two
  looks at the generation leaves the old stream's crossfade tail valid.
- `repeated_stop` (speech_service.py:247): after a failed store, a stop repeated
  with working storage reports no error and stores no cancellation; the restarted
  service takes the stopped tasks up again, although REFERENCE_SPEECH.md:416
  recommends this very order of steps.
- `replay` (speech_service.py:1291): `close` keeps a task of which sound has come
  through the tempo filter, because the start of playback is known only to the
  player; the next start speaks it again.

Five more deviations were seen in the models and are bounded there, not runs:

- streaming_pipeline.cpp:171: `read_prefix` takes `ring_head_ == 0` for a history that
  has lost nothing, while line 222 and lines 84-85 say that a ring which has wrapped is
  re-anchored. When a full history has been overwritten by exactly one more ring, the
  head is at 0 again: the window is read from the new ring at the old place and
  crossfaded with a tail of input a ring (41 s) earlier. It takes a conversion longer
  than that, and a next one that starts within the one frame. `QualityJoinsInStep`
  admits joins over whole rings, and no others.
- streaming_pipeline.cpp:306 says a block of the old stream is discarded, and 379
  that consecutive blocks are joined: a block that passed the check before a reset
  still enters the output ring (`OldSoundEnds` allows just this one), and with a
  backlog of one to two hops a block is joined to the tail of earlier input
  (`JoinsAreClose` gives the bound).
- subtitle_bridge.py:589: after a crash between `enqueue` and `task_done` the
  translation thread may look up a status before, and publish it after, the delivery
  thread has published and acknowledged a later one; what viewers see last is then
  out of date (listed as a hazard without a property, since the property is false).
- subtitle_bridge.py:429-438: DESIGN.md:252 and tools/REFERENCE_SPEECH.md:309 say that
  the revision of a caption increases with each update. When a crash has come between
  the publication of a row's state and its acknowledgement, the next session publishes
  it from the stored context, with a revision that was used already, and a viewer that
  has seen the first (subtitles.ts:84) ignores the second. `RevisionsRise` exempts just
  these captions: those of which only the outbox has a record.
- run-realtime-voice.sh:515 says that a switch of devices needs no new session, while
  mode_controller.cpp:581-582 says that without one the packets are dropped. A PUT
  rebuilds the session (`Rebuild`); a `pre-restart` typed by hand does not, and the
  session keeps the address of the mozart-pre that was stopped.

## 6. Hazards without a property

PROJECT.json lists the hazards that a property covers, and three that none can:
subtitle_bridge.py:589 and subtitles.ts:84 with subtitle_bridge.py:434 (both in
section 5), and two launcher scripts that overlap (run-realtime-voice.sh:280: `mv`
retires the pid file of the other's new process, which runs on unrecorded;
`OrderAtRest` holds for scripts one after the other).
Known and not yet modelled are also:

- mode_controller.cpp:88: the worker's threads run before mute and bypass are set;
- mode_controller.cpp:61: job identifiers are the wall clock in microseconds;
- http_api.cpp:1011: the path of an output is used after the mutex is released;
- speech_service.py:1362: an answer is lost, then a stop, then the retry;
- speech_service.py:586: a store that fails while old tasks are archived, and
  speech_service.py:1301: a kill in the middle of `close`;
- speech_outbox.py:181: a row that is enqueued as the delivery thread leaves is
  delivered after the next start;
- subtitles.ts:86-92: how the console orders captions of several sessions and forgets
  all but fifty.

## 7. Not modelled, and the plan

Out of reach: numeric code (feature extraction, inference engines, DSP stages,
SOLA search, sample rate conversion), where the questions are about real numbers;
the USB gadget kernel driver (src/usb-gadget holds several copies of a vendor's
driver, which are most of the repository's lines) and other vendored code.

Left for later, in this order:

1. The rest of the bridge: partial captions, stable clauses (stable_clauses.py), and
   the merge of captions in the console.
2. The USB audio bridge: framing, resynchronisation, reconnection.
3. The HTTP daemon: connection limit, upload timeouts, order of shutdown.
4. The realtime policy of `SpeechService`, whose tasks expire.
5. Supervision of the translated-speech stack; `start` of the realtime voice stack.
