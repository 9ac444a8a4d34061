--------------------------- MODULE ModeController ---------------------------
(***************************************************************************)
(* The native control plane: ModeController, its file-conversion thread    *)
(* and FileRvcWorker (rvc-backend/src/state).  HTTP requests and the file  *)
(* thread interleave; everything the code does under ModeController::mutex_*)
(* is one action, every unlocked stretch of the file thread is split where *)
(* another thread can see or change what it relies on.                     *)
(*                                                                         *)
(* Definitions named Bug... are plausible bugs of the definition below     *)
(* them.  No specification uses them: the properties are tested on them.   *)
(***************************************************************************)
EXTENDS Naturals, Sequences, FiniteSets, SequencesExt

CONSTANTS
  Jobs,            \* identifiers of the jobs that can be listed at one time
  NoJob,           \* the file thread holds no job
  Models,          \* model directories under models_dir
  NoModel,         \* the empty model identifier
  Parameters,      \* RVC parameter sets that pass validation
  Routings,        \* (mic_muted, bypass) settings of the realtime worker
  MaxQueueDepth    \* Config::max_queue_depth

ASSUME JobAssumption == NoJob \notin Jobs
ASSUME ModelAssumption == NoModel \notin Models
ASSUME DepthAssumption == MaxQueueDepth \in Nat \ {0}
ASSUME JobsFinite == IsFiniteSet(Jobs)

Modes == {"idle", "rt_rvc", "file_rvc"}
NoMode == "none"

JobStates == {"absent", "queued", "processing", "cancelling",
              "completed", "failed", "cancelled"}

\* Where the file thread is: blocked in jobs_changed_.wait, at the head of its
\* loop, inside FileRvcWorker::process, in process_job's tail, or gone.
WorkerSteps == {"decode", "infer", "encode", "publish"}
Steps == {"waiting", "ready", "begin", "finish", "evict", "deferred", "exited"}
           \cup WorkerSteps

VARIABLES
  state,           \* Job::state, "absent" when the job is not in jobs_
  jobModel,        \* Job::model_id
  waiting,         \* the queued jobs in jobs_ order
  cancelRequested, \* jobs whose cancel_requested flag is set
  sources,         \* jobs whose committed source file exists
  outputs,         \* jobs whose published output file exists
  temps,           \* jobs with decoded, converted or .part files
  mode,            \* mode_
  pendingMode,     \* pending_mode_
  pendingModel,    \* pending_model_id_
  paused,          \* file_queue_paused_
  life,            \* "running", "stopping" (shutting_down_), "destroyed"
  realtime,        \* realtime_worker_ exists and is running
  routing,         \* realtime_mic_muted_, realtime_bypass_
  workerRouting,   \* the same two flags inside the realtime worker
  model,           \* the pipeline's current model
  parameters,      \* the pipeline's parameters
  step,            \* where the file thread is
  cur,             \* the job the file thread works on
  succeeded        \* what FileRvcWorker::process returned

jobVars     == <<state, jobModel, waiting, cancelRequested>>
fileVars    == <<sources, outputs, temps>>
pendingVars == <<pendingMode, pendingModel>>
sessionVars == <<mode, realtime, workerRouting, model, paused>>
threadVars  == <<step, cur, succeeded>>
vars == <<jobVars, fileVars, pendingVars, sessionVars, threadVars,
          life, routing, parameters>>

-----------------------------------------------------------------------------

\* "cancelling" is not counted as occupying the file worker.
BugActive(j)  == state[j] = "processing"

Active(j)     == state[j] \in {"processing", "cancelling"}
Unfinished(j) == state[j] = "queued" \/ Active(j)
Finished(j)   == state[j] \in {"completed", "failed", "cancelled"}

ActiveJobs     == {j \in Jobs : Active(j)}
UnfinishedJobs == {j \in Jobs : Unfinished(j)}

\* The predicate of jobs_changed_.wait, shutdown apart.
Runnable == mode = "file_rvc" /\ ~paused /\ waiting # <<>>

\* jobs_changed_.notify_all(): a blocked file thread re-evaluates its predicate.
Woken == IF step = "waiting" THEN "ready" ELSE step

\* jobs_ order of the queued jobs once j has left the queue.
Without(j) ==
  RemoveAt(waiting, CHOOSE i \in DOMAIN waiting : waiting[i] = j)

Init ==
  /\ state = [j \in Jobs |-> "absent"]
  /\ jobModel = [j \in Jobs |-> NoModel]
  /\ waiting = <<>>
  /\ cancelRequested = {}
  /\ sources = {} /\ outputs = {} /\ temps = {}
  /\ mode = "idle"
  /\ pendingMode = NoMode /\ pendingModel = NoModel
  /\ paused = FALSE
  /\ life = "running"
  /\ realtime = FALSE
  /\ routing \in Routings /\ workerRouting = routing
  /\ model \in Models \cup {NoModel}
  /\ parameters \in Parameters
  /\ step = "ready" /\ cur = NoJob /\ succeeded = FALSE

-----------------------------------------------------------------------------
(***************************************************************************)
(* Mode transitions                                                        *)
(***************************************************************************)

\* start_realtime_locked, when nothing in it throws.
StartRealtime ==
  /\ realtime' = TRUE
  /\ workerRouting' = routing

NoRealtime == realtime' = FALSE /\ UNCHANGED workerRouting

\* transition_locked(target, newModel).  The realtime worker is stopped first;
\* the file thread's step is "woken" where the code reaches notify_all and
\* "kept" where it returns before that.
Transition(target, newModel, woken, kept) ==
  LET switching == newModel \notin {NoModel, model} IN
  \/ \* switch_model failed: the previous realtime session is restored
     /\ switching
     /\ UNCHANGED <<model, paused>>
     /\ step' = kept
     /\ \/ mode = "rt_rvc" /\ StartRealtime /\ UNCHANGED mode
        \/ mode = "rt_rvc" /\ NoRealtime /\ mode' = "idle"
        \/ mode # "rt_rvc" /\ NoRealtime /\ UNCHANGED mode
  \/ /\ model' = IF switching THEN newModel ELSE model
     /\ paused' = (target # "file_rvc" /\ paused)
     /\ \/ target = "rt_rvc" /\ StartRealtime /\ mode' = target /\ step' = woken
        \/ target = "rt_rvc" /\ NoRealtime /\ mode' = "idle" /\ step' = kept
        \/ target # "rt_rvc" /\ NoRealtime /\ mode' = target /\ step' = woken

\* request_mode, a change away from an active file job: it waits in the pending
\* slot, replacing the one that waited there.
DeferMode(target, newModel) ==
  /\ life = "running"
  /\ mode = "file_rvc" /\ ActiveJobs # {} /\ target # "file_rvc"
  /\ pendingMode' = target
  /\ pendingModel' = newModel
  /\ UNCHANGED <<jobVars, fileVars, sessionVars, threadVars, life, routing, parameters>>

\* The pending slot survives a request that takes effect at once.
BugRequestModeKeepsPending(target, newModel) ==
  /\ life = "running"
  /\ ~(mode = "file_rvc" /\ ActiveJobs # {} /\ target # "file_rvc")
  /\ ~(ActiveJobs # {} /\ newModel # NoModel)
  /\ Transition(target, newModel, Woken, step)
  /\ UNCHANGED <<jobVars, fileVars, pendingVars, cur, succeeded, life, routing, parameters>>

\* A model change is not refused during an active job.
BugRequestModeNotBusy(target, newModel) ==
  /\ life = "running"
  /\ ~(mode = "file_rvc" /\ ActiveJobs # {} /\ target # "file_rvc")
  /\ pendingMode' = NoMode
  /\ pendingModel' = NoModel
  /\ Transition(target, newModel, Woken, step)
  /\ UNCHANGED <<jobVars, fileVars, cur, succeeded, life, routing, parameters>>

\* request_mode: a model change is refused as busy while a job is active, and
\* every other request empties the pending slot and takes effect at once.
RequestMode(target, newModel) ==
  /\ life = "running"
  /\ ~(mode = "file_rvc" /\ ActiveJobs # {} /\ target # "file_rvc")
  /\ ~(ActiveJobs # {} /\ newModel # NoModel)
  /\ pendingMode' = NoMode
  /\ pendingModel' = NoModel
  /\ Transition(target, newModel, Woken, step)
  /\ UNCHANGED <<jobVars, fileVars, cur, succeeded, life, routing, parameters>>

\* A rebuild that fails leaves the mode as it was.
BugRebuildSession ==
  /\ life = "running"
  /\ mode = "rt_rvc"
  /\ StartRealtime \/ NoRealtime
  /\ step' = Woken
  /\ UNCHANGED <<jobVars, fileVars, pendingVars, mode, paused, model, cur, succeeded,
                 life, routing, parameters>>

\* set_preprocessor: the capture process was restarted, so a realtime session
\* is taken down (which notifies) and rebuilt with the model it had.
RebuildSession ==
  /\ life = "running"
  /\ mode = "rt_rvc"
  /\ \/ StartRealtime /\ UNCHANGED mode
     \/ NoRealtime /\ mode' = "idle"
  /\ step' = Woken
  /\ UNCHANGED <<jobVars, fileVars, pendingVars, paused, model, cur, succeeded,
                 life, routing, parameters>>

\* set_realtime_routing: the settings survive the worker, which gets a copy.
SetRouting(r) ==
  /\ life = "running"
  /\ routing' = r
  /\ workerRouting' = IF realtime THEN r ELSE workerRouting
  /\ UNCHANGED <<jobVars, fileVars, pendingVars, threadVars, mode, realtime,
                 model, paused, life, parameters>>

\* set_parameters, reset_parameters: refused while a job is active.
SetParameters(p) ==
  /\ life = "running"
  /\ ActiveJobs = {}
  /\ parameters' = p
  /\ UNCHANGED <<jobVars, fileVars, pendingVars, sessionVars, threadVars, life, routing>>

-----------------------------------------------------------------------------
(***************************************************************************)
(* The job queue                                                           *)
(***************************************************************************)

\* enqueue_file: the depth counts unfinished jobs, a job without a model needs
\* a selected one, and the upload is committed before the job is listed.
EnqueueFile(j, m) ==
  /\ life = "running"
  /\ state[j] = "absent"
  /\ Cardinality(UnfinishedJobs) < MaxQueueDepth
  /\ m # NoModel \/ model # NoModel
  /\ state' = [state EXCEPT ![j] = "queued"]
  /\ jobModel' = [jobModel EXCEPT ![j] = m]
  /\ waiting' = Append(waiting, j)
  /\ sources' = sources \cup {j}
  /\ step' = Woken
  /\ UNCHANGED <<cancelRequested, outputs, temps, pendingVars, sessionVars,
                 cur, succeeded, life, routing, parameters>>

\* cancel_job: a queued job ends here, a running one is only flagged.
CancelJob(j) ==
  /\ life = "running"
  /\ \/ /\ state[j] = "queued"
        /\ state' = [state EXCEPT ![j] = "cancelled"]
        /\ waiting' = Without(j)
        /\ UNCHANGED cancelRequested
     \/ /\ state[j] = "processing"
        /\ state' = [state EXCEPT ![j] = "cancelling"]
        /\ cancelRequested' = cancelRequested \cup {j}
        /\ UNCHANGED waiting
  /\ step' = Woken
  /\ UNCHANGED <<jobModel, fileVars, pendingVars, sessionVars, cur, succeeded,
                 life, routing, parameters>>

\* pause_file_queue, resume_file_queue: the active job finishes either way.
PauseQueue ==
  /\ life = "running"
  /\ mode = "file_rvc"
  /\ paused' = TRUE
  /\ UNCHANGED <<jobVars, fileVars, pendingVars, threadVars, mode, realtime,
                 workerRouting, model, life, routing, parameters>>

\* Resuming does not notify the file thread.
BugResumeQueue ==
  /\ life = "running"
  /\ mode = "file_rvc"
  /\ paused' = FALSE
  /\ UNCHANGED <<jobVars, fileVars, pendingVars, mode, realtime, workerRouting,
                 model, threadVars, life, routing, parameters>>

ResumeQueue ==
  /\ life = "running"
  /\ mode = "file_rvc"
  /\ paused' = FALSE
  /\ step' = Woken
  /\ UNCHANGED <<jobVars, fileVars, pendingVars, mode, realtime, workerRouting,
                 model, cur, succeeded, life, routing, parameters>>

\* Erasing jobs deletes their source and output files.
Erase(js) ==
  /\ state' = [j \in Jobs |-> IF j \in js THEN "absent" ELSE state[j]]
  /\ jobModel' = [j \in Jobs |-> IF j \in js THEN NoModel ELSE jobModel[j]]
  /\ cancelRequested' = cancelRequested \ js
  /\ sources' = sources \ js
  /\ outputs' = outputs \ js
  /\ UNCHANGED <<temps, pendingVars, sessionVars, threadVars, life, routing, parameters>>

\* An active job can be removed from the list.
BugRemoveJob(j) ==
  /\ life = "running"
  /\ state[j] # "absent"
  /\ Erase({j})
  /\ waiting' = IF state[j] = "queued" THEN Without(j) ELSE waiting

\* remove_job: not the one the file thread holds.
RemoveJob(j) ==
  /\ life = "running"
  /\ state[j] # "absent" /\ ~Active(j)
  /\ Erase({j})
  /\ waiting' = IF state[j] = "queued" THEN Without(j) ELSE waiting

\* clear_finished_jobs.
ClearFinished ==
  /\ life = "running"
  /\ \E j \in Jobs : Finished(j)
  /\ Erase({j \in Jobs : Finished(j)})
  /\ UNCHANGED waiting

-----------------------------------------------------------------------------
(***************************************************************************)
(* The file thread: file_loop, process_job and FileRvcWorker::process      *)
(***************************************************************************)

\* Nothing runnable: the predicate is false and the thread blocks.
FileWait ==
  /\ step = "ready" /\ life = "running" /\ ~Runnable
  /\ step' = "waiting"
  /\ UNCHANGED <<jobVars, fileVars, pendingVars, sessionVars, cur, succeeded,
                 life, routing, parameters>>

\* A condition variable may wake without a notification.
SpuriousWakeup ==
  /\ step = "waiting"
  /\ step' = "ready"
  /\ UNCHANGED <<jobVars, fileVars, pendingVars, sessionVars, cur, succeeded,
                 life, routing, parameters>>

\* The first queued job is taken.
FilePick ==
  /\ step = "ready" /\ life = "running" /\ Runnable
  /\ cur' = Head(waiting)
  /\ waiting' = Tail(waiting)
  /\ state' = [state EXCEPT ![Head(waiting)] = "processing"]
  /\ step' = "begin"
  /\ UNCHANGED <<jobModel, cancelRequested, fileVars, pendingVars, sessionVars,
                 succeeded, life, routing, parameters>>

\* The loop ends once shutting_down_ is seen.
FileExit ==
  /\ step = "ready" /\ life # "running"
  /\ step' = "exited"
  /\ UNCHANGED <<jobVars, fileVars, pendingVars, sessionVars, cur, succeeded,
                 life, routing, parameters>>

WorkerUnchanged ==
  UNCHANGED <<jobVars, sources, pendingVars, mode, realtime, workerRouting,
              paused, cur, life, routing, parameters>>

\* The worker starts by selecting the job's model, without the controller's
\* mutex, unless the job was cancelled already.
WorkerBegin ==
  /\ step = "begin"
  /\ cur \notin cancelRequested
  /\ model' = IF jobModel[cur] = NoModel THEN model ELSE jobModel[cur]
  /\ step' = "decode"
  /\ UNCHANGED <<outputs, temps, succeeded>>
  /\ WorkerUnchanged

\* Cancelled before the start, or the model could not be loaded.
WorkerRefuse ==
  /\ step = "begin"
  /\ cur \in cancelRequested \/ jobModel[cur] \notin {NoModel, model}
  /\ succeeded' = FALSE
  /\ step' = "finish"
  /\ UNCHANGED <<outputs, temps, model>>
  /\ WorkerUnchanged

\* FFmpeg decodes to a temporary file, the pipeline converts it, FFmpeg encodes
\* a .part file; each stage ends with a look at the cancellation flag.
WorkerAdvance ==
  /\ \/ step = "decode" /\ step' = "infer"
     \/ step = "infer"  /\ step' = "encode"
     \/ step = "encode" /\ step' = "publish"
  /\ cur \notin cancelRequested
  /\ temps' = temps \cup {cur}
  /\ UNCHANGED <<outputs, succeeded, model>>
  /\ WorkerUnchanged

\* A stage fails, times out or is cancelled, or the rename fails: the Cleanup
\* guard removes every temporary file on the way out.
WorkerFail ==
  /\ step \in WorkerSteps
  /\ succeeded' = FALSE
  /\ temps' = temps \ {cur}
  /\ step' = "finish"
  /\ UNCHANGED <<outputs, model>>
  /\ WorkerUnchanged

\* The result of the rename is not looked at.
BugWorkerPublish ==
  /\ step = "publish"
  /\ outputs' \in {outputs, outputs \cup {cur}}
  /\ temps' = temps \ {cur}
  /\ succeeded' = TRUE
  /\ step' = "finish"
  /\ UNCHANGED model
  /\ WorkerUnchanged

\* The .part file is renamed to the output after the last look at the flag.
WorkerPublish ==
  /\ step = "publish"
  /\ outputs' = outputs \cup {cur}
  /\ temps' = temps \ {cur}
  /\ succeeded' = TRUE
  /\ step' = "finish"
  /\ UNCHANGED model
  /\ WorkerUnchanged

\* The worker's result wins over the cancellation.
BugFileFinish ==
  /\ step = "finish"
  /\ state' = [state EXCEPT ![cur] = IF succeeded THEN "completed"
                                     ELSE IF cur \in cancelRequested THEN "cancelled" ELSE "failed"]
  /\ cur' = NoJob
  /\ succeeded' = FALSE
  /\ step' = "evict"
  /\ UNCHANGED <<jobModel, waiting, cancelRequested, fileVars, pendingVars,
                 sessionVars, life, routing, parameters>>

\* process_job's terminal state: cancellation wins over the worker's result.
FileFinish ==
  /\ step = "finish"
  /\ state' = [state EXCEPT ![cur] = IF cur \in cancelRequested THEN "cancelled"
                                     ELSE IF succeeded THEN "completed" ELSE "failed"]
  /\ cur' = NoJob
  /\ succeeded' = FALSE
  /\ step' = "evict"
  /\ UNCHANGED <<jobModel, waiting, cancelRequested, fileVars, pendingVars,
                 sessionVars, life, routing, parameters>>

\* Only the active job's files are spared.
BugFileEvict ==
  /\ step = "evict"
  /\ \E lost \in SUBSET (sources \ ActiveJobs) : sources' = sources \ lost
  /\ \E lost \in SUBSET (outputs \ ActiveJobs) : outputs' = outputs \ lost
  /\ step' = "deferred"
  /\ UNCHANGED <<jobVars, temps, pendingVars, sessionVars, cur, succeeded,
                 life, routing, parameters>>

\* evict_cache: over the size limit, oldest files first, sparing those of
\* unfinished jobs.  Which of the others go depends on their sizes.
FileEvict ==
  /\ step = "evict"
  /\ \E lost \in SUBSET (sources \ UnfinishedJobs) :
       sources' = sources \ lost
  /\ \E lost \in SUBSET (outputs \ UnfinishedJobs) :
       outputs' = outputs \ lost
  /\ step' = "deferred"
  /\ UNCHANGED <<jobVars, temps, pendingVars, sessionVars, cur, succeeded,
                 life, routing, parameters>>

\* The slot is read after it has been emptied.
BugFileApplyCleared ==
  /\ step = "deferred"
  /\ IF pendingMode = NoMode
     THEN step' = "ready" /\ UNCHANGED <<pendingVars, sessionVars>>
     ELSE /\ pendingMode' = NoMode
          /\ pendingModel' = NoModel
          /\ Transition(NoMode, NoModel, "ready", "ready")
  /\ UNCHANGED <<jobVars, fileVars, cur, succeeded, life, routing, parameters>>

\* The rest of the queue goes first.
BugFileApplyLast ==
  /\ step = "deferred"
  /\ IF pendingMode = NoMode \/ Runnable
     THEN step' = "ready" /\ UNCHANGED <<pendingVars, sessionVars>>
     ELSE /\ pendingMode' = NoMode
          /\ pendingModel' = NoModel
          /\ Transition(pendingMode, pendingModel, "ready", "ready")
  /\ UNCHANGED <<jobVars, fileVars, cur, succeeded, life, routing, parameters>>

\* Back in file_loop: the pending slot is emptied and its transition applied,
\* shutdown or not.
FileApplyDeferred ==
  /\ step = "deferred"
  /\ IF pendingMode = NoMode
     THEN step' = "ready" /\ UNCHANGED <<pendingVars, sessionVars>>
     ELSE /\ pendingMode' = NoMode
          /\ pendingModel' = NoModel
          /\ Transition(pendingMode, pendingModel, "ready", "ready")
  /\ UNCHANGED <<jobVars, fileVars, cur, succeeded, life, routing, parameters>>

FileThread ==
  \/ FileWait \/ FilePick \/ FileExit
  \/ WorkerBegin \/ WorkerRefuse \/ WorkerAdvance \/ WorkerFail \/ WorkerPublish
  \/ FileFinish \/ FileEvict \/ FileApplyDeferred

-----------------------------------------------------------------------------
(***************************************************************************)
(* Shutdown: ~ModeController, after the HTTP server has joined its threads *)
(***************************************************************************)

\* The destructor does not notify the file thread.
BugBeginShutdown ==
  /\ life = "running"
  /\ life' = "stopping"
  /\ NoRealtime
  /\ cancelRequested' = cancelRequested \cup ActiveJobs
  /\ UNCHANGED <<state, jobModel, waiting, fileVars, pendingVars, mode, model,
                 paused, threadVars, routing, parameters>>

\* The realtime session ends, the active job is flagged, the thread is notified.
BeginShutdown ==
  /\ life = "running"
  /\ life' = "stopping"
  /\ NoRealtime
  /\ cancelRequested' = cancelRequested \cup ActiveJobs
  /\ step' = Woken
  /\ UNCHANGED <<state, jobModel, waiting, fileVars, pendingVars, mode, model,
                 paused, cur, succeeded, routing, parameters>>

\* The file thread is joined, then the members are destroyed, a realtime
\* worker the file thread started meanwhile included.
FinishShutdown ==
  /\ life = "stopping"
  /\ step = "exited"
  /\ life' = "destroyed"
  /\ NoRealtime
  /\ UNCHANGED <<jobVars, fileVars, pendingVars, threadVars, mode, model, paused,
                 routing, parameters>>

Requests ==
  \/ \E target \in Modes, m \in Models \cup {NoModel} :
       DeferMode(target, m) \/ RequestMode(target, m)
  \/ RebuildSession
  \/ \E r \in Routings : SetRouting(r)
  \/ \E p \in Parameters : SetParameters(p)
  \/ \E j \in Jobs, m \in Models \cup {NoModel} : EnqueueFile(j, m)
  \/ \E j \in Jobs : CancelJob(j) \/ RemoveJob(j)
  \/ PauseQueue \/ ResumeQueue \/ ClearFinished

Next == Requests \/ FileThread \/ SpuriousWakeup \/ BeginShutdown \/ FinishShutdown

Spec == Init /\ [][Next]_vars

\* The file thread and the destructor are scheduled; nobody has to send a
\* request, and no spurious wakeup has to happen.
FairSpec == Spec /\ WF_vars(FileThread) /\ WF_vars(FinishShutdown)

-----------------------------------------------------------------------------
(***************************************************************************)
(* Properties                                                              *)
(***************************************************************************)

\* Type invariant of the controller's state.
TypeOK ==
  /\ state \in [Jobs -> JobStates]
  /\ jobModel \in [Jobs -> Models \cup {NoModel}]
  /\ waiting \in Seq(Jobs)
  /\ cancelRequested \subseteq Jobs
  /\ sources \subseteq Jobs /\ outputs \subseteq Jobs /\ temps \subseteq Jobs
  /\ mode \in Modes
  /\ pendingMode \in Modes \cup {NoMode}
  /\ pendingModel \in Models \cup {NoModel}
  /\ paused \in BOOLEAN /\ realtime \in BOOLEAN /\ succeeded \in BOOLEAN
  /\ life \in {"running", "stopping", "destroyed"}
  /\ routing \in Routings /\ workerRouting \in Routings
  /\ model \in Models \cup {NoModel}
  /\ parameters \in Parameters
  /\ step \in Steps
  /\ cur \in Jobs \cup {NoJob}

FileStepsWithJob == WorkerSteps \cup {"begin", "finish"}

\* The lock-free stretch of the file thread belongs to exactly one job: a job
\* is shown as processing or cancelling precisely while the thread works on it.
ActiveIsCurrent ==
  ActiveJobs = IF step \in FileStepsWithJob THEN {cur} ELSE {}

\* A mode switch that was deferred is never stranded: as long as one is
\* pending the file thread is on its way to applying it, still in file mode.
DeferredSwitchOwned ==
  pendingMode # NoMode =>
    /\ mode = "file_rvc"
    /\ step \in FileStepsWithJob \cup {"evict", "deferred"}

\* Conversion runs on a selected model, and on the job's own model when it
\* named one, although the model was selected without the controller's mutex.
InferenceUsesRequestedModel ==
  step \in WorkerSteps =>
    /\ model # NoModel
    /\ jobModel[cur] # NoModel => model = jobModel[cur]

\* Cancelling, removing, clearing and evicting never take the source audio of
\* a job that is still to be converted.
UnfinishedKeepsSource == UnfinishedJobs \subseteq sources

\* Decoded, converted and .part files exist only while their job is converted.
TempsBelongToCurrent ==
  temps \subseteq (IF step \in WorkerSteps THEN {cur} ELSE {})

\* Cancelling, removing, clearing, evicting and failing at any stage leave the
\* sources still needed, and no temporary file of anybody else.
FilesKept == UnfinishedKeepsSource /\ TempsBelongToCurrent

\* In realtime mode the worker runs, with the routing last asked for: worker
\* re-creation, failed starts and failed model loads included.
RealtimeMatchesMode ==
  life = "running" =>
    /\ realtime <=> mode = "rt_rvc"
    /\ realtime => workerRouting = routing

\* What mode_ says is what runs, or what the file thread is about to make true.
ModeIsHonest == RealtimeMatchesMode /\ DeferredSwitchOwned

\* The file thread converts one job at a time, with the model that job needs.
ConversionIsOwn == ActiveIsCurrent /\ InferenceUsesRequestedModel

\* The unfinished jobs never exceed the configured depth.
QueueBounded == Cardinality(UnfinishedJobs) <= MaxQueueDepth

\* What the safety properties rest on.  The file thread holds a job exactly
\* in the steps that work on one, and file mode cannot end meanwhile.
CurIsHeld ==
  /\ cur \in Jobs <=> step \in FileStepsWithJob
  /\ step \in FileStepsWithJob => mode = "file_rvc"

\* The queue lists every queued job once.
QueueListsQueued ==
  /\ \A i \in 1 .. Len(waiting) : state[waiting[i]] = "queued"
  /\ \A i, k \in 1 .. Len(waiting) : waiting[i] = waiting[k] => i = k
  /\ \A j \in Jobs : state[j] = "queued" => \E i \in 1 .. Len(waiting) : waiting[i] = j

RealtimeOnlyInItsMode == realtime => mode = "rt_rvc"

\* Every job that may still be converted has a model to be converted with.
UnfinishedHasModel ==
  \A j \in Jobs : Unfinished(j) => jobModel[j] # NoModel \/ model # NoModel

CancellingIsFlagged == \A j \in Jobs : state[j] = "cancelling" => j \in cancelRequested

SuccessIsPublished == step = "finish" /\ succeeded => cur \in outputs

\* The inductive invariant.
IInv ==
  /\ TypeOK
  /\ CurIsHeld /\ ActiveIsCurrent /\ DeferredSwitchOwned
  /\ RealtimeOnlyInItsMode /\ RealtimeMatchesMode
  /\ QueueListsQueued /\ QueueBounded
  /\ UnfinishedHasModel /\ InferenceUsesRequestedModel
  /\ UnfinishedKeepsSource /\ TempsBelongToCurrent
  /\ CancellingIsFlagged /\ SuccessIsPublished

\* A job becomes completed only once its output is published, and a cancelled
\* one never does, even if the rename came after the cancellation.
CompletionPublished ==
  [][\A j \in Jobs :
       state'[j] = "completed" /\ state[j] # "completed" =>
         j \in outputs' /\ state[j] = "processing"]_vars

\* A job has what it needs until it ends, leaves nothing behind, and is shown as
\* completed only with its output.
JobsKeepTheirFiles == []FilesKept /\ CompletionPublished

\* The leased pipeline is what the controller's steps make of it.
Lease == INSTANCE PipelineLease WITH
           users <- (IF step \in WorkerSteps THEN {"file"} ELSE {})
                      \cup (IF realtime THEN {"realtime"} ELSE {})
LeaseSpec == Lease!Spec

\* A deferred switch is eventually applied or replaced.
DeferredSwitchResolves == pendingMode # NoMode ~> pendingMode = NoMode

\* A queued job is eventually taken, unless file mode ends or the queue is
\* paused: no wakeup of the file thread is lost and nobody overtakes for ever.
QueuedJobTaken ==
  \A j \in Jobs :
    (state[j] = "queued" /\ Runnable /\ life = "running")
      ~> (state[j] # "queued" \/ ~Runnable \/ life # "running")

\* A job whose cancellation was accepted ends cancelled.
CancelResolves ==
  \A j \in Jobs : state[j] = "cancelling" ~> state[j] = "cancelled"

\* The destructor returns, and leaves no realtime worker behind.
ShutdownCompletes ==
  life = "stopping" ~> (life = "destroyed" /\ ~realtime)

\* What was accepted is done: the switch, the conversion, the cancellation and the end.
RequestsResolve ==
  DeferredSwitchResolves /\ QueuedJobTaken /\ CancelResolves /\ ShutdownCompletes
=============================================================================
