------------------------ MODULE ModeControllerProofs ------------------------
(***************************************************************************)
(* Theorems about ModeController for every set of jobs, models, parameters *)
(* and routings and every queue depth.                                     *)
(***************************************************************************)
EXTENDS ModeController, FiniteSetTheorems, TLAPS

-----------------------------------------------------------------------------
(***************************************************************************)
(* Sequences                                                               *)
(***************************************************************************)

\* Removing one position of the queue keeps the order of the others.
LEMMA RemoveAtProperties ==
  ASSUME NEW S, NEW s \in Seq(S), NEW i \in 1 .. Len(s)
  PROVE  /\ RemoveAt(s, i) \in Seq(S)
         /\ Len(RemoveAt(s, i)) = Len(s) - 1
         /\ \A k \in 1 .. Len(s) - 1 :
              RemoveAt(s, i)[k] = IF k < i THEN s[k] ELSE s[k + 1]
<1> DEFINE a == SubSeq(s, 1, i - 1)
           b == SubSeq(s, i + 1, Len(s))
<1>1. a \in Seq(S) /\ b \in Seq(S)
  OBVIOUS
<1>2. Len(a) = i - 1 /\ Len(b) = Len(s) - i
  OBVIOUS
<1>3. \A k \in 1 .. i - 1 : a[k] = s[k]
  OBVIOUS
<1>4. \A k \in 1 .. Len(s) - i : b[k] = s[i + k]
  OBVIOUS
<1>5. RemoveAt(s, i) = a \o b
  BY DEF RemoveAt
<1> HIDE DEF a, b
<1>6. a \o b \in Seq(S) /\ Len(a \o b) = Len(a) + Len(b)
  BY <1>1
<1>7. \A k \in 1 .. Len(s) - 1 :
        (a \o b)[k] = IF k < i THEN s[k] ELSE s[k + 1]
  <2> SUFFICES ASSUME NEW k \in 1 .. Len(s) - 1
               PROVE  (a \o b)[k] = IF k < i THEN s[k] ELSE s[k + 1]
    OBVIOUS
  <2>1. CASE k < i
    BY <1>1, <1>2, <1>3, <2>1
  <2>2. CASE ~(k < i)
    <3>1. k - Len(a) \in 1 .. Len(s) - i /\ i + (k - Len(a)) = k + 1
      BY <1>2, <2>2
    <3>2. (a \o b)[k] = b[k - Len(a)]
      BY <1>1, <1>2, <2>2
    <3> QED BY <1>4, <2>2, <3>1, <3>2
  <2> QED BY <2>1, <2>2
<1> QED BY <1>2, <1>5, <1>6, <1>7

\* A queued job leaves the queue: the others stay listed, once each.
LEMMA WithoutProperties ==
  ASSUME waiting \in Seq(Jobs), QueueListsQueued, NEW j \in Jobs, state[j] = "queued"
  PROVE  /\ Without(j) \in Seq(Jobs)
         /\ \A i \in 1 .. Len(Without(j)) :
              \E k \in 1 .. Len(waiting) : waiting[k] = Without(j)[i] /\ waiting[k] # j
         /\ \A i, k \in 1 .. Len(Without(j)) : Without(j)[i] = Without(j)[k] => i = k
         /\ \A k \in 1 .. Len(waiting) : waiting[k] # j =>
              \E i \in 1 .. Len(Without(j)) : Without(j)[i] = waiting[k]
<1> DEFINE p == CHOOSE i \in DOMAIN waiting : waiting[i] = j
           w == RemoveAt(waiting, p)
           n == Len(waiting)
<1>1. p \in 1 .. n /\ waiting[p] = j
  BY DEF QueueListsQueued
<1>2. \A i \in 1 .. n : waiting[i] = j => i = p
  BY <1>1 DEF QueueListsQueued
<1>3. w = Without(j)
  BY DEF Without
<1> HIDE DEF p
<1>4. /\ w \in Seq(Jobs)
      /\ Len(w) = n - 1
      /\ \A k \in 1 .. n - 1 : w[k] = IF k < p THEN waiting[k] ELSE waiting[k + 1]
  BY <1>1, RemoveAtProperties
<1> HIDE DEF w
<1>5. \A i \in 1 .. Len(w) : \E k \in 1 .. n : waiting[k] = w[i] /\ waiting[k] # j
  <2> SUFFICES ASSUME NEW i \in 1 .. Len(w)
               PROVE  \E k \in 1 .. n : waiting[k] = w[i] /\ waiting[k] # j
    OBVIOUS
  <2>1. CASE i < p
    <3>1. i \in 1 .. n /\ w[i] = waiting[i] /\ i # p
      BY <1>1, <1>4, <2>1
    <3> QED BY <1>2, <3>1
  <2>2. CASE ~(i < p)
    <3>1. i + 1 \in 1 .. n /\ w[i] = waiting[i + 1] /\ i + 1 # p
      BY <1>1, <1>4, <2>2
    <3> QED BY <1>2, <3>1
  <2> QED BY <2>1, <2>2
<1>6. \A i, k \in 1 .. Len(w) : w[i] = w[k] => i = k
  BY <1>1, <1>4 DEF QueueListsQueued
<1>7. \A k \in 1 .. n : waiting[k] # j => \E i \in 1 .. Len(w) : w[i] = waiting[k]
  <2> SUFFICES ASSUME NEW k \in 1 .. n, waiting[k] # j
               PROVE  \E i \in 1 .. Len(w) : w[i] = waiting[k]
    OBVIOUS
  <2>1. CASE k < p
    BY <1>1, <1>4, <2>1
  <2>2. CASE k > p
    <3>1. k - 1 \in 1 .. Len(w) /\ w[k - 1] = waiting[k]
      BY <1>1, <1>4, <2>2
    <3> QED BY <3>1
  <2> QED BY <1>1, <2>1, <2>2
<1> QED BY <1>3, <1>4, <1>5, <1>6, <1>7

\* So the queue still lists the queued jobs once that job is not queued.
LEMMA LeavesQueue ==
  ASSUME waiting \in Seq(Jobs), QueueListsQueued, state \in [Jobs -> JobStates],
         NEW j \in Jobs, state[j] = "queued", waiting' = Without(j),
         NEW s \in JobStates \ {"queued"}, state' = [state EXCEPT ![j] = s]
  PROVE  QueueListsQueued'
<1> DEFINE w == Without(j)
<1>1. /\ w \in Seq(Jobs)
      /\ \A i \in 1 .. Len(w) :
           \E k \in 1 .. Len(waiting) : waiting[k] = w[i] /\ waiting[k] # j
      /\ \A i, k \in 1 .. Len(w) : w[i] = w[k] => i = k
      /\ \A k \in 1 .. Len(waiting) : waiting[k] # j =>
           \E i \in 1 .. Len(w) : w[i] = waiting[k]
  BY WithoutProperties
<1>2. waiting' = w
  OBVIOUS
<1> HIDE DEF w
<1>3. ASSUME NEW i \in 1 .. Len(w) PROVE state'[w[i]] = "queued"
  <2>1. PICK k \in 1 .. Len(waiting) : waiting[k] = w[i] /\ waiting[k] # j
    BY <1>1
  <2> QED BY <2>1 DEF QueueListsQueued
<1>4. ASSUME NEW k \in Jobs, state'[k] = "queued"
      PROVE  \E i \in 1 .. Len(w) : w[i] = k
  <2>1. k # j /\ state[k] = "queued"
    BY <1>4
  <2>2. PICK i \in 1 .. Len(waiting) : waiting[i] = k
    BY <2>1 DEF QueueListsQueued
  <2> QED BY <1>1, <2>1, <2>2
<1> QED BY <1>1, <1>2, <1>3, <1>4 DEF QueueListsQueued

-----------------------------------------------------------------------------
(***************************************************************************)
(* The queue depth                                                         *)
(***************************************************************************)

LEMMA UnfinishedIsFinite == IsFiniteSet(UnfinishedJobs) /\ Cardinality(UnfinishedJobs) \in Nat
BY JobsFinite, FS_Subset, FS_CardinalityType DEF UnfinishedJobs

\* No job becomes unfinished: the depth is respected still.
LEMMA BoundKept ==
  ASSUME QueueBounded, UnfinishedJobs' \subseteq UnfinishedJobs
  PROVE  QueueBounded'
<1>1. Cardinality(UnfinishedJobs') \in Nat
      /\ Cardinality(UnfinishedJobs') <= Cardinality(UnfinishedJobs)
  BY UnfinishedIsFinite, FS_Subset, FS_CardinalityType
<1> QED BY <1>1, UnfinishedIsFinite, DepthAssumption DEF QueueBounded

\* One job is admitted below the depth.
LEMMA BoundKeptByAdmission ==
  ASSUME NEW j \in Jobs, Cardinality(UnfinishedJobs) < MaxQueueDepth,
         UnfinishedJobs' = UnfinishedJobs \cup {j}
  PROVE  QueueBounded'
<1>1. Cardinality(UnfinishedJobs \cup {j}) \in Nat
      /\ Cardinality(UnfinishedJobs \cup {j}) <= Cardinality(UnfinishedJobs) + 1
  BY UnfinishedIsFinite, FS_AddElement
<1> QED BY <1>1, UnfinishedIsFinite, DepthAssumption DEF QueueBounded

-----------------------------------------------------------------------------
(***************************************************************************)
(* Mode transitions                                                        *)
(***************************************************************************)

\* Every transition leaves a realtime worker running, with the routing asked
\* for, exactly when it leaves the controller in realtime mode.
LEMMA TransitionFacts ==
  ASSUME TypeOK, RealtimeOnlyInItsMode,
         NEW target \in Modes, NEW newModel \in Models \cup {NoModel},
         NEW woken, NEW kept, Transition(target, newModel, woken, kept)
  PROVE  /\ mode' \in Modes /\ paused' \in BOOLEAN /\ realtime' \in BOOLEAN
         /\ workerRouting' \in Routings
         /\ model' \in Models \cup {NoModel}
         /\ step' \in {woken, kept}
         /\ realtime' <=> mode' = "rt_rvc"
         /\ realtime' => workerRouting' = routing
         /\ model # NoModel => model' # NoModel
         /\ newModel = NoModel => model' = model
         /\ newModel = NoModel /\ target # "rt_rvc" => mode' = target
BY ModelAssumption, Zenon DEF Transition, StartRealtime, NoRealtime, TypeOK, Modes

-----------------------------------------------------------------------------
(***************************************************************************)
(* The inductive invariant: one lemma for each action, one step for each   *)
(* group of conjuncts the action could disturb                             *)
(***************************************************************************)

\* A switch that has to wait only fills the pending slot.
LEMMA DeferModeKeeps ==
  ASSUME IInv, NEW target \in Modes, NEW newModel \in Models \cup {NoModel}, DeferMode(target, newModel)
  PROVE  IInv'
<1> USE DEF DeferMode, jobVars, fileVars, pendingVars, sessionVars, threadVars
<1>1. TypeOK'
  BY DEF IInv, TypeOK, Steps, JobStates, WorkerSteps, Modes
<1>2. (CurIsHeld /\ ActiveIsCurrent /\ DeferredSwitchOwned)'
  BY JobAssumption DEF IInv, TypeOK, CurIsHeld, ActiveIsCurrent,
     DeferredSwitchOwned, FileStepsWithJob, WorkerSteps, ActiveJobs, Active
<1>3. (RealtimeOnlyInItsMode /\ RealtimeMatchesMode)'
  BY DEF IInv, RealtimeOnlyInItsMode, RealtimeMatchesMode
<1>4. QueueListsQueued'
  BY DEF IInv, TypeOK, QueueListsQueued
<1>5. QueueBounded'
  <2>1. UnfinishedJobs' \subseteq UnfinishedJobs
    BY DEF IInv, TypeOK, UnfinishedJobs, Unfinished, Active
  <2> QED BY <2>1, BoundKept DEF IInv
<1>6. (UnfinishedHasModel /\ InferenceUsesRequestedModel)'
  BY ModelAssumption DEF IInv, TypeOK, UnfinishedHasModel,
     InferenceUsesRequestedModel, Unfinished, Active, WorkerSteps
<1>7. (UnfinishedKeepsSource /\ TempsBelongToCurrent)'
  BY DEF IInv, TypeOK, UnfinishedKeepsSource, TempsBelongToCurrent, UnfinishedJobs,
     Unfinished, Active, WorkerSteps
<1>8. (CancellingIsFlagged /\ SuccessIsPublished)'
  BY DEF IInv, TypeOK, CancellingIsFlagged, SuccessIsPublished, UnfinishedJobs,
     Unfinished, Active, WorkerSteps
<1> QED BY <1>1, <1>2, <1>3, <1>4, <1>5, <1>6, <1>7, <1>8 DEF IInv

\* With a job in the file thread's hands only a request for the mode and the
\* model it has takes effect at once.
LEMMA RequestModeKeeps ==
  ASSUME IInv, NEW target \in Modes, NEW newModel \in Models \cup {NoModel}, RequestMode(target, newModel)
  PROVE  IInv'
<1> USE DEF jobVars, fileVars, pendingVars, sessionVars, threadVars
<1>0. /\ UNCHANGED <<jobVars, fileVars, cur, succeeded, life, routing, parameters>>
      /\ pendingMode' = NoMode /\ pendingModel' = NoModel
      /\ step' \in {Woken, step}
      /\ ActiveJobs # {} => newModel = NoModel
      /\ mode = "file_rvc" /\ ActiveJobs # {} => target = "file_rvc"
  BY TransitionFacts DEF RequestMode, IInv
<1>a. /\ mode' \in Modes /\ paused' \in BOOLEAN /\ realtime' \in BOOLEAN
      /\ workerRouting' \in Routings /\ model' \in Models \cup {NoModel}
      /\ realtime' <=> mode' = "rt_rvc"
      /\ realtime' => workerRouting' = routing
      /\ model # NoModel => model' # NoModel
      /\ newModel = NoModel => model' = model
      /\ newModel = NoModel /\ target # "rt_rvc" => mode' = target
  BY TransitionFacts DEF RequestMode, IInv
<1>b. step' = step \/ (step = "waiting" /\ step' = "ready")
  BY <1>0 DEF Woken
<1>c. step \in FileStepsWithJob => mode' = "file_rvc" /\ model' = model
  <2> SUFFICES ASSUME step \in FileStepsWithJob
               PROVE  mode' = "file_rvc" /\ model' = model
    OBVIOUS
  <2>1. mode = "file_rvc" /\ ActiveJobs # {}
    BY DEF IInv, CurIsHeld, ActiveIsCurrent
  <2> QED BY <1>0, <1>a, <2>1
<1>1. TypeOK'
  BY <1>0, <1>a, <1>b DEF IInv, TypeOK, Steps
<1>2. (CurIsHeld /\ ActiveIsCurrent /\ DeferredSwitchOwned)'
  BY <1>0, <1>b, <1>c DEF IInv, CurIsHeld, ActiveIsCurrent, DeferredSwitchOwned,
     FileStepsWithJob, WorkerSteps, ActiveJobs, Active
<1>3. (RealtimeOnlyInItsMode /\ RealtimeMatchesMode)'
  BY <1>0, <1>a DEF RealtimeOnlyInItsMode, RealtimeMatchesMode
<1>4. QueueListsQueued'
  BY <1>0 DEF IInv, QueueListsQueued
<1>5. QueueBounded'
  <2>1. UnfinishedJobs' = UnfinishedJobs
    BY <1>0 DEF UnfinishedJobs, Unfinished, Active
  <2> QED BY <2>1, BoundKept DEF IInv
<1>6. (UnfinishedHasModel /\ InferenceUsesRequestedModel)'
  BY <1>0, <1>a, <1>b, <1>c DEF IInv, FileStepsWithJob, UnfinishedHasModel,
     InferenceUsesRequestedModel, Unfinished, Active, WorkerSteps
<1>7. (UnfinishedKeepsSource /\ TempsBelongToCurrent)'
  BY <1>0, <1>b DEF IInv, UnfinishedKeepsSource, TempsBelongToCurrent,
     UnfinishedJobs, Unfinished, Active, WorkerSteps
<1>8. (CancellingIsFlagged /\ SuccessIsPublished)'
  BY <1>0, <1>b DEF IInv, CancellingIsFlagged, SuccessIsPublished
<1> QED BY <1>1, <1>2, <1>3, <1>4, <1>5, <1>6, <1>7, <1>8 DEF IInv

\* The realtime session is rebuilt only in realtime mode, without a job.
LEMMA RebuildSessionKeeps ==
  ASSUME IInv, RebuildSession
  PROVE  IInv'
<1> USE DEF RebuildSession, StartRealtime, NoRealtime, Woken, jobVars, fileVars, pendingVars, sessionVars, threadVars
<1>1. TypeOK'
  BY DEF IInv, TypeOK, Steps, JobStates, WorkerSteps, Modes
<1>2. (CurIsHeld /\ ActiveIsCurrent /\ DeferredSwitchOwned)'
  BY JobAssumption DEF IInv, TypeOK, CurIsHeld, ActiveIsCurrent,
     DeferredSwitchOwned, FileStepsWithJob, WorkerSteps, ActiveJobs, Active
<1>3. (RealtimeOnlyInItsMode /\ RealtimeMatchesMode)'
  BY DEF IInv, RealtimeOnlyInItsMode, RealtimeMatchesMode
<1>4. QueueListsQueued'
  BY DEF IInv, TypeOK, QueueListsQueued
<1>5. QueueBounded'
  <2>1. UnfinishedJobs' \subseteq UnfinishedJobs
    BY DEF IInv, TypeOK, UnfinishedJobs, Unfinished, Active
  <2> QED BY <2>1, BoundKept DEF IInv
<1>6. (UnfinishedHasModel /\ InferenceUsesRequestedModel)'
  BY ModelAssumption DEF IInv, TypeOK, UnfinishedHasModel,
     InferenceUsesRequestedModel, Unfinished, Active, WorkerSteps
<1>7. (UnfinishedKeepsSource /\ TempsBelongToCurrent)'
  BY DEF IInv, TypeOK, UnfinishedKeepsSource, TempsBelongToCurrent, UnfinishedJobs,
     Unfinished, Active, WorkerSteps
<1>8. (CancellingIsFlagged /\ SuccessIsPublished)'
  BY DEF IInv, TypeOK, CancellingIsFlagged, SuccessIsPublished, UnfinishedJobs,
     Unfinished, Active, WorkerSteps
<1> QED BY <1>1, <1>2, <1>3, <1>4, <1>5, <1>6, <1>7, <1>8 DEF IInv

\* A running worker is given the new routing with the controller.
LEMMA SetRoutingKeeps ==
  ASSUME IInv, NEW r \in Routings, SetRouting(r)
  PROVE  IInv'
<1> USE DEF SetRouting, jobVars, fileVars, pendingVars, sessionVars, threadVars
<1>1. TypeOK'
  BY DEF IInv, TypeOK, Steps, JobStates, WorkerSteps, Modes
<1>2. (CurIsHeld /\ ActiveIsCurrent /\ DeferredSwitchOwned)'
  BY JobAssumption DEF IInv, TypeOK, CurIsHeld, ActiveIsCurrent,
     DeferredSwitchOwned, FileStepsWithJob, WorkerSteps, ActiveJobs, Active
<1>3. (RealtimeOnlyInItsMode /\ RealtimeMatchesMode)'
  BY DEF IInv, RealtimeOnlyInItsMode, RealtimeMatchesMode
<1>4. QueueListsQueued'
  BY DEF IInv, TypeOK, QueueListsQueued
<1>5. QueueBounded'
  <2>1. UnfinishedJobs' \subseteq UnfinishedJobs
    BY DEF IInv, TypeOK, UnfinishedJobs, Unfinished, Active
  <2> QED BY <2>1, BoundKept DEF IInv
<1>6. (UnfinishedHasModel /\ InferenceUsesRequestedModel)'
  BY ModelAssumption DEF IInv, TypeOK, UnfinishedHasModel,
     InferenceUsesRequestedModel, Unfinished, Active, WorkerSteps
<1>7. (UnfinishedKeepsSource /\ TempsBelongToCurrent)'
  BY DEF IInv, TypeOK, UnfinishedKeepsSource, TempsBelongToCurrent, UnfinishedJobs,
     Unfinished, Active, WorkerSteps
<1>8. (CancellingIsFlagged /\ SuccessIsPublished)'
  BY DEF IInv, TypeOK, CancellingIsFlagged, SuccessIsPublished, UnfinishedJobs,
     Unfinished, Active, WorkerSteps
<1> QED BY <1>1, <1>2, <1>3, <1>4, <1>5, <1>6, <1>7, <1>8 DEF IInv

\* Parameters are none of the invariant's concerns.
LEMMA SetParametersKeeps ==
  ASSUME IInv, NEW p \in Parameters, SetParameters(p)
  PROVE  IInv'
<1> USE DEF SetParameters, jobVars, fileVars, pendingVars, sessionVars, threadVars
<1>1. TypeOK'
  BY DEF IInv, TypeOK, Steps, JobStates, WorkerSteps, Modes
<1>2. (CurIsHeld /\ ActiveIsCurrent /\ DeferredSwitchOwned)'
  BY JobAssumption DEF IInv, TypeOK, CurIsHeld, ActiveIsCurrent,
     DeferredSwitchOwned, FileStepsWithJob, WorkerSteps, ActiveJobs, Active
<1>3. (RealtimeOnlyInItsMode /\ RealtimeMatchesMode)'
  BY DEF IInv, RealtimeOnlyInItsMode, RealtimeMatchesMode
<1>4. QueueListsQueued'
  BY DEF IInv, TypeOK, QueueListsQueued
<1>5. QueueBounded'
  <2>1. UnfinishedJobs' \subseteq UnfinishedJobs
    BY DEF IInv, TypeOK, UnfinishedJobs, Unfinished, Active
  <2> QED BY <2>1, BoundKept DEF IInv
<1>6. (UnfinishedHasModel /\ InferenceUsesRequestedModel)'
  BY ModelAssumption DEF IInv, TypeOK, UnfinishedHasModel,
     InferenceUsesRequestedModel, Unfinished, Active, WorkerSteps
<1>7. (UnfinishedKeepsSource /\ TempsBelongToCurrent)'
  BY DEF IInv, TypeOK, UnfinishedKeepsSource, TempsBelongToCurrent, UnfinishedJobs,
     Unfinished, Active, WorkerSteps
<1>8. (CancellingIsFlagged /\ SuccessIsPublished)'
  BY DEF IInv, TypeOK, CancellingIsFlagged, SuccessIsPublished, UnfinishedJobs,
     Unfinished, Active, WorkerSteps
<1> QED BY <1>1, <1>2, <1>3, <1>4, <1>5, <1>6, <1>7, <1>8 DEF IInv

\* A job is admitted below the depth, at the end of the queue.
LEMMA EnqueueFileKeeps ==
  ASSUME IInv, NEW j \in Jobs, NEW m \in Models \cup {NoModel}, EnqueueFile(j, m)
  PROVE  IInv'
<1> USE DEF EnqueueFile, Woken, jobVars, fileVars, pendingVars, sessionVars, threadVars
<1>1. TypeOK'
  BY DEF IInv, TypeOK, Steps, JobStates, WorkerSteps, Modes
<1>2. (CurIsHeld /\ ActiveIsCurrent /\ DeferredSwitchOwned)'
  BY JobAssumption DEF IInv, TypeOK, CurIsHeld, ActiveIsCurrent,
     DeferredSwitchOwned, FileStepsWithJob, WorkerSteps, ActiveJobs, Active
<1>3. (RealtimeOnlyInItsMode /\ RealtimeMatchesMode)'
  BY DEF IInv, RealtimeOnlyInItsMode, RealtimeMatchesMode
<1>4. QueueListsQueued'
  <2>1. /\ waiting \in Seq(Jobs) /\ state \in [Jobs -> JobStates]
        /\ waiting' = Append(waiting, j) /\ state[j] = "absent"
        /\ state' = [state EXCEPT ![j] = "queued"]
    BY DEF IInv, TypeOK
  <2>2. /\ Len(waiting) \in Nat /\ Len(waiting') = Len(waiting) + 1
        /\ waiting'[Len(waiting) + 1] = j
        /\ \A i \in 1 .. Len(waiting) : waiting'[i] = waiting[i] /\ waiting[i] \in Jobs
    BY <2>1
  <2>3. \A i \in 1 .. Len(waiting) : state[waiting[i]] = "queued" /\ waiting[i] # j
    BY <2>1 DEF IInv, QueueListsQueued
  <2>4. \A i \in 1 .. Len(waiting') : state'[waiting'[i]] = "queued"
    BY <2>1, <2>2, <2>3
  <2>5. \A i, k \in 1 .. Len(waiting') : waiting'[i] = waiting'[k] => i = k
    <3>1. \A i, k \in 1 .. Len(waiting) : waiting[i] = waiting[k] => i = k
      BY DEF IInv, QueueListsQueued
    <3>2. QED
      BY <2>2, <2>3, <3>1
  <2>6. \A q \in Jobs : state'[q] = "queued" =>
          \E i \in 1 .. Len(waiting') : waiting'[i] = q
    <3>1. SUFFICES ASSUME NEW q \in Jobs, state'[q] = "queued", q # j
                   PROVE  \E i \in 1 .. Len(waiting) : waiting[i] = q
      BY <2>2
    <3>2. state[q] = "queued"
      BY <2>1, <3>1
    <3>3. QED
      BY <3>2 DEF IInv, QueueListsQueued
  <2>7. QED
    BY <2>4, <2>5, <2>6 DEF QueueListsQueued
<1>5. QueueBounded'
  <2>1. UnfinishedJobs' = UnfinishedJobs \cup {j}
    BY DEF IInv, TypeOK, UnfinishedJobs, Unfinished, Active
  <2> QED BY <2>1, BoundKeptByAdmission
<1>6. (UnfinishedHasModel /\ InferenceUsesRequestedModel)'
  <2>1. UnfinishedHasModel'
    <3> SUFFICES ASSUME NEW k \in Jobs, Unfinished(k)'
                 PROVE  jobModel'[k] # NoModel \/ model' # NoModel
      BY DEF UnfinishedHasModel
    <3>1. CASE k = j
      BY <3>1 DEF IInv, TypeOK
    <3>2. CASE k # j
      BY <3>2 DEF IInv, TypeOK, UnfinishedHasModel, Unfinished, Active
    <3> QED BY <3>1, <3>2
  <2>2. InferenceUsesRequestedModel'
    <3> SUFFICES ASSUME step' \in WorkerSteps
                 PROVE  model' # NoModel /\ (jobModel'[cur'] # NoModel => model' =
                    jobModel'[cur'])
      BY DEF InferenceUsesRequestedModel
    <3>1. step \in WorkerSteps /\ step \in FileStepsWithJob
      BY DEF WorkerSteps, FileStepsWithJob
    <3>2. cur \in Jobs /\ cur # j
      BY <3>1 DEF IInv, CurIsHeld, ActiveIsCurrent, ActiveJobs, Active
    <3> QED BY <3>1, <3>2 DEF IInv, TypeOK, InferenceUsesRequestedModel
  <2> QED BY <2>1, <2>2
<1>7. (UnfinishedKeepsSource /\ TempsBelongToCurrent)'
  BY DEF IInv, TypeOK, UnfinishedKeepsSource, TempsBelongToCurrent, UnfinishedJobs,
     Unfinished, Active, WorkerSteps
<1>8. (CancellingIsFlagged /\ SuccessIsPublished)'
  BY DEF IInv, TypeOK, CancellingIsFlagged, SuccessIsPublished, UnfinishedJobs,
     Unfinished, Active, WorkerSteps
<1> QED BY <1>1, <1>2, <1>3, <1>4, <1>5, <1>6, <1>7, <1>8 DEF IInv

\* A cancelled job leaves the queue, or is flagged and stays active.
LEMMA CancelJobKeeps ==
  ASSUME IInv, NEW j \in Jobs, CancelJob(j)
  PROVE  IInv'
<1> USE DEF CancelJob, Woken, jobVars, fileVars, pendingVars, sessionVars, threadVars
<1>1. TypeOK'
  <2>1. waiting' \in Seq(Jobs)
    BY WithoutProperties DEF IInv, TypeOK
  <2> QED BY <2>1 DEF IInv, TypeOK, Steps, JobStates
<1>2. (CurIsHeld /\ ActiveIsCurrent /\ DeferredSwitchOwned)'
  BY JobAssumption DEF IInv, TypeOK, CurIsHeld, ActiveIsCurrent,
     DeferredSwitchOwned, FileStepsWithJob, WorkerSteps, ActiveJobs, Active
<1>3. (RealtimeOnlyInItsMode /\ RealtimeMatchesMode)'
  BY DEF IInv, RealtimeOnlyInItsMode, RealtimeMatchesMode
<1>4. QueueListsQueued'
  <2>1. CASE state[j] = "queued"
    <3>1. waiting' = Without(j) /\ state' = [state EXCEPT ![j] = "cancelled"]
      BY <2>1
    <3>2. "cancelled" \in JobStates \ {"queued"}
      BY DEF JobStates
    <3>3. waiting \in Seq(Jobs) /\ QueueListsQueued /\ state \in [Jobs -> JobStates]
      BY DEF IInv, TypeOK
    <3> QED BY <2>1, <3>1, <3>2, <3>3, LeavesQueue
  <2>2. CASE state[j] = "processing"
    BY <2>2 DEF IInv, TypeOK, QueueListsQueued
  <2> QED BY <2>1, <2>2
<1>5. QueueBounded'
  <2>1. UnfinishedJobs' \subseteq UnfinishedJobs
    BY DEF IInv, TypeOK, UnfinishedJobs, Unfinished, Active
  <2> QED BY <2>1, BoundKept DEF IInv
<1>6. (UnfinishedHasModel /\ InferenceUsesRequestedModel)'
  BY ModelAssumption DEF IInv, TypeOK, UnfinishedHasModel,
     InferenceUsesRequestedModel, Unfinished, Active, WorkerSteps
<1>7. (UnfinishedKeepsSource /\ TempsBelongToCurrent)'
  BY DEF IInv, TypeOK, UnfinishedKeepsSource, TempsBelongToCurrent, UnfinishedJobs,
     Unfinished, Active, WorkerSteps
<1>8. (CancellingIsFlagged /\ SuccessIsPublished)'
  BY DEF IInv, TypeOK, CancellingIsFlagged, SuccessIsPublished, UnfinishedJobs,
     Unfinished, Active, WorkerSteps
<1> QED BY <1>1, <1>2, <1>3, <1>4, <1>5, <1>6, <1>7, <1>8 DEF IInv

\* Only a job the file thread does not hold is erased.
LEMMA RemoveJobKeeps ==
  ASSUME IInv, NEW j \in Jobs, RemoveJob(j)
  PROVE  IInv'
<1> USE DEF RemoveJob, Erase, jobVars, fileVars, pendingVars, sessionVars, threadVars
<1>0. /\ j # cur \/ step \notin FileStepsWithJob
      /\ state' = [state EXCEPT ![j] = "absent"]
      /\ jobModel' = [jobModel EXCEPT ![j] = NoModel]
  BY DEF IInv, TypeOK, ActiveIsCurrent, ActiveJobs
<1>1. TypeOK'
  <2>1. waiting' \in Seq(Jobs)
    BY WithoutProperties DEF IInv, TypeOK
  <2> QED BY <2>1 DEF IInv, TypeOK, JobStates
<1>2. (CurIsHeld /\ ActiveIsCurrent /\ DeferredSwitchOwned)'
  BY <1>0, JobAssumption DEF IInv, TypeOK, CurIsHeld, ActiveIsCurrent,
     DeferredSwitchOwned, FileStepsWithJob, WorkerSteps, ActiveJobs, Active
<1>3. (RealtimeOnlyInItsMode /\ RealtimeMatchesMode)'
  BY DEF IInv, RealtimeOnlyInItsMode, RealtimeMatchesMode
<1>4. QueueListsQueued'
  <2>1. CASE state[j] = "queued"
    <3>1. waiting' = Without(j)
      BY <2>1
    <3>2. "absent" \in JobStates \ {"queued"}
      BY DEF JobStates
    <3>3. waiting \in Seq(Jobs) /\ QueueListsQueued /\ state \in [Jobs -> JobStates]
      BY DEF IInv, TypeOK
    <3> QED BY <1>0, <2>1, <3>1, <3>2, <3>3, LeavesQueue
  <2>2. CASE state[j] # "queued"
    BY <1>0, <2>2 DEF IInv, TypeOK, QueueListsQueued
  <2> QED BY <2>1, <2>2
<1>5. QueueBounded'
  <2>1. UnfinishedJobs' \subseteq UnfinishedJobs
    BY DEF IInv, TypeOK, UnfinishedJobs, Unfinished, Active
  <2> QED BY <2>1, BoundKept DEF IInv
<1>6. (UnfinishedHasModel /\ InferenceUsesRequestedModel)'
  <2>1. UnfinishedHasModel'
    BY <1>0 DEF IInv, TypeOK, UnfinishedHasModel, Unfinished, Active
  <2>2. InferenceUsesRequestedModel'
    BY <1>0 DEF IInv, TypeOK, CurIsHeld, InferenceUsesRequestedModel, FileStepsWithJob
  <2> QED BY <2>1, <2>2
<1>7. (UnfinishedKeepsSource /\ TempsBelongToCurrent)'
  BY DEF IInv, TypeOK, UnfinishedKeepsSource, TempsBelongToCurrent, UnfinishedJobs,
     Unfinished, Active, WorkerSteps
<1>8. (CancellingIsFlagged /\ SuccessIsPublished)'
  <2>1. CancellingIsFlagged'
    BY <1>0 DEF IInv, TypeOK, CancellingIsFlagged
  <2>2. SuccessIsPublished'
    BY <1>0 DEF IInv, SuccessIsPublished, FileStepsWithJob
  <2> QED BY <2>1, <2>2
<1> QED BY <1>1, <1>2, <1>3, <1>4, <1>5, <1>6, <1>7, <1>8 DEF IInv

\* Pausing touches nothing the invariant speaks of.
LEMMA PauseQueueKeeps ==
  ASSUME IInv, PauseQueue
  PROVE  IInv'
<1> USE DEF PauseQueue, jobVars, fileVars, pendingVars, sessionVars, threadVars
<1>1. TypeOK'
  BY DEF IInv, TypeOK, Steps, JobStates, WorkerSteps, Modes
<1>2. (CurIsHeld /\ ActiveIsCurrent /\ DeferredSwitchOwned)'
  BY JobAssumption DEF IInv, TypeOK, CurIsHeld, ActiveIsCurrent,
     DeferredSwitchOwned, FileStepsWithJob, WorkerSteps, ActiveJobs, Active
<1>3. (RealtimeOnlyInItsMode /\ RealtimeMatchesMode)'
  BY DEF IInv, RealtimeOnlyInItsMode, RealtimeMatchesMode
<1>4. QueueListsQueued'
  BY DEF IInv, TypeOK, QueueListsQueued
<1>5. QueueBounded'
  <2>1. UnfinishedJobs' \subseteq UnfinishedJobs
    BY DEF IInv, TypeOK, UnfinishedJobs, Unfinished, Active
  <2> QED BY <2>1, BoundKept DEF IInv
<1>6. (UnfinishedHasModel /\ InferenceUsesRequestedModel)'
  BY ModelAssumption DEF IInv, TypeOK, UnfinishedHasModel,
     InferenceUsesRequestedModel, Unfinished, Active, WorkerSteps
<1>7. (UnfinishedKeepsSource /\ TempsBelongToCurrent)'
  BY DEF IInv, TypeOK, UnfinishedKeepsSource, TempsBelongToCurrent, UnfinishedJobs,
     Unfinished, Active, WorkerSteps
<1>8. (CancellingIsFlagged /\ SuccessIsPublished)'
  BY DEF IInv, TypeOK, CancellingIsFlagged, SuccessIsPublished, UnfinishedJobs,
     Unfinished, Active, WorkerSteps
<1> QED BY <1>1, <1>2, <1>3, <1>4, <1>5, <1>6, <1>7, <1>8 DEF IInv

\* Resuming may only wake the file thread.
LEMMA ResumeQueueKeeps ==
  ASSUME IInv, ResumeQueue
  PROVE  IInv'
<1> USE DEF ResumeQueue, Woken, jobVars, fileVars, pendingVars, sessionVars, threadVars
<1>1. TypeOK'
  BY DEF IInv, TypeOK, Steps, JobStates, WorkerSteps, Modes
<1>2. (CurIsHeld /\ ActiveIsCurrent /\ DeferredSwitchOwned)'
  BY JobAssumption DEF IInv, TypeOK, CurIsHeld, ActiveIsCurrent,
     DeferredSwitchOwned, FileStepsWithJob, WorkerSteps, ActiveJobs, Active
<1>3. (RealtimeOnlyInItsMode /\ RealtimeMatchesMode)'
  BY DEF IInv, RealtimeOnlyInItsMode, RealtimeMatchesMode
<1>4. QueueListsQueued'
  BY DEF IInv, TypeOK, QueueListsQueued
<1>5. QueueBounded'
  <2>1. UnfinishedJobs' \subseteq UnfinishedJobs
    BY DEF IInv, TypeOK, UnfinishedJobs, Unfinished, Active
  <2> QED BY <2>1, BoundKept DEF IInv
<1>6. (UnfinishedHasModel /\ InferenceUsesRequestedModel)'
  BY ModelAssumption DEF IInv, TypeOK, UnfinishedHasModel,
     InferenceUsesRequestedModel, Unfinished, Active, WorkerSteps
<1>7. (UnfinishedKeepsSource /\ TempsBelongToCurrent)'
  BY DEF IInv, TypeOK, UnfinishedKeepsSource, TempsBelongToCurrent, UnfinishedJobs,
     Unfinished, Active, WorkerSteps
<1>8. (CancellingIsFlagged /\ SuccessIsPublished)'
  BY DEF IInv, TypeOK, CancellingIsFlagged, SuccessIsPublished, UnfinishedJobs,
     Unfinished, Active, WorkerSteps
<1> QED BY <1>1, <1>2, <1>3, <1>4, <1>5, <1>6, <1>7, <1>8 DEF IInv

\* Only finished jobs are erased.
LEMMA ClearFinishedKeeps ==
  ASSUME IInv, ClearFinished
  PROVE  IInv'
<1> USE DEF ClearFinished, Erase, Finished, jobVars, fileVars, pendingVars, sessionVars, threadVars
<1>0. step \in FileStepsWithJob => ~Finished(cur)
  BY DEF IInv, ActiveIsCurrent, ActiveJobs, Active
<1>1. TypeOK'
  BY DEF IInv, TypeOK, Steps, JobStates, WorkerSteps, Modes
<1>2. (CurIsHeld /\ ActiveIsCurrent /\ DeferredSwitchOwned)'
  BY JobAssumption DEF IInv, TypeOK, CurIsHeld, ActiveIsCurrent,
     DeferredSwitchOwned, FileStepsWithJob, WorkerSteps, ActiveJobs, Active
<1>3. (RealtimeOnlyInItsMode /\ RealtimeMatchesMode)'
  BY DEF IInv, RealtimeOnlyInItsMode, RealtimeMatchesMode
<1>4. QueueListsQueued'
  BY DEF IInv, TypeOK, QueueListsQueued
<1>5. QueueBounded'
  <2>1. UnfinishedJobs' \subseteq UnfinishedJobs
    BY DEF IInv, TypeOK, UnfinishedJobs, Unfinished, Active
  <2> QED BY <2>1, BoundKept DEF IInv
<1>6. (UnfinishedHasModel /\ InferenceUsesRequestedModel)'
  <2>1. UnfinishedHasModel'
    BY DEF IInv, TypeOK, UnfinishedHasModel, Unfinished, Active
  <2>2. InferenceUsesRequestedModel'
    BY <1>0 DEF IInv, TypeOK, CurIsHeld, InferenceUsesRequestedModel, FileStepsWithJob
  <2> QED BY <2>1, <2>2
<1>7. (UnfinishedKeepsSource /\ TempsBelongToCurrent)'
  BY DEF IInv, TypeOK, UnfinishedKeepsSource, TempsBelongToCurrent, UnfinishedJobs,
     Unfinished, Active, WorkerSteps
<1>8. (CancellingIsFlagged /\ SuccessIsPublished)'
  <2>1. CancellingIsFlagged'
    BY DEF IInv, TypeOK, CancellingIsFlagged
  <2>2. SuccessIsPublished'
    BY <1>0 DEF IInv, SuccessIsPublished, FileStepsWithJob
  <2> QED BY <2>1, <2>2
<1> QED BY <1>1, <1>2, <1>3, <1>4, <1>5, <1>6, <1>7, <1>8 DEF IInv

\* Blocking changes nothing but where the thread is.
LEMMA FileWaitKeeps ==
  ASSUME IInv, FileWait
  PROVE  IInv'
<1> USE DEF FileWait, jobVars, fileVars, pendingVars, sessionVars, threadVars
<1>1. TypeOK'
  BY DEF IInv, TypeOK, Steps, JobStates, WorkerSteps, Modes
<1>2. (CurIsHeld /\ ActiveIsCurrent /\ DeferredSwitchOwned)'
  BY JobAssumption DEF IInv, TypeOK, CurIsHeld, ActiveIsCurrent,
     DeferredSwitchOwned, FileStepsWithJob, WorkerSteps, ActiveJobs, Active
<1>3. (RealtimeOnlyInItsMode /\ RealtimeMatchesMode)'
  BY DEF IInv, RealtimeOnlyInItsMode, RealtimeMatchesMode
<1>4. QueueListsQueued'
  BY DEF IInv, TypeOK, QueueListsQueued
<1>5. QueueBounded'
  <2>1. UnfinishedJobs' \subseteq UnfinishedJobs
    BY DEF IInv, TypeOK, UnfinishedJobs, Unfinished, Active
  <2> QED BY <2>1, BoundKept DEF IInv
<1>6. (UnfinishedHasModel /\ InferenceUsesRequestedModel)'
  BY ModelAssumption DEF IInv, TypeOK, UnfinishedHasModel,
     InferenceUsesRequestedModel, Unfinished, Active, WorkerSteps
<1>7. (UnfinishedKeepsSource /\ TempsBelongToCurrent)'
  BY DEF IInv, TypeOK, UnfinishedKeepsSource, TempsBelongToCurrent, UnfinishedJobs,
     Unfinished, Active, WorkerSteps
<1>8. (CancellingIsFlagged /\ SuccessIsPublished)'
  BY DEF IInv, TypeOK, CancellingIsFlagged, SuccessIsPublished, UnfinishedJobs,
     Unfinished, Active, WorkerSteps
<1> QED BY <1>1, <1>2, <1>3, <1>4, <1>5, <1>6, <1>7, <1>8 DEF IInv

\* A spurious wakeup changes nothing but where the thread is.
LEMMA SpuriousWakeupKeeps ==
  ASSUME IInv, SpuriousWakeup
  PROVE  IInv'
<1> USE DEF SpuriousWakeup, jobVars, fileVars, pendingVars, sessionVars, threadVars
<1>1. TypeOK'
  BY DEF IInv, TypeOK, Steps, JobStates, WorkerSteps, Modes
<1>2. (CurIsHeld /\ ActiveIsCurrent /\ DeferredSwitchOwned)'
  BY JobAssumption DEF IInv, TypeOK, CurIsHeld, ActiveIsCurrent,
     DeferredSwitchOwned, FileStepsWithJob, WorkerSteps, ActiveJobs, Active
<1>3. (RealtimeOnlyInItsMode /\ RealtimeMatchesMode)'
  BY DEF IInv, RealtimeOnlyInItsMode, RealtimeMatchesMode
<1>4. QueueListsQueued'
  BY DEF IInv, TypeOK, QueueListsQueued
<1>5. QueueBounded'
  <2>1. UnfinishedJobs' \subseteq UnfinishedJobs
    BY DEF IInv, TypeOK, UnfinishedJobs, Unfinished, Active
  <2> QED BY <2>1, BoundKept DEF IInv
<1>6. (UnfinishedHasModel /\ InferenceUsesRequestedModel)'
  BY ModelAssumption DEF IInv, TypeOK, UnfinishedHasModel,
     InferenceUsesRequestedModel, Unfinished, Active, WorkerSteps
<1>7. (UnfinishedKeepsSource /\ TempsBelongToCurrent)'
  BY DEF IInv, TypeOK, UnfinishedKeepsSource, TempsBelongToCurrent, UnfinishedJobs,
     Unfinished, Active, WorkerSteps
<1>8. (CancellingIsFlagged /\ SuccessIsPublished)'
  BY DEF IInv, TypeOK, CancellingIsFlagged, SuccessIsPublished, UnfinishedJobs,
     Unfinished, Active, WorkerSteps
<1> QED BY <1>1, <1>2, <1>3, <1>4, <1>5, <1>6, <1>7, <1>8 DEF IInv

\* The head of the queue becomes the one active job.
LEMMA FilePickKeeps ==
  ASSUME IInv, FilePick
  PROVE  IInv'
<1> USE DEF FilePick, Runnable, jobVars, fileVars, pendingVars, sessionVars, threadVars
<1>0. /\ Head(waiting) \in Jobs /\ state[Head(waiting)] = "queued"
      /\ cur' = Head(waiting) /\ step = "ready"
  BY DEF IInv, TypeOK, QueueListsQueued
<1>1. TypeOK'
  BY DEF IInv, TypeOK, Steps, JobStates, WorkerSteps, Modes
<1>2. (CurIsHeld /\ ActiveIsCurrent /\ DeferredSwitchOwned)'
  BY JobAssumption DEF IInv, TypeOK, CurIsHeld, ActiveIsCurrent,
     DeferredSwitchOwned, FileStepsWithJob, WorkerSteps, ActiveJobs, Active
<1>3. (RealtimeOnlyInItsMode /\ RealtimeMatchesMode)'
  BY DEF IInv, RealtimeOnlyInItsMode, RealtimeMatchesMode
<1>4. QueueListsQueued'
  BY DEF IInv, TypeOK, QueueListsQueued
<1>5. QueueBounded'
  <2>1. UnfinishedJobs' \subseteq UnfinishedJobs
    BY <1>0 DEF IInv, TypeOK, UnfinishedJobs, Unfinished, Active
  <2> QED BY <2>1, BoundKept DEF IInv
<1>6. (UnfinishedHasModel /\ InferenceUsesRequestedModel)'
  BY <1>0 DEF IInv, TypeOK, UnfinishedHasModel, InferenceUsesRequestedModel,
     Unfinished, Active, WorkerSteps
<1>7. (UnfinishedKeepsSource /\ TempsBelongToCurrent)'
  BY <1>0 DEF IInv, TypeOK, UnfinishedKeepsSource, TempsBelongToCurrent,
     UnfinishedJobs, Unfinished, Active, WorkerSteps
<1>8. (CancellingIsFlagged /\ SuccessIsPublished)'
  BY DEF IInv, TypeOK, CancellingIsFlagged, SuccessIsPublished, UnfinishedJobs,
     Unfinished, Active, WorkerSteps
<1> QED BY <1>1, <1>2, <1>3, <1>4, <1>5, <1>6, <1>7, <1>8 DEF IInv

\* Leaving the loop changes nothing but where the thread is.
LEMMA FileExitKeeps ==
  ASSUME IInv, FileExit
  PROVE  IInv'
<1> USE DEF FileExit, jobVars, fileVars, pendingVars, sessionVars, threadVars
<1>1. TypeOK'
  BY DEF IInv, TypeOK, Steps, JobStates, WorkerSteps, Modes
<1>2. (CurIsHeld /\ ActiveIsCurrent /\ DeferredSwitchOwned)'
  BY JobAssumption DEF IInv, TypeOK, CurIsHeld, ActiveIsCurrent,
     DeferredSwitchOwned, FileStepsWithJob, WorkerSteps, ActiveJobs, Active
<1>3. (RealtimeOnlyInItsMode /\ RealtimeMatchesMode)'
  BY DEF IInv, RealtimeOnlyInItsMode, RealtimeMatchesMode
<1>4. QueueListsQueued'
  BY DEF IInv, TypeOK, QueueListsQueued
<1>5. QueueBounded'
  <2>1. UnfinishedJobs' \subseteq UnfinishedJobs
    BY DEF IInv, TypeOK, UnfinishedJobs, Unfinished, Active
  <2> QED BY <2>1, BoundKept DEF IInv
<1>6. (UnfinishedHasModel /\ InferenceUsesRequestedModel)'
  BY ModelAssumption DEF IInv, TypeOK, UnfinishedHasModel,
     InferenceUsesRequestedModel, Unfinished, Active, WorkerSteps
<1>7. (UnfinishedKeepsSource /\ TempsBelongToCurrent)'
  BY DEF IInv, TypeOK, UnfinishedKeepsSource, TempsBelongToCurrent, UnfinishedJobs,
     Unfinished, Active, WorkerSteps
<1>8. (CancellingIsFlagged /\ SuccessIsPublished)'
  BY DEF IInv, TypeOK, CancellingIsFlagged, SuccessIsPublished, UnfinishedJobs,
     Unfinished, Active, WorkerSteps
<1> QED BY <1>1, <1>2, <1>3, <1>4, <1>5, <1>6, <1>7, <1>8 DEF IInv

\* The worker selects the job's model, or runs with the one selected.
LEMMA WorkerBeginKeeps ==
  ASSUME IInv, WorkerBegin
  PROVE  IInv'
<1> USE DEF WorkerBegin, WorkerUnchanged, jobVars, fileVars, pendingVars, sessionVars, threadVars
<1>0. cur \in Jobs /\ Unfinished(cur)
  BY DEF IInv, CurIsHeld, ActiveIsCurrent, ActiveJobs, FileStepsWithJob, Unfinished
<1>1. TypeOK'
  BY <1>0 DEF IInv, TypeOK, Steps, WorkerSteps
<1>2. (CurIsHeld /\ ActiveIsCurrent /\ DeferredSwitchOwned)'
  BY JobAssumption DEF IInv, TypeOK, CurIsHeld, ActiveIsCurrent,
     DeferredSwitchOwned, FileStepsWithJob, WorkerSteps, ActiveJobs, Active
<1>3. (RealtimeOnlyInItsMode /\ RealtimeMatchesMode)'
  BY DEF IInv, RealtimeOnlyInItsMode, RealtimeMatchesMode
<1>4. QueueListsQueued'
  BY DEF IInv, TypeOK, QueueListsQueued
<1>5. QueueBounded'
  <2>1. UnfinishedJobs' \subseteq UnfinishedJobs
    BY DEF IInv, TypeOK, UnfinishedJobs, Unfinished, Active
  <2> QED BY <2>1, BoundKept DEF IInv
<1>6. (UnfinishedHasModel /\ InferenceUsesRequestedModel)'
  <2>1. model' # NoModel
    BY <1>0, ModelAssumption DEF IInv, TypeOK, UnfinishedHasModel
  <2>2. model' = jobModel[cur] \/ jobModel[cur] = NoModel
    OBVIOUS
  <2> QED BY <2>1, <2>2 DEF UnfinishedHasModel, InferenceUsesRequestedModel,
     Unfinished, Active
<1>7. (UnfinishedKeepsSource /\ TempsBelongToCurrent)'
  BY DEF IInv, TypeOK, UnfinishedKeepsSource, TempsBelongToCurrent, UnfinishedJobs,
     Unfinished, Active, WorkerSteps
<1>8. (CancellingIsFlagged /\ SuccessIsPublished)'
  BY DEF IInv, TypeOK, CancellingIsFlagged, SuccessIsPublished, UnfinishedJobs,
     Unfinished, Active, WorkerSteps
<1> QED BY <1>1, <1>2, <1>3, <1>4, <1>5, <1>6, <1>7, <1>8 DEF IInv

\* A refused job is not converted.
LEMMA WorkerRefuseKeeps ==
  ASSUME IInv, WorkerRefuse
  PROVE  IInv'
<1> USE DEF WorkerRefuse, WorkerUnchanged, jobVars, fileVars, pendingVars, sessionVars, threadVars
<1>1. TypeOK'
  BY DEF IInv, TypeOK, Steps, JobStates, WorkerSteps, Modes
<1>2. (CurIsHeld /\ ActiveIsCurrent /\ DeferredSwitchOwned)'
  BY JobAssumption DEF IInv, TypeOK, CurIsHeld, ActiveIsCurrent,
     DeferredSwitchOwned, FileStepsWithJob, WorkerSteps, ActiveJobs, Active
<1>3. (RealtimeOnlyInItsMode /\ RealtimeMatchesMode)'
  BY DEF IInv, RealtimeOnlyInItsMode, RealtimeMatchesMode
<1>4. QueueListsQueued'
  BY DEF IInv, TypeOK, QueueListsQueued
<1>5. QueueBounded'
  <2>1. UnfinishedJobs' \subseteq UnfinishedJobs
    BY DEF IInv, TypeOK, UnfinishedJobs, Unfinished, Active
  <2> QED BY <2>1, BoundKept DEF IInv
<1>6. (UnfinishedHasModel /\ InferenceUsesRequestedModel)'
  BY ModelAssumption DEF IInv, TypeOK, UnfinishedHasModel,
     InferenceUsesRequestedModel, Unfinished, Active, WorkerSteps
<1>7. (UnfinishedKeepsSource /\ TempsBelongToCurrent)'
  BY DEF IInv, TypeOK, UnfinishedKeepsSource, TempsBelongToCurrent, UnfinishedJobs,
     Unfinished, Active, WorkerSteps
<1>8. (CancellingIsFlagged /\ SuccessIsPublished)'
  BY DEF IInv, TypeOK, CancellingIsFlagged, SuccessIsPublished, UnfinishedJobs,
     Unfinished, Active, WorkerSteps
<1> QED BY <1>1, <1>2, <1>3, <1>4, <1>5, <1>6, <1>7, <1>8 DEF IInv

\* The worker goes on with the job it has, under its Cleanup guard.
LEMMA WorkerAdvanceKeeps ==
  ASSUME IInv, WorkerAdvance
  PROVE  IInv'
<1> USE DEF WorkerAdvance, WorkerUnchanged, jobVars, fileVars, pendingVars, sessionVars, threadVars
<1>0. cur \in Jobs
  BY DEF IInv, CurIsHeld, FileStepsWithJob, WorkerSteps
<1>1. TypeOK'
  BY <1>0 DEF IInv, TypeOK, Steps, WorkerSteps
<1>2. (CurIsHeld /\ ActiveIsCurrent /\ DeferredSwitchOwned)'
  BY JobAssumption DEF IInv, TypeOK, CurIsHeld, ActiveIsCurrent,
     DeferredSwitchOwned, FileStepsWithJob, WorkerSteps, ActiveJobs, Active
<1>3. (RealtimeOnlyInItsMode /\ RealtimeMatchesMode)'
  BY DEF IInv, RealtimeOnlyInItsMode, RealtimeMatchesMode
<1>4. QueueListsQueued'
  BY DEF IInv, TypeOK, QueueListsQueued
<1>5. QueueBounded'
  <2>1. UnfinishedJobs' \subseteq UnfinishedJobs
    BY DEF IInv, TypeOK, UnfinishedJobs, Unfinished, Active
  <2> QED BY <2>1, BoundKept DEF IInv
<1>6. (UnfinishedHasModel /\ InferenceUsesRequestedModel)'
  BY ModelAssumption DEF IInv, TypeOK, UnfinishedHasModel,
     InferenceUsesRequestedModel, Unfinished, Active, WorkerSteps
<1>7. (UnfinishedKeepsSource /\ TempsBelongToCurrent)'
  BY DEF IInv, TypeOK, UnfinishedKeepsSource, TempsBelongToCurrent, UnfinishedJobs,
     Unfinished, Active, WorkerSteps
<1>8. (CancellingIsFlagged /\ SuccessIsPublished)'
  BY DEF IInv, TypeOK, CancellingIsFlagged, SuccessIsPublished, UnfinishedJobs,
     Unfinished, Active, WorkerSteps
<1> QED BY <1>1, <1>2, <1>3, <1>4, <1>5, <1>6, <1>7, <1>8 DEF IInv

\* A failed conversion leaves no temporary file.
LEMMA WorkerFailKeeps ==
  ASSUME IInv, WorkerFail
  PROVE  IInv'
<1> USE DEF WorkerFail, WorkerUnchanged, jobVars, fileVars, pendingVars, sessionVars, threadVars
<1>1. TypeOK'
  BY DEF IInv, TypeOK, Steps, JobStates, WorkerSteps, Modes
<1>2. (CurIsHeld /\ ActiveIsCurrent /\ DeferredSwitchOwned)'
  BY JobAssumption DEF IInv, TypeOK, CurIsHeld, ActiveIsCurrent,
     DeferredSwitchOwned, FileStepsWithJob, WorkerSteps, ActiveJobs, Active
<1>3. (RealtimeOnlyInItsMode /\ RealtimeMatchesMode)'
  BY DEF IInv, RealtimeOnlyInItsMode, RealtimeMatchesMode
<1>4. QueueListsQueued'
  BY DEF IInv, TypeOK, QueueListsQueued
<1>5. QueueBounded'
  <2>1. UnfinishedJobs' \subseteq UnfinishedJobs
    BY DEF IInv, TypeOK, UnfinishedJobs, Unfinished, Active
  <2> QED BY <2>1, BoundKept DEF IInv
<1>6. (UnfinishedHasModel /\ InferenceUsesRequestedModel)'
  BY ModelAssumption DEF IInv, TypeOK, UnfinishedHasModel,
     InferenceUsesRequestedModel, Unfinished, Active, WorkerSteps
<1>7. (UnfinishedKeepsSource /\ TempsBelongToCurrent)'
  BY DEF IInv, TypeOK, UnfinishedKeepsSource, TempsBelongToCurrent, UnfinishedJobs,
     Unfinished, Active, WorkerSteps
<1>8. (CancellingIsFlagged /\ SuccessIsPublished)'
  BY DEF IInv, TypeOK, CancellingIsFlagged, SuccessIsPublished, UnfinishedJobs,
     Unfinished, Active, WorkerSteps
<1> QED BY <1>1, <1>2, <1>3, <1>4, <1>5, <1>6, <1>7, <1>8 DEF IInv

\* The worker succeeds only by publishing an output.
LEMMA WorkerPublishKeeps ==
  ASSUME IInv, WorkerPublish
  PROVE  IInv'
<1> USE DEF WorkerPublish, WorkerUnchanged, jobVars, fileVars, pendingVars, sessionVars, threadVars
<1>0. cur \in Jobs
  BY DEF IInv, CurIsHeld, FileStepsWithJob, WorkerSteps
<1>1. TypeOK'
  BY <1>0 DEF IInv, TypeOK, Steps, WorkerSteps
<1>2. (CurIsHeld /\ ActiveIsCurrent /\ DeferredSwitchOwned)'
  BY JobAssumption DEF IInv, TypeOK, CurIsHeld, ActiveIsCurrent,
     DeferredSwitchOwned, FileStepsWithJob, WorkerSteps, ActiveJobs, Active
<1>3. (RealtimeOnlyInItsMode /\ RealtimeMatchesMode)'
  BY DEF IInv, RealtimeOnlyInItsMode, RealtimeMatchesMode
<1>4. QueueListsQueued'
  BY DEF IInv, TypeOK, QueueListsQueued
<1>5. QueueBounded'
  <2>1. UnfinishedJobs' \subseteq UnfinishedJobs
    BY DEF IInv, TypeOK, UnfinishedJobs, Unfinished, Active
  <2> QED BY <2>1, BoundKept DEF IInv
<1>6. (UnfinishedHasModel /\ InferenceUsesRequestedModel)'
  BY ModelAssumption DEF IInv, TypeOK, UnfinishedHasModel,
     InferenceUsesRequestedModel, Unfinished, Active, WorkerSteps
<1>7. (UnfinishedKeepsSource /\ TempsBelongToCurrent)'
  BY DEF IInv, TypeOK, UnfinishedKeepsSource, TempsBelongToCurrent, UnfinishedJobs,
     Unfinished, Active, WorkerSteps
<1>8. (CancellingIsFlagged /\ SuccessIsPublished)'
  BY DEF IInv, TypeOK, CancellingIsFlagged, SuccessIsPublished, UnfinishedJobs,
     Unfinished, Active, WorkerSteps
<1> QED BY <1>1, <1>2, <1>3, <1>4, <1>5, <1>6, <1>7, <1>8 DEF IInv

\* The job of the file thread ends: no job is active any more.
LEMMA FileFinishKeeps ==
  ASSUME IInv, FileFinish
  PROVE  IInv'
<1> USE DEF FileFinish, jobVars, fileVars, pendingVars, sessionVars, threadVars
<1>0. cur \in Jobs /\ state[cur] # "queued"
  BY DEF IInv, CurIsHeld, ActiveIsCurrent, ActiveJobs, Active, FileStepsWithJob
<1>1. TypeOK'
  BY DEF IInv, TypeOK, Steps, JobStates, WorkerSteps, Modes
<1>2. (CurIsHeld /\ ActiveIsCurrent /\ DeferredSwitchOwned)'
  BY JobAssumption DEF IInv, TypeOK, CurIsHeld, ActiveIsCurrent,
     DeferredSwitchOwned, FileStepsWithJob, WorkerSteps, ActiveJobs, Active
<1>3. (RealtimeOnlyInItsMode /\ RealtimeMatchesMode)'
  BY DEF IInv, RealtimeOnlyInItsMode, RealtimeMatchesMode
<1>4. QueueListsQueued'
  BY <1>0 DEF IInv, TypeOK, QueueListsQueued
<1>5. QueueBounded'
  <2>1. UnfinishedJobs' \subseteq UnfinishedJobs
    BY DEF IInv, TypeOK, UnfinishedJobs, Unfinished, Active
  <2> QED BY <2>1, BoundKept DEF IInv
<1>6. (UnfinishedHasModel /\ InferenceUsesRequestedModel)'
  BY ModelAssumption DEF IInv, TypeOK, UnfinishedHasModel,
     InferenceUsesRequestedModel, Unfinished, Active, WorkerSteps
<1>7. (UnfinishedKeepsSource /\ TempsBelongToCurrent)'
  BY DEF IInv, TypeOK, UnfinishedKeepsSource, TempsBelongToCurrent, UnfinishedJobs,
     Unfinished, Active, WorkerSteps
<1>8. (CancellingIsFlagged /\ SuccessIsPublished)'
  BY DEF IInv, TypeOK, CancellingIsFlagged, SuccessIsPublished, UnfinishedJobs,
     Unfinished, Active, WorkerSteps
<1> QED BY <1>1, <1>2, <1>3, <1>4, <1>5, <1>6, <1>7, <1>8 DEF IInv

\* Eviction spares the files of unfinished jobs.
LEMMA FileEvictKeeps ==
  ASSUME IInv, FileEvict
  PROVE  IInv'
<1> USE DEF FileEvict, jobVars, fileVars, pendingVars, sessionVars, threadVars
<1>1. TypeOK'
  BY DEF IInv, TypeOK, Steps, JobStates, WorkerSteps, Modes
<1>2. (CurIsHeld /\ ActiveIsCurrent /\ DeferredSwitchOwned)'
  BY JobAssumption DEF IInv, TypeOK, CurIsHeld, ActiveIsCurrent,
     DeferredSwitchOwned, FileStepsWithJob, WorkerSteps, ActiveJobs, Active
<1>3. (RealtimeOnlyInItsMode /\ RealtimeMatchesMode)'
  BY DEF IInv, RealtimeOnlyInItsMode, RealtimeMatchesMode
<1>4. QueueListsQueued'
  BY DEF IInv, TypeOK, QueueListsQueued
<1>5. QueueBounded'
  <2>1. UnfinishedJobs' \subseteq UnfinishedJobs
    BY DEF IInv, TypeOK, UnfinishedJobs, Unfinished, Active
  <2> QED BY <2>1, BoundKept DEF IInv
<1>6. (UnfinishedHasModel /\ InferenceUsesRequestedModel)'
  BY ModelAssumption DEF IInv, TypeOK, UnfinishedHasModel,
     InferenceUsesRequestedModel, Unfinished, Active, WorkerSteps
<1>7. (UnfinishedKeepsSource /\ TempsBelongToCurrent)'
  BY DEF IInv, TypeOK, UnfinishedKeepsSource, TempsBelongToCurrent, UnfinishedJobs,
     Unfinished, Active, WorkerSteps
<1>8. (CancellingIsFlagged /\ SuccessIsPublished)'
  BY DEF IInv, TypeOK, CancellingIsFlagged, SuccessIsPublished, UnfinishedJobs,
     Unfinished, Active, WorkerSteps
<1> QED BY <1>1, <1>2, <1>3, <1>4, <1>5, <1>6, <1>7, <1>8 DEF IInv

\* The pending slot is emptied, and applied while no job is active.
LEMMA FileApplyDeferredKeeps ==
  ASSUME IInv, FileApplyDeferred
  PROVE  IInv'
<1> USE DEF jobVars, fileVars, pendingVars, sessionVars, threadVars
<1>0. /\ UNCHANGED <<jobVars, fileVars, cur, succeeded, life, routing, parameters>>
      /\ step = "deferred" /\ step' = "ready"
      /\ mode' \in Modes /\ paused' \in BOOLEAN /\ realtime' \in BOOLEAN
      /\ workerRouting' \in Routings /\ model' \in Models \cup {NoModel}
      /\ pendingMode' = NoMode /\ pendingModel' \in Models \cup {NoModel}
      /\ realtime' => mode' = "rt_rvc"
      /\ life' = "running" => (mode' = "rt_rvc" => realtime')
      /\ realtime' /\ life' = "running" => workerRouting' = routing
      /\ model # NoModel => model' # NoModel
  <2>1. CASE pendingMode = NoMode
    BY <2>1 DEF FileApplyDeferred, IInv, TypeOK, RealtimeOnlyInItsMode, RealtimeMatchesMode
  <2>2. CASE pendingMode # NoMode
    <3>1. pendingMode \in Modes /\ pendingModel \in Models \cup {NoModel}
      BY <2>2 DEF IInv, TypeOK
    <3>2. Transition(pendingMode, pendingModel, "ready", "ready")
      BY <2>2 DEF FileApplyDeferred
    <3>3. TypeOK /\ RealtimeOnlyInItsMode
      BY DEF IInv
    <3>4. /\ mode' \in Modes /\ paused' \in BOOLEAN /\ realtime' \in BOOLEAN
          /\ workerRouting' \in Routings /\ model' \in Models \cup {NoModel}
          /\ step' \in {"ready", "ready"}
          /\ realtime' <=> mode' = "rt_rvc"
          /\ realtime' => workerRouting' = routing
          /\ model # NoModel => model' # NoModel
      BY <3>1, <3>2, <3>3, TransitionFacts
    <3> QED BY <2>2, <3>4 DEF FileApplyDeferred
  <2> QED BY <2>1, <2>2
<1>1. TypeOK'
  BY <1>0 DEF IInv, TypeOK, Steps
<1>2. (CurIsHeld /\ ActiveIsCurrent /\ DeferredSwitchOwned)'
  BY <1>0 DEF IInv, CurIsHeld, ActiveIsCurrent, DeferredSwitchOwned,
     FileStepsWithJob, WorkerSteps, ActiveJobs, Active
<1>3. (RealtimeOnlyInItsMode /\ RealtimeMatchesMode)'
  BY <1>0 DEF RealtimeOnlyInItsMode, RealtimeMatchesMode
<1>4. QueueListsQueued'
  BY <1>0 DEF IInv, QueueListsQueued
<1>5. QueueBounded'
  <2>1. UnfinishedJobs' = UnfinishedJobs
    BY <1>0 DEF UnfinishedJobs, Unfinished, Active
  <2> QED BY <2>1, BoundKept DEF IInv
<1>6. (UnfinishedHasModel /\ InferenceUsesRequestedModel)'
  BY <1>0 DEF IInv, UnfinishedHasModel, InferenceUsesRequestedModel, Unfinished,
     Active, WorkerSteps
<1>7. (UnfinishedKeepsSource /\ TempsBelongToCurrent)'
  BY <1>0 DEF IInv, UnfinishedKeepsSource, TempsBelongToCurrent, UnfinishedJobs,
     Unfinished, Active, WorkerSteps
<1>8. (CancellingIsFlagged /\ SuccessIsPublished)'
  BY <1>0 DEF IInv, CancellingIsFlagged, SuccessIsPublished
<1> QED BY <1>1, <1>2, <1>3, <1>4, <1>5, <1>6, <1>7, <1>8 DEF IInv

\* The destructor flags the active job and ends the realtime session.
LEMMA BeginShutdownKeeps ==
  ASSUME IInv, BeginShutdown
  PROVE  IInv'
<1> USE DEF BeginShutdown, NoRealtime, Woken, jobVars, fileVars, pendingVars, sessionVars, threadVars
<1>1. TypeOK'
  BY DEF IInv, TypeOK, Steps, ActiveJobs
<1>2. (CurIsHeld /\ ActiveIsCurrent /\ DeferredSwitchOwned)'
  BY JobAssumption DEF IInv, TypeOK, CurIsHeld, ActiveIsCurrent,
     DeferredSwitchOwned, FileStepsWithJob, WorkerSteps, ActiveJobs, Active
<1>3. (RealtimeOnlyInItsMode /\ RealtimeMatchesMode)'
  BY DEF IInv, RealtimeOnlyInItsMode, RealtimeMatchesMode
<1>4. QueueListsQueued'
  BY DEF IInv, TypeOK, QueueListsQueued
<1>5. QueueBounded'
  <2>1. UnfinishedJobs' \subseteq UnfinishedJobs
    BY DEF IInv, TypeOK, UnfinishedJobs, Unfinished, Active
  <2> QED BY <2>1, BoundKept DEF IInv
<1>6. (UnfinishedHasModel /\ InferenceUsesRequestedModel)'
  BY ModelAssumption DEF IInv, TypeOK, UnfinishedHasModel,
     InferenceUsesRequestedModel, Unfinished, Active, WorkerSteps
<1>7. (UnfinishedKeepsSource /\ TempsBelongToCurrent)'
  BY DEF IInv, TypeOK, UnfinishedKeepsSource, TempsBelongToCurrent, UnfinishedJobs,
     Unfinished, Active, WorkerSteps
<1>8. (CancellingIsFlagged /\ SuccessIsPublished)'
  BY DEF IInv, TypeOK, CancellingIsFlagged, SuccessIsPublished, UnfinishedJobs,
     Unfinished, Active, WorkerSteps
<1> QED BY <1>1, <1>2, <1>3, <1>4, <1>5, <1>6, <1>7, <1>8 DEF IInv

\* Destroying the members ends a realtime session that came late.
LEMMA FinishShutdownKeeps ==
  ASSUME IInv, FinishShutdown
  PROVE  IInv'
<1> USE DEF FinishShutdown, NoRealtime, jobVars, fileVars, pendingVars, sessionVars, threadVars
<1>1. TypeOK'
  BY DEF IInv, TypeOK, Steps, JobStates, WorkerSteps, Modes
<1>2. (CurIsHeld /\ ActiveIsCurrent /\ DeferredSwitchOwned)'
  BY JobAssumption DEF IInv, TypeOK, CurIsHeld, ActiveIsCurrent,
     DeferredSwitchOwned, FileStepsWithJob, WorkerSteps, ActiveJobs, Active
<1>3. (RealtimeOnlyInItsMode /\ RealtimeMatchesMode)'
  BY DEF IInv, RealtimeOnlyInItsMode, RealtimeMatchesMode
<1>4. QueueListsQueued'
  BY DEF IInv, TypeOK, QueueListsQueued
<1>5. QueueBounded'
  <2>1. UnfinishedJobs' \subseteq UnfinishedJobs
    BY DEF IInv, TypeOK, UnfinishedJobs, Unfinished, Active
  <2> QED BY <2>1, BoundKept DEF IInv
<1>6. (UnfinishedHasModel /\ InferenceUsesRequestedModel)'
  BY ModelAssumption DEF IInv, TypeOK, UnfinishedHasModel,
     InferenceUsesRequestedModel, Unfinished, Active, WorkerSteps
<1>7. (UnfinishedKeepsSource /\ TempsBelongToCurrent)'
  BY DEF IInv, TypeOK, UnfinishedKeepsSource, TempsBelongToCurrent, UnfinishedJobs,
     Unfinished, Active, WorkerSteps
<1>8. (CancellingIsFlagged /\ SuccessIsPublished)'
  BY DEF IInv, TypeOK, CancellingIsFlagged, SuccessIsPublished, UnfinishedJobs,
     Unfinished, Active, WorkerSteps
<1> QED BY <1>1, <1>2, <1>3, <1>4, <1>5, <1>6, <1>7, <1>8 DEF IInv

-----------------------------------------------------------------------------
(***************************************************************************)
(* The theorems                                                            *)
(***************************************************************************)

\* The controller starts with the invariant.
LEMMA InitIInv == Init => IInv
<1> SUFFICES ASSUME Init PROVE IInv
  OBVIOUS
<1> USE DEF Init
<1>1. TypeOK
  <2>1. state \in [Jobs -> JobStates] /\ jobModel \in [Jobs -> Models \cup {NoModel}]
    BY DEF JobStates
  <2>2. waiting \in Seq(Jobs)
    OBVIOUS
  <2>3. step \in Steps /\ mode \in Modes
    BY DEF Steps, Modes
  <2> QED BY <2>1, <2>2, <2>3 DEF TypeOK
<1>2. ActiveJobs = {} /\ UnfinishedJobs = {}
  BY DEF ActiveJobs, UnfinishedJobs, Unfinished, Active
<1>3. QueueBounded
  <2>1. Cardinality({}) = 0
    BY FS_EmptySet
  <2> QED BY <1>2, <2>1, DepthAssumption DEF QueueBounded
<1>4. CurIsHeld /\ ActiveIsCurrent /\ DeferredSwitchOwned
  BY <1>2, JobAssumption
     DEF CurIsHeld, ActiveIsCurrent, DeferredSwitchOwned, FileStepsWithJob, WorkerSteps
<1>5. RealtimeOnlyInItsMode /\ RealtimeMatchesMode
  BY DEF RealtimeOnlyInItsMode, RealtimeMatchesMode
<1>6. QueueListsQueued
  BY DEF QueueListsQueued
<1>7. UnfinishedHasModel /\ InferenceUsesRequestedModel
  BY DEF UnfinishedHasModel, InferenceUsesRequestedModel, Unfinished, Active, WorkerSteps
<1>8. UnfinishedKeepsSource /\ TempsBelongToCurrent
  BY <1>2 DEF UnfinishedKeepsSource, TempsBelongToCurrent
<1>9. CancellingIsFlagged /\ SuccessIsPublished
  BY DEF CancellingIsFlagged, SuccessIsPublished
<1> QED BY <1>1, <1>3, <1>4, <1>5, <1>6, <1>7, <1>8, <1>9 DEF IInv

\* A step that changes nothing keeps the invariant.
LEMMA StutterKeeps == ASSUME IInv, UNCHANGED vars PROVE IInv'
<1> USE DEF vars, jobVars, fileVars, pendingVars, sessionVars, threadVars
<1>1. UnfinishedJobs' = UnfinishedJobs /\ ActiveJobs' = ActiveJobs
  BY DEF UnfinishedJobs, ActiveJobs, Unfinished, Active
<1>2. (TypeOK /\ CurIsHeld /\ ActiveIsCurrent /\ DeferredSwitchOwned)'
  BY <1>1 DEF IInv, TypeOK, CurIsHeld, ActiveIsCurrent, DeferredSwitchOwned
<1>3. (RealtimeOnlyInItsMode /\ RealtimeMatchesMode)'
  BY DEF IInv, RealtimeOnlyInItsMode, RealtimeMatchesMode
<1>4. (QueueListsQueued /\ QueueBounded)'
  BY <1>1 DEF IInv, QueueListsQueued, QueueBounded
<1>5. (UnfinishedHasModel /\ InferenceUsesRequestedModel)'
  BY DEF IInv, UnfinishedHasModel, InferenceUsesRequestedModel, Unfinished, Active
<1>6. (UnfinishedKeepsSource /\ TempsBelongToCurrent)'
  BY <1>1 DEF IInv, UnfinishedKeepsSource, TempsBelongToCurrent
<1>7. (CancellingIsFlagged /\ SuccessIsPublished)'
  BY DEF IInv, CancellingIsFlagged, SuccessIsPublished
<1> QED BY <1>2, <1>3, <1>4, <1>5, <1>6, <1>7 DEF IInv

\* Every step of the controller keeps the invariant.
LEMMA NextKeeps == ASSUME IInv, [Next]_vars PROVE IInv'
<1>1. CASE Requests
  <2>1. ASSUME NEW target \in Modes, NEW m \in Models \cup {NoModel},
               DeferMode(target, m) \/ RequestMode(target, m)
        PROVE  IInv'
    BY <2>1, DeferModeKeeps, RequestModeKeeps
  <2>2. ASSUME NEW j \in Jobs, NEW m \in Models \cup {NoModel}, EnqueueFile(j, m)
        PROVE  IInv'
    BY <2>2, EnqueueFileKeeps
  <2>3. ASSUME NEW j \in Jobs, CancelJob(j) \/ RemoveJob(j) PROVE IInv'
    BY <2>3, CancelJobKeeps, RemoveJobKeeps
  <2>4. ASSUME NEW r \in Routings, SetRouting(r) PROVE IInv'
    BY <2>4, SetRoutingKeeps
  <2>5. ASSUME NEW p \in Parameters, SetParameters(p) PROVE IInv'
    BY <2>5, SetParametersKeeps
  <2> QED BY <1>1, <2>1, <2>2, <2>3, <2>4, <2>5, RebuildSessionKeeps, PauseQueueKeeps,
             ResumeQueueKeeps, ClearFinishedKeeps DEF Requests
<1>2. CASE FileThread
  BY <1>2, FileWaitKeeps, FilePickKeeps, FileExitKeeps, WorkerBeginKeeps,
     WorkerRefuseKeeps, WorkerAdvanceKeeps, WorkerFailKeeps, WorkerPublishKeeps,
     FileFinishKeeps, FileEvictKeeps, FileApplyDeferredKeeps DEF FileThread
<1>3. CASE SpuriousWakeup \/ BeginShutdown \/ FinishShutdown
  BY <1>3, SpuriousWakeupKeeps, BeginShutdownKeeps, FinishShutdownKeeps
<1>4. CASE UNCHANGED vars
  BY <1>4, StutterKeeps
<1> QED BY <1>1, <1>2, <1>3, <1>4 DEF Next

\* Every reachable state satisfies the invariant.
THEOREM Invariance == Spec => []IInv
<1>1. IInv /\ [Next]_vars => IInv'
  BY NextKeeps
<1> QED BY <1>1, InitIInv, PTL DEF Spec

\* Every reachable state is of the controller's type.
THEOREM TypeCorrect == Spec => []TypeOK
<1>1. IInv => TypeOK
  BY DEF IInv
<1> QED BY <1>1, Invariance, PTL

\* A job is shown as processing or cancelling exactly while the file thread
\* works on it, for any number of jobs, models and requests in flight.
THEOREM ActiveJobIsCurrent == Spec => []ActiveIsCurrent
<1>1. IInv => ActiveIsCurrent
  BY DEF IInv
<1> QED BY <1>1, Invariance, PTL

\* A deferred mode switch always has the file thread on its way to apply it.
THEOREM DeferredSwitchIsOwned == Spec => []DeferredSwitchOwned
<1>1. IInv => DeferredSwitchOwned
  BY DEF IInv
<1> QED BY <1>1, Invariance, PTL

\* No interleaving makes the worker convert with a model the job did not name.
THEOREM RequestedModelIsUsed == Spec => []InferenceUsesRequestedModel
<1>1. IInv => InferenceUsesRequestedModel
  BY DEF IInv
<1> QED BY <1>1, Invariance, PTL

\* No request and no eviction takes the source of a job still to be converted,
\* and temporary files belong to the job being converted.
THEOREM FilesAreKept == Spec => []FilesKept
<1>1. IInv => FilesKept
  BY DEF IInv, FilesKept
<1> QED BY <1>1, Invariance, PTL

\* Realtime mode has a running worker with the routing last asked for.
THEOREM RealtimeMatches == Spec => []RealtimeMatchesMode
<1>1. IInv => RealtimeMatchesMode
  BY DEF IInv
<1> QED BY <1>1, Invariance, PTL

\* mode_ tells what runs, and a change of it that was put off is under way.
THEOREM ModeTellsTheTruth == Spec => []ModeIsHonest
BY RealtimeMatches, DeferredSwitchIsOwned, PTL DEF ModeIsHonest

\* The file thread works on one job at a time and on that job's model.
THEOREM ConversionIsTheJobs == Spec => []ConversionIsOwn
BY ActiveJobIsCurrent, RequestedModelIsUsed, PTL DEF ConversionIsOwn

\* The unfinished jobs respect max_queue_depth, whatever its value.
THEOREM QueueIsBounded == Spec => []QueueBounded
<1>1. IInv => QueueBounded
  BY DEF IInv
<1> QED BY <1>1, Invariance, PTL

-----------------------------------------------------------------------------
(***************************************************************************)
(* Completion                                                              *)
(***************************************************************************)

\* Only FileFinish completes a job, and only the one it holds.
LEMMA CompletionStep ==
  ASSUME IInv, [Next]_vars, NEW j \in Jobs,
         state'[j] = "completed", state[j] # "completed"
  PROVE  j \in outputs' /\ state[j] = "processing"
<1> USE DEF jobVars, fileVars, pendingVars, sessionVars, threadVars
<1>1. CASE FileFinish
  <2>1. cur \in Jobs /\ j = cur /\ cur \notin cancelRequested /\ succeeded
    BY <1>1 DEF FileFinish, IInv, TypeOK, CurIsHeld, FileStepsWithJob
  <2>2. j \in outputs /\ outputs' = outputs
    BY <1>1, <2>1 DEF FileFinish, IInv, SuccessIsPublished
  <2>3. Active(j) /\ state[j] # "cancelling"
    BY <1>1, <2>1 DEF FileFinish, IInv, ActiveIsCurrent, ActiveJobs, FileStepsWithJob,
                      CancellingIsFlagged
  <2> QED BY <2>2, <2>3 DEF Active
<1>2. CASE ~FileFinish
  <2>1. \/ state' = state
        \/ \E k \in Jobs, s \in {"queued", "cancelled", "cancelling", "processing"} :
             state' = [state EXCEPT ![k] = s]
        \/ \E js \in SUBSET Jobs :
             state' = [k \in Jobs |-> IF k \in js THEN "absent" ELSE state[k]]
    <3>1. CASE Requests
      <4>1. ASSUME NEW t \in Modes, NEW m \in Models \cup {NoModel},
                   DeferMode(t, m) \/ RequestMode(t, m)
            PROVE  state' = state
        BY <4>1 DEF DeferMode, RequestMode
      <4>2. ASSUME NEW k \in Jobs, NEW m \in Models \cup {NoModel}, EnqueueFile(k, m)
            PROVE  state' = [state EXCEPT ![k] = "queued"]
        BY <4>2 DEF EnqueueFile
      <4>3. ASSUME NEW k \in Jobs, CancelJob(k)
            PROVE  \E s \in {"cancelled", "cancelling"} : state' = [state EXCEPT ![k] = s]
        BY <4>3 DEF CancelJob
      <4>4. ASSUME NEW k \in Jobs, RemoveJob(k)
            PROVE  \E js \in SUBSET Jobs :
                     state' = [i \in Jobs |-> IF i \in js THEN "absent" ELSE state[i]]
        BY <4>4 DEF RemoveJob, Erase
      <4>5. ASSUME ClearFinished
            PROVE  \E js \in SUBSET Jobs :
                     state' = [i \in Jobs |-> IF i \in js THEN "absent" ELSE state[i]]
        BY <4>5 DEF ClearFinished, Erase
      <4>6. ASSUME NEW r \in Routings, SetRouting(r) PROVE state' = state
        BY <4>6 DEF SetRouting
      <4>7. ASSUME NEW p \in Parameters, SetParameters(p) PROVE state' = state
        BY <4>7 DEF SetParameters
      <4>8. RebuildSession \/ PauseQueue \/ ResumeQueue => state' = state
        BY DEF RebuildSession, PauseQueue, ResumeQueue
      <4> QED BY <3>1, <4>1, <4>2, <4>3, <4>4, <4>5, <4>6, <4>7, <4>8 DEF Requests
    <3>2. CASE FilePick
      BY <3>2 DEF FilePick, Runnable, IInv, TypeOK, QueueListsQueued
    <3>3. CASE FileThread /\ ~FilePick
      BY <1>2, <3>3 DEF FileThread, FileWait, FileExit, WorkerBegin, WorkerRefuse,
         WorkerAdvance, WorkerFail, WorkerPublish, WorkerUnchanged, FileEvict,
         FileApplyDeferred
    <3>4. CASE SpuriousWakeup \/ BeginShutdown \/ FinishShutdown \/ UNCHANGED vars
      BY <3>4 DEF SpuriousWakeup, BeginShutdown, FinishShutdown, vars
    <3> QED BY <3>1, <3>2, <3>3, <3>4 DEF Next
  <2>2. state \in [Jobs -> JobStates]
    BY DEF IInv, TypeOK
  <2> QED BY <2>1, <2>2
<1> QED BY <1>1, <1>2

\* A job becomes completed only with its output published and never once its
\* cancellation was accepted.
THEOREM CompletionIsPublished == Spec => CompletionPublished
<1>1. IInv /\ [Next]_vars =>
        [\A j \in Jobs :
           state'[j] = "completed" /\ state[j] # "completed" =>
             j \in outputs' /\ state[j] = "processing"]_vars
  BY CompletionStep
<1> QED BY <1>1, Invariance, PTL DEF Spec, CompletionPublished

\* A job has its files until it ends, leaves no temporary file behind and is shown as
\* completed only with its output.
THEOREM JobFilesAreKept == Spec => JobsKeepTheirFiles
BY FilesAreKept, CompletionIsPublished, PTL DEF JobsKeepTheirFiles

-----------------------------------------------------------------------------
(***************************************************************************)
(* The controller implements the pipeline lease                            *)
(***************************************************************************)

\* Outside the worker's steps the pipeline may be reconfigured.
LEMMA OutsideReconfigures ==
  ASSUME IInv, IInv', step \notin WorkerSteps, step' \notin WorkerSteps
  PROVE  Lease!Reconfigure
BY DEF IInv, TypeOK, Lease!Reconfigure

\* While a file is converted nothing happens to the pipeline, or it is released.
LEMMA WorkerStep ==
  ASSUME IInv, [Next]_vars, step \in WorkerSteps
  PROVE  /\ UNCHANGED <<realtime, model, parameters>>
         /\ step' \in WorkerSteps \cup {"finish"}
<1> USE DEF jobVars, fileVars, pendingVars, sessionVars, threadVars
<1>1. /\ cur \in Jobs /\ ActiveJobs = {cur} /\ mode = "file_rvc"
      /\ realtime = FALSE /\ Woken = step
  BY DEF IInv, TypeOK, CurIsHeld, ActiveIsCurrent, RealtimeOnlyInItsMode, FileStepsWithJob,
         WorkerSteps, Woken
<1>2. CASE Requests
  <2>1. ASSUME NEW t \in Modes, NEW m \in Models \cup {NoModel}, RequestMode(t, m)
        PROVE  /\ UNCHANGED <<realtime, model, parameters>>
               /\ step' = step
    <3>1. m = NoModel /\ t = "file_rvc"
      BY <1>1, <2>1 DEF RequestMode
    <3>2. Transition(t, m, Woken, step) /\ TypeOK /\ RealtimeOnlyInItsMode
      BY <2>1 DEF RequestMode, IInv
    <3>3. /\ step' \in {Woken, step}
          /\ realtime' <=> mode' = "rt_rvc"
          /\ realtime' \in BOOLEAN
          /\ m = NoModel => model' = model
          /\ m = NoModel /\ t # "rt_rvc" => mode' = t
      BY <3>2, TransitionFacts
    <3> QED BY <1>1, <2>1, <3>1, <3>3 DEF RequestMode
  <2>2. ASSUME NEW t \in Modes, NEW m \in Models \cup {NoModel}, DeferMode(t, m)
        PROVE  /\ UNCHANGED <<realtime, model, parameters>>
               /\ step' = step
    BY <2>2 DEF DeferMode
  <2>3. ASSUME NEW j \in Jobs, NEW m \in Models \cup {NoModel}, EnqueueFile(j, m)
        PROVE  /\ UNCHANGED <<realtime, model, parameters>>
               /\ step' = step
    BY <1>1, <2>3 DEF EnqueueFile
  <2>4. ASSUME NEW j \in Jobs, CancelJob(j) \/ RemoveJob(j)
        PROVE  /\ UNCHANGED <<realtime, model, parameters>>
               /\ step' = step
    BY <1>1, <2>4 DEF CancelJob, RemoveJob, Erase
  <2>5. ASSUME NEW r \in Routings, SetRouting(r)
        PROVE  /\ UNCHANGED <<realtime, model, parameters>>
               /\ step' = step
    BY <2>5 DEF SetRouting
  <2>6. ASSUME NEW p \in Parameters PROVE ~SetParameters(p)
    BY <1>1 DEF SetParameters
  <2>7. ~RebuildSession
    BY <1>1 DEF RebuildSession
  <2>8. PauseQueue \/ ResumeQueue \/ ClearFinished =>
          /\ UNCHANGED <<realtime, model, parameters>>
          /\ step' = step
    BY <1>1 DEF PauseQueue, ResumeQueue, ClearFinished, Erase
  <2> QED BY <1>2, <2>1, <2>2, <2>3, <2>4, <2>5, <2>6, <2>7, <2>8 DEF Requests
<1>3. CASE FileThread
  BY <1>3 DEF FileThread, FileWait, FilePick, FileExit, WorkerBegin, WorkerRefuse,
     WorkerAdvance, WorkerFail, WorkerPublish, WorkerUnchanged, FileFinish, FileEvict,
     FileApplyDeferred, WorkerSteps
<1>4. CASE SpuriousWakeup \/ BeginShutdown \/ FinishShutdown
  BY <1>1, <1>4 DEF SpuriousWakeup, BeginShutdown, FinishShutdown, NoRealtime, WorkerSteps
<1>5. CASE UNCHANGED vars
  BY <1>5 DEF vars
<1> QED BY <1>2, <1>3, <1>4, <1>5 DEF Next

\* Only WorkerBegin enters the worker's steps.
LEMMA WorkerEntered ==
  ASSUME IInv, [Next]_vars, step \notin WorkerSteps, step' \in WorkerSteps
  PROVE  WorkerBegin
<1> USE DEF jobVars, fileVars, pendingVars, sessionVars, threadVars
<1>1. Woken \notin WorkerSteps
  BY DEF Woken, WorkerSteps
<1>2. CASE Requests
  <2>1. ASSUME NEW t \in Modes, NEW m \in Models \cup {NoModel}, RequestMode(t, m)
        PROVE  FALSE
    <3>1. Transition(t, m, Woken, step) /\ TypeOK /\ RealtimeOnlyInItsMode
      BY <2>1 DEF RequestMode, IInv
    <3>2. step' \in {Woken, step}
      BY <3>1, TransitionFacts
    <3> QED BY <1>1, <3>2
  <2>2. ASSUME NEW t \in Modes, NEW m \in Models \cup {NoModel}, DeferMode(t, m)
        PROVE  FALSE
    BY <2>2 DEF DeferMode
  <2>3. ASSUME NEW j \in Jobs, NEW m \in Models \cup {NoModel}, EnqueueFile(j, m)
        PROVE  FALSE
    BY <1>1, <2>3 DEF EnqueueFile
  <2>4. ASSUME NEW j \in Jobs, CancelJob(j) \/ RemoveJob(j)
        PROVE  FALSE
    BY <1>1, <2>4 DEF CancelJob, RemoveJob, Erase
  <2>5. ASSUME NEW r \in Routings, SetRouting(r)
        PROVE  FALSE
    BY <2>5 DEF SetRouting
  <2>6. ASSUME NEW p \in Parameters, SetParameters(p) PROVE FALSE
    BY <2>6 DEF SetParameters
  <2>7. ~(RebuildSession \/ PauseQueue \/ ResumeQueue \/ ClearFinished)
    BY <1>1 DEF RebuildSession, PauseQueue, ResumeQueue, ClearFinished, Erase
  <2> QED BY <1>2, <2>1, <2>2, <2>3, <2>4, <2>5, <2>6, <2>7 DEF Requests
<1>3. CASE FileApplyDeferred
  <2>1. CASE pendingMode = NoMode
    BY <1>3, <2>1 DEF FileApplyDeferred, WorkerSteps
  <2>2. CASE pendingMode # NoMode
    <3>1. /\ pendingMode \in Modes /\ pendingModel \in Models \cup {NoModel}
          /\ TypeOK /\ RealtimeOnlyInItsMode
      BY <2>2 DEF IInv, TypeOK
    <3>2. Transition(pendingMode, pendingModel, "ready", "ready")
      BY <1>3, <2>2 DEF FileApplyDeferred
    <3>3. step' \in {"ready", "ready"}
      BY <3>1, <3>2, TransitionFacts
    <3> QED BY <3>3 DEF WorkerSteps
  <2> QED BY <2>1, <2>2
<1>4. CASE FileThread /\ ~FileApplyDeferred
  BY <1>4 DEF FileThread, FileWait, FilePick, FileExit, WorkerRefuse, WorkerAdvance,
     WorkerFail, WorkerPublish, FileFinish, FileEvict, WorkerSteps
<1>5. CASE SpuriousWakeup \/ BeginShutdown \/ FinishShutdown \/ UNCHANGED vars
  BY <1>1, <1>5 DEF SpuriousWakeup, BeginShutdown, FinishShutdown, vars, WorkerSteps
<1> QED BY <1>2, <1>3, <1>4, <1>5 DEF Next

\* Every step of the controller is a step of the lease or leaves it alone.
LEMMA LeaseStep ==
  ASSUME IInv, IInv', [Next]_vars
  PROVE  [Lease!Next]_Lease!leaseVars
<1>1. CASE step \notin WorkerSteps /\ step' \notin WorkerSteps
  BY <1>1, OutsideReconfigures DEF Lease!Next
<1>2. CASE step \notin WorkerSteps /\ step' \in WorkerSteps
  <2>1. WorkerBegin /\ mode = "file_rvc" /\ realtime = FALSE /\ realtime' = FALSE
        /\ parameters' = parameters
    BY <1>2, WorkerEntered DEF IInv, TypeOK, CurIsHeld, RealtimeOnlyInItsMode,
       WorkerBegin, WorkerUnchanged, FileStepsWithJob
  <2>2. model' \in Models
    BY <1>2 DEF IInv, TypeOK, InferenceUsesRequestedModel
  <2>3. Lease!FileAcquire
    BY <1>2, <2>1, <2>2 DEF Lease!FileAcquire
  <2> QED BY <2>3 DEF Lease!Next
<1>3. CASE step \in WorkerSteps
  <2>1. /\ realtime = FALSE /\ UNCHANGED <<realtime, model, parameters>>
        /\ step' \in WorkerSteps \cup {"finish"}
    BY <1>3, WorkerStep DEF IInv, TypeOK, CurIsHeld, RealtimeOnlyInItsMode, FileStepsWithJob
  <2>2. CASE step' \in WorkerSteps
    BY <1>3, <2>1, <2>2 DEF Lease!leaseVars
  <2>3. CASE step' = "finish"
    <3>1. Lease!FileRelease
      BY <1>3, <2>1, <2>3 DEF Lease!FileRelease, WorkerSteps
    <3> QED BY <3>1 DEF Lease!Next
  <2> QED BY <2>1, <2>2, <2>3
<1> QED BY <1>1, <1>2, <1>3

\* The controller implements PipelineLease: file conversion and realtime
\* conversion exclude each other, and no request, deferred switch, shutdown or
\* failed load changes the model or the parameters under a file conversion.
THEOREM ImplementsLease == Spec => LeaseSpec
<1>1. Init => Lease!Init
  BY DEF Init, Lease!Init, WorkerSteps
<1>2. IInv /\ IInv' /\ [Next]_vars => [Lease!Next]_Lease!leaseVars
  BY LeaseStep
<1> QED BY <1>1, <1>2, Invariance, PTL DEF Spec, LeaseSpec, Lease!Spec

=============================================================================
