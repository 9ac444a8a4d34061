-------------------------- MODULE SpeechAdmissions --------------------------
(***************************************************************************)
(* The admission side of the speech service (tools/speech_service.py,      *)
(* tools/speech_admissions.py): which utterance becomes a synthesis task,  *)
(* under SpeechService.lock, and what is left of that on disk.  A job is   *)
(* kept as its stored record; synthesis and playback are what ends it.     *)
(* Which ended jobs the history limit gives up is left open.               *)
(***************************************************************************)
EXTENDS SpeechIds

VARIABLES
  job,       \* the stored job record: "none", "queued" (unfinished), "ended"
  ledger,    \* utterances with a snapshot in AdmissionLedger
  created,   \* history: tasks ever made of an utterance
  cutoff,    \* utterances heard no later than the stored last_stop_at
  session,   \* session['enabled']
  health,    \* "ok", "stopped" (worker_error), "unstored" (storage_failed)
  silenced   \* history: heard before a stop that reported no error

admissionVars == <<job, ledger, created, cutoff, session, health, silenced>>

Unfinished == {u \in Utterances : job[u] = "queued"}

\* admitted_utterance and AdmissionLedger.find, as submit uses them.
Admitted(u) == job[u] # "none" \/ u \in ledger

AdmissionsInit ==
  /\ job = [u \in Utterances |-> "none"]
  /\ ledger = {}
  /\ created = [u \in Utterances |-> 0]
  /\ cutoff = {}
  /\ session = FALSE
  /\ health = "ok"
  /\ silenced = {}

\* prune deletes the record without storing the snapshot.
BugPrune(jobs, known) ==
  \E removed \in SUBSET {u \in Utterances : jobs[u] = "ended"} :
    /\ job' = [u \in Utterances |-> IF u \in removed THEN "none" ELSE jobs[u]]
    /\ ledger' = known
    /\ health' = health

\* prune, run on the jobs and the ledger the caller leaves: a record goes only
\* once its snapshot is stored and its result files are gone.  A snapshot that
\* cannot be stored makes the service stop admitting.
Prune(jobs, known) ==
  \E archived \in SUBSET {u \in Utterances : jobs[u] = "ended"} :
  \E removed \in SUBSET archived :
    /\ job' = [u \in Utterances |-> IF u \in removed THEN "none" ELSE jobs[u]]
    /\ ledger' = known \cup archived
    /\ health' \in {health, "unstored"}

\* The jobs with the given ones cancelled, failed or completed.
Ended(done) ==
  [u \in Utterances |-> IF u \in done THEN "ended" ELSE job[u]]

-----------------------------------------------------------------------------
(***************************************************************************)
(* submit, behind route's "events"                                         *)
(***************************************************************************)

\* Nothing is stored: no session, a broken service, a request older than the
\* last stop, a repeated one, an unusable profile or a full budget.
Decline(u, reply) ==
  /\ \/ ~session /\ reply = "skipped"
     \/ session /\ health # "ok" /\ reply = "busy"
     \/ session /\ health = "ok" /\ u \in cutoff /\ reply = "refused"
     \/ session /\ health = "ok" /\ u \notin cutoff /\ Admitted(u) /\ reply = "job"
     \/ /\ session /\ health = "ok" /\ u \notin cutoff /\ ~Admitted(u)
        /\ reply \in {"refused", "busy"}
  /\ UNCHANGED admissionVars

MayAdmit(u) == session /\ health = "ok" /\ u \notin cutoff /\ ~Admitted(u)

\* The job record, then the ledger entry, then the waiting queue.
Admit(u, reply) ==
  /\ MayAdmit(u)
  /\ reply = "job"
  /\ created' = [created EXCEPT ![u] = @ + 1]
  /\ Prune([job EXCEPT ![u] = "queued"], ledger \cup {u})
  /\ UNCHANGED <<cutoff, session, silenced>>

\* A store fails, possibly after the job record or the ledger entry was written:
\* 507, and the service is stopped in memory (storage_rejection, fatal_error).
AdmitFails(u, reply) ==
  /\ session /\ health = "ok" /\ u \notin cutoff
  /\ reply = "busy"
  /\ \/ UNCHANGED <<job, created, ledger>>
     \/ /\ MayAdmit(u)
        /\ job' = [job EXCEPT ![u] = "queued"]
        /\ created' = [created EXCEPT ![u] = @ + 1]
        /\ ledger' \in {ledger, ledger \cup {u}}
  /\ health' = "unstored"
  /\ session' = FALSE
  /\ UNCHANGED <<cutoff, silenced>>

Submit(u, reply) ==
  Decline(u, reply) \/ Admit(u, reply) \/ AdmitFails(u, reply)

-----------------------------------------------------------------------------
(***************************************************************************)
(* The rest of the service                                                 *)
(***************************************************************************)

\* A task is completed, failed, cancelled or expired, and history is pruned.
\* Once storage has failed none of that is stored any more.
JobEnds(u) ==
  /\ job[u] = "queued" /\ health # "unstored"
  /\ Prune(Ended({u}), ledger)
  /\ UNCHANGED <<created, cutoff, session, silenced>>

\* fatal_error, which fails the tasks under way and may find that it cannot
\* store that; or a failed store alone, which leaves the session enabled.
ServiceFails ==
  /\ \/ health = "ok" /\ health' = "stopped" /\ session' = FALSE
     \/ health # "unstored" /\ health' = "unstored" /\ session' \in {session, FALSE}
  /\ \E done \in SUBSET Unfinished : job' = Ended(done)
  /\ UNCHANGED <<ledger, created, cutoff, silenced>>

SetSession(enabled) ==
  /\ session # enabled
  /\ session' = enabled
  /\ UNCHANGED <<job, ledger, created, cutoff, health, silenced>>

\* Every store succeeds: the cut-off covers all that was heard, and every
\* unfinished task is cancelled.
StopStored(heard) ==
  /\ health # "unstored"
  /\ cutoff' = cutoff \cup heard
  /\ silenced' = silenced \cup heard
  /\ Prune(Ended(Unfinished), ledger)

\* A store fails: the stop reports errors, and what comes after the failure is
\* not stored.
StopFails(heard) ==
  /\ health' = "unstored"
  /\ \/ UNCHANGED <<cutoff, job>>
     \/ /\ cutoff' = cutoff \cup heard
        /\ \E done \in SUBSET Unfinished :
             /\ health = "unstored" => done = {}
             /\ job' = Ended(done)
  /\ UNCHANGED <<ledger, silenced>>

\* Storage had failed before and works again: the cut-off is stored, save_job
\* and prune return at once, and no error is counted.
StopUnstored(heard) ==
  /\ health = "unstored"
  /\ cutoff' = cutoff \cup heard
  /\ silenced' = silenced \cup heard
  /\ UNCHANGED <<job, ledger, health>>

\* route's "stop".
Stop(heard) ==
  /\ StopStored(heard) \/ StopFails(heard) \/ StopUnstored(heard)
  /\ session' = FALSE
  /\ UNCHANGED created

\* SpeechService.__init__ on what is stored: interrupted tasks fail (all of them
\* under the realtime policy) or wait again, then history is pruned.
RestartService ==
  /\ session' = FALSE
  /\ \E done \in SUBSET Unfinished :
     \E archived \in SUBSET {u \in Utterances : Ended(done)[u] = "ended"} :
     \E removed \in SUBSET archived :
       /\ job' = [u \in Utterances |->
                    IF u \in removed THEN "none" ELSE Ended(done)[u]]
       /\ ledger' = ledger \cup archived
  /\ health' = "ok"
  /\ UNCHANGED <<created, cutoff, silenced>>

ServiceNext(heard) ==
  \/ \E u \in Utterances : JobEnds(u)
  \/ ServiceFails
  \/ \E enabled \in BOOLEAN : SetSession(enabled)
  \/ Stop(heard)

AdmissionsTypeOK ==
  /\ job \in [Utterances -> {"none", "queued", "ended"}]
  /\ ledger \subseteq Utterances
  /\ created \in [Utterances -> Nat]
  /\ cutoff \subseteq Utterances
  /\ session \in BOOLEAN
  /\ health \in {"ok", "stopped", "unstored"}
  /\ silenced \subseteq Utterances
=============================================================================
