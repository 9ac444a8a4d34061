--------------------------- MODULE SpeechDelivery ---------------------------
(***************************************************************************)
(* The bridge's outbox against the speech service over HTTP: requests are  *)
(* handled late or never, answers are lost, either process stops at any    *)
(* step and starts again on what it has stored.                            *)
(***************************************************************************)
EXTENDS SpeechOutbox, SpeechAdmissions

VARIABLES
  calls,     \* requests on their way to the service, <<utterance, attempt>>
  reply      \* the answer on its way to the delivery thread

netVars == <<calls, reply>>
vars == <<outboxVars, admissionVars, netVars>>

Init == OutboxInit /\ AdmissionsInit /\ calls = {} /\ reply = NoReply

\* A step of the bridge.  SendRequest puts a request on the net; an answer that
\* is there is read or comes too late, and is lost with the one who waits for it.
Bridge ==
  /\ BridgeNext({reply, NoReply})
  /\ calls' = IF deliver = "send" /\ deliver' = "waiting"
              THEN calls \cup {<<target, attempts[target]>>} ELSE calls
  /\ reply' = IF deliver' = "waiting" THEN reply ELSE NoReply
  /\ UNCHANGED admissionVars

\* A request leaves the net; its answer counts only while the delivery thread
\* still waits for this attempt.
Receive(call, answer) ==
  /\ call \in calls
  /\ calls' = calls \ {call}
  /\ reply' = IF deliver = "waiting" /\ call = <<target, attempts[target]>>
              THEN answer ELSE reply
  /\ UNCHANGED outboxVars

Handle(call, answer) == Receive(call, answer) /\ Submit(call[1], answer)

Lose(call) == Receive(call, NoReply) /\ UNCHANGED admissionVars

Service == ServiceNext(accepted) /\ UNCHANGED <<outboxVars, netVars>>

\* The service is restarted; requests it had not answered are gone.
ServiceRestarts ==
  /\ RestartService
  /\ calls' = {}
  /\ UNCHANGED <<outboxVars, reply>>

Next ==
  \/ Bridge \/ Service \/ ServiceRestarts
  \/ \E call \in calls : Lose(call) \/ \E answer \in Replies : Handle(call, answer)

Spec == Init /\ [][Next]_vars

-----------------------------------------------------------------------------
(***************************************************************************)
(* Properties                                                              *)
(***************************************************************************)

TypeOK ==
  /\ OutboxTypeOK /\ AdmissionsTypeOK
  /\ calls \subseteq Utterances \X Nat
  /\ reply \in Replies \cup {NoReply}

\* Retries, late requests, crashes of either side, pruned jobs and failed stores
\* never make a second task of an utterance nor one of an utterance heard before
\* a stored stop, and "submitted" is reported only of an utterance with a task.
Promise == INSTANCE SpeechPromise
             WITH tasks <- created, barred <- cutoff,
                  confirmed <- {u \in Utterances : row[u] = "submitted"}
PromiseSpec == Promise!Spec

\* What the promise rests on.  An utterance has a task exactly if the service
\* would recognise it: by its job record or by its ledger entry.
OneTask == \A u \in Utterances : created[u] = IF Admitted(u) THEN 1 ELSE 0

\* The delivery thread is told of a job only when there is one.
AnswersTrue ==
  /\ reply = "job" => deliver = "waiting" /\ created[target] = 1
  /\ \A u \in Utterances : row[u] = "submitted" => created[u] = 1

\* The inductive invariant, with the one of the bridge's end.
DeliveryInv == TypeOK /\ IInv /\ OneTask /\ AnswersTrue

\* A stop that reports no error is final: no later service speaks what was heard
\* before it.  "If stop reports a storage error, repair storage. Repeat the stop
\* request before restarting the service." (tools/REFERENCE_SPEECH.md:416)
StopIsFinal ==
  health = "ok" => Unfinished \cap silenced = {}
=============================================================================
