---------------------------- MODULE SpeechPromise ----------------------------
(***************************************************************************)
(* What speech delivery promises about every utterance: however often a    *)
(* request is repeated, lost, delayed or interrupted, at most one synthesis*)
(* task comes of it (tools/REFERENCE_SPEECH.md:402-404); the bridge says   *)
(* "submitted" only of an utterance that has its task; and once a stop has *)
(* been stored, nothing heard before it becomes a task (same file, line    *)
(* 414).                                                                   *)
(***************************************************************************)
EXTENDS SpeechIds

VARIABLES
  tasks,        \* how many synthesis tasks were made of each utterance
  barred,       \* what was heard before the last stored stop
  confirmed     \* what the bridge reports as submitted

promiseVars == <<tasks, barred, confirmed>>

Init ==
  /\ tasks = [u \in Utterances |-> 0]
  /\ barred = {}
  /\ confirmed = {}

Admit(u) ==
  /\ tasks[u] = 0
  /\ u \notin barred
  /\ tasks' = [tasks EXCEPT ![u] = 1]
  /\ UNCHANGED <<barred, confirmed>>

Confirm(u) ==
  /\ tasks[u] = 1
  /\ confirmed' = confirmed \cup {u}
  /\ UNCHANGED <<tasks, barred>>

Bar ==
  /\ barred' \in SUBSET Utterances
  /\ barred \subseteq barred'
  /\ UNCHANGED <<tasks, confirmed>>

Next == Bar \/ \E u \in Utterances : Admit(u) \/ Confirm(u)

Spec == Init /\ [][Next]_promiseVars
=============================================================================
