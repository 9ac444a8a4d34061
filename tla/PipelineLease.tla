--------------------------- MODULE PipelineLease ---------------------------
(***************************************************************************)
(* What the control plane promises about the one voice-conversion pipeline *)
(* of the process: "a model swap must never overlap an active audio or     *)
(* file inference call" (rvc-backend/src/state/mode_controller.cpp:104)    *)
(* and "mode changes cannot race inference" (mode_controller.hpp:25).      *)
(*                                                                         *)
(* The pipeline is leased to at most one user at a time, and what it runs  *)
(* with, its model and its parameters, is frozen from the moment the file  *)
(* worker takes the lease until it gives it back.                          *)
(***************************************************************************)
CONSTANTS
  Models,       \* the model identifiers a pipeline can be switched to
  NoModel,      \* the empty identifier: nothing has been selected yet
  Parameters    \* the RVC parameter sets

VARIABLES
  users,        \* who is running inference on the pipeline
  model,        \* RVCPipelineBase::current_model_id
  parameters    \* RVCPipelineBase::parameters

leaseVars == <<users, model, parameters>>

Init ==
  /\ users = {}
  /\ model \in Models \cup {NoModel}
  /\ parameters \in Parameters

\* The file worker takes the idle pipeline, selecting the model of its job.
FileAcquire ==
  /\ users = {}
  /\ users' = {"file"}
  /\ model' \in Models
  /\ UNCHANGED parameters

\* It gives the pipeline back as it took it.
FileRelease ==
  /\ users = {"file"}
  /\ users' = {}
  /\ UNCHANGED <<model, parameters>>

\* Only while no file is being converted may the realtime worker start, stop
\* or restart, another model be selected, or the parameters be replaced.
Reconfigure ==
  /\ "file" \notin users
  /\ users' \in {{}, {"realtime"}}
  /\ model' \in Models \cup {NoModel}
  /\ parameters' \in Parameters

Next == FileAcquire \/ FileRelease \/ Reconfigure

Spec == Init /\ [][Next]_leaseVars
=============================================================================
