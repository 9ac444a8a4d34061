------------------------ MODULE CaptureControlProofs ------------------------
(***************************************************************************)
(* Proofs about CaptureControl for any number of scripts and identifiers:  *)
(* its types, that no script signals a process that is not mozart-pre, and *)
(* that scripts that run one after the other leave the machine in order.   *)
(***************************************************************************)
EXTENDS CaptureControl, TLAPS

-----------------------------------------------------------------------------
(***************************************************************************)
(* Who is signalled                                                        *)
(***************************************************************************)

\* A script that looks at a process has an identifier, start times are not in the
\* future, and a process that exists has one.
Known ==
  /\ \A s \in Scripts : step[s] \in ChildSteps \cup {"await"} => pid[s] \in Pids
  /\ \A p \in Pids : processes[p].start <= starts
  /\ \A p \in Pids : processes[p].kind = "other" => processes[p].start # 0

\* The process a script is about to signal, if it is still there, is no other's.
Aimed ==
  \A s \in Scripts :
    /\ step[s] = "term" /\ processes[pid[s]].start = fd[s]
         => processes[pid[s]].kind # "other"
    /\ step[s] \in {"await", "list", "reopen", "strike"}
         /\ processes[pid[s]].start = started[s]
         => processes[pid[s]].kind # "other"

IInv == TypeOK /\ Known /\ Aimed /\ NeverKillsAnother

LEMMA StartKnown ==
  ASSUME IInv, NEW p \in Pids
  PROVE  processes[p].start \in 0 .. starts
<1>1. processes[p].start \in 0 .. MaxStarts /\ starts \in 0 .. MaxStarts
  BY DEF IInv, TypeOK
<1>2. processes[p].start <= starts
  BY DEF IInv, Known
<1> QED BY <1>1, <1>2, PidAssumption

LEMMA PreReadyKeeps ==
  ASSUME IInv, NEW p \in Pids, PreReady(p)
  PROVE  IInv'
<1> USE PidAssumption DEF PreReady, Fork, Gone, None, Holds, systemVars, scriptVars, historyVars
<1>1. TypeOK' BY DEF IInv, TypeOK, Known
<1>2. Known' BY DEF IInv, TypeOK, Known
<1>3. Aimed' BY DEF IInv, TypeOK, Known, Aimed, ChildSteps
<1>4. NeverKillsAnother' BY DEF IInv, NeverKillsAnother
<1> QED BY <1>1, <1>2, <1>3, <1>4 DEF IInv

LEMMA PreReportsKeeps ==
  ASSUME IInv, NEW p \in Pids, PreReports(p)
  PROVE  IInv'
<1> USE PidAssumption DEF PreReports, Fork, Gone, None, Holds, systemVars, scriptVars, historyVars
<1>1. TypeOK' BY DEF IInv, TypeOK, Known
<1>2. Known' BY DEF IInv, TypeOK, Known
<1>3. Aimed' BY DEF IInv, TypeOK, Known, Aimed, ChildSteps
<1>4. NeverKillsAnother' BY DEF IInv, NeverKillsAnother
<1> QED BY <1>1, <1>2, <1>3, <1>4 DEF IInv

LEMMA PreSendsKeeps ==
  ASSUME IInv, NEW p \in Pids, PreSends(p)
  PROVE  IInv'
<1> USE PidAssumption DEF PreSends, Fork, Gone, None, Holds, systemVars, scriptVars, historyVars
<1>1. TypeOK' BY DEF IInv, TypeOK, Known
<1>2. Known' BY DEF IInv, TypeOK, Known
<1>3. Aimed' BY DEF IInv, TypeOK, Known, Aimed, ChildSteps
<1>4. NeverKillsAnother' BY DEF IInv, NeverKillsAnother
<1> QED BY <1>1, <1>2, <1>3, <1>4 DEF IInv

LEMMA PreEndsKeeps ==
  ASSUME IInv, NEW p \in Pids, PreEnds(p)
  PROVE  IInv'
<1> USE PidAssumption DEF PreEnds, Fork, Gone, None, Holds, systemVars, scriptVars, historyVars
<1>1. TypeOK' BY DEF IInv, TypeOK, Known
<1>2. Known' BY DEF IInv, TypeOK, Known
<1>3. Aimed' BY DEF IInv, TypeOK, Known, Aimed, ChildSteps
<1>4. NeverKillsAnother' BY DEF IInv, NeverKillsAnother
<1> QED BY <1>1, <1>2, <1>3, <1>4 DEF IInv

LEMMA OtherStartsKeeps ==
  ASSUME IInv, NEW p \in Pids, OtherStarts(p)
  PROVE  IInv'
<1> USE PidAssumption DEF OtherStarts, Fork, Gone, None, Holds, systemVars, scriptVars, historyVars
<1>1. TypeOK'
  <2>1. starts \in 0 .. MaxStarts /\ starts' = starts + 1 /\ starts' \in 0 .. MaxStarts
    BY DEF IInv, TypeOK
  <2>2. (processes \in [Pids -> [kind : {"none", "pre", "other"},
                                 state : {"none", "starting", "ready", "dying"},
                                 start : 0 .. MaxStarts]])'
    BY <2>1 DEF IInv, TypeOK
  <2>3. (/\ fd \in [Scripts -> 0 .. starts] /\ started \in [Scripts -> 0 .. starts]
         /\ mine \in [Scripts -> 0 .. starts])'
    BY <2>1 DEF IInv, TypeOK, Known
  <2>4. (\A q, r \in Pids : Holds(q) /\ Holds(r) => q = r)'
    BY DEF IInv, TypeOK
  <2>5. (session \in 0 .. starts)'
    BY <2>1 DEF IInv, TypeOK
  <2> QED BY <2>1, <2>2, <2>3, <2>4, <2>5 DEF IInv, TypeOK
<1>2. Known' BY DEF IInv, TypeOK, Known
<1>3. Aimed' BY DEF IInv, TypeOK, Known, Aimed, ChildSteps
<1>4. NeverKillsAnother' BY DEF IInv, NeverKillsAnother
<1> QED BY <1>1, <1>2, <1>3, <1>4 DEF IInv

LEMMA OtherEndsKeeps ==
  ASSUME IInv, NEW p \in Pids, OtherEnds(p)
  PROVE  IInv'
<1> USE PidAssumption DEF OtherEnds, Fork, Gone, None, Holds, systemVars, scriptVars, historyVars
<1>1. TypeOK' BY DEF IInv, TypeOK, Known
<1>2. Known' BY DEF IInv, TypeOK, Known
<1>3. Aimed' BY DEF IInv, TypeOK, Known, Aimed, ChildSteps
<1>4. NeverKillsAnother' BY DEF IInv, NeverKillsAnother
<1> QED BY <1>1, <1>2, <1>3, <1>4 DEF IInv

LEMMA BeginKeeps ==
  ASSUME IInv, NEW s \in Scripts, Begin(s)
  PROVE  IInv'
<1> USE PidAssumption DEF Begin, To, Ends, None, Fork, Signalled, Ready, Holds, ChildSteps, systemVars, scriptVars, historyVars
<1>1. TypeOK' BY DEF IInv, TypeOK, Known
<1>2. Known' BY DEF IInv, TypeOK, Known
<1>3. Aimed' BY DEF IInv, TypeOK, Known, Aimed
<1>4. NeverKillsAnother' BY DEF IInv, TypeOK, Known, Aimed, NeverKillsAnother
<1> QED BY <1>1, <1>2, <1>3, <1>4 DEF IInv

LEMMA CheckKeeps ==
  ASSUME IInv, NEW s \in Scripts, Check(s)
  PROVE  IInv'
<1> USE PidAssumption DEF Check, To, Ends, None, Fork, Signalled, Ready, Holds, ChildSteps, systemVars, scriptVars, historyVars
<1>1. TypeOK' BY DEF IInv, TypeOK, Known
<1>2. Known' BY DEF IInv, TypeOK, Known
<1>3. Aimed' BY DEF IInv, TypeOK, Known, Aimed
<1>4. NeverKillsAnother' BY DEF IInv, TypeOK, Known, Aimed, NeverKillsAnother
<1> QED BY <1>1, <1>2, <1>3, <1>4 DEF IInv

LEMMA OpenKeeps ==
  ASSUME IInv, NEW s \in Scripts, Open(s)
  PROVE  IInv'
<1> USE PidAssumption DEF Open, To, Ends, None, Fork, Signalled, Ready, Holds, ChildSteps, systemVars, scriptVars, historyVars
<1>1. TypeOK'
  <2>1. pid[s] \in Pids
    BY DEF IInv, Known
  <2>2. processes[pid[s]].start \in 0 .. starts
    BY <2>1, StartKnown
  <2>3. (/\ fd \in [Scripts -> 0 .. starts] /\ started \in [Scripts -> 0 .. starts]
         /\ mine \in [Scripts -> 0 .. starts])'
    BY <2>1, <2>2 DEF IInv, TypeOK
  <2> QED BY <2>1, <2>3 DEF IInv, TypeOK
<1>2. Known' BY DEF IInv, TypeOK, Known
<1>3. Aimed' BY DEF IInv, TypeOK, Known, Aimed
<1>4. NeverKillsAnother' BY DEF IInv, TypeOK, Known, Aimed, NeverKillsAnother
<1> QED BY <1>1, <1>2, <1>3, <1>4 DEF IInv

LEMMA LookKeeps ==
  ASSUME IInv, NEW s \in Scripts, Look(s)
  PROVE  IInv'
<1> USE PidAssumption DEF Look, To, Ends, None, Fork, Signalled, Ready, Holds, ChildSteps, systemVars, scriptVars, historyVars
<1>1. TypeOK' BY DEF IInv, TypeOK, Known
<1>2. Known' BY DEF IInv, TypeOK, Known
<1>3. Aimed' BY DEF IInv, TypeOK, Known, Aimed
<1>4. NeverKillsAnother' BY DEF IInv, TypeOK, Known, Aimed, NeverKillsAnother
<1> QED BY <1>1, <1>2, <1>3, <1>4 DEF IInv

LEMMA TermKeeps ==
  ASSUME IInv, NEW s \in Scripts, Term(s)
  PROVE  IInv'
<1> USE PidAssumption DEF Term, To, Ends, None, Fork, Signalled, Ready, Holds, ChildSteps, systemVars, scriptVars, historyVars
<1>1. TypeOK' BY DEF IInv, TypeOK, Known
<1>2. Known' BY DEF IInv, TypeOK, Known
<1>3. Aimed'
  <2> SUFFICES ASSUME NEW t \in Scripts
               PROVE  /\ (step[t] = "term" /\ processes[pid[t]].start = fd[t]
                            => processes[pid[t]].kind # "other")'
                      /\ (step[t] \in {"await", "list", "reopen", "strike"}
                            /\ processes[pid[t]].start = started[t]
                            => processes[pid[t]].kind # "other")'
    BY DEF Aimed
  <2>1. pid[s] \in Pids /\ pid' = pid /\ fd' = fd
    BY DEF IInv, Known
  <2>2. \A p \in Pids : processes'[p].start = processes[p].start
                       /\ processes'[p].kind = processes[p].kind
    BY <2>1 DEF IInv, TypeOK
  <2>3. CASE t = s
    <3>1. step'[s] \in {"await", "over"}
      BY DEF IInv, TypeOK
    <3>2. started'[s] = IF processes[pid[s]].start = fd[s] THEN fd[s] ELSE 0
      BY DEF IInv, TypeOK
    <3>3. processes[pid[s]].start = fd[s] => processes[pid[s]].kind # "other"
      BY DEF IInv, Aimed
    <3>4. processes[pid[s]].kind = "other" => processes[pid[s]].start # 0
      BY <2>1 DEF IInv, Known
    <3> HIDE DEF Term
    <3> QED BY <2>1, <2>2, <2>3, <3>1, <3>2, <3>3, <3>4
  <2>4. CASE t # s
    <3>1. step'[t] = step[t] /\ started'[t] = started[t]
      BY <2>4 DEF IInv, TypeOK
    <3>2. step[t] \in ChildSteps \cup {"await"} => pid[t] \in Pids
      BY DEF IInv, Known
    <3> QED BY <2>1, <2>2, <3>1, <3>2 DEF IInv, Aimed
  <2> QED BY <2>3, <2>4
<1>4. NeverKillsAnother' BY DEF IInv, TypeOK, Known, Aimed, NeverKillsAnother
<1> QED BY <1>1, <1>2, <1>3, <1>4 DEF IInv

LEMMA AwaitKeeps ==
  ASSUME IInv, NEW s \in Scripts, Await(s)
  PROVE  IInv'
<1> USE PidAssumption DEF Await, To, Ends, None, Fork, Signalled, Ready, Holds, ChildSteps, systemVars, scriptVars, historyVars
<1>1. TypeOK' BY DEF IInv, TypeOK, Known
<1>2. Known' BY DEF IInv, TypeOK, Known
<1>3. Aimed' BY DEF IInv, TypeOK, Known, Aimed
<1>4. NeverKillsAnother' BY DEF IInv, TypeOK, Known, Aimed, NeverKillsAnother
<1> QED BY <1>1, <1>2, <1>3, <1>4 DEF IInv

LEMMA ListKeeps ==
  ASSUME IInv, NEW s \in Scripts, List(s)
  PROVE  IInv'
<1> USE PidAssumption DEF List, To, Ends, None, Fork, Signalled, Ready, Holds, ChildSteps, systemVars, scriptVars, historyVars
<1>1. TypeOK' BY DEF IInv, TypeOK, Known
<1>2. Known' BY DEF IInv, TypeOK, Known
<1>3. Aimed' BY DEF IInv, TypeOK, Known, Aimed
<1>4. NeverKillsAnother' BY DEF IInv, TypeOK, Known, Aimed, NeverKillsAnother
<1> QED BY <1>1, <1>2, <1>3, <1>4 DEF IInv

LEMMA ReopenKeeps ==
  ASSUME IInv, NEW s \in Scripts, Reopen(s)
  PROVE  IInv'
<1> USE PidAssumption DEF Reopen, To, Ends, None, Fork, Signalled, Ready, Holds, ChildSteps, systemVars, scriptVars, historyVars
<1>1. TypeOK'
  <2>1. pid[s] \in Pids
    BY DEF IInv, Known
  <2>2. processes[pid[s]].start \in 0 .. starts
    BY <2>1, StartKnown
  <2>3. (/\ fd \in [Scripts -> 0 .. starts] /\ started \in [Scripts -> 0 .. starts]
         /\ mine \in [Scripts -> 0 .. starts])'
    BY <2>1, <2>2 DEF IInv, TypeOK
  <2> QED BY <2>1, <2>3 DEF IInv, TypeOK
<1>2. Known' BY DEF IInv, TypeOK, Known
<1>3. Aimed' BY DEF IInv, TypeOK, Known, Aimed
<1>4. NeverKillsAnother' BY DEF IInv, TypeOK, Known, Aimed, NeverKillsAnother
<1> QED BY <1>1, <1>2, <1>3, <1>4 DEF IInv

LEMMA StrikeKeeps ==
  ASSUME IInv, NEW s \in Scripts, Strike(s)
  PROVE  IInv'
<1>1. pid[s] \in Pids
  BY DEF IInv, Known, Strike, ChildSteps
<1>2. processes' = processes \/ processes' = [processes EXCEPT ![pid[s]] = None]
  BY DEF Strike, Signalled
<1>3. \A p \in Pids : processes'[p] = processes[p] \/ processes'[p] = None
  BY <1>1, <1>2 DEF IInv, TypeOK
<1>4. step' \in [Scripts -> {"over", "retire"} \cup {step[t] : t \in Scripts}]
      /\ \A t \in Scripts : step'[t] \in {"over", "retire"} \/ step'[t] = step[t]
  BY DEF Strike, To, ChildSteps, IInv, TypeOK
<1>5. ~harmed'
  <2>1. processes[pid[s]].start = started[s] => processes[pid[s]].kind # "other"
    BY DEF Strike, IInv, Aimed
  <2> QED BY <2>1 DEF Strike, Signalled, IInv, NeverKillsAnother
<1>6. UNCHANGED <<starts, pidfile, status, session, pid, fd, started, mine, killed>>
  BY DEF Strike
<1>7. TypeOK'
  <2>1. (processes \in [Pids -> [kind : {"none", "pre", "other"},
                                 state : {"none", "starting", "ready", "dying"},
                                 start : 0 .. MaxStarts]])'
    BY <1>1, <1>2, PidAssumption DEF IInv, TypeOK, None
  <2>2. (\A q, r \in Pids : Holds(q) /\ Holds(r) => q = r)'
    BY <1>3 DEF IInv, TypeOK, Holds, None
  <2>3. (step \in [Scripts -> ChildSteps \cup {"new", "check", "await", "retire", "spawn",
                                               "record", "wait", "rebuild", "over"}])'
    BY <1>4 DEF IInv, TypeOK
  <2> QED BY <1>6, <2>1, <2>2, <2>3 DEF IInv, TypeOK
<1>8. Known'
  <2>1. (\A t \in Scripts : step[t] \in ChildSteps \cup {"await"} => pid[t] \in Pids)'
    BY <1>4, <1>6 DEF IInv, Known, ChildSteps
  <2>2. (\A p \in Pids : processes[p].start <= starts)'
    BY <1>3, <1>6 DEF IInv, Known, TypeOK, None
  <2>3. (\A p \in Pids : processes[p].kind = "other" => processes[p].start # 0)'
    BY <1>3 DEF IInv, Known, None
  <2> QED BY <2>1, <2>2, <2>3 DEF Known
<1>9. Aimed'
  <2> SUFFICES ASSUME NEW t \in Scripts, step'[t] \notin {"over", "retire"}
               PROVE  /\ (step[t] = "term" /\ processes[pid[t]].start = fd[t]
                            => processes[pid[t]].kind # "other")'
                      /\ (step[t] \in {"await", "list", "reopen", "strike"}
                            /\ processes[pid[t]].start = started[t]
                            => processes[pid[t]].kind # "other")'
    BY DEF Aimed
  <2>1. step'[t] = step[t]
    BY <1>4
  <2>2. step[t] \in {"term", "await", "list", "reopen", "strike"} => pid[t] \in Pids
    BY DEF IInv, Known, ChildSteps
  <2> QED BY <1>3, <1>6, <2>1, <2>2 DEF IInv, Aimed, None
<1>10. NeverKillsAnother'
  BY <1>5 DEF NeverKillsAnother
<1> QED BY <1>7, <1>8, <1>9, <1>10 DEF IInv

LEMMA RetireKeeps ==
  ASSUME IInv, NEW s \in Scripts, Retire(s)
  PROVE  IInv'
<1> USE PidAssumption DEF Retire, To, Ends, None, Fork, Signalled, Ready, Holds, ChildSteps, systemVars, scriptVars, historyVars
<1>1. TypeOK' BY DEF IInv, TypeOK, Known
<1>2. Known' BY DEF IInv, TypeOK, Known
<1>3. Aimed' BY DEF IInv, TypeOK, Known, Aimed
<1>4. NeverKillsAnother' BY DEF IInv, TypeOK, Known, Aimed, NeverKillsAnother
<1> QED BY <1>1, <1>2, <1>3, <1>4 DEF IInv

LEMMA SpawnKeeps ==
  ASSUME IInv, NEW s \in Scripts, Spawn(s)
  PROVE  IInv'
<1> USE PidAssumption DEF Spawn, To, Ends, None, Fork, Signalled, Ready, Holds, ChildSteps, systemVars, scriptVars, historyVars
<1>1. TypeOK'
  <2> PICK p \in Pids : /\ Fork(p, "pre", "starting")
                        /\ pid' = [pid EXCEPT ![s] = p]
                        /\ mine' = [mine EXCEPT ![s] = starts']
    OBVIOUS
  <2>1. starts \in 0 .. MaxStarts /\ starts' = starts + 1 /\ starts' \in 0 .. MaxStarts
    BY DEF IInv, TypeOK
  <2>2. (processes \in [Pids -> [kind : {"none", "pre", "other"},
                                 state : {"none", "starting", "ready", "dying"},
                                 start : 0 .. MaxStarts]])'
    BY <2>1 DEF IInv, TypeOK
  <2>3. (/\ fd \in [Scripts -> 0 .. starts] /\ started \in [Scripts -> 0 .. starts]
         /\ mine \in [Scripts -> 0 .. starts])'
    BY <2>1 DEF IInv, TypeOK, Known
  <2>4. (\A q, r \in Pids : Holds(q) /\ Holds(r) => q = r)'
    BY DEF IInv, TypeOK
  <2>5. (session \in 0 .. starts)'
    BY <2>1 DEF IInv, TypeOK
  <2>6. (pid \in [Scripts -> Pids \cup {0}])'
    BY DEF IInv, TypeOK
  <2>7. status' \in [pid : Pids \cup {0}, state : {"none", "ready", "failed", "stopped"}]
    BY DEF NoStatus
  <2>8. step' \in [Scripts -> ChildSteps \cup {"new", "check", "await", "retire", "spawn",
                                              "record", "wait", "rebuild", "over"}]
    BY DEF IInv, TypeOK
  <2>9. UNCHANGED <<pidfile, killed>>
    OBVIOUS
  <2> HIDE DEF Spawn
  <2> QED BY <2>1, <2>2, <2>3, <2>4, <2>5, <2>6, <2>7, <2>8, <2>9 DEF IInv, TypeOK
<1>2. Known' BY DEF IInv, TypeOK, Known
<1>3. Aimed' BY DEF IInv, TypeOK, Known, Aimed
<1>4. NeverKillsAnother' BY DEF IInv, TypeOK, Known, Aimed, NeverKillsAnother
<1> QED BY <1>1, <1>2, <1>3, <1>4 DEF IInv

LEMMA RecordKeeps ==
  ASSUME IInv, NEW s \in Scripts, Record(s)
  PROVE  IInv'
<1> USE PidAssumption DEF Record, To, Ends, None, Fork, Signalled, Ready, Holds, ChildSteps, systemVars, scriptVars, historyVars
<1>1. TypeOK' BY DEF IInv, TypeOK, Known
<1>2. Known' BY DEF IInv, TypeOK, Known
<1>3. Aimed' BY DEF IInv, TypeOK, Known, Aimed
<1>4. NeverKillsAnother' BY DEF IInv, TypeOK, Known, Aimed, NeverKillsAnother
<1> QED BY <1>1, <1>2, <1>3, <1>4 DEF IInv

LEMMA WaitKeeps ==
  ASSUME IInv, NEW s \in Scripts, Wait(s)
  PROVE  IInv'
<1> USE PidAssumption DEF Wait, To, Ends, None, Fork, Signalled, Ready, Holds, ChildSteps, systemVars, scriptVars, historyVars
<1>1. TypeOK' BY DEF IInv, TypeOK, Known
<1>2. Known' BY DEF IInv, TypeOK, Known
<1>3. Aimed' BY DEF IInv, TypeOK, Known, Aimed
<1>4. NeverKillsAnother' BY DEF IInv, TypeOK, Known, Aimed, NeverKillsAnother
<1> QED BY <1>1, <1>2, <1>3, <1>4 DEF IInv

LEMMA RebuildKeeps ==
  ASSUME IInv, NEW s \in Scripts, Rebuild(s)
  PROVE  IInv'
<1> USE PidAssumption DEF Rebuild, To, Ends, None, Fork, Signalled, Ready, Holds, ChildSteps, systemVars, scriptVars, historyVars
<1>1. TypeOK' BY DEF IInv, TypeOK, Known
<1>2. Known' BY DEF IInv, TypeOK, Known
<1>3. Aimed' BY DEF IInv, TypeOK, Known, Aimed
<1>4. NeverKillsAnother' BY DEF IInv, TypeOK, Known, Aimed, NeverKillsAnother
<1> QED BY <1>1, <1>2, <1>3, <1>4 DEF IInv

LEMMA KillKeeps ==
  ASSUME IInv, NEW s \in Scripts, Kill(s)
  PROVE  IInv'
<1> USE PidAssumption DEF Kill, To, Ends, None, Fork, Signalled, Ready, Holds, ChildSteps, systemVars, scriptVars, historyVars
<1>1. TypeOK' BY DEF IInv, TypeOK, Known
<1>2. Known' BY DEF IInv, TypeOK, Known
<1>3. Aimed' BY DEF IInv, TypeOK, Known, Aimed
<1>4. NeverKillsAnother' BY DEF IInv, TypeOK, Known, Aimed, NeverKillsAnother
<1> QED BY <1>1, <1>2, <1>3, <1>4 DEF IInv

-----------------------------------------------------------------------------
LEMMA InitHolds ==
  ASSUME Init
  PROVE  IInv
BY PidAssumption DEF Init, IInv, TypeOK, Known, Aimed, NeverKillsAnother, None, NoStatus,
   Holds, ChildSteps

LEMMA StepKeeps ==
  ASSUME IInv, [Next]_vars
  PROVE  IInv'
<1>1. ASSUME NEW s \in Scripts, Script(s)
      PROVE  IInv'
  BY <1>1, BeginKeeps, CheckKeeps, OpenKeeps, LookKeeps, TermKeeps, AwaitKeeps, ListKeeps,
     ReopenKeeps, StrikeKeeps, RetireKeeps, SpawnKeeps, RecordKeeps, WaitKeeps,
     RebuildKeeps, KillKeeps DEF Script
<1>2. ASSUME NEW p \in Pids, Process(p)
      PROVE  IInv'
  BY <1>2, PreReadyKeeps, PreReportsKeeps, PreSendsKeeps, PreEndsKeeps,
     OtherStartsKeeps, OtherEndsKeeps
     DEF Process
<1>3. ASSUME UNCHANGED vars
      PROVE  IInv'
  BY <1>3 DEF vars, systemVars, scriptVars, historyVars, IInv, TypeOK, Known, Aimed,
     NeverKillsAnother, Holds
<1> QED BY <1>1, <1>2, <1>3 DEF Next

THEOREM Invariant == Spec => []IInv
BY InitHolds, StepKeeps, PTL DEF Spec

\* Every state is well typed, and one mozart-pre at most holds the control port,
\* however many scripts run at once.
THEOREM CaptureTypes == Spec => []TypeOK
<1>1. IInv => TypeOK BY DEF IInv
<1> QED BY <1>1, Invariant, PTL

\* However scripts overlap, are killed, and identifiers are used again, no process
\* but mozart-pre is signalled.
THEOREM OnlyItsOwn == Spec => []NeverKillsAnother
<1>1. IInv => NeverKillsAnother BY DEF IInv
<1> QED BY <1>1, Invariant, PTL
-----------------------------------------------------------------------------
(***************************************************************************)
(* What the scripts leave behind: OrderAtRest, from the invariant Order.   *)
(* It speaks of scripts that ran one after the other; the script under way *)
(* then knows every mozart-pre that runs.                                  *)
(***************************************************************************)

\* Scripts that never ran at once run alone.
Alone ==
  ~overlapped => \A s, t \in Scripts : ~Idle(s) /\ ~Idle(t) => s = t

Orderly == ~overlapped /\ ~unrecorded

\* A script that stops a process stops the one in the pid file,
StopSteps == {"open", "look", "term", "await", "list", "reopen", "strike", "retire"}

\* and from SIGTERM until the next fork nothing runs.
StoppedSteps == {"await", "list", "reopen", "strike", "retire", "spawn"}

\* What a script that runs alone knows of the processes.
Knows(s) ==
  /\ step[s] \in StopSteps => pidfile = pid[s]
  /\ step[s] \in StoppedSteps => \A p \in Pids : ~Running(p)
  /\ step[s] \in {"look", "term"} =>
       \A p \in Pids : Running(p) => p = pid[s] /\ processes[p].start = fd[s]
  /\ step[s] \in {"record", "wait", "rebuild"} =>
       \A p \in Pids : Running(p) => p = pid[s] /\ processes[p].start = mine[s]

Managed == Orderly => \A s \in Scripts : Knows(s)

\* What runs is on record, or about to be.
OnRecord ==
  Orderly =>
    \A p \in Pids : Running(p) => pidfile = p \/ \E s \in Scripts : step[s] = "record"

\* The request that was answered last is heard; one that was killed is not
\* answered well.
KilledIsNoAnswer ==
  \A s \in Scripts :
    killed[s] => /\ step[s] \in ChildSteps \cup {"over"}
                 /\ ~overlapped /\ ~Idle(s) => ~latest.ok

Heard(s) ==
  /\ Hears(s)
  /\ \A p \in Pids : Running(p) => processes[p].start = mine[s]

Answered ==
  Orderly /\ Quiet =>
    \A s \in Calls : latest = [script |-> {s}, ok |-> TRUE] => Heard(s)

Order == Alone /\ Managed /\ OnRecord /\ KilledIsNoAnswer /\ Answered

\* No mozart-pre is started and none takes another's place.
NoneStarts ==
  \A p \in Pids : Running(p)' => Running(p) /\ processes'[p].start = processes[p].start

LEMMA NoStart ==
  ASSUME UNCHANGED processes
  PROVE  NoneStarts
BY DEF NoneStarts, Running

\* What any process does by itself.
LEMMA ProcessKeepsOrder ==
  ASSUME IInv, Order, NEW p \in Pids, Process(p)
  PROVE  Order'
<1>1. UNCHANGED <<pidfile, step, pid, fd, started, mine, killed, latest, overlapped, unrecorded>>
  BY DEF Process, PreReady, PreReports, PreSends, PreEnds, OtherStarts, OtherEnds, scriptVars, historyVars
<1>2. NoneStarts
  <2>1. processes \in [Pids -> [kind : {"none", "pre", "other"},
                                state : {"none", "starting", "ready", "dying"},
                                start : 0 .. MaxStarts]]
    BY DEF IInv, TypeOK
  <2> QED BY <2>1 DEF NoneStarts, Running, Process, PreReady, PreReports, PreSends, PreEnds, OtherStarts,
                      OtherEnds, Fork, Gone, None
<1>3. Alone' /\ KilledIsNoAnswer'
  BY <1>1 DEF Order, Alone, KilledIsNoAnswer, Idle
<1>4. Managed'
  <2> SUFFICES ASSUME Orderly, NEW s \in Scripts PROVE Knows(s)'
    BY <1>1 DEF Managed, Orderly
  <2>1. Knows(s)
    BY DEF Order, Managed
  <2> QED BY <1>1, <1>2, <2>1 DEF Knows, NoneStarts
<1>5. OnRecord'
  BY <1>1, <1>2 DEF Order, OnRecord, Orderly, NoneStarts
<1>6. Answered'
  <2> SUFFICES ASSUME Orderly, Quiet, NEW s \in Calls, latest = [script |-> {s}, ok |-> TRUE]
               PROVE  Heard(s)'
    BY <1>1 DEF Answered, Orderly, Quiet, Idle
  <2>1. Heard(s)
    BY DEF Order, Answered
  <2>2. session' = session \/ (Running(p) /\ session' = processes[p].start)
    BY DEF Process, PreReady, PreReports, PreSends, PreEnds, OtherStarts, OtherEnds, Running
  <2> QED BY <1>1, <1>2, <2>1, <2>2 DEF Heard, Hears, NoneStarts
<1> QED BY <1>3, <1>4, <1>5, <1>6 DEF Order

\* A script that goes on, while the others stay where they are.
Goes(s) ==
  /\ ~Idle(s) /\ (killed'[s] => step'[s] \in ChildSteps \cup {"over"})
  /\ overlapped' = overlapped /\ (unrecorded => unrecorded')
  /\ \A t \in Scripts : t # s => step'[t] = step[t] /\ killed'[t] = killed[t]

LEMMA OneGoes ==
  ASSUME IInv, Order, NEW s \in Scripts, Goes(s),
         Orderly' => Orderly /\ Knows(s)',
         Orderly' => \A p \in Pids : Running(p)' => pidfile' = p \/ step'[s] = "record",
         ~overlapped' /\ killed'[s] /\ ~Idle(s)' => ~latest'.ok,
         Answered'
  PROVE  Order'
<1>1. ASSUME ~overlapped', NEW t \in Scripts, t # s
      PROVE  Idle(t)' /\ step'[t] \in {"new", "over"}
  BY <1>1 DEF Order, Alone, Goes, Idle
<1>2. Alone'
  BY <1>1 DEF Alone
<1>3. Managed'
  <2> SUFFICES ASSUME Orderly', NEW t \in Scripts PROVE Knows(t)'
    BY DEF Managed
  <2>1. CASE t = s
    BY <2>1
  <2>2. CASE t # s
    BY <2>2, <1>1 DEF Orderly, Knows, StopSteps, StoppedSteps
  <2> QED BY <2>1, <2>2
<1>4. OnRecord'
  BY DEF OnRecord
<1>5. KilledIsNoAnswer'
  BY <1>1 DEF Order, KilledIsNoAnswer, Goes
<1> QED BY <1>2, <1>3, <1>4, <1>5 DEF Order

\* A script goes to its next step, or is over if bash was killed.
LEMMA NextStep ==
  ASSUME IInv, Order, NEW s \in Scripts, NEW next, To(s, next), ~Idle(s),
         next \notin {"new", "over"},
         UNCHANGED <<killed, latest, overlapped, unrecorded>>
  PROVE  /\ Goes(s) /\ Answered'
         /\ ~overlapped' /\ killed'[s] /\ ~Idle(s)' => ~latest'.ok
         /\ step'[s] \in {next, "over"}
         /\ (Orderly' <=> Orderly)
<1>1. /\ step'[s] = IF killed[s] /\ next \notin ChildSteps THEN "over" ELSE next
      /\ \A t \in Scripts : t # s => step'[t] = step[t]
  BY DEF To, IInv, TypeOK
<1>2. Goes(s) /\ step'[s] \in {next, "over"} /\ (Orderly' <=> Orderly)
  BY <1>1 DEF Goes, Orderly
<1>3. ~overlapped' /\ killed'[s] /\ ~Idle(s)' => ~latest'.ok
  BY DEF Order, KilledIsNoAnswer
<1>4. Answered'
  <2> SUFFICES ASSUME Orderly', Quiet' PROVE ~latest'.ok
    BY DEF Answered
  <2>1. step'[s] = "over" /\ killed[s]
    BY <1>1 DEF Quiet, Idle
  <2> QED BY <2>1 DEF Order, KilledIsNoAnswer, Orderly
<1> QED BY <1>1, <1>2, <1>3, <1>4

\* A script is over and says how it went; only a request whose session was rebuilt
\* is answered well.
LEMMA LastStep ==
  ASSUME IInv, Order, NEW s \in Scripts, NEW ok \in BOOLEAN, Ends(s, ok), ~Idle(s),
         killed' = killed, ok /\ s \in Calls /\ Orderly => Heard(s)'
  PROVE  /\ Goes(s) /\ Answered'
         /\ step'[s] = "over" /\ (Orderly' <=> Orderly)
<1>1. /\ step'[s] = "over"
      /\ \A t \in Scripts : t # s => step'[t] = step[t]
      /\ latest' = [script |-> {s}, ok |-> ok]
      /\ UNCHANGED <<overlapped, unrecorded>>
  BY DEF Ends, To, IInv, TypeOK, ChildSteps
<1>2. Goes(s) /\ (Orderly' <=> Orderly)
  BY <1>1 DEF Goes, Orderly
<1>3. Answered'
  <2> SUFFICES ASSUME Orderly', NEW t \in Calls, latest' = [script |-> {t}, ok |-> TRUE]
               PROVE  Heard(t)'
    BY DEF Answered
  <2>1. t = s /\ ok
    BY <1>1
  <2> QED BY <1>2, <2>1
<1> QED BY <1>1, <1>2, <1>3

\* What a script that runs alone knows, in its own words.
LEMMA KnowsAlone ==
  ASSUME IInv, Order, Orderly, NEW s \in Scripts, ~Idle(s)
  PROVE  /\ Knows(s)
         /\ \A p \in Pids : Running(p) => pidfile = p \/ step[s] = "record"
<1>1. Knows(s)
  BY DEF Order, Managed
<1>2. \A t \in Scripts : step[t] = "record" => t = s
  BY DEF Order, Alone, Orderly, Idle
<1> QED BY <1>1, <1>2 DEF Order, OnRecord

LEMMA BeginKeepsOrder ==
  ASSUME IInv, Order, NEW s \in Scripts, Begin(s)
  PROVE  Order'
<1>1. /\ step[s] = "new" /\ step'[s] \in {"check", "over"}
      /\ \A t \in Scripts : t # s => step'[t] = step[t]
      /\ overlapped' = (overlapped \/ ~Quiet)
      /\ UNCHANGED <<processes, pidfile, session, pid, fd, started, mine, killed, latest, unrecorded>>
  BY DEF Begin, To, IInv, TypeOK, systemVars
<1>2. ASSUME ~overlapped', NEW t \in Scripts
      PROVE  t = s \/ Idle(t)'
  BY <1>1, <1>2 DEF Quiet, Idle
<1>3. Alone'
  BY <1>2 DEF Alone
<1>4. Managed'
  <2> SUFFICES ASSUME Orderly', NEW t \in Scripts PROVE Knows(t)'
    BY DEF Managed
  <2>1. step'[t] \in {"new", "check", "over"}
    BY <1>1, <1>2 DEF Orderly, Idle
  <2> QED BY <2>1 DEF Knows, StopSteps, StoppedSteps
<1>5. OnRecord'
  <2> SUFFICES ASSUME Orderly', NEW p \in Pids, Running(p)'
               PROVE  pidfile' = p
    BY DEF OnRecord
  <2>1. Orderly /\ Quiet /\ Running(p)
    BY <1>1 DEF Orderly, Running
  <2> QED BY <1>1, <2>1 DEF Order, OnRecord, Quiet, Idle
<1>6. KilledIsNoAnswer'
  <2>1. \A t \in Scripts : killed[t] => step[t] \in ChildSteps \cup {"over"} /\ t # s
    BY <1>1 DEF Order, KilledIsNoAnswer, ChildSteps
  <2>2. \A t \in Scripts : killed'[t] => step'[t] \in ChildSteps \cup {"over"} /\ t # s
    BY <1>1, <2>1
  <2>3. \A t \in Scripts : ~overlapped' /\ t # s => Idle(t)'
    BY <1>2
  <2> QED BY <2>2, <2>3 DEF KilledIsNoAnswer
<1>7. Answered'
  <2> SUFFICES ASSUME Orderly', Quiet', NEW t \in Calls, latest' = [script |-> {t}, ok |-> TRUE]
               PROVE  Heard(t)'
    BY DEF Answered
  <2>1. Orderly /\ Quiet
    BY <1>1 DEF Orderly
  <2>2. Heard(t)
    BY <1>1, <2>1 DEF Order, Answered
  <2> QED BY <1>1, <2>2 DEF Heard, Hears, Running
<1> QED BY <1>3, <1>4, <1>5, <1>6, <1>7 DEF Order

LEMMA CheckKeepsOrder ==
  ASSUME IInv, Order, NEW s \in Scripts, Check(s)
  PROVE  Order'
<1>1. step[s] = "check" /\ ~Idle(s)
      /\ UNCHANGED <<systemVars, fd, started, mine, killed>>
  BY DEF Check, Idle
<1>2. NoneStarts
  BY <1>1, NoStart DEF systemVars
<1>3. ASSUME Orderly, NEW p \in Pids, Running(p)'
      PROVE  pidfile = p /\ pidfile' = p
  BY <1>1, <1>2, <1>3, KnowsAlone DEF NoneStarts, systemVars
<1>4. CASE pidfile = 0 /\ s \in Stops
  <2>1. Ends(s, TRUE) /\ s \notin Calls
    BY <1>4, ScriptAssumption DEF Check
  <2>2. /\ Goes(s) /\ Answered' /\ step'[s] = "over" /\ (Orderly' <=> Orderly)
    BY <1>1, <2>1, LastStep
  <2> QED BY <1>3, <2>2, OneGoes DEF Knows, StopSteps, StoppedSteps, Idle
<1>5. CASE pidfile = 0 /\ s \notin Stops
  <2>1. To(s, "spawn") /\ UNCHANGED <<historyVars, pid>>
    BY <1>5 DEF Check
  <2>2. /\ Goes(s) /\ Answered' /\ step'[s] \in {"spawn", "over"} /\ (Orderly' <=> Orderly)
        /\ ~overlapped' /\ killed'[s] /\ ~Idle(s)' => ~latest'.ok
    BY <1>1, <2>1, NextStep DEF historyVars
  <2>3. Orderly => \A p \in Pids : ~Running(p)'
    BY <1>3, <1>5, PidAssumption
  <2> QED BY <1>3, <2>2, <2>3, OneGoes DEF Knows, StopSteps, StoppedSteps
<1>6. CASE pidfile # 0
  <2>1. To(s, "open") /\ UNCHANGED historyVars /\ pid' = [pid EXCEPT ![s] = pidfile]
    BY <1>6 DEF Check
  <2>2. /\ Goes(s) /\ Answered' /\ step'[s] \in {"open", "over"} /\ (Orderly' <=> Orderly)
        /\ ~overlapped' /\ killed'[s] /\ ~Idle(s)' => ~latest'.ok
    BY <1>1, <2>1, NextStep DEF historyVars
  <2>3. pid'[s] = pidfile'
    BY <1>1, <2>1 DEF IInv, TypeOK, systemVars
  <2> QED BY <1>3, <2>2, <2>3, OneGoes DEF Knows, StopSteps, StoppedSteps
<1> QED BY <1>4, <1>5, <1>6

LEMMA OpenKeepsOrder ==
  ASSUME IInv, Order, NEW s \in Scripts, Open(s)
  PROVE  Order'
<1>1. step[s] = "open" /\ ~Idle(s)
      /\ UNCHANGED <<systemVars, pid, started, mine, killed, historyVars>>
  BY DEF Open, Idle
<1>2. PICK next \in {"retire", "look"} :
        To(s, next) /\ next = IF processes[pid[s]] = None THEN "retire" ELSE "look"
  BY DEF Open
<1>3. /\ Goes(s) /\ Answered' /\ step'[s] \in {next, "over"} /\ (Orderly' <=> Orderly)
      /\ ~overlapped' /\ killed'[s] /\ ~Idle(s)' => ~latest'.ok
  BY <1>1, <1>2, NextStep DEF historyVars
<1>4. fd'[s] = processes[pid[s]].start
  BY DEF Open, IInv, TypeOK
<1>5. ASSUME Orderly
      PROVE  /\ pidfile = pid[s]
             /\ \A p \in Pids : Running(p) => pidfile = p
  BY <1>1, <1>5, KnowsAlone DEF Knows, StopSteps
<1>6. Orderly => \A p \in Pids : Running(p)' => p = pid[s] /\ next = "look"
  BY <1>1, <1>2, <1>5 DEF Running, None, systemVars
<1>7. Orderly => Knows(s)'
  BY <1>1, <1>2, <1>3, <1>4, <1>5, <1>6
     DEF Knows, StopSteps, StoppedSteps, systemVars
<1>8. Orderly => \A p \in Pids : Running(p)' => pidfile' = p
  BY <1>1, <1>5, <1>6 DEF systemVars
<1> QED BY <1>3, <1>7, <1>8, OneGoes

LEMMA LookKeepsOrder ==
  ASSUME IInv, Order, NEW s \in Scripts, Look(s)
  PROVE  Order'
<1>1. step[s] = "look" /\ ~Idle(s) /\ UNCHANGED <<systemVars, pid, fd, started, mine, killed>>
  BY DEF Look, Idle
<1>2. ASSUME Orderly
      PROVE  /\ pidfile' = pid'[s]
             /\ \A p \in Pids : Running(p)' => /\ Running(p) /\ pidfile' = p /\ p = pid'[s]
                                               /\ processes'[p].start = fd'[s]
  BY <1>1, <1>2, KnowsAlone DEF Knows, StopSteps, Running, systemVars
<1>3. CASE processes[pid[s]].kind = "other"
  <2>1. Goes(s) /\ Answered' /\ step'[s] = "over" /\ (Orderly' <=> Orderly)
    BY <1>1, <1>3, LastStep DEF Look
  <2> QED BY <1>2, <2>1, OneGoes DEF Knows, StopSteps, StoppedSteps, Idle
<1>4. CASE processes[pid[s]].kind # "other"
  <2>1. PICK next \in {"retire", "term"} :
          /\ To(s, next) /\ UNCHANGED historyVars
          /\ next = IF processes[pid[s]] = None THEN "retire" ELSE "term"
    BY <1>4 DEF Look
  <2>2. /\ Goes(s) /\ Answered' /\ step'[s] \in {next, "over"} /\ (Orderly' <=> Orderly)
        /\ ~overlapped' /\ killed'[s] /\ ~Idle(s)' => ~latest'.ok
    BY <1>1, <2>1, NextStep DEF historyVars
  <2>3. Orderly => \A p \in Pids : Running(p)' => next = "term"
    BY <1>1, <1>2, <2>1 DEF Running, None
  <2>4. Orderly => Knows(s)'
    BY <1>2, <2>1, <2>2, <2>3 DEF Knows, StopSteps, StoppedSteps
  <2> QED BY <1>2, <2>2, <2>4, OneGoes
<1> QED BY <1>3, <1>4

LEMMA TermKeepsOrder ==
  ASSUME IInv, Order, NEW s \in Scripts, Term(s)
  PROVE  Order'
<1>1. /\ step[s] = "term" /\ ~Idle(s) /\ To(s, "await")
      /\ UNCHANGED <<pidfile, pid, mine, killed, latest, overlapped, unrecorded>>
  BY DEF Term, Idle
<1>2. /\ Goes(s) /\ Answered' /\ step'[s] \in {"await", "over"} /\ (Orderly' <=> Orderly)
      /\ ~overlapped' /\ killed'[s] /\ ~Idle(s)' => ~latest'.ok
  BY <1>1, NextStep
<1>3. pid[s] \in Pids
  BY <1>1 DEF IInv, Known, ChildSteps
<1>4. /\ \A p \in Pids : p # pid[s] => processes'[p] = processes[p]
      /\ processes[pid[s]].start = fd[s] => processes'[pid[s]].state = "dying"
      /\ processes[pid[s]].start # fd[s] => processes' = processes
  BY <1>3 DEF Term, Signalled, IInv, TypeOK
<1>5. ASSUME Orderly PROVE pidfile = pid[s] /\ \A p \in Pids : ~Running(p)'
  <2>1. /\ pidfile = pid[s]
        /\ \A p \in Pids : Running(p) => p = pid[s] /\ processes[p].start = fd[s]
    BY <1>1, <1>5, KnowsAlone DEF Knows, StopSteps
  <2> QED BY <1>4, <2>1 DEF Running
<1>6. Orderly => Knows(s)'
  BY <1>1, <1>2, <1>5 DEF Knows, StopSteps, StoppedSteps
<1> QED BY <1>2, <1>5, <1>6, OneGoes

\* From SIGTERM to the end of the wait nothing but steps of bash.
LEMMA StoppingKeepsOrder ==
  ASSUME IInv, Order, NEW s \in Scripts, NEW next \in {"list", "reopen", "strike", "retire"},
         step[s] \in {"await", "list", "reopen", "strike"}, To(s, next), NoneStarts,
         UNCHANGED <<pidfile, pid, mine, killed, latest, overlapped, unrecorded>>
  PROVE  Order'
<1>1. /\ Goes(s) /\ Answered' /\ step'[s] \in {next, "over"} /\ (Orderly' <=> Orderly)
      /\ ~overlapped' /\ killed'[s] /\ ~Idle(s)' => ~latest'.ok
  BY NextStep DEF Idle
<1>2. ASSUME Orderly PROVE pidfile = pid[s] /\ \A p \in Pids : ~Running(p)'
  BY <1>2, KnowsAlone DEF Knows, StopSteps, StoppedSteps, Idle, NoneStarts
<1>3. Orderly => Knows(s)'
  BY <1>1, <1>2 DEF Knows, StopSteps, StoppedSteps
<1> QED BY <1>1, <1>2, <1>3, OneGoes

LEMMA AwaitKeepsOrder ==
  ASSUME IInv, Order, NEW s \in Scripts, Await(s) \/ List(s) \/ Reopen(s) \/ Strike(s)
  PROVE  Order'
<1>1. UNCHANGED <<pidfile, pid, mine, killed, latest, overlapped, unrecorded>>
  BY DEF Await, List, Reopen, Strike, systemVars, historyVars
<1>2. CASE Await(s)
  BY <1>1, <1>2, NoStart, StoppingKeepsOrder DEF Await, systemVars
<1>3. CASE List(s)
  BY <1>1, <1>3, NoStart, StoppingKeepsOrder DEF List, systemVars
<1>4. CASE Reopen(s)
  BY <1>1, <1>4, NoStart, StoppingKeepsOrder DEF Reopen, systemVars
<1>5. CASE Strike(s)
  <2>1. pid[s] \in Pids
    BY <1>5 DEF Strike, IInv, Known, ChildSteps
  <2>2. \A p \in Pids : processes'[p] = processes[p] \/ processes'[p] = None
    BY <1>5, <2>1 DEF Strike, Signalled, IInv, TypeOK
  <2>3. NoneStarts
    BY <2>2 DEF NoneStarts, Running, None
  <2> QED BY <1>1, <1>5, <2>3, StoppingKeepsOrder DEF Strike
<1> QED BY <1>2, <1>3, <1>4, <1>5

LEMMA RetireKeepsOrder ==
  ASSUME IInv, Order, NEW s \in Scripts, Retire(s)
  PROVE  Order'
<1>1. /\ step[s] = "retire" /\ ~Idle(s) /\ pidfile' = 0
      /\ UNCHANGED <<processes, pid, mine, killed>>
  BY DEF Retire, Idle
<1>2. ASSUME Orderly PROVE \A p \in Pids : ~Running(p)'
  <2>1. \A p \in Pids : ~Running(p)
    BY <1>1, <1>2, KnowsAlone DEF Knows, StoppedSteps
  <2> QED BY <1>1, <2>1 DEF Running
<1>3. ASSUME NEW ok \in BOOLEAN, Ends(s, ok), ok => s \in Stops
      PROVE  Order'
  <2>1. ok => s \notin Calls
    BY <1>3, ScriptAssumption
  <2>2. Goes(s) /\ Answered' /\ step'[s] = "over" /\ (Orderly' <=> Orderly)
    BY <1>1, <1>3, <2>1, LastStep
  <2> QED BY <1>2, <2>2, OneGoes DEF Knows, StopSteps, StoppedSteps, Idle
<1>4. ASSUME To(s, "spawn"), UNCHANGED historyVars
      PROVE  Order'
  <2>1. /\ Goes(s) /\ Answered' /\ step'[s] \in {"spawn", "over"} /\ (Orderly' <=> Orderly)
        /\ ~overlapped' /\ killed'[s] /\ ~Idle(s)' => ~latest'.ok
    BY <1>1, <1>4, NextStep DEF historyVars
  <2> QED BY <1>2, <2>1, OneGoes DEF Knows, StopSteps, StoppedSteps
<1>5. \/ Ends(s, FALSE)
      \/ Ends(s, TRUE) /\ s \in Stops
      \/ To(s, "spawn") /\ UNCHANGED historyVars
  BY DEF Retire
<1> QED BY <1>3, <1>4, <1>5

LEMMA SpawnKeepsOrder ==
  ASSUME IInv, Order, NEW s \in Scripts, Spawn(s)
  PROVE  Order'
<1>1. /\ step[s] = "spawn" /\ ~Idle(s) /\ To(s, "record")
      /\ UNCHANGED <<pidfile, killed, latest, overlapped, unrecorded>>
  BY DEF Spawn, Idle, historyVars
<1>2. /\ Goes(s) /\ Answered' /\ step'[s] \in {"record", "over"} /\ (Orderly' <=> Orderly)
      /\ ~overlapped' /\ killed'[s] /\ ~Idle(s)' => ~latest'.ok
  BY <1>1, NextStep
<1>3. PICK p \in Pids : /\ Fork(p, "pre", "starting")
                        /\ pid' = [pid EXCEPT ![s] = p]
                        /\ mine' = [mine EXCEPT ![s] = starts']
  BY DEF Spawn
<1>4. /\ pid'[s] = p /\ mine'[s] = starts' /\ processes'[p].start = starts'
      /\ \A q \in Pids : q # p => processes'[q] = processes[q]
  BY <1>3 DEF Fork, IInv, TypeOK
<1>5. Orderly => \A q \in Pids : ~Running(q)
  BY <1>1, KnowsAlone DEF Knows, StoppedSteps
<1>6. Orderly => \A q \in Pids : Running(q)' => q = p
  BY <1>4, <1>5 DEF Running
<1>7. Orderly => Knows(s)' \/ step'[s] = "over"
  BY <1>2, <1>4, <1>6 DEF Knows, StopSteps, StoppedSteps
<1>8. step'[s] = "record"
  <2>1. ~killed[s]
    BY <1>1 DEF Order, KilledIsNoAnswer, ChildSteps
  <2> QED BY <1>1, <2>1 DEF To, IInv, TypeOK
<1>9. Knows(s)' \/ ~Orderly
  BY <1>7, <1>8
<1> QED BY <1>2, <1>8, <1>9, OneGoes

LEMMA RecordKeepsOrder ==
  ASSUME IInv, Order, NEW s \in Scripts, Record(s)
  PROVE  Order'
<1>1. /\ step[s] = "record" /\ ~Idle(s) /\ To(s, "wait") /\ pidfile' = pid[s]
      /\ UNCHANGED <<processes, pid, mine, killed, latest, overlapped, unrecorded>>
  BY DEF Record, Idle, historyVars
<1>2. /\ Goes(s) /\ Answered' /\ step'[s] \in {"wait", "over"} /\ (Orderly' <=> Orderly)
      /\ ~overlapped' /\ killed'[s] /\ ~Idle(s)' => ~latest'.ok
  BY <1>1, NextStep
<1>3. ASSUME Orderly
      PROVE  \A p \in Pids : Running(p)' => p = pid[s] /\ processes'[p].start = mine[s]
  BY <1>1, <1>3, KnowsAlone DEF Knows, Running
<1>4. Orderly => Knows(s)'
  BY <1>1, <1>2, <1>3 DEF Knows, StopSteps, StoppedSteps
<1> QED BY <1>1, <1>2, <1>3, <1>4, OneGoes

LEMMA WaitKeepsOrder ==
  ASSUME IInv, Order, NEW s \in Scripts, Wait(s)
  PROVE  Order'
<1>1. /\ step[s] = "wait" /\ ~Idle(s) /\ UNCHANGED <<systemVars, pid, mine, killed>>
  BY DEF Wait, Idle
<1>2. ASSUME Orderly, NEW p \in Pids, Running(p)'
      PROVE  pidfile' = p /\ p = pid[s] /\ processes'[p].start = mine[s]
  BY <1>1, <1>2, KnowsAlone DEF Knows, Running, systemVars
<1>3. ASSUME NEW ok \in BOOLEAN, Ends(s, ok), ok => s \notin Calls
      PROVE  Order'
  <2>1. Goes(s) /\ Answered' /\ step'[s] = "over" /\ (Orderly' <=> Orderly)
    BY <1>1, <1>3, LastStep
  <2> QED BY <1>2, <2>1, OneGoes DEF Knows, StopSteps, StoppedSteps, Idle
<1>4. ASSUME To(s, "rebuild"), UNCHANGED historyVars
      PROVE  Order'
  <2>1. /\ Goes(s) /\ Answered' /\ step'[s] \in {"rebuild", "over"} /\ (Orderly' <=> Orderly)
        /\ ~overlapped' /\ killed'[s] /\ ~Idle(s)' => ~latest'.ok
    BY <1>1, <1>4, NextStep DEF historyVars
  <2>2. Orderly => Knows(s)'
    BY <1>1, <1>2, <2>1 DEF Knows, StopSteps, StoppedSteps
  <2> QED BY <1>2, <2>1, <2>2, OneGoes
<1>5. \/ Ends(s, FALSE)
      \/ Ends(s, TRUE) /\ s \notin Calls
      \/ To(s, "rebuild") /\ UNCHANGED historyVars
  BY DEF Wait
<1> QED BY <1>3, <1>4, <1>5

LEMMA RebuildKeepsOrder ==
  ASSUME IInv, Order, NEW s \in Scripts, Rebuild(s)
  PROVE  Order'
<1>1. /\ step[s] = "rebuild" /\ ~Idle(s) /\ Ends(s, TRUE) /\ session' = 0
      /\ UNCHANGED <<processes, pidfile, pid, mine, killed>>
  BY DEF Rebuild, Idle
<1>2. ASSUME Orderly, NEW p \in Pids, Running(p)'
      PROVE  pidfile' = p /\ processes'[p].start = mine'[s]
  BY <1>1, <1>2, KnowsAlone DEF Knows, Running
<1>3. Orderly => Heard(s)'
  BY <1>1, <1>2 DEF Heard, Hears
<1>4. Goes(s) /\ Answered' /\ step'[s] = "over" /\ (Orderly' <=> Orderly)
  BY <1>1, <1>3, LastStep
<1> QED BY <1>2, <1>4, OneGoes DEF Knows, StopSteps, StoppedSteps, Idle

LEMMA KillKeepsOrder ==
  ASSUME IInv, Order, NEW s \in Scripts, Kill(s)
  PROVE  Order'
<1>1. /\ ~Idle(s) /\ latest' = [script |-> {s}, ok |-> FALSE]
      /\ step'[s] = IF step[s] \in ChildSteps THEN step[s] ELSE "over"
      /\ \A t \in Scripts : t # s => step'[t] = step[t] /\ killed'[t] = killed[t]
      /\ unrecorded' = (unrecorded \/ step[s] = "record")
      /\ UNCHANGED <<systemVars, pid, fd, mine, overlapped>>
  BY DEF Kill, IInv, TypeOK
<1>2. Goes(s)
  BY <1>1 DEF Goes, Idle, ChildSteps
<1>3. Orderly' => Orderly /\ step[s] # "record"
  BY <1>1 DEF Orderly, IInv, TypeOK
<1>4. ~latest'.ok /\ Answered'
  BY <1>1 DEF Answered
<1>5. Orderly' => Knows(s)'
  <2>1. Orderly' => Knows(s)
    BY <1>1, <1>3, KnowsAlone
  <2> QED BY <1>1, <2>1 DEF Knows, StopSteps, StoppedSteps, Running, ChildSteps, systemVars
<1>6. Orderly' => \A p \in Pids : Running(p)' => pidfile' = p
  BY <1>1, <1>3, KnowsAlone DEF Running, systemVars
<1> QED BY <1>2, <1>3, <1>4, <1>5, <1>6, OneGoes

LEMMA OrderHolds ==
  /\ Init => Order
  /\ IInv /\ Order /\ [Next]_vars => Order'
<1>1. Init => Order
  BY PidAssumption
     DEF Init, Order, Alone, Managed, Knows, OnRecord, KilledIsNoAnswer, Answered, Orderly,
         Idle, Running, None, NoScript, StopSteps, StoppedSteps
<1>2. ASSUME IInv, Order, NEW s \in Scripts, Script(s)
      PROVE  Order'
  BY <1>2, BeginKeepsOrder, CheckKeepsOrder, OpenKeepsOrder, LookKeepsOrder, TermKeepsOrder,
     AwaitKeepsOrder, RetireKeepsOrder, SpawnKeepsOrder, RecordKeepsOrder, WaitKeepsOrder,
     RebuildKeepsOrder, KillKeepsOrder DEF Script
<1>3. ASSUME Order, UNCHANGED vars
      PROVE  Order'
  <2>1. UNCHANGED <<processes, pidfile, session, step, pid, fd, mine, killed, latest,
                    overlapped, unrecorded>>
    BY <1>3 DEF vars, systemVars, scriptVars, historyVars
  <2> QED BY <1>3, <2>1 DEF Order, Alone, Managed, Knows, OnRecord, KilledIsNoAnswer, Answered,
                 Heard, Hears, Orderly, Quiet, Idle, Running
<1> QED BY <1>1, <1>2, <1>3, ProcessKeepsOrder DEF Next

\* What runs when all is quiet is in the pid file, and the session has no other client
\* than the mozart-pre of the switch answered last, provided the scripts ran one after
\* the other and none was killed before it could record what it forked.
THEOREM MachineIsInOrder == Spec => []OrderAtRest
<1>1. Order => OrderAtRest
  <2> SUFFICES ASSUME Order, Quiet, Orderly
               PROVE  /\ \A p \in Pids : Running(p) => pidfile = p
                      /\ \A s \in Calls : latest = [script |-> {s}, ok |-> TRUE] => Hears(s)
    BY DEF OrderAtRest, StopReclaims, SessionFollows, Undisturbed, Orderly
  <2>1. \A s \in Scripts : step[s] # "record"
    BY DEF Quiet, Idle
  <2> QED BY <2>1 DEF Order, OnRecord, Answered, Heard
<1>2. Spec => []Order
  BY OrderHolds, Invariant, PTL DEF Spec
<1> QED BY <1>1, <1>2, PTL
====
