--------------------------- MODULE CaptureControl ---------------------------
(***************************************************************************)
(* Who may run and stop mozart-pre: PUT /api/preprocessor runs the         *)
(* launcher's pre-restart with a time limit (pre_control.cpp) and rebuilds *)
(* the realtime session; an operator runs pre-restart or stop by hand      *)
(* (run-realtime-voice.sh).  The scripts know each other only by the pid   *)
(* file and the status file, process ids are used again, and nothing keeps *)
(* two scripts apart.                                                      *)
(*                                                                         *)
(* Definitions named Bug... are plausible bugs of the definition below     *)
(* them.  No specification uses them: the properties are tested on them.   *)
(***************************************************************************)
EXTENDS Naturals, FiniteSets

CONSTANTS
  Calls,      \* PUT requests that get as far as the script
  Hands,      \* pre-restart, typed by an operator
  Stops,      \* stop, typed by an operator
  Pids,       \* process identifiers
  MaxStarts   \* bound: processes started

Scripts == Calls \cup Hands \cup Stops

ASSUME ScriptAssumption ==
  /\ Calls \cap Hands = {} /\ Calls \cap Stops = {} /\ Hands \cap Stops = {}
ASSUME PidAssumption == Pids \subseteq Nat \ {0} /\ MaxStarts \in Nat

VARIABLES
  processes,  \* by identifier; start is the start time, which is never used again
  starts,
  pidfile,    \* pre.pid, 0 if there is none
  status,     \* pre-status.json
  session,    \* start of the pre whose port is the session's client, 0 for none
  step,       \* where a script is
  pid,        \* the identifier it holds, read or forked
  fd,         \* the process of its pidfd
  started,    \* the start time it recorded, 0 for "gone"
  mine,       \* history: the process it forked
  killed,     \* PreControl lost patience and killed bash; a child goes on
  latest,     \* history: the script that ended last, and how
  overlapped, \* history: two scripts ran at once
  unrecorded, \* history: a script was killed between fork and record
  harmed      \* history: a signal hit a process that is not mozart-pre

systemVars  == <<processes, starts, pidfile, status, session>>
scriptVars  == <<step, pid, fd, started, mine, killed>>
historyVars == <<latest, overlapped, unrecorded, harmed>>
vars == <<systemVars, scriptVars, historyVars>>

None == [kind |-> "none", state |-> "none", start |-> 0]
NoStatus == [pid |-> 0, state |-> "none"]
NoScript == [script |-> {}, ok |-> FALSE]

Idle(s) == step[s] \in {"new", "over"}
Quiet == \A s \in Scripts : Idle(s)

\* The mozart-pre that holds the control port; one that is ending may have closed it.
Holds(p) == processes[p].kind = "pre" /\ processes[p].state = "ready"
Running(p) == processes[p].kind = "pre" /\ processes[p].state \in {"starting", "ready"}

Init ==
  /\ processes = [p \in Pids |-> None] /\ starts = 0
  /\ pidfile = 0 /\ status = NoStatus /\ session = 0
  /\ step = [s \in Scripts |-> "new"]
  /\ pid = [s \in Scripts |-> 0] /\ fd = [s \in Scripts |-> 0]
  /\ started = [s \in Scripts |-> 0] /\ mine = [s \in Scripts |-> 0]
  /\ killed = [s \in Scripts |-> FALSE]
  /\ latest = NoScript
  /\ overlapped = FALSE /\ unrecorded = FALSE /\ harmed = FALSE

-----------------------------------------------------------------------------
(***************************************************************************)
(* The processes                                                           *)
(***************************************************************************)

Fork(p, kind, state) ==
  /\ processes[p] = None /\ starts < MaxStarts
  /\ starts' = starts + 1
  /\ processes' = [processes EXCEPT ![p] =
                     [kind |-> kind, state |-> state, start |-> starts']]

Gone(p) == processes' = [processes EXCEPT ![p] = None]

\* Mutant: the control port is bound although another mozart-pre holds it.
BugPreReady(p) ==
  /\ processes[p].kind = "pre" /\ processes[p].state = "starting"
  /\ processes' = [processes EXCEPT ![p].state = "ready"]
  /\ status' = [pid |-> p, state |-> "ready"]
  /\ UNCHANGED <<starts, pidfile, session, scriptVars, historyVars>>

\* mozart_control_open: the port has one holder.
PreReady(p) ==
  /\ processes[p].kind = "pre" /\ processes[p].state = "starting"
  /\ \A q \in Pids : ~Holds(q)
  /\ processes' = [processes EXCEPT ![p].state = "ready"]
  /\ status' = [pid |-> p, state |-> "ready"]
  /\ UNCHANGED <<starts, pidfile, session, scriptVars, historyVars>>

\* Its status writer replaces the snapshot again and again.
PreReports(p) ==
  /\ processes[p].kind = "pre" /\ processes[p].state = "ready"
  /\ status' = [pid |-> p, state |-> "ready"]
  /\ UNCHANGED <<processes, starts, pidfile, session, scriptVars, historyVars>>

\* It sends frames to the backend, and a session that has no client takes the first
\* sender for its only one.
PreSends(p) ==
  /\ processes[p].kind = "pre" /\ processes[p].state = "ready" /\ session = 0
  /\ session' = processes[p].start
  /\ UNCHANGED <<processes, starts, pidfile, status, scriptVars, historyVars>>

\* The port, a device, a socket or the status file fails it, or it was told to stop:
\* it leaves with its last snapshot, if it can still write one.
PreEnds(p) ==
  /\ processes[p].kind = "pre"
  /\ Gone(p)
  /\ \/ status' = [pid |-> p, state |-> "failed"]
     \/ processes[p].state = "dying" /\ status' = [pid |-> p, state |-> "stopped"]
     \/ UNCHANGED status
  /\ UNCHANGED <<starts, pidfile, session, scriptVars, historyVars>>

\* Any other process of the machine.
OtherStarts(p) ==
  /\ Fork(p, "other", "ready")
  /\ UNCHANGED <<pidfile, status, session, scriptVars, historyVars>>

OtherEnds(p) ==
  /\ processes[p].kind = "other"
  /\ Gone(p)
  /\ UNCHANGED <<starts, pidfile, status, session, scriptVars, historyVars>>

-----------------------------------------------------------------------------
(***************************************************************************)
(* The scripts.  Steps "open", "look", "term" and "list", "reopen",        *)
(* "strike" run in a child that survives bash.                             *)
(***************************************************************************)

ChildSteps == {"open", "look", "term", "list", "reopen", "strike"}

To(s, next) ==
  step' = [step EXCEPT ![s] = IF killed[s] /\ next \notin ChildSteps THEN "over" ELSE next]

Ends(s, ok) ==
  /\ To(s, "over") /\ latest' = [script |-> {s}, ok |-> ok]
  /\ UNCHANGED <<overlapped, unrecorded, harmed>>

Begin(s) ==
  /\ step[s] = "new"
  /\ To(s, "check")
  /\ overlapped' = (overlapped \/ ~Quiet)
  /\ UNCHANGED <<systemVars, pid, fd, started, mine, killed, latest, unrecorded, harmed>>

\* stop_pidfile: nothing to stop, or the process to look at.
Check(s) ==
  /\ step[s] = "check"
  /\ IF pidfile = 0
     THEN /\ UNCHANGED pid
          /\ IF s \in Stops THEN Ends(s, TRUE) ELSE To(s, "spawn") /\ UNCHANGED historyVars
     ELSE /\ pid' = [pid EXCEPT ![s] = pidfile]
          /\ To(s, "open") /\ UNCHANGED historyVars
  /\ UNCHANGED <<systemVars, fd, started, mine, killed>>

\* /proc/$pid, os.pidfd_open.
Open(s) ==
  /\ step[s] = "open"
  /\ fd' = [fd EXCEPT ![s] = processes[pid[s]].start]
  /\ To(s, IF processes[pid[s]] = None THEN "retire" ELSE "look")
  /\ UNCHANGED <<systemVars, pid, started, mine, killed, historyVars>>

\* The command line that the identifier has now must be that of mozart-pre.
Look(s) ==
  /\ step[s] = "look"
  /\ IF processes[pid[s]].kind = "other"
     THEN Ends(s, FALSE)
     ELSE /\ To(s, IF processes[pid[s]] = None THEN "retire" ELSE "term")
          /\ UNCHANGED historyVars
  /\ UNCHANGED <<systemVars, pid, fd, started, mine, killed>>

\* A signal to the process with that start time.
Signalled(p, start, state) ==
  /\ processes' = IF processes[p].start = start
                  THEN [processes EXCEPT ![p] =
                          IF state = "none" THEN None ELSE [@ EXCEPT !.state = state]]
                  ELSE processes
  /\ harmed' = (harmed \/ (processes[p].start = start /\ processes[p].kind = "other"))

\* Mutant: kill(pid), whoever has the identifier.
BugTerm(s) ==
  /\ step[s] = "term"
  /\ started' = [started EXCEPT ![s] = processes[pid[s]].start]
  /\ Signalled(pid[s], processes[pid[s]].start, "dying")
  /\ To(s, "await")
  /\ UNCHANGED <<starts, pidfile, status, session, pid, fd, mine, killed, latest,
                 overlapped, unrecorded>>

\* SIGTERM through the pidfd, after the start time was read.
Term(s) ==
  /\ step[s] = "term"
  /\ started' = [started EXCEPT ![s] = IF processes[pid[s]].start = fd[s] THEN fd[s] ELSE 0]
  /\ Signalled(pid[s], fd[s], "dying")
  /\ To(s, "await")
  /\ UNCHANGED <<starts, pidfile, status, session, pid, fd, mine, killed, latest,
                 overlapped, unrecorded>>

\* kill -0 until the identifier is free, or STOP_TIMEOUT.
Await(s) ==
  /\ step[s] = "await"
  /\ \/ processes[pid[s]] = None /\ To(s, "retire")
     \/ processes[pid[s]] # None /\ To(s, "list")
  /\ UNCHANGED <<systemVars, pid, fd, started, mine, killed, historyVars>>

\* Only the process that was sent SIGTERM is killed: it is looked up in a list of
\* all processes, opened, and compared once more.
List(s) ==
  /\ step[s] = "list"
  /\ To(s, IF processes[pid[s]] # None /\ processes[pid[s]].start = started[s]
           THEN "reopen" ELSE "retire")
  /\ UNCHANGED <<systemVars, pid, fd, started, mine, killed, historyVars>>

Reopen(s) ==
  /\ step[s] = "reopen"
  /\ fd' = [fd EXCEPT ![s] = processes[pid[s]].start]
  /\ To(s, IF processes[pid[s]] = None THEN "retire" ELSE "strike")
  /\ UNCHANGED <<systemVars, pid, started, mine, killed, historyVars>>

Strike(s) ==
  /\ step[s] = "strike"
  /\ IF processes[pid[s]].start = started[s]
     THEN Signalled(pid[s], fd[s], "none")
     ELSE UNCHANGED <<processes, harmed>>
  /\ To(s, "retire")
  /\ UNCHANGED <<starts, pidfile, status, session, pid, fd, started, mine, killed, latest,
                 overlapped, unrecorded>>

\* mv pre.pid pre.pid.stopped: whatever the file says by now; it fails if it is gone.
Retire(s) ==
  /\ step[s] = "retire"
  /\ pidfile' = 0
  /\ CASE pidfile = 0 -> Ends(s, FALSE)
       [] pidfile # 0 /\ s \in Stops -> Ends(s, TRUE)
       [] OTHER -> To(s, "spawn") /\ UNCHANGED historyVars
  /\ UNCHANGED <<processes, starts, status, session, pid, fd, started, mine, killed>>

\* start_pre: the old status is put aside, mozart-pre is forked.
Spawn(s) ==
  /\ step[s] = "spawn"
  /\ \E p \in Pids :
       /\ Fork(p, "pre", "starting")
       /\ pid' = [pid EXCEPT ![s] = p]
       /\ mine' = [mine EXCEPT ![s] = starts']
  /\ status' = NoStatus
  /\ To(s, "record")
  /\ UNCHANGED <<pidfile, session, fd, started, killed, historyVars>>

\* Mutant: the identifier is written when mozart-pre is ready.
BugRecord(s) ==
  /\ step[s] = "record"
  /\ \/ status = [pid |-> pid[s], state |-> "ready"] /\ pidfile' = pid[s] /\ To(s, "wait")
        /\ UNCHANGED historyVars
     \/ pidfile' = pidfile /\ Ends(s, FALSE)
  /\ UNCHANGED <<processes, starts, status, session, pid, fd, started, mine, killed>>

Record(s) ==
  /\ step[s] = "record"
  /\ pidfile' = pid[s]
  /\ To(s, "wait")
  /\ UNCHANGED <<processes, starts, status, session, pid, fd, started, mine, killed,
                 historyVars>>

Ready(s) == status = [pid |-> pid[s], state |-> "ready"]

\* wait_field: ready, failed, or READY_TIMEOUT.  A script run by hand is over then,
\* a PUT has the session rebuilt.
Wait(s) ==
  /\ step[s] = "wait"
  /\ IF Ready(s)
     THEN IF s \in Calls THEN To(s, "rebuild") /\ UNCHANGED historyVars ELSE Ends(s, TRUE)
     ELSE Ends(s, FALSE)
  /\ UNCHANGED <<systemVars, pid, fd, started, mine, killed>>

\* Mutant: the session is kept ("switching devices need not rebuild it").
BugRebuild(s) ==
  /\ step[s] = "rebuild"
  /\ Ends(s, TRUE)
  /\ UNCHANGED <<systemVars, pid, fd, started, mine, killed>>

\* set_preprocessor: to idle and back to rt_rvc, under the controller's mutex.
Rebuild(s) ==
  /\ step[s] = "rebuild"
  /\ session' = 0
  /\ Ends(s, TRUE)
  /\ UNCHANGED <<processes, starts, pidfile, status, pid, fd, started, mine, killed>>

\* run_json: after timeout_ms bash is killed and the request fails; the session stays.
Kill(s) ==
  /\ s \in Calls /\ ~Idle(s) /\ step[s] # "rebuild" /\ ~killed[s]
  /\ killed' = [killed EXCEPT ![s] = TRUE]
  /\ step' = [step EXCEPT ![s] = IF @ \in ChildSteps THEN @ ELSE "over"]
  /\ latest' = [script |-> {s}, ok |-> FALSE]
  /\ unrecorded' = (unrecorded \/ step[s] = "record")
  /\ UNCHANGED <<systemVars, pid, fd, started, mine, overlapped, harmed>>

Script(s) ==
  \/ Begin(s) \/ Check(s) \/ Open(s) \/ Look(s) \/ Term(s) \/ Await(s)
  \/ List(s) \/ Reopen(s) \/ Strike(s) \/ Retire(s)
  \/ Spawn(s) \/ Record(s) \/ Wait(s) \/ Rebuild(s) \/ Kill(s)

Process(p) ==
  \/ PreReady(p) \/ PreReports(p) \/ PreSends(p) \/ PreEnds(p)
  \/ OtherStarts(p) \/ OtherEnds(p)

Next == (\E s \in Scripts : Script(s)) \/ (\E p \in Pids : Process(p))

Spec == Init /\ [][Next]_vars

-----------------------------------------------------------------------------
(***************************************************************************)
(* Properties                                                              *)
(***************************************************************************)

\* Identifiers and files are well formed, and the devices have one holder.
TypeOK ==
  /\ processes \in [Pids -> [kind : {"none", "pre", "other"},
                             state : {"none", "starting", "ready", "dying"},
                             start : 0 .. MaxStarts]]
  /\ starts \in 0 .. MaxStarts /\ session \in 0 .. starts
  /\ pidfile \in Pids \cup {0}
  /\ status \in [pid : Pids \cup {0},
                 state : {"none", "ready", "failed", "stopped"}]
  /\ step \in [Scripts -> ChildSteps \cup {"new", "check", "await", "retire", "spawn",
                                           "record", "wait", "rebuild", "over"}]
  /\ pid \in [Scripts -> Pids \cup {0}]
  /\ fd \in [Scripts -> 0 .. starts] /\ started \in [Scripts -> 0 .. starts]
  /\ mine \in [Scripts -> 0 .. starts]
  /\ killed \in [Scripts -> BOOLEAN]
  /\ \A p, q \in Pids : Holds(p) /\ Holds(q) => p = q

\* No process but mozart-pre is ever signalled, although the identifier in the pid
\* file may have been used again by the time of any step: "the process is not the
\* one recorded, the stop is cancelled" (stop_pidfile).
NeverKillsAnother == ~harmed

\* What runs when all is quiet is in the pid file, so that a stop reclaims it ("stop
\* reclaims the preprocessor it manages", docs/RUNBOOK.md), provided the scripts ran
\* one after the other and none was killed before it could record what it forked.
StopReclaims ==
  Quiet /\ ~overlapped /\ ~unrecorded =>
    \A p \in Pids : Running(p) => pidfile = p

Hears(s) == session \in {0, mine[s]}
Undisturbed == Quiet /\ ~overlapped /\ ~unrecorded

\* An answered switch of devices is a switch: the session has no other client than
\* the mozart-pre which that request started ("the session must be rebuilt, or the
\* packets are dropped", set_preprocessor).
SessionFollows ==
  \A s \in Calls : Undisturbed /\ latest = [script |-> {s}, ok |-> TRUE] => Hears(s)

\* The scripts leave the machine in order: what runs is on record, and is heard.
OrderAtRest == StopReclaims /\ SessionFollows
=============================================================================
