---------------------------- MODULE Preprocessor ----------------------------
(***************************************************************************)
(* mozart-pre (preprocessor/src/main.c): the main thread takes periods     *)
(* from the input, sends contract frames to the backend and, on the direct *)
(* route, writes to the playback device; the playback thread writes the    *)
(* backend's replies to the same device; the control thread stores route   *)
(* requests; a writer keeps the status file.  They share atomics, the      *)
(* device's write_mutex (playback.c) and the status under a mutex.         *)
(*                                                                         *)
(* The unit of sound is the chunk written to the device at once.           *)
(*                                                                         *)
(* Definitions named Bug... are plausible bugs of the definition below     *)
(* them.  No specification uses them: the properties are tested on them.   *)
(***************************************************************************)
EXTENDS Naturals

CONSTANTS
  Options,      \* command lines: input is "wav" (-i), "mic" (-d) or "usb"
                \* (--usb-endpoint), limit is -n or 0, playing is -o, and reported
                \* is --status-file
  FrameChunks,  \* MOZART_RAW_SAMPLES in chunks
  FadeChunks,   \* fade_len in chunks
  MaxChunks,    \* the most the enhancer puts out for a period
  MaxSent,      \* bound: frames are told apart up to this number
  MaxRequests   \* bound: route requests

ASSUME ChunkAssumption ==
  /\ FrameChunks \in Nat \ {0} /\ FadeChunks \in Nat \ {0}
  /\ MaxChunks \in 1 .. FrameChunks
ASSUME BoundAssumption == MaxSent \in Nat \ {0} /\ MaxRequests \in Nat
ASSUME OptionsAssumption ==
  Options \subseteq [input : {"wav", "mic", "usb"}, limit : 0 .. MaxSent,
                     playing : BOOLEAN, reported : BOOLEAN]

VARIABLES
  options,
  main,      \* where the main thread is
  request,   \* route_req
  route,     \* route_cur
  want,      \* req of the period in hand
  left,      \* chunks of the period that are still to be written directly
  produced,  \* chunks the enhancer put out for the period
  fade,      \* fade_t; the gain in steps of 1 / FadeChunks
  staged,    \* staging_len
  sent,      \* frames sent
  exit,      \* exit_code
  net,       \* replies of the backend under way
  player,    \* where the playback thread is
  reply,     \* the reply it holds
  last,      \* last_played_frame
  holder,    \* who holds write_mutex
  control,   \* the control thread runs
  stop,      \* g_stop
  stopping,  \* play_args.stop
  error,     \* play_args.error
  statusError,
  snapshot,  \* "state" of shared.status
  disk,      \* "state" of the status file
  writer,    \* where the status writer is
  page,      \* the snapshot it is writing
  heard,     \* history: replies written to the device
  late,      \* history: chunks written since the last change of route that are
             \* not of the current one, replies and direct sound apart
  requests

outerVars  == <<options, control, request, requests>>
routeVars  == <<route, late>>
soundVars  == <<want, left, produced, fade, staged>>
linkVars   == <<sent, net>>
playVars   == <<player, reply, last, heard>>
haltVars   == <<stop, stopping, error>>
statusVars == <<statusError, snapshot, disk, writer, page>>
vars == <<outerVars, routeVars, soundVars, linkVars, playVars, haltVars, statusVars,
          main, exit, holder>>

Routes == {"ai", "direct"}
MainSteps == {"start", "open", "threads", "loop", "read", "route", "fade", "direct",
              "writing", "pack", "drain", "cleanup", "writer", "player", "final",
              "exited"}
PlayerSteps == {"off", "top", "recv", "lock", "write", "store", "ended"}
WriterSteps == {"off", "top", "persist", "ended"}
States == {"none", "starting", "ready", "failed", "stopped"}

NoneLate == [ai |-> 0, direct |-> 0]

\* io_should_stop, asked by every loop and by every wait for a device.
Halted == stop \/ stopping \/ error \/ statusError

\* The direct route has somewhere to write to.
HasOutput == options.input = "usb" \/ options.playing

Init ==
  /\ options \in Options
  /\ main = "start" /\ exit = 1
  /\ request \in Routes /\ route = request /\ want = request
  /\ left = 0 /\ produced = 0 /\ staged = 0 /\ sent = 0
  /\ fade = [direction |-> 0, remaining |-> 0,
             gain |-> IF route = "direct" THEN FadeChunks ELSE 0]
  /\ net = {} /\ player = "off" /\ reply = 0 /\ last = 0 /\ heard = {}
  /\ holder = "none" /\ control = FALSE
  /\ stop = FALSE /\ stopping = FALSE /\ error = FALSE
  /\ statusError = FALSE /\ snapshot = "starting" /\ disk = "none"
  /\ writer = "off" /\ page = "none"
  /\ late = NoneLate /\ requests = 0

-----------------------------------------------------------------------------
(***************************************************************************)
(* Requests from outside: the control thread's callback and the signal     *)
(***************************************************************************)

SetRoute ==
  /\ control /\ requests < MaxRequests
  /\ request' \in Routes
  /\ requests' = requests + 1
  /\ UNCHANGED <<main, options, control, routeVars, soundVars, linkVars, exit,
                 playVars, holder, haltVars, statusVars>>

Signal ==
  /\ ~stop /\ main # "exited"
  /\ stop' = TRUE
  /\ UNCHANGED <<main, outerVars, routeVars, soundVars, linkVars, exit, playVars,
                 holder, stopping, error, statusVars>>

-----------------------------------------------------------------------------
(***************************************************************************)
(* The main thread up to its loop                                          *)
(***************************************************************************)

\* The control channel opens before the input does: requests may come from here.
OpenControl ==
  /\ main = "start"
  /\ control' = TRUE /\ main' = "open"
  /\ UNCHANGED <<options, request, requests, routeVars, soundVars, linkVars, exit,
                 playVars, holder, haltVars, statusVars>>

StartPlayer ==
  /\ main = "open"
  /\ player' = IF options.playing THEN "top" ELSE "off"
  /\ main' = "threads"
  /\ UNCHANGED <<outerVars, routeVars, soundVars, linkVars, exit, reply, last,
                 heard, holder, haltVars, statusVars>>

StartWriter ==
  /\ main = "threads"
  /\ exit' = 0
  /\ \/ /\ writer' = IF options.reported THEN "top" ELSE "off"
        /\ main' = "loop" /\ UNCHANGED statusError
     \/ /\ options.reported /\ statusError' = TRUE
        /\ main' = "cleanup" /\ UNCHANGED writer
  /\ UNCHANGED <<outerVars, routeVars, soundVars, linkVars, playVars, holder,
                 haltVars, snapshot, disk, page>>

\* A socket, a device, the endpoint, the input, a thread or a buffer is missing.
StartFails ==
  /\ main \in {"start", "open", "threads"}
  /\ main' = "cleanup"
  /\ UNCHANGED <<outerVars, routeVars, soundVars, linkVars, exit, playVars, holder,
                 haltVars, statusVars>>

-----------------------------------------------------------------------------
(***************************************************************************)
(* One period of the main loop                                             *)
(***************************************************************************)

LoopTest ==
  /\ main = "loop"
  /\ main' = IF Halted \/ (options.limit # 0 /\ sent >= options.limit)
             THEN "drain" ELSE "read"
  /\ UNCHANGED <<outerVars, routeVars, soundVars, linkVars, exit, playVars, holder,
                 haltVars, statusVars>>

ReadPeriod ==
  /\ main = "read"
  /\ produced' \in 0 .. MaxChunks
  /\ left' = produced'
  /\ main' = "route"
  /\ UNCHANGED <<outerVars, routeVars, want, fade, staged, linkVars, exit, playVars,
                 holder, haltVars, statusVars>>

\* A device or endpoint fails, or the microphone's wait is cancelled.  A WAV file
\* starts again at its end; it ends the loop when nothing can be read then either, and
\* nobody calls that a failure.
ReadEnds ==
  /\ main = "read"
  /\ \/ options.input # "wav" /\ exit' = 1
     \/ options.input = "mic" /\ Halted /\ UNCHANGED exit
     \/ options.input = "wav" /\ UNCHANGED exit
  /\ main' = "drain"
  /\ UNCHANGED <<outerVars, routeVars, soundVars, linkVars, playVars, holder,
                 haltVars, statusVars>>

BeginFade(direction) ==
  fade' = [direction |-> direction, remaining |-> FadeChunks, gain |-> fade.gain]

\* The route changes to direct at once, and to the backend after a fade-out.
TakeRequest ==
  /\ main = "route"
  /\ want' = request
  /\ \/ /\ request = "direct" /\ route = "ai"
        /\ route' = "direct" /\ BeginFade(1) /\ late' = NoneLate
     \/ /\ request = "ai" /\ route = "direct" /\ fade.direction = 0
        /\ BeginFade(2) /\ UNCHANGED <<route, late>>
     \/ /\ request = route \/ (request = "ai" /\ fade.direction # 0)
        /\ UNCHANGED <<route, fade, late>>
  /\ main' = IF route' = "direct" /\ HasOutput /\ left > 0 THEN "fade" ELSE "pack"
  /\ UNCHANGED <<outerVars, left, produced, staged, linkVars, exit, playVars,
                 holder, haltVars, statusVars>>

\* Mutant: a fade-in that is complete goes on.
BugFaded ==
  IF fade.direction = 0 THEN fade
  ELSE [direction |-> IF fade.direction = 2 /\ fade.remaining = 1 THEN 0
                      ELSE fade.direction,
        remaining |-> IF fade.remaining = 0 THEN 0 ELSE fade.remaining - 1,
        gain |-> fade.gain]

\* fade_apply: the fade after one chunk.
Faded ==
  LET remaining == fade.remaining - 1
      gain == IF fade.direction = 1
              THEN IF fade.gain < FadeChunks THEN fade.gain + 1 ELSE fade.gain
              ELSE IF fade.gain > 0 THEN fade.gain - 1 ELSE 0
  IN  IF fade.direction = 0 THEN fade
      ELSE [direction |-> IF remaining = 0 THEN 0 ELSE fade.direction,
            remaining |-> remaining, gain |-> gain]

FadedOut == fade.direction = 2 /\ fade.remaining = 1

\* Mutant: the end of any fade lets the route change.
BugApplyFade ==
  /\ main = "fade"
  /\ fade' = Faded
  /\ IF want = "ai" /\ fade'.direction = 0
     THEN route' = "ai" /\ late' = IF route = "ai" THEN late ELSE NoneLate
     ELSE UNCHANGED <<route, late>>
  /\ main' = "direct"
  /\ UNCHANGED <<outerVars, want, left, produced, staged, linkVars, exit, playVars,
                 holder, haltVars, statusVars>>

\* The device is given up after the fade-out; the endpoint as soon as no fade runs.
ApplyFade ==
  /\ main = "fade"
  /\ fade' = Faded
  /\ IF /\ want = "ai"
        /\ IF options.input = "usb" THEN fade'.direction = 0 ELSE FadedOut
     THEN route' = "ai" /\ late' = IF route = "ai" THEN late ELSE NoneLate
     ELSE UNCHANGED <<route, late>>
  /\ main' = "direct"
  /\ UNCHANGED <<outerVars, want, left, produced, staged, linkVars, exit, playVars,
                 holder, haltVars, statusVars>>

BeginDirect ==
  /\ main = "direct"
  /\ options.input # "usb" => holder = "none"
  /\ holder' = IF options.input = "usb" THEN holder ELSE "main"
  /\ main' = "writing"
  /\ UNCHANGED <<outerVars, routeVars, soundVars, linkVars, exit, playVars,
                 haltVars, statusVars>>

\* The chunk is written, or the wait for the device is cancelled: no error then.
EndDirect ==
  /\ main = "writing"
  /\ \/ late' = [late EXCEPT !.direct = IF route = "ai" THEN @ + 1 ELSE @]
     \/ options.input # "usb" /\ Halted /\ UNCHANGED late
  /\ holder' = IF options.input = "usb" THEN holder ELSE "none"
  /\ left' = left - 1
  /\ main' = IF left' > 0 THEN "fade" ELSE "pack"
  /\ UNCHANGED <<outerVars, route, want, produced, fade, staged, linkVars, exit,
                 playVars, haltVars, statusVars>>

\* Mutant: the error path leaves write_mutex locked.
BugDirectFails ==
  /\ main = "writing"
  /\ exit' = 1 /\ error' = (error \/ options.input # "usb")
  /\ main' = "drain"
  /\ UNCHANGED <<outerVars, routeVars, soundVars, linkVars, playVars, holder, stop,
                 stopping, statusVars>>

DirectFails ==
  /\ main = "writing"
  /\ exit' = 1 /\ error' = (error \/ options.input # "usb")
  /\ holder' = IF options.input = "usb" THEN holder ELSE "none"
  /\ main' = "drain"
  /\ UNCHANGED <<outerVars, routeVars, soundVars, linkVars, playVars, stop,
                 stopping, statusVars>>

\* A full frame goes to the backend, whose reply may be lost.  A paced replay gives
\* up its frame when it is stopped while it waits.  The snapshot is refreshed from
\* the first frame on.
Pack ==
  /\ main = "pack"
  /\ IF staged + produced < FrameChunks
     THEN staged' = staged + produced /\ UNCHANGED <<sent, net>>
     ELSE \/ /\ staged' = staged + produced - FrameChunks
             /\ sent' = IF sent < MaxSent THEN sent + 1 ELSE sent
             /\ net' \in {net, net \cup {sent'}}
          \/ /\ options.input = "wav" /\ Halted
             /\ staged' = FrameChunks /\ UNCHANGED <<sent, net>>
  /\ snapshot' = IF sent' > 0 THEN "ready" ELSE snapshot
  /\ produced' = 0 /\ want' = route
  /\ main' = "loop"
  /\ UNCHANGED <<outerVars, routeVars, left, fade, exit, playVars, holder, haltVars,
                 statusError, disk, writer, page>>

-----------------------------------------------------------------------------
(***************************************************************************)
(* The end of the main thread                                              *)
(***************************************************************************)

\* A playing program waits for the reply to its last frame, for at most two seconds
\* and at most until it is halted; a reply that is missing then is a failure.
Drain ==
  /\ main = "drain"
  /\ exit' = IF options.playing /\ ~Halted /\ last < sent /\ route = "ai"
             THEN 1 ELSE exit
  /\ main' = "cleanup"
  /\ UNCHANGED <<outerVars, routeVars, soundVars, linkVars, playVars, holder,
                 haltVars, statusVars>>

Cleanup ==
  /\ main = "cleanup"
  /\ stopping' = TRUE /\ main' = "writer"
  /\ UNCHANGED <<outerVars, routeVars, soundVars, linkVars, exit, playVars, holder,
                 stop, error, statusVars>>

\* Mutant: the status writer is told to stop, and not waited for.
BugJoinWriter ==
  /\ main = "writer"
  /\ control' = FALSE /\ main' = "player"
  /\ UNCHANGED <<options, request, requests, routeVars, soundVars, linkVars, exit,
                 playVars, holder, haltVars, statusVars>>

\* The writer is joined, then the control channel is closed.
JoinWriter ==
  /\ main = "writer" /\ writer \in {"off", "ended"}
  /\ control' = FALSE /\ main' = "player"
  /\ UNCHANGED <<options, request, requests, routeVars, soundVars, linkVars, exit,
                 playVars, holder, haltVars, statusVars>>

\* The player is joined; what it reports of itself counts for the exit.
JoinPlayer ==
  /\ main = "player" /\ player \in {"off", "ended"}
  /\ exit' = IF error \/ statusError THEN 1 ELSE exit
  /\ snapshot' = IF exit' = 0 THEN "stopped" ELSE "failed"
  /\ main' = "final"
  /\ UNCHANGED <<outerVars, routeVars, soundVars, linkVars, playVars, holder,
                 haltVars, statusError, disk, writer, page>>

\* The last word of the status file is the main thread's.
Exit ==
  /\ main = "final"
  /\ \/ /\ disk' = IF options.reported THEN snapshot ELSE disk
        /\ UNCHANGED <<exit, statusError>>
     \/ options.reported /\ exit' = 1 /\ statusError' = TRUE /\ UNCHANGED disk
  /\ main' = "exited"
  /\ UNCHANGED <<outerVars, routeVars, soundVars, linkVars, playVars, holder,
                 haltVars, snapshot, writer, page>>

MainThread ==
  \/ OpenControl \/ StartPlayer \/ StartWriter \/ LoopTest \/ ReadPeriod
  \/ TakeRequest \/ ApplyFade \/ BeginDirect \/ EndDirect \/ Pack
  \/ Drain \/ Cleanup \/ JoinWriter \/ JoinPlayer \/ Exit

-----------------------------------------------------------------------------
(***************************************************************************)
(* The playback thread                                                     *)
(***************************************************************************)

PlayerTop ==
  /\ player = "top"
  /\ player' = IF Halted THEN "ended" ELSE "recv"
  /\ UNCHANGED <<main, outerVars, routeVars, soundVars, linkVars, exit, reply, last,
                 heard, holder, haltVars, statusVars>>

\* Mutant: the player does not look at the route.
BugReceiveAnyRoute ==
  /\ player = "recv"
  /\ \E frame \in net :
       net' = net \ {frame} /\ reply' = frame /\ player' = "lock" /\ UNCHANGED last
  /\ UNCHANGED <<main, outerVars, routeVars, soundVars, sent, exit, heard, holder,
                 haltVars, statusVars>>

\* Mutant: a frame counts as played before it is written.
BugReceiveStores ==
  /\ player = "recv"
  /\ \E frame \in net :
       /\ net' = net \ {frame} /\ last' = frame
       /\ IF route = "direct"
          THEN player' = "top" /\ UNCHANGED reply
          ELSE reply' = frame /\ player' = "lock"
  /\ UNCHANGED <<main, outerVars, routeVars, soundVars, sent, exit, heard, holder,
                 haltVars, statusVars>>

\* On the direct route a reply is counted off and not played.
Receive ==
  /\ player = "recv"
  /\ \E frame \in net :
       /\ net' = net \ {frame}
       /\ IF route = "direct"
          THEN last' = frame /\ player' = "top" /\ UNCHANGED reply
          ELSE reply' = frame /\ player' = "lock" /\ UNCHANGED last
  /\ UNCHANGED <<main, outerVars, routeVars, soundVars, sent, exit, heard, holder,
                 haltVars, statusVars>>

\* Nothing for 100 ms, a foreign packet, or a backend that is being restarted; or
\* the socket fails, which is an error unless the program is being halted.
ReceiveFails ==
  /\ player = "recv"
  /\ \/ player' = "top" /\ UNCHANGED error
     \/ player' = "ended" /\ error' = (error \/ ~Halted)
  /\ UNCHANGED <<main, outerVars, routeVars, soundVars, linkVars, exit, reply, last,
                 heard, holder, stop, stopping, statusVars>>

\* Mutant: replies are written without write_mutex.
BugTakeDevice ==
  /\ player = "lock"
  /\ holder' = "player" /\ player' = "write"
  /\ UNCHANGED <<main, outerVars, routeVars, soundVars, linkVars, exit, reply, last,
                 heard, haltVars, statusVars>>

TakeDevice ==
  /\ player = "lock" /\ holder = "none"
  /\ holder' = "player" /\ player' = "write"
  /\ UNCHANGED <<main, outerVars, routeVars, soundVars, linkVars, exit, reply, last,
                 heard, haltVars, statusVars>>

PlayReply ==
  /\ player = "write"
  /\ heard' = heard \cup {reply}
  /\ late' = [late EXCEPT !.ai = IF route = "direct" THEN @ + 1 ELSE @]
  /\ holder' = "none" /\ player' = "store"
  /\ UNCHANGED <<main, outerVars, route, soundVars, linkVars, exit, reply, last,
                 haltVars, statusVars>>

\* A halted wait for the device is no error.
PlayFails ==
  /\ player = "write"
  /\ \/ Halted /\ UNCHANGED error
     \/ error' = TRUE
  /\ holder' = "none" /\ player' = "ended"
  /\ UNCHANGED <<main, outerVars, routeVars, soundVars, linkVars, exit, reply, last,
                 heard, stop, stopping, statusVars>>

StorePlayed ==
  /\ player = "store"
  /\ last' = reply /\ reply' = 0 /\ player' = "top"
  /\ UNCHANGED <<main, outerVars, routeVars, soundVars, linkVars, exit, heard,
                 holder, haltVars, statusVars>>

Player == PlayerTop \/ Receive \/ ReceiveFails \/ TakeDevice \/ PlayReply \/ StorePlayed

-----------------------------------------------------------------------------
(***************************************************************************)
(* The status writer                                                       *)
(***************************************************************************)

TakeSnapshot ==
  /\ writer = "top"
  /\ IF main \in {"writer", "player", "final", "exited"}
     THEN writer' = "ended" /\ UNCHANGED page
     ELSE writer' = "persist" /\ page' = snapshot
  /\ UNCHANGED <<main, outerVars, routeVars, soundVars, linkVars, exit, playVars,
                 holder, haltVars, statusError, snapshot, disk>>

Persist ==
  /\ writer = "persist"
  /\ \/ disk' = page /\ writer' = "top" /\ UNCHANGED statusError
     \/ statusError' = TRUE /\ writer' = "ended" /\ UNCHANGED disk
  /\ UNCHANGED <<main, outerVars, routeVars, soundVars, linkVars, exit, playVars,
                 holder, haltVars, snapshot, page>>

Writer == TakeSnapshot \/ Persist

-----------------------------------------------------------------------------
Next ==
  \/ SetRoute \/ Signal \/ StartFails \/ ReadEnds \/ DirectFails \/ PlayFails
  \/ MainThread \/ Player \/ Writer

Spec == Init /\ [][Next]_vars

\* Every thread runs, a read of the microphone or of the file comes back, a write
\* ends or gives up after a second, and the enhancer puts out sound in the end.  The
\* host of the USB endpoint need not send.
Fairness ==
  /\ WF_vars(MainThread /\ (main = "read" => options.input # "usb"))
  /\ SF_vars(ReadPeriod /\ options.input # "usb" /\ produced' > 0)
  /\ WF_vars(Player \/ PlayFails) /\ WF_vars(Writer)

FairSpec == Spec /\ Fairness

-----------------------------------------------------------------------------
(***************************************************************************)
(* Properties                                                              *)
(***************************************************************************)

\* Every thread is where its code can be, and the device has one holder, who is
\* writing.
TypeOK ==
  /\ options \in Options
  /\ main \in MainSteps /\ player \in PlayerSteps /\ writer \in WriterSteps
  /\ request \in Routes /\ route \in Routes /\ want \in Routes
  /\ left \in 0 .. MaxChunks /\ produced \in 0 .. MaxChunks
  /\ fade \in [direction : 0 .. 2, remaining : 0 .. FadeChunks, gain : 0 .. FadeChunks]
  /\ staged \in 0 .. FrameChunks
  /\ sent \in 0 .. MaxSent /\ exit \in {0, 1}
  /\ net \subseteq 1 .. MaxSent /\ heard \subseteq 1 .. MaxSent
  /\ reply \in 0 .. MaxSent /\ last \in 0 .. MaxSent
  /\ control \in BOOLEAN /\ stop \in BOOLEAN /\ stopping \in BOOLEAN
  /\ error \in BOOLEAN /\ statusError \in BOOLEAN
  /\ snapshot \in States \ {"none"} /\ disk \in States /\ page \in States
  /\ late \in [ai : Nat, direct : Nat]
  /\ requests \in 0 .. MaxRequests
  /\ holder = "player" <=> player = "write"
  /\ holder = "main" <=> main = "writing" /\ options.input # "usb"

\* After a change of route at most one reply and one period of direct sound are
\* still written of the route that was left: the player re-reads route_cur for
\* every reply, the main thread for every period.
RoutesNotMixed == late.ai <= 1 /\ late.direct <= MaxChunks

\* The route of a playback device changes in silence: "a switch is joined by a 10 ms
\* fade" (reports/m1-single-trunk-20261025/RESULTS.md:66).
SwitchIsFaded ==
  [][route' # route /\ options.input # "usb" => fade'.gain = 0]_vars

\* The two routes are heard one after the other and joined in silence.
RoutesChangeCleanly == []RoutesNotMixed /\ SwitchIsFaded

\* A replay that is never disturbed and exits with 0 has played the reply to its
\* last frame: play_args.last_played_frame is stored after the write.
ReplayDrained ==
    /\ main = "exited" /\ exit = 0 /\ options.playing
    /\ ~stop /\ requests = 0 /\ route = "ai" /\ sent > 0
  => sent \in heard

\* The status file and the exit code agree, and no snapshot of a running program
\* replaces the last one: whoever waits for "stopped" or "failed" may rely on it.
StatusMatchesExit ==
  /\ options.reported /\ main = "exited" => (exit = 0 <=> disk = "stopped")
  /\ disk \in {"stopped", "failed"} => main = "exited"

\* What the program says of itself when it ends is what happened.
ExitOnRecord == ReplayDrained /\ StatusMatchesExit

\* A signal ends the program, whatever the devices and the backend do: every wait
\* asks io_should_stop.
StopEnds == stop /\ options.input # "usb" ~> main = "exited"

\* With a device to play on, a request that is not taken back takes effect, or the
\* program comes to its end.
Settled(wanted) == route = wanted \/ request # wanted \/ main \in {"drain", "cleanup"}
RouteSettles ==
  \A wanted \in Routes :
      /\ options.playing /\ options.input # "usb"
      /\ main \in {"loop", "route"} /\ request = wanted
    ~> Settled(wanted)

\* Whoever stops the program or moves its route is answered.
CommandsTakeEffect == StopEnds /\ RouteSettles
=============================================================================
