--------------------------- MODULE RealtimeSession ---------------------------
(***************************************************************************)
(* One realtime session after another: ModeController starts and stops a   *)
(* RealtimeRvcWorker, which opens a UdpStream with its receive thread and  *)
(* runs an AudioWorker with its pump (process_loop) and its inference      *)
(* thread; clients send frames at any time (IO/src/udp_stream.cpp,         *)
(* rvc/audio_worker.cpp, state/realtime_rvc_worker.cpp).  The request is   *)
(* the thread that holds the controller's mutex.  What the inference       *)
(* thread makes of the frames is in StreamingRvc; here it is whether there *)
(* may be converted sound to send.                                         *)
(***************************************************************************)
EXTENDS Naturals, Sequences, FiniteSets

CONSTANTS
  Clients,       \* UDP endpoints that send frames
  NoClient,
  RingCapacity,  \* frames in the receive ring (32)
  MaxFrames,     \* bound: frames accepted in a session
  MaxSessions,   \* bound: sessions started
  MaxRoutes      \* bound: routing requests

ASSUME SessionAssumption ==
  /\ NoClient \notin Clients
  /\ RingCapacity \in Nat \ {0}
  /\ MaxFrames \in Nat /\ MaxSessions \in Nat /\ MaxRoutes \in Nat

VARIABLES
  request,   \* where the thread with the controller's mutex is
  routing,   \* realtime_mic_muted_ and realtime_bypass_, kept over all sessions
  running,   \* AudioWorker::running_
  flags,     \* AudioWorker's mic_muted_ and bypass_
  open,      \* UdpStream::open_
  socket,    \* sock_fd_ is valid
  ring,      \* input_ring_: the frames received and not read
  client,    \* client_addr_, with client_known_
  receive,   \* the receive thread
  packet,    \* the frame it holds
  pump,      \* the pump thread; "dozing" tests under input_mutex_, "asleep" waits
  frame,     \* the frame it holds
  address,   \* where it will send the answer
  sound,     \* whether the answer can be heard
  inference, \* the inference thread runs
  accepted,  \* history: frames accepted in this session
  hushed,    \* history: the mute asked for is in force since before frame was read
  sessions, routes

streamVars == <<open, socket, ring, client>>
receiveVars == <<receive, packet, accepted>>
pumpVars == <<pump, frame, address, sound, hushed>>
boundVars == <<sessions, routes>>
vars == <<request, routing, running, flags, streamVars, receiveVars, pumpVars,
          inference, boundVars>>

NoFrame == [from |-> NoClient, number |-> 0]
Routings == [muted : BOOLEAN, bypass : BOOLEAN]
Quiet == [muted |-> FALSE, bypass |-> FALSE]

\* notify_one and notify_all: only the pump waits, and is woken only if it has
\* given up input_mutex_ for the wait.
Notified == IF pump = "asleep" THEN "read" ELSE pump

\* ReadFrame holds input_mutex_ between the test and the wait.
InputFree == pump # "dozing"

-----------------------------------------------------------------------------
(***************************************************************************)
(* The request: start_realtime_locked, stop_realtime_locked, routing       *)
(***************************************************************************)

\* RealtimeRvcWorker::start opens a new stream, which starts the receive thread.
OpenStream ==
  /\ request = "off" /\ sessions < MaxSessions
  /\ open' = TRUE /\ socket' = TRUE /\ ring' = <<>> /\ client' = NoClient
  /\ receive' = "recv" /\ packet' = NoFrame /\ accepted' = 0
  /\ sessions' = sessions + 1
  /\ request' = "opened"
  /\ UNCHANGED <<routing, running, flags, pumpVars, inference, routes>>

\* Mutant: the routing asked for is not given to the new worker.
BugStartThreads ==
  /\ request = "opened"
  /\ running' = TRUE
  /\ flags' = Quiet
  /\ inference' = TRUE
  /\ pump' = "loop" /\ frame' = NoFrame /\ address' = NoClient
  /\ sound' = FALSE /\ hushed' = FALSE
  /\ request' = "on"
  /\ UNCHANGED <<routing, streamVars, receiveVars, boundVars>>

\* AudioWorker::start: a new worker, with its own flags cleared.
StartThreads ==
  /\ request = "opened"
  /\ running' = TRUE
  /\ flags' = Quiet
  /\ inference' = TRUE
  /\ pump' = "loop" /\ frame' = NoFrame /\ address' = NoClient
  /\ sound' = FALSE /\ hushed' = FALSE
  /\ request' = "mute"
  /\ UNCHANGED <<routing, streamVars, receiveVars, boundVars>>

\* A thread cannot be created: the exception leaves the worker to its destructor.
StartFails ==
  /\ request = "opened"
  /\ running' = TRUE
  /\ flags' = Quiet
  /\ inference' \in BOOLEAN
  /\ request' = "failed"
  /\ UNCHANGED <<routing, streamVars, receiveVars, pumpVars, boundVars>>

\* set_mic_muted and set_bypass, of start_realtime_locked and of routing.
SetMuted ==
  /\ request = "mute"
  /\ flags' = [flags EXCEPT !.muted = routing.muted]
  /\ request' = "bypass"
  /\ UNCHANGED <<routing, running, streamVars, receiveVars, pumpVars, inference,
                 boundVars>>

SetBypass ==
  /\ request = "bypass"
  /\ flags' = [flags EXCEPT !.bypass = routing.bypass]
  /\ request' = "on"
  /\ UNCHANGED <<routing, running, streamVars, receiveVars, pumpVars, inference,
                 boundVars>>

\* set_realtime_routing, with or without a session.
Route(wanted) ==
  /\ request \in {"off", "on"} /\ routes < MaxRoutes
  /\ routing' = wanted
  /\ hushed' = (hushed /\ wanted.muted)
  /\ request' = IF request = "on" THEN "mute" ELSE "off"
  /\ routes' = routes + 1
  /\ UNCHANGED <<running, flags, streamVars, receiveVars, pump, frame, address,
                 sound, inference, sessions>>

\* AudioWorker::stop, of a stop request and of the destructor.
HaltAt(step) ==
  /\ request = step
  /\ running' = FALSE
  /\ request' = "halted"
  /\ UNCHANGED <<routing, flags, streamVars, receiveVars, pumpVars, inference,
                 boundVars>>

Halt == HaltAt("on")
Abandon == HaltAt("failed")

\* Mutant: open_ is cleared without input_mutex_.
BugCloseStream ==
  /\ request = "halted"
  /\ open' = FALSE
  /\ request' = "closing"
  /\ UNCHANGED <<routing, running, flags, socket, ring, client, receiveVars,
                 pumpVars, inference, boundVars>>

\* UdpStream::Close, up to the notification.
CloseStream ==
  /\ request = "halted" /\ InputFree
  /\ open' = FALSE
  /\ request' = "closing"
  /\ UNCHANGED <<routing, running, flags, socket, ring, client, receiveVars,
                 pumpVars, inference, boundVars>>

NotifyClosed ==
  /\ request = "closing"
  /\ pump' = Notified
  /\ request' = "joinReceive"
  /\ UNCHANGED <<routing, running, flags, streamVars, receiveVars, frame, address,
                 sound, hushed, inference, boundVars>>

\* The receive thread is joined, then the socket closed.
CloseSocket ==
  /\ request = "joinReceive" /\ receive = "ended"
  /\ socket' = FALSE
  /\ request' = "empty"
  /\ UNCHANGED <<routing, running, flags, open, ring, client, receiveVars,
                 pumpVars, inference, boundVars>>

EmptyStream ==
  /\ request = "empty" /\ InputFree
  /\ ring' = <<>> /\ client' = NoClient
  /\ request' = "join"
  /\ UNCHANGED <<routing, running, flags, open, socket, receiveVars, pumpVars,
                 inference, boundVars>>

\* Mutant: only the inference thread is joined.
BugStopped ==
  /\ request = "join" /\ ~inference
  /\ request' = "off"
  /\ UNCHANGED <<routing, running, flags, streamVars, receiveVars, pumpVars,
                 inference, boundVars>>

\* Both threads are joined, and worker and stream destroyed.
Stopped ==
  /\ request = "join" /\ ~inference /\ pump = "ended"
  /\ request' = "off"
  /\ UNCHANGED <<routing, running, flags, streamVars, receiveVars, pumpVars,
                 inference, boundVars>>

\* What the request does without being asked again.
Request ==
  \/ StartThreads \/ StartFails \/ Abandon \/ SetMuted \/ SetBypass
  \/ CloseStream \/ NotifyClosed \/ CloseSocket \/ EmptyStream \/ Stopped

-----------------------------------------------------------------------------
(***************************************************************************)
(* The receive thread (UdpStream::receive_loop)                            *)
(***************************************************************************)

\* Mutant: the latest sender owns the session.
BugReceive(sender) ==
  /\ receive = "recv" /\ accepted < MaxFrames
  /\ client' = sender
  /\ accepted' = accepted + 1
  /\ packet' = [from |-> sender, number |-> accepted + 1]
  /\ receive' = "store"
  /\ UNCHANGED <<request, routing, running, flags, open, socket, ring, pumpVars,
                 inference, boundVars>>

\* A well-formed packet arrives: the first sender owns the session, and packets
\* of any other are counted and dropped.
Receive(sender) ==
  /\ receive = "recv" /\ accepted < MaxFrames
  /\ client \in {NoClient, sender}
  /\ client' = sender
  /\ accepted' = accepted + 1
  /\ packet' = [from |-> sender, number |-> accepted + 1]
  /\ receive' = "store"
  /\ UNCHANGED <<request, routing, running, flags, open, socket, ring, pumpVars,
                 inference, boundVars>>

\* Mutant: a full ring takes one more frame.
BugStored == IF Len(ring) <= RingCapacity THEN Append(ring, packet)
             ELSE Append(Tail(ring), packet)

\* Under input_mutex_: a full ring loses its oldest frame.
Stored == IF Len(ring) < RingCapacity THEN Append(ring, packet)
          ELSE Append(Tail(ring), packet)

StoreFrame ==
  /\ receive = "store" /\ InputFree
  /\ IF open THEN ring' = Stored /\ receive' = "notify"
     ELSE UNCHANGED ring /\ receive' = "ended"
  /\ packet' = NoFrame
  /\ UNCHANGED <<request, routing, running, flags, open, socket, client, accepted,
                 pumpVars, inference, boundVars>>

NotifyFrame ==
  /\ receive = "notify"
  /\ pump' = Notified
  /\ receive' = "recv"
  /\ UNCHANGED <<request, routing, running, flags, streamVars, packet, accepted,
                 frame, address, sound, hushed, inference, boundVars>>

\* recvfrom returns within 100 ms.
ReceiveEnds ==
  /\ receive = "recv" /\ ~open
  /\ receive' = "ended"
  /\ UNCHANGED <<request, routing, running, flags, streamVars, packet, accepted,
                 pumpVars, inference, boundVars>>

ReceiveThread == StoreFrame \/ NotifyFrame \/ ReceiveEnds

-----------------------------------------------------------------------------
(***************************************************************************)
(* The pump (AudioWorker::process_loop) and the inference thread           *)
(***************************************************************************)

PumpLoop ==
  /\ pump = "loop"
  /\ pump' = IF running THEN "read" ELSE "ended"
  /\ UNCHANGED <<request, routing, running, flags, streamVars, receiveVars, frame,
                 address, sound, hushed, inference, boundVars>>

\* ReadFrame: the wait's condition, and what follows if it holds.
ReadFrame ==
  /\ pump = "read"
  /\ \/ /\ ~open
        /\ pump' = "failed"
        /\ UNCHANGED <<ring, frame, hushed>>
     \/ /\ open /\ ring = <<>>
        /\ pump' = "dozing"
        /\ UNCHANGED <<ring, frame, hushed>>
     \/ /\ open /\ ring # <<>>
        /\ frame' = Head(ring)
        /\ ring' = Tail(ring)
        /\ hushed' = (request = "on" /\ routing.muted)
        /\ pump' = "muted?"
  /\ UNCHANGED <<request, routing, running, flags, open, socket, client,
                 receiveVars, address, sound, inference, boundVars>>

\* The wait itself gives up input_mutex_.
FallAsleep ==
  /\ pump = "dozing"
  /\ pump' = "asleep"
  /\ UNCHANGED <<request, routing, running, flags, streamVars, receiveVars, frame,
                 address, sound, hushed, inference, boundVars>>

\* ReadFrame returns false for a closed stream only, and a pump that ends clears
\* running_.
NoFrameRead ==
  /\ pump = "failed"
  /\ pump' = "ended"
  /\ running' = FALSE
  /\ UNCHANGED <<request, routing, flags, streamVars, receiveVars, frame,
                 address, sound, hushed, inference, boundVars>>

\* A muted frame is answered with silence and not converted.
LookMuted ==
  /\ pump = "muted?"
  /\ IF flags.muted
     THEN pump' = "answer" /\ sound' = FALSE
     ELSE pump' = "bypass?" /\ UNCHANGED sound
  /\ UNCHANGED <<request, routing, running, flags, streamVars, receiveVars, frame,
                 address, hushed, inference, boundVars>>

\* A bypassed frame is answered with itself; any other is given to StreamingRvc
\* and answered with what it has ready, if anything.
LookBypass ==
  /\ pump = "bypass?"
  /\ pump' = "answer"
  /\ IF flags.bypass
     THEN sound' = TRUE
     ELSE sound' \in BOOLEAN
  /\ UNCHANGED <<request, routing, running, flags, streamVars, receiveVars, frame,
                 address, hushed, inference, boundVars>>

\* WriteFrame, send_to_client: the address is copied under client_mutex_.
Answer ==
  /\ pump = "answer"
  /\ IF open /\ client # NoClient
     THEN address' = client /\ pump' = "send"
     ELSE UNCHANGED address /\ pump' = "loop"
  /\ UNCHANGED <<request, routing, running, flags, streamVars, receiveVars, frame,
                 sound, hushed, inference, boundVars>>

\* Under socket_mutex_: sent if the stream is still open, dropped if not.
Send ==
  /\ pump = "send"
  /\ pump' = "loop"
  /\ address' = NoClient
  /\ UNCHANGED <<request, routing, running, flags, streamVars, receiveVars, frame,
                 sound, hushed, inference, boundVars>>

Pump ==
  \/ PumpLoop \/ ReadFrame \/ FallAsleep \/ NoFrameRead
  \/ LookMuted \/ LookBypass \/ Answer \/ Send

\* inference_loop looks at running_ at least every 50 ms and between two blocks.
InferenceEnds ==
  /\ inference /\ ~running
  /\ inference' = FALSE
  /\ UNCHANGED <<request, routing, running, flags, streamVars, receiveVars,
                 pumpVars, boundVars>>

-----------------------------------------------------------------------------
Init ==
  /\ request = "off" /\ routing = Quiet /\ running = FALSE /\ flags = Quiet
  /\ open = FALSE /\ socket = FALSE /\ ring = <<>> /\ client = NoClient
  /\ receive = "ended" /\ packet = NoFrame /\ accepted = 0
  /\ pump = "ended" /\ frame = NoFrame /\ address = NoClient
  /\ sound = FALSE /\ hushed = FALSE
  /\ inference = FALSE
  /\ sessions = 0 /\ routes = 0

Next ==
  \/ OpenStream \/ Halt \/ Request
  \/ \E wanted \in Routings : Route(wanted)
  \/ \E sender \in Clients : Receive(sender)
  \/ ReceiveThread \/ Pump \/ InferenceEnds

Spec == Init /\ [][Next]_vars

\* Every thread runs; nobody has to ask for anything or to send a frame.
FairSpec ==
  /\ Spec
  /\ WF_vars(Request) /\ WF_vars(ReceiveThread)
  /\ WF_vars(Pump) /\ WF_vars(InferenceEnds)

-----------------------------------------------------------------------------
(***************************************************************************)
(* Properties                                                              *)
(***************************************************************************)

Frames == [from : Clients, number : 1 .. MaxFrames]

\* The threads are where their code can be, and hold frames of clients.
TypeOK ==
  /\ request \in {"off", "opened", "failed", "mute", "bypass", "on", "halted",
                  "closing", "joinReceive", "empty", "join"}
  /\ routing \in Routings /\ flags \in Routings
  /\ running \in BOOLEAN /\ open \in BOOLEAN /\ socket \in BOOLEAN
  /\ ring \in Seq(Frames) /\ Len(ring) <= RingCapacity
  /\ client \in Clients \cup {NoClient}
  /\ receive \in {"ended", "recv", "store", "notify"}
  /\ packet \in Frames \cup {NoFrame}
  /\ accepted \in 0 .. MaxFrames
  /\ pump \in {"ended", "loop", "read", "dozing", "asleep", "failed", "muted?",
               "bypass?", "answer", "send"}
  /\ frame \in Frames \cup {NoFrame}
  /\ address \in Clients \cup {NoClient}
  /\ sound \in BOOLEAN /\ hushed \in BOOLEAN /\ inference \in BOOLEAN
  /\ sessions \in 0 .. MaxSessions /\ routes \in 0 .. MaxRoutes

\* What is made of one client's voice is never sent to another: "switching to the
\* latest sender would send what is already converted to another client"
\* (receive_loop).
OwnVoiceOnly == pump = "send" => address = frame.from

\* A frame read after a mute was in force is answered with silence, unless the
\* mute has been lifted meanwhile; the mute survives the end of the session it
\* was asked in ("the worker is rebuilt at every switch", start_realtime_locked).
MutedIsSilent == pump \in {"answer", "send"} /\ sound => ~hushed

\* When the stop has returned no thread of the session runs, the port is free, and
\* the receive thread never had its socket closed under it: "a model swap must
\* never overlap an active audio inference call" (transition_locked).
NothingRuns ==
  /\ request = "off" => /\ ~inference /\ ~running /\ ~open /\ ~socket
                        /\ pump = "ended" /\ receive = "ended"
  /\ receive # "ended" => socket

\* A stop returns, and while a session lasts no frame waits beside a sleeping pump.
StopReturns == request = "halted" ~> request = "off"
FramesAreRead ==
  request = "on" /\ ring # <<>> ~> pump = "muted?" \/ request # "on"
NobodySleepsForever == StopReturns /\ FramesAreRead
=============================================================================
