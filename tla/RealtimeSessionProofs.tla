------------------------- MODULE RealtimeSessionProofs -------------------------
(***************************************************************************)
(* What holds of RealtimeSession for any number of clients, frames and     *)
(* sessions: its types, whose voice is sent to whom, that a mute silences, *)
(* and that nothing of a session outlives it.                              *)
(***************************************************************************)
EXTENDS RealtimeSession, SequenceTheorems, TLAPS

\* Where the request is bounds which threads run and what is open.
Phases ==
  /\ request \in {"off", "opened", "failed"} => pump = "ended"
  /\ request \in {"off", "opened"} => ~inference
  /\ request \in {"halted", "closing", "joinReceive", "empty", "join", "off"}
       => ~running
  /\ request \in {"closing", "joinReceive", "empty", "join", "off"} => ~open
  /\ request \in {"empty", "join", "off"} => receive = "ended" /\ ~socket
  /\ receive # "ended" => socket

Holding == pump \in {"muted?", "bypass?", "answer"}

\* All frames held or queued are of the session's one client.  After Close has
\* forgotten the client the receive thread has ended, so that no other client can
\* become the owner of a frame still held.
OneClient ==
  /\ receive = "store" => packet \in Frames /\ packet.from = client
  /\ \A i \in 1 .. Len(ring) : ring[i].from = client
  /\ Holding /\ client # NoClient => frame.from = client
  /\ client = NoClient /\ receive # "ended" => ~Holding

\* The mute in force when a frame was read is in the flag the pump looks at,
\* until it is lifted.
MuteKnown ==
  /\ request \in {"bypass", "on"} => flags.muted = routing.muted
  /\ hushed /\ pump # "ended" => flags.muted /\ routing.muted
  /\ pump = "bypass?" => ~hushed

IInv == TypeOK /\ Phases /\ OneClient /\ OwnVoiceOnly /\ MuteKnown /\ MutedIsSilent

\* No routing asked for is a routing.
LEMMA QuietRouting == Quiet \in Routings /\ Quiet.muted = FALSE
PROOF
  BY DEF Quiet, Routings

\* A frame put into the ring leaves a ring of frames within its capacity, whose
\* frames are those that were there and the new one.
LEMMA StoredIsRing ==
  ASSUME packet \in Frames, ring \in Seq(Frames), Len(ring) <= RingCapacity
  PROVE  /\ Stored \in Seq(Frames) /\ Len(Stored) <= RingCapacity
         /\ \A i \in 1 .. Len(Stored) :
              Stored[i] = packet \/ \E k \in 1 .. Len(ring) : Stored[i] = ring[k]
PROOF
<1>1. CASE Len(ring) < RingCapacity
  <2>1. /\ Append(ring, packet) \in Seq(Frames)
        /\ Len(Append(ring, packet)) = Len(ring) + 1
    BY AppendProperties
  <2>2. \A i \in 1 .. Len(ring) + 1 :
          Append(ring, packet)[i] = IF i = Len(ring) + 1 THEN packet ELSE ring[i]
    BY AppendProperties
  <2>3. QED
    BY <1>1, <2>1, <2>2, SessionAssumption, LenProperties DEF Stored
<1>2. CASE ~(Len(ring) < RingCapacity)
  <2>1. ring # <<>>
    BY <1>2, SessionAssumption
  <2>2. /\ Tail(ring) \in Seq(Frames) /\ Len(Tail(ring)) = Len(ring) - 1
        /\ \A i \in 1 .. Len(Tail(ring)) : Tail(ring)[i] = ring[i + 1]
    BY <2>1, HeadTailProperties
  <2>3. Len(ring) \in Nat /\ Len(Tail(ring)) + 1 = Len(ring)
    BY <2>2, LenProperties
  <2>4. /\ Append(Tail(ring), packet) \in Seq(Frames)
        /\ Len(Append(Tail(ring), packet)) = Len(ring)
    BY <2>2, <2>3, AppendProperties
  <2>5. \A i \in 1 .. Len(ring) :
          Append(Tail(ring), packet)[i] =
            IF i = Len(ring) THEN packet ELSE ring[i + 1]
    <3>1. \A i \in 1 .. Len(Tail(ring)) + 1 :
            Append(Tail(ring), packet)[i] =
              IF i = Len(Tail(ring)) + 1 THEN packet ELSE Tail(ring)[i]
      BY <2>2, AppendProperties
    <3>2. \A i \in 1 .. Len(ring) : i # Len(ring) => i \in 1 .. Len(Tail(ring))
      BY <2>3
    <3>3. QED
      BY <3>1, <3>2, <2>2, <2>3
  <2>6. QED
    <3>1. Stored = Append(Tail(ring), packet)
      BY <1>2 DEF Stored
    <3>2. \A i \in 1 .. Len(ring) : i # Len(ring) => i + 1 \in 1 .. Len(ring)
      BY <2>3
    <3>3. QED
      BY <3>1, <3>2, <2>4, <2>5
<1>3. QED
  BY <1>1, <1>2

\* Types are kept by every step.
LEMMA TypeStep ==
  ASSUME TypeOK, OneClient, [Next]_vars
  PROVE  TypeOK'
PROOF
<1>1. CASE OpenStream
  BY <1>1, SessionAssumption, QuietRouting DEF OpenStream, TypeOK, streamVars,
       receiveVars, pumpVars, boundVars
<1>2. CASE StartThreads
  BY <1>2, SessionAssumption, QuietRouting DEF StartThreads, TypeOK, streamVars,
       receiveVars, pumpVars, boundVars
<1>3. CASE StartFails
  BY <1>3, SessionAssumption, QuietRouting DEF StartFails, TypeOK, streamVars,
       receiveVars, pumpVars, boundVars
<1>4. CASE Abandon
  <2>1. /\ running' \in BOOLEAN /\ open' \in BOOLEAN /\ socket' \in BOOLEAN
        /\ sound' \in BOOLEAN /\ hushed' \in BOOLEAN /\ inference' \in BOOLEAN
    BY <1>4 DEF Abandon, HaltAt, TypeOK, streamVars, receiveVars, pumpVars,
         boundVars
  <2>2. QED
    BY <1>4, <2>1, SessionAssumption DEF Abandon, HaltAt, TypeOK, streamVars,
         receiveVars, pumpVars, boundVars
<1>5. CASE SetMuted
  <2>1. flags' \in Routings
    BY <1>5 DEF SetMuted, TypeOK, Routings
  <2>2. QED
    BY <1>5, <2>1 DEF SetMuted, TypeOK, streamVars, receiveVars, pumpVars,
         boundVars
<1>6. CASE SetBypass
  <2>1. flags' \in Routings
    BY <1>6 DEF SetBypass, TypeOK, Routings
  <2>2. QED
    BY <1>6, <2>1 DEF SetBypass, TypeOK, streamVars, receiveVars, pumpVars,
         boundVars
<1>7. CASE Halt
  <2>1. /\ running' \in BOOLEAN /\ open' \in BOOLEAN /\ socket' \in BOOLEAN
        /\ sound' \in BOOLEAN /\ hushed' \in BOOLEAN /\ inference' \in BOOLEAN
    BY <1>7 DEF Halt, HaltAt, TypeOK, streamVars, receiveVars, pumpVars, boundVars
  <2>2. QED
    BY <1>7, <2>1, SessionAssumption DEF Halt, HaltAt, TypeOK, streamVars,
         receiveVars, pumpVars, boundVars
<1>8. CASE CloseStream
  <2>1. /\ running' \in BOOLEAN /\ open' \in BOOLEAN /\ socket' \in BOOLEAN
        /\ sound' \in BOOLEAN /\ hushed' \in BOOLEAN /\ inference' \in BOOLEAN
    BY <1>8 DEF CloseStream, TypeOK, streamVars, receiveVars, pumpVars, boundVars
  <2>2. QED
    BY <1>8, <2>1, SessionAssumption DEF CloseStream, TypeOK, streamVars,
         receiveVars, pumpVars, boundVars
<1>9. CASE NotifyClosed
  BY <1>9, SessionAssumption, QuietRouting DEF NotifyClosed, Notified, TypeOK,
       streamVars, receiveVars, pumpVars, boundVars
<1>10. CASE CloseSocket
  <2>1. /\ running' \in BOOLEAN /\ open' \in BOOLEAN /\ socket' \in BOOLEAN
        /\ sound' \in BOOLEAN /\ hushed' \in BOOLEAN /\ inference' \in BOOLEAN
    BY <1>10 DEF CloseSocket, TypeOK, streamVars, receiveVars, pumpVars, boundVars
  <2>2. QED
    BY <1>10, <2>1, SessionAssumption DEF CloseSocket, TypeOK, streamVars,
         receiveVars, pumpVars, boundVars
<1>11. CASE EmptyStream
  BY <1>11, SessionAssumption, QuietRouting DEF EmptyStream, TypeOK, streamVars,
       receiveVars, pumpVars, boundVars
<1>12. CASE Stopped
  BY <1>12, SessionAssumption, QuietRouting DEF Stopped, TypeOK, streamVars,
       receiveVars, pumpVars, boundVars
<1>13. ASSUME NEW wanted \in Routings, Route(wanted)
      PROVE  TypeOK'
  BY <1>13, SessionAssumption, QuietRouting DEF Route, TypeOK, streamVars,
       receiveVars, pumpVars, boundVars
<1>14. ASSUME NEW sender \in Clients, Receive(sender)
      PROVE  TypeOK'
  <2>1. packet' \in Frames /\ accepted' \in 0 .. MaxFrames
    BY <1>14, SessionAssumption DEF Receive, TypeOK, Frames
  <2>2. QED
    BY <1>14, <2>1 DEF Receive, TypeOK, streamVars, pumpVars, boundVars
<1>15. CASE StoreFrame
  <2>1. CASE open
    <3>1. packet \in Frames /\ ring \in Seq(Frames)
      BY <1>15 DEF StoreFrame, OneClient, TypeOK
    <3>2. Stored \in Seq(Frames) /\ Len(Stored) <= RingCapacity
      BY <3>1, StoredIsRing DEF TypeOK
    <3>3. QED
      BY <1>15, <2>1, <3>2 DEF StoreFrame, TypeOK, streamVars, receiveVars,
           pumpVars, boundVars
  <2>2. CASE ~open
    BY <1>15, <2>2 DEF StoreFrame, TypeOK, streamVars, receiveVars, pumpVars,
         boundVars
  <2>3. QED
    BY <2>1, <2>2
<1>16. CASE NotifyFrame
  BY <1>16, SessionAssumption, QuietRouting DEF NotifyFrame, Notified, TypeOK,
       streamVars, receiveVars, pumpVars, boundVars
<1>17. CASE ReceiveEnds
  BY <1>17, SessionAssumption, QuietRouting DEF ReceiveEnds, TypeOK, streamVars,
       receiveVars, pumpVars, boundVars
<1>18. CASE PumpLoop
  BY <1>18, SessionAssumption, QuietRouting DEF PumpLoop, TypeOK, streamVars,
       receiveVars, pumpVars, boundVars
<1>19. CASE ReadFrame
  <2>1. CASE open /\ ring # <<>>
    <3>1. Head(ring) \in Frames /\ Tail(ring) \in Seq(Frames)
            /\ Len(Tail(ring)) <= RingCapacity
      BY <2>1, SessionAssumption, HeadTailProperties DEF TypeOK
    <3>2. hushed' \in BOOLEAN
      BY <1>19, <2>1 DEF ReadFrame
    <3>3. QED
      BY <1>19, <2>1, <3>1, <3>2 DEF ReadFrame, TypeOK, streamVars, receiveVars,
           pumpVars, boundVars
  <2>2. CASE ~(open /\ ring # <<>>)
    BY <1>19, <2>2 DEF ReadFrame, TypeOK, streamVars, receiveVars, pumpVars,
         boundVars
  <2>3. QED
    BY <2>1, <2>2
<1>20. CASE FallAsleep
  BY <1>20, SessionAssumption, QuietRouting DEF FallAsleep, TypeOK, streamVars,
       receiveVars, pumpVars, boundVars
<1>21. CASE NoFrameRead
  <2>1. /\ running' \in BOOLEAN /\ open' \in BOOLEAN /\ socket' \in BOOLEAN
        /\ sound' \in BOOLEAN /\ hushed' \in BOOLEAN /\ inference' \in BOOLEAN
    BY <1>21 DEF NoFrameRead, TypeOK, streamVars, receiveVars, pumpVars, boundVars
  <2>2. QED
    BY <1>21, <2>1, SessionAssumption DEF NoFrameRead, TypeOK, streamVars,
         receiveVars, pumpVars, boundVars
<1>22. CASE LookMuted
  <2>1. /\ running' \in BOOLEAN /\ open' \in BOOLEAN /\ socket' \in BOOLEAN
        /\ sound' \in BOOLEAN /\ hushed' \in BOOLEAN /\ inference' \in BOOLEAN
    BY <1>22 DEF LookMuted, TypeOK, streamVars, receiveVars, pumpVars, boundVars
  <2>2. QED
    BY <1>22, <2>1, SessionAssumption DEF LookMuted, TypeOK, streamVars,
         receiveVars, pumpVars, boundVars
<1>23. CASE LookBypass
  <2>1. /\ running' \in BOOLEAN /\ open' \in BOOLEAN /\ socket' \in BOOLEAN
        /\ sound' \in BOOLEAN /\ hushed' \in BOOLEAN /\ inference' \in BOOLEAN
    BY <1>23 DEF LookBypass, TypeOK, streamVars, receiveVars, pumpVars, boundVars
  <2>2. QED
    BY <1>23, <2>1, SessionAssumption DEF LookBypass, TypeOK, streamVars,
         receiveVars, pumpVars, boundVars
<1>24. CASE Answer
  BY <1>24, SessionAssumption, QuietRouting DEF Answer, TypeOK, streamVars,
       receiveVars, pumpVars, boundVars
<1>25. CASE Send
  BY <1>25, SessionAssumption, QuietRouting DEF Send, TypeOK, streamVars,
       receiveVars, pumpVars, boundVars
<1>26. CASE InferenceEnds
  <2>1. /\ running' \in BOOLEAN /\ open' \in BOOLEAN /\ socket' \in BOOLEAN
        /\ sound' \in BOOLEAN /\ hushed' \in BOOLEAN /\ inference' \in BOOLEAN
    BY <1>26 DEF InferenceEnds, TypeOK, streamVars, receiveVars, pumpVars,
         boundVars
  <2>2. QED
    BY <1>26, <2>1, SessionAssumption DEF InferenceEnds, TypeOK, streamVars,
         receiveVars, pumpVars, boundVars
<1>27. CASE UNCHANGED vars
  BY <1>27, SessionAssumption, QuietRouting DEF vars, TypeOK, streamVars,
       receiveVars, pumpVars, boundVars
<1>28. QED
  BY <1>1, <1>2, <1>3, <1>4, <1>5, <1>6, <1>7, <1>8, <1>9, <1>10, <1>11, <1>12,
       <1>13, <1>14, <1>15, <1>16, <1>17, <1>18, <1>19, <1>20, <1>21, <1>22,
       <1>23, <1>24, <1>25, <1>26, <1>27 DEF Next, Request, ReceiveThread, Pump

\* A step of the request happens only when the threads it waits for have ended.
LEMMA PhasesStep ==
  ASSUME TypeOK, Phases, [Next]_vars
  PROVE  Phases'
PROOF
<1>1. CASE OpenStream
  BY <1>1 DEF OpenStream, TypeOK, Phases, streamVars, receiveVars, pumpVars,
       boundVars
<1>2. CASE StartThreads
  BY <1>2 DEF StartThreads, TypeOK, Phases, streamVars, receiveVars, pumpVars,
       boundVars
<1>3. CASE StartFails
  BY <1>3 DEF StartFails, TypeOK, Phases, streamVars, receiveVars, pumpVars,
       boundVars
<1>4. CASE Abandon
  BY <1>4 DEF Abandon, HaltAt, TypeOK, Phases, streamVars, receiveVars, pumpVars,
       boundVars
<1>5. CASE SetMuted
  BY <1>5 DEF SetMuted, TypeOK, Phases, streamVars, receiveVars, pumpVars,
       boundVars
<1>6. CASE SetBypass
  BY <1>6 DEF SetBypass, TypeOK, Phases, streamVars, receiveVars, pumpVars,
       boundVars
<1>7. CASE Halt
  BY <1>7 DEF Halt, HaltAt, TypeOK, Phases, streamVars, receiveVars, pumpVars,
       boundVars
<1>8. CASE CloseStream
  BY <1>8 DEF CloseStream, TypeOK, Phases, streamVars, receiveVars, pumpVars,
       boundVars
<1>9. CASE NotifyClosed
  BY <1>9 DEF NotifyClosed, Notified, TypeOK, Phases, streamVars, receiveVars,
       pumpVars, boundVars
<1>10. CASE CloseSocket
  BY <1>10 DEF CloseSocket, TypeOK, Phases, streamVars, receiveVars, pumpVars,
       boundVars
<1>11. CASE EmptyStream
  BY <1>11 DEF EmptyStream, TypeOK, Phases, streamVars, receiveVars, pumpVars,
       boundVars
<1>12. CASE Stopped
  BY <1>12 DEF Stopped, TypeOK, Phases, streamVars, receiveVars, pumpVars,
       boundVars
<1>13. ASSUME NEW wanted \in Routings, Route(wanted)
      PROVE  Phases'
  BY <1>13 DEF Route, TypeOK, Phases, streamVars, receiveVars, pumpVars, boundVars
<1>14. ASSUME NEW sender \in Clients, Receive(sender)
      PROVE  Phases'
  BY <1>14 DEF Receive, TypeOK, Phases, streamVars, receiveVars, pumpVars,
       boundVars
<1>15. CASE StoreFrame
  BY <1>15 DEF StoreFrame, TypeOK, Phases, streamVars, receiveVars, pumpVars,
       boundVars
<1>16. CASE NotifyFrame
  BY <1>16 DEF NotifyFrame, Notified, TypeOK, Phases, streamVars, receiveVars,
       pumpVars, boundVars
<1>17. CASE ReceiveEnds
  BY <1>17 DEF ReceiveEnds, TypeOK, Phases, streamVars, receiveVars, pumpVars,
       boundVars
<1>18. CASE PumpLoop
  BY <1>18 DEF PumpLoop, TypeOK, Phases, streamVars, receiveVars, pumpVars,
       boundVars
<1>19. CASE ReadFrame
  BY <1>19 DEF ReadFrame, TypeOK, Phases, streamVars, receiveVars, pumpVars,
       boundVars
<1>20. CASE FallAsleep
  BY <1>20 DEF FallAsleep, TypeOK, Phases, streamVars, receiveVars, pumpVars,
       boundVars
<1>21. CASE NoFrameRead
  BY <1>21 DEF NoFrameRead, TypeOK, Phases, streamVars, receiveVars, pumpVars,
       boundVars
<1>22. CASE LookMuted
  BY <1>22 DEF LookMuted, TypeOK, Phases, streamVars, receiveVars, pumpVars,
       boundVars
<1>23. CASE LookBypass
  BY <1>23 DEF LookBypass, TypeOK, Phases, streamVars, receiveVars, pumpVars,
       boundVars
<1>24. CASE Answer
  BY <1>24 DEF Answer, TypeOK, Phases, streamVars, receiveVars, pumpVars,
       boundVars
<1>25. CASE Send
  BY <1>25 DEF Send, TypeOK, Phases, streamVars, receiveVars, pumpVars, boundVars
<1>26. CASE InferenceEnds
  BY <1>26 DEF InferenceEnds, TypeOK, Phases, streamVars, receiveVars, pumpVars,
       boundVars
<1>27. CASE UNCHANGED vars
  BY <1>27 DEF vars, TypeOK, Phases, streamVars, receiveVars, pumpVars, boundVars
<1>28. QED
  BY <1>1, <1>2, <1>3, <1>4, <1>5, <1>6, <1>7, <1>8, <1>9, <1>10, <1>11, <1>12,
       <1>13, <1>14, <1>15, <1>16, <1>17, <1>18, <1>19, <1>20, <1>21, <1>22,
       <1>23, <1>24, <1>25, <1>26, <1>27 DEF Next, Request, ReceiveThread, Pump

\* Only a session without an owner takes one, and then holds no frame.
LEMMA OneClientStep ==
  ASSUME TypeOK, Phases, OneClient, [Next]_vars
  PROVE  OneClient'
PROOF
<1>1. CASE OpenStream
  BY <1>1, SessionAssumption DEF OpenStream, TypeOK, Phases, OneClient, Holding,
       Frames, NoFrame, streamVars, receiveVars, pumpVars, boundVars
<1>2. CASE StartThreads
  BY <1>2, SessionAssumption DEF StartThreads, TypeOK, Phases, OneClient, Holding,
       Frames, NoFrame, streamVars, receiveVars, pumpVars, boundVars
<1>3. CASE StartFails
  BY <1>3, SessionAssumption DEF StartFails, TypeOK, Phases, OneClient, Holding,
       Frames, NoFrame, streamVars, receiveVars, pumpVars, boundVars
<1>4. CASE Abandon
  BY <1>4, SessionAssumption DEF Abandon, HaltAt, TypeOK, Phases, OneClient,
       Holding, Frames, NoFrame, streamVars, receiveVars, pumpVars, boundVars
<1>5. CASE SetMuted
  BY <1>5, SessionAssumption DEF SetMuted, TypeOK, Phases, OneClient, Holding,
       Frames, NoFrame, streamVars, receiveVars, pumpVars, boundVars
<1>6. CASE SetBypass
  BY <1>6, SessionAssumption DEF SetBypass, TypeOK, Phases, OneClient, Holding,
       Frames, NoFrame, streamVars, receiveVars, pumpVars, boundVars
<1>7. CASE Halt
  BY <1>7, SessionAssumption DEF Halt, HaltAt, TypeOK, Phases, OneClient, Holding,
       Frames, NoFrame, streamVars, receiveVars, pumpVars, boundVars
<1>8. CASE CloseStream
  BY <1>8, SessionAssumption DEF CloseStream, TypeOK, Phases, OneClient, Holding,
       Frames, NoFrame, streamVars, receiveVars, pumpVars, boundVars
<1>9. CASE NotifyClosed
  BY <1>9, SessionAssumption DEF NotifyClosed, Notified, TypeOK, Phases,
       OneClient, Holding, Frames, NoFrame, streamVars, receiveVars, pumpVars,
       boundVars
<1>10. CASE CloseSocket
  BY <1>10, SessionAssumption DEF CloseSocket, TypeOK, Phases, OneClient, Holding,
       Frames, NoFrame, streamVars, receiveVars, pumpVars, boundVars
<1>11. CASE EmptyStream
  BY <1>11, SessionAssumption DEF EmptyStream, TypeOK, Phases, OneClient, Holding,
       Frames, NoFrame, streamVars, receiveVars, pumpVars, boundVars
<1>12. CASE Stopped
  BY <1>12, SessionAssumption DEF Stopped, TypeOK, Phases, OneClient, Holding,
       Frames, NoFrame, streamVars, receiveVars, pumpVars, boundVars
<1>13. ASSUME NEW wanted \in Routings, Route(wanted)
      PROVE  OneClient'
  BY <1>13, SessionAssumption DEF Route, TypeOK, Phases, OneClient, Holding,
       Frames, NoFrame, streamVars, receiveVars, pumpVars, boundVars
<1>14. ASSUME NEW sender \in Clients, Receive(sender)
      PROVE  OneClient'
  <2>1. packet' \in Frames /\ packet'.from = client'
    BY <1>14, SessionAssumption DEF Receive, TypeOK, Frames
  <2>2. \A i \in 1 .. Len(ring) : ring[i].from = client'
    <3>1. CASE client = NoClient
      <4>1. \A i \in 1 .. Len(ring) : ring[i] \in Frames
        BY ElementOfSeq DEF TypeOK
      <4>2. QED
        BY <3>1, <4>1, SessionAssumption DEF OneClient, Frames
    <3>2. CASE client = sender
      BY <1>14, <3>2 DEF Receive, OneClient
    <3>3. QED
      BY <1>14, <3>1, <3>2 DEF Receive
  <2>3. QED
    BY <1>14, <2>1, <2>2, SessionAssumption DEF Receive, OneClient, Holding,
         pumpVars
<1>15. CASE StoreFrame
  <2>1. CASE open
    <3>1. packet \in Frames /\ ring \in Seq(Frames) /\ packet.from = client
      BY <1>15 DEF StoreFrame, OneClient, TypeOK
    <3>2. \A i \in 1 .. Len(Stored) :
            Stored[i] = packet \/ \E k \in 1 .. Len(ring) : Stored[i] = ring[k]
      BY <3>1, StoredIsRing DEF TypeOK
    <3>3. \A i \in 1 .. Len(Stored) : Stored[i].from = client
      BY <3>1, <3>2 DEF OneClient
    <3>4. QED
      BY <1>15, <2>1, <3>3 DEF StoreFrame, OneClient, Holding, pumpVars
  <2>2. CASE ~open
    BY <1>15, <2>2 DEF StoreFrame, OneClient, Holding, pumpVars
  <2>3. QED
    BY <2>1, <2>2
<1>16. CASE NotifyFrame
  BY <1>16, SessionAssumption DEF NotifyFrame, Notified, TypeOK, Phases,
       OneClient, Holding, Frames, NoFrame, streamVars, receiveVars, pumpVars,
       boundVars
<1>17. CASE ReceiveEnds
  BY <1>17, SessionAssumption DEF ReceiveEnds, TypeOK, Phases, OneClient, Holding,
       Frames, NoFrame, streamVars, receiveVars, pumpVars, boundVars
<1>18. CASE PumpLoop
  BY <1>18, SessionAssumption DEF PumpLoop, TypeOK, Phases, OneClient, Holding,
       Frames, NoFrame, streamVars, receiveVars, pumpVars, boundVars
<1>19. CASE ReadFrame
  <2>1. CASE open /\ ring # <<>>
    <3>1. /\ ring \in Seq(Frames) /\ Len(ring) \in Nat /\ Len(ring) > 0
          /\ ring[1] \in Frames /\ Head(ring) = ring[1]
      BY <2>1, HeadTailProperties, LenProperties, EmptySeq, ElementOfSeq DEF
           TypeOK
    <3>2. /\ Len(Tail(ring)) = Len(ring) - 1
          /\ \A i \in 1 .. Len(Tail(ring)) : Tail(ring)[i] = ring[i + 1]
      BY <2>1, <3>1, HeadTailProperties
    <3>3. \A i \in 1 .. Len(Tail(ring)) : Tail(ring)[i].from = client
      BY <3>1, <3>2 DEF OneClient
    <3>4. Head(ring).from = client /\ client # NoClient
      BY <3>1, SessionAssumption DEF OneClient, Frames
    <3>5. QED
      BY <1>19, <2>1, <3>3, <3>4 DEF ReadFrame, OneClient, Holding, receiveVars
  <2>2. CASE ~(open /\ ring # <<>>)
    BY <1>19, <2>2 DEF ReadFrame, OneClient, Holding, receiveVars
  <2>3. QED
    BY <2>1, <2>2
<1>20. CASE FallAsleep
  BY <1>20, SessionAssumption DEF FallAsleep, TypeOK, Phases, OneClient, Holding,
       Frames, NoFrame, streamVars, receiveVars, pumpVars, boundVars
<1>21. CASE NoFrameRead
  BY <1>21, SessionAssumption DEF NoFrameRead, TypeOK, Phases, OneClient, Holding,
       Frames, NoFrame, streamVars, receiveVars, pumpVars, boundVars
<1>22. CASE LookMuted
  BY <1>22, SessionAssumption DEF LookMuted, TypeOK, Phases, OneClient, Holding,
       Frames, NoFrame, streamVars, receiveVars, pumpVars, boundVars
<1>23. CASE LookBypass
  BY <1>23, SessionAssumption DEF LookBypass, TypeOK, Phases, OneClient, Holding,
       Frames, NoFrame, streamVars, receiveVars, pumpVars, boundVars
<1>24. CASE Answer
  BY <1>24, SessionAssumption DEF Answer, TypeOK, Phases, OneClient, Holding,
       Frames, NoFrame, streamVars, receiveVars, pumpVars, boundVars
<1>25. CASE Send
  BY <1>25, SessionAssumption DEF Send, TypeOK, Phases, OneClient, Holding,
       Frames, NoFrame, streamVars, receiveVars, pumpVars, boundVars
<1>26. CASE InferenceEnds
  BY <1>26, SessionAssumption DEF InferenceEnds, TypeOK, Phases, OneClient,
       Holding, Frames, NoFrame, streamVars, receiveVars, pumpVars, boundVars
<1>27. CASE UNCHANGED vars
  BY <1>27, SessionAssumption DEF vars, TypeOK, Phases, OneClient, Holding,
       Frames, NoFrame, streamVars, receiveVars, pumpVars, boundVars
<1>28. QED
  BY <1>1, <1>2, <1>3, <1>4, <1>5, <1>6, <1>7, <1>8, <1>9, <1>10, <1>11, <1>12,
       <1>13, <1>14, <1>15, <1>16, <1>17, <1>18, <1>19, <1>20, <1>21, <1>22,
       <1>23, <1>24, <1>25, <1>26, <1>27 DEF Next, Request, ReceiveThread, Pump

\* The address is the one client's while the answer is on its way.
LEMMA OwnVoiceStep ==
  ASSUME TypeOK, OneClient, OwnVoiceOnly, [Next]_vars
  PROVE  OwnVoiceOnly'
PROOF
<1>1. CASE OpenStream
  BY <1>1 DEF OpenStream, TypeOK, OneClient, Holding, OwnVoiceOnly, streamVars,
       receiveVars, pumpVars, boundVars
<1>2. CASE StartThreads
  BY <1>2 DEF StartThreads, TypeOK, OneClient, Holding, OwnVoiceOnly, streamVars,
       receiveVars, pumpVars, boundVars
<1>3. CASE StartFails
  BY <1>3 DEF StartFails, TypeOK, OneClient, Holding, OwnVoiceOnly, streamVars,
       receiveVars, pumpVars, boundVars
<1>4. CASE Abandon
  BY <1>4 DEF Abandon, HaltAt, TypeOK, OneClient, Holding, OwnVoiceOnly,
       streamVars, receiveVars, pumpVars, boundVars
<1>5. CASE SetMuted
  BY <1>5 DEF SetMuted, TypeOK, OneClient, Holding, OwnVoiceOnly, streamVars,
       receiveVars, pumpVars, boundVars
<1>6. CASE SetBypass
  BY <1>6 DEF SetBypass, TypeOK, OneClient, Holding, OwnVoiceOnly, streamVars,
       receiveVars, pumpVars, boundVars
<1>7. CASE Halt
  BY <1>7 DEF Halt, HaltAt, TypeOK, OneClient, Holding, OwnVoiceOnly, streamVars,
       receiveVars, pumpVars, boundVars
<1>8. CASE CloseStream
  BY <1>8 DEF CloseStream, TypeOK, OneClient, Holding, OwnVoiceOnly, streamVars,
       receiveVars, pumpVars, boundVars
<1>9. CASE NotifyClosed
  BY <1>9 DEF NotifyClosed, Notified, TypeOK, OneClient, Holding, OwnVoiceOnly,
       streamVars, receiveVars, pumpVars, boundVars
<1>10. CASE CloseSocket
  BY <1>10 DEF CloseSocket, TypeOK, OneClient, Holding, OwnVoiceOnly, streamVars,
       receiveVars, pumpVars, boundVars
<1>11. CASE EmptyStream
  BY <1>11 DEF EmptyStream, TypeOK, OneClient, Holding, OwnVoiceOnly, streamVars,
       receiveVars, pumpVars, boundVars
<1>12. CASE Stopped
  BY <1>12 DEF Stopped, TypeOK, OneClient, Holding, OwnVoiceOnly, streamVars,
       receiveVars, pumpVars, boundVars
<1>13. ASSUME NEW wanted \in Routings, Route(wanted)
      PROVE  OwnVoiceOnly'
  BY <1>13 DEF Route, TypeOK, OneClient, Holding, OwnVoiceOnly, streamVars,
       receiveVars, pumpVars, boundVars
<1>14. ASSUME NEW sender \in Clients, Receive(sender)
      PROVE  OwnVoiceOnly'
  BY <1>14 DEF Receive, TypeOK, OneClient, Holding, OwnVoiceOnly, streamVars,
       receiveVars, pumpVars, boundVars
<1>15. CASE StoreFrame
  BY <1>15 DEF StoreFrame, TypeOK, OneClient, Holding, OwnVoiceOnly, streamVars,
       receiveVars, pumpVars, boundVars
<1>16. CASE NotifyFrame
  BY <1>16 DEF NotifyFrame, Notified, TypeOK, OneClient, Holding, OwnVoiceOnly,
       streamVars, receiveVars, pumpVars, boundVars
<1>17. CASE ReceiveEnds
  BY <1>17 DEF ReceiveEnds, TypeOK, OneClient, Holding, OwnVoiceOnly, streamVars,
       receiveVars, pumpVars, boundVars
<1>18. CASE PumpLoop
  BY <1>18 DEF PumpLoop, TypeOK, OneClient, Holding, OwnVoiceOnly, streamVars,
       receiveVars, pumpVars, boundVars
<1>19. CASE ReadFrame
  BY <1>19 DEF ReadFrame, TypeOK, OneClient, Holding, OwnVoiceOnly, streamVars,
       receiveVars, pumpVars, boundVars
<1>20. CASE FallAsleep
  BY <1>20 DEF FallAsleep, TypeOK, OneClient, Holding, OwnVoiceOnly, streamVars,
       receiveVars, pumpVars, boundVars
<1>21. CASE NoFrameRead
  BY <1>21 DEF NoFrameRead, TypeOK, OneClient, Holding, OwnVoiceOnly, streamVars,
       receiveVars, pumpVars, boundVars
<1>22. CASE LookMuted
  BY <1>22 DEF LookMuted, TypeOK, OneClient, Holding, OwnVoiceOnly, streamVars,
       receiveVars, pumpVars, boundVars
<1>23. CASE LookBypass
  BY <1>23 DEF LookBypass, TypeOK, OneClient, Holding, OwnVoiceOnly, streamVars,
       receiveVars, pumpVars, boundVars
<1>24. CASE Answer
  BY <1>24 DEF Answer, TypeOK, OneClient, Holding, OwnVoiceOnly, streamVars,
       receiveVars, pumpVars, boundVars
<1>25. CASE Send
  BY <1>25 DEF Send, TypeOK, OneClient, Holding, OwnVoiceOnly, streamVars,
       receiveVars, pumpVars, boundVars
<1>26. CASE InferenceEnds
  BY <1>26 DEF InferenceEnds, TypeOK, OneClient, Holding, OwnVoiceOnly,
       streamVars, receiveVars, pumpVars, boundVars
<1>27. CASE UNCHANGED vars
  BY <1>27 DEF vars, TypeOK, OneClient, Holding, OwnVoiceOnly, streamVars,
       receiveVars, pumpVars, boundVars
<1>28. QED
  BY <1>1, <1>2, <1>3, <1>4, <1>5, <1>6, <1>7, <1>8, <1>9, <1>10, <1>11, <1>12,
       <1>13, <1>14, <1>15, <1>16, <1>17, <1>18, <1>19, <1>20, <1>21, <1>22,
       <1>23, <1>24, <1>25, <1>26, <1>27 DEF Next, Request, ReceiveThread, Pump

\* A frame read under a mute finds the flag set, or is no longer hushed.
LEMMA MuteStep ==
  ASSUME TypeOK, Phases, MuteKnown, MutedIsSilent, [Next]_vars
  PROVE  MuteKnown' /\ MutedIsSilent'
PROOF
<1>1. CASE OpenStream
  BY <1>1 DEF OpenStream, TypeOK, Phases, MuteKnown, MutedIsSilent, Routings,
       Quiet, streamVars, receiveVars, pumpVars, boundVars
<1>2. CASE StartThreads
  BY <1>2 DEF StartThreads, TypeOK, Phases, MuteKnown, MutedIsSilent, Routings,
       Quiet, streamVars, receiveVars, pumpVars, boundVars
<1>3. CASE StartFails
  BY <1>3 DEF StartFails, TypeOK, Phases, MuteKnown, MutedIsSilent, Routings,
       Quiet, streamVars, receiveVars, pumpVars, boundVars
<1>4. CASE Abandon
  BY <1>4 DEF Abandon, HaltAt, TypeOK, Phases, MuteKnown, MutedIsSilent, Routings,
       Quiet, streamVars, receiveVars, pumpVars, boundVars
<1>5. CASE SetMuted
  BY <1>5 DEF SetMuted, TypeOK, Phases, MuteKnown, MutedIsSilent, Routings, Quiet,
       streamVars, receiveVars, pumpVars, boundVars
<1>6. CASE SetBypass
  BY <1>6 DEF SetBypass, TypeOK, Phases, MuteKnown, MutedIsSilent, Routings,
       Quiet, streamVars, receiveVars, pumpVars, boundVars
<1>7. CASE Halt
  BY <1>7 DEF Halt, HaltAt, TypeOK, Phases, MuteKnown, MutedIsSilent, Routings,
       Quiet, streamVars, receiveVars, pumpVars, boundVars
<1>8. CASE CloseStream
  BY <1>8 DEF CloseStream, TypeOK, Phases, MuteKnown, MutedIsSilent, Routings,
       Quiet, streamVars, receiveVars, pumpVars, boundVars
<1>9. CASE NotifyClosed
  BY <1>9 DEF NotifyClosed, Notified, TypeOK, Phases, MuteKnown, MutedIsSilent,
       Routings, Quiet, streamVars, receiveVars, pumpVars, boundVars
<1>10. CASE CloseSocket
  BY <1>10 DEF CloseSocket, TypeOK, Phases, MuteKnown, MutedIsSilent, Routings,
       Quiet, streamVars, receiveVars, pumpVars, boundVars
<1>11. CASE EmptyStream
  BY <1>11 DEF EmptyStream, TypeOK, Phases, MuteKnown, MutedIsSilent, Routings,
       Quiet, streamVars, receiveVars, pumpVars, boundVars
<1>12. CASE Stopped
  BY <1>12 DEF Stopped, TypeOK, Phases, MuteKnown, MutedIsSilent, Routings, Quiet,
       streamVars, receiveVars, pumpVars, boundVars
<1>13. ASSUME NEW wanted \in Routings, Route(wanted)
      PROVE  MuteKnown' /\ MutedIsSilent'
  BY <1>13 DEF Route, TypeOK, Phases, MuteKnown, MutedIsSilent, Routings, Quiet,
       streamVars, receiveVars, pumpVars, boundVars
<1>14. ASSUME NEW sender \in Clients, Receive(sender)
      PROVE  MuteKnown' /\ MutedIsSilent'
  BY <1>14 DEF Receive, TypeOK, Phases, MuteKnown, MutedIsSilent, Routings, Quiet,
       streamVars, receiveVars, pumpVars, boundVars
<1>15. CASE StoreFrame
  BY <1>15 DEF StoreFrame, TypeOK, Phases, MuteKnown, MutedIsSilent, Routings,
       Quiet, streamVars, receiveVars, pumpVars, boundVars
<1>16. CASE NotifyFrame
  BY <1>16 DEF NotifyFrame, Notified, TypeOK, Phases, MuteKnown, MutedIsSilent,
       Routings, Quiet, streamVars, receiveVars, pumpVars, boundVars
<1>17. CASE ReceiveEnds
  BY <1>17 DEF ReceiveEnds, TypeOK, Phases, MuteKnown, MutedIsSilent, Routings,
       Quiet, streamVars, receiveVars, pumpVars, boundVars
<1>18. CASE PumpLoop
  BY <1>18 DEF PumpLoop, TypeOK, Phases, MuteKnown, MutedIsSilent, Routings,
       Quiet, streamVars, receiveVars, pumpVars, boundVars
<1>19. CASE ReadFrame
  BY <1>19 DEF ReadFrame, TypeOK, Phases, MuteKnown, MutedIsSilent, Routings,
       Quiet, streamVars, receiveVars, pumpVars, boundVars
<1>20. CASE FallAsleep
  BY <1>20 DEF FallAsleep, TypeOK, Phases, MuteKnown, MutedIsSilent, Routings,
       Quiet, streamVars, receiveVars, pumpVars, boundVars
<1>21. CASE NoFrameRead
  BY <1>21 DEF NoFrameRead, TypeOK, Phases, MuteKnown, MutedIsSilent, Routings,
       Quiet, streamVars, receiveVars, pumpVars, boundVars
<1>22. CASE LookMuted
  BY <1>22 DEF LookMuted, TypeOK, Phases, MuteKnown, MutedIsSilent, Routings,
       Quiet, streamVars, receiveVars, pumpVars, boundVars
<1>23. CASE LookBypass
  BY <1>23 DEF LookBypass, TypeOK, Phases, MuteKnown, MutedIsSilent, Routings,
       Quiet, streamVars, receiveVars, pumpVars, boundVars
<1>24. CASE Answer
  BY <1>24 DEF Answer, TypeOK, Phases, MuteKnown, MutedIsSilent, Routings, Quiet,
       streamVars, receiveVars, pumpVars, boundVars
<1>25. CASE Send
  BY <1>25 DEF Send, TypeOK, Phases, MuteKnown, MutedIsSilent, Routings, Quiet,
       streamVars, receiveVars, pumpVars, boundVars
<1>26. CASE InferenceEnds
  BY <1>26 DEF InferenceEnds, TypeOK, Phases, MuteKnown, MutedIsSilent, Routings,
       Quiet, streamVars, receiveVars, pumpVars, boundVars
<1>27. CASE UNCHANGED vars
  BY <1>27 DEF vars, TypeOK, Phases, MuteKnown, MutedIsSilent, Routings, Quiet,
       streamVars, receiveVars, pumpVars, boundVars
<1>28. QED
  BY <1>1, <1>2, <1>3, <1>4, <1>5, <1>6, <1>7, <1>8, <1>9, <1>10, <1>11, <1>12,
       <1>13, <1>14, <1>15, <1>16, <1>17, <1>18, <1>19, <1>20, <1>21, <1>22,
       <1>23, <1>24, <1>25, <1>26, <1>27 DEF Next, Request, ReceiveThread, Pump

\* The inductive invariant holds at first and is kept.
LEMMA Inductive ==
  /\ Init => IInv
  /\ IInv /\ [Next]_vars => IInv'
PROOF
<1>1. Init => TypeOK
  <2>1. SUFFICES ASSUME Init PROVE TypeOK
    OBVIOUS
  <2>2. /\ running \in BOOLEAN /\ open \in BOOLEAN /\ socket \in BOOLEAN
        /\ sound \in BOOLEAN /\ hushed \in BOOLEAN /\ inference \in BOOLEAN
    BY <2>1 DEF Init
  <2>3. ring \in Seq(Frames) /\ Len(ring) <= RingCapacity
    BY <2>1, SessionAssumption, EmptySeq DEF Init
  <2>4. QED
    BY <2>1, <2>2, <2>3, SessionAssumption, QuietRouting DEF Init, TypeOK
<1>2. Init => Phases /\ OneClient /\ OwnVoiceOnly /\ MuteKnown /\ MutedIsSilent
  BY DEF Init, Phases, OneClient, Holding, OwnVoiceOnly, MuteKnown, MutedIsSilent
<1>3. IInv /\ [Next]_vars => IInv'
  BY TypeStep, PhasesStep, OneClientStep, OwnVoiceStep, MuteStep DEF IInv
<1>4. QED
  BY <1>1, <1>2, <1>3 DEF IInv

\* Hence it holds in every behaviour.
LEMMA SessionInvariant == Spec => []IInv
PROOF
  BY Inductive, PTL DEF Spec

\* The variables keep their types (UdpStream, AudioWorker, ModeController).
THEOREM SessionTypes == Spec => []TypeOK
PROOF
<1>1. IInv => TypeOK
  BY DEF IInv
<1>2. QED
  BY <1>1, SessionInvariant, PTL

\* No answer goes to a client other than the one whose frame it answers
\* (UdpStream::receive_loop, send_to_client), over any number of sessions.
THEOREM VoiceIsTheClients == Spec => []OwnVoiceOnly
PROOF
<1>1. IInv => OwnVoiceOnly
  BY DEF IInv
<1>2. QED
  BY <1>1, SessionInvariant, PTL

\* A mute in force when a frame is read silences its answer unless it is lifted
\* (AudioWorker::process_loop, ModeController::start_realtime_locked).
THEOREM MuteSilences == Spec => []MutedIsSilent
PROOF
<1>1. IInv => MutedIsSilent
  BY DEF IInv
<1>2. QED
  BY <1>1, SessionInvariant, PTL

\* A stop that has returned has left no thread, no socket and no open stream, and
\* the socket is never closed under the receive thread (UdpStream::Close,
\* AudioWorker::stop).
THEOREM NothingOutlives == Spec => []NothingRuns
PROOF
<1>1. IInv => NothingRuns
  BY DEF IInv, Phases, NothingRuns
<1>2. QED
  BY <1>1, SessionInvariant, PTL
=============================================================================
