------------------------- MODULE PreprocessorProofs -------------------------
(***************************************************************************)
(* What holds of Preprocessor for any command lines, any lengths of        *)
(* frames and fades and any number of requests: its types, that the two    *)
(* routes do not mix, that a change of route is a fade, and that the exit  *)
(* code and the status file tell what happened.                            *)
(***************************************************************************)
EXTENDS Preprocessor, TLAPS

DirectSteps == {"fade", "direct", "writing"}

\* What the main thread's place says about the others: whom it has joined, and
\* that a period with nothing left is not written.
Phases ==
  /\ main \in {"start", "open", "threads"} => exit = 1
  /\ main \in {"start", "open"} => player = "off"
  /\ stopping => main \in {"writer", "player", "final", "exited"}
  /\ main \in {"player", "final", "exited"} => writer \in {"off", "ended"}
  /\ main \in {"final", "exited"} => player \in {"off", "ended"}
  /\ main \in DirectSteps => left >= 1

\* Only the reply the player held at the change, and only the rest of the period
\* the main thread held, is late.
LateKnown ==
  /\ late.ai <= 1
  /\ route = "ai" \/ player \in {"lock", "write"} => late.ai = 0
  /\ late.direct <= MaxChunks
  /\ route = "direct" => late.direct = 0
  /\ main \in DirectSteps => late.direct + left <= MaxChunks

\* A fade-out ends in silence, and the backend's route has none under way.
FadeKnown ==
  /\ fade.direction # 0 => fade.remaining >= 1
  /\ fade.direction = 2 => fade.gain <= fade.remaining
  /\ route = "ai" /\ options.input # "usb" => fade.gain = 0 /\ fade.direction = 0

\* Replies are of frames that were sent; while no request has come the route is
\* the first one, and on the backend's route a reply counts once it was heard.
RepliesKnown ==
  /\ net \subseteq 1 .. sent /\ last <= sent
  /\ player \in {"lock", "write", "store"} => reply \in 1 .. sent
  /\ player = "store" => reply \in heard
  /\ requests = 0 => request = route
  /\ requests = 0 /\ main \in DirectSteps => want = request
  /\ requests = 0 /\ route = "ai" /\ last > 0 => last \in heard

\* From the drain on an exit code of 0 vouches for the last frame, as long as
\* nothing else tells of a failure.
DrainKnown ==
    /\ main \in {"cleanup", "writer", "player", "final", "exited"}
    /\ exit = 0 /\ options.playing /\ ~error /\ ~statusError
    /\ ~stop /\ requests = 0 /\ route = "ai" /\ sent > 0
  => sent \in heard

\* Until the threads are joined nobody speaks of the end; then the snapshot says
\* what the exit code says.
EndKnown ==
  /\ main # "exited" => disk \notin {"stopped", "failed"}
  /\ page \notin {"stopped", "failed"}
  /\ main \notin {"final", "exited"} => snapshot \notin {"stopped", "failed"}
  /\ main = "final" => (exit = 0 <=> snapshot = "stopped")
  /\ main \in {"final", "exited"} /\ exit = 0 => ~error /\ ~statusError
  /\ main = "exited" /\ options.reported => (exit = 0 <=> disk = "stopped")

IInv ==
  /\ TypeOK /\ Phases /\ LateKnown /\ FadeKnown /\ RepliesKnown
  /\ DrainKnown /\ EndKnown

-----------------------------------------------------------------------------
\* A set of numbers to which the next one may have been added.
LEMMA Grown ==
  ASSUME NEW n \in Nat, NEW m \in Nat, n <= m, NEW S, S \subseteq 1 .. n,
         NEW T, T = S \/ (m >= 1 /\ T = S \cup {m})
  PROVE  T \subseteq 1 .. m
<1>1. S \subseteq 1 .. m
  BY SMT
<1>2. CASE T = S
  BY <1>1, <1>2
<1>3. CASE m >= 1 /\ T = S \cup {m}
  <2>1. m \in 1 .. m
    BY <1>3
  <2>2. QED
    BY <1>1, <1>3, <2>1
<1>4. QED
  BY <1>2, <1>3

\* What a frame sent does to the link.
LEMMA PackSends ==
  ASSUME IInv, Pack
  PROVE  /\ sent' \in 0 .. MaxSent /\ sent <= sent'
         /\ net' \subseteq 1 .. sent' /\ net' \subseteq 1 .. MaxSent
<1>1. /\ sent \in Nat /\ sent' \in Nat /\ MaxSent \in Nat
      /\ sent <= sent' /\ sent' <= MaxSent
      /\ net \subseteq 1 .. sent
  BY BoundAssumption DEF IInv, TypeOK, RepliesKnown, Pack
<1>2. net' = net \/ (sent' >= 1 /\ net' = net \cup {sent'})
  BY BoundAssumption DEF IInv, TypeOK, Pack
<1>3. net' \subseteq 1 .. sent'
  BY <1>1, <1>2, Grown, Zenon
<1>4. 1 .. sent' \subseteq 1 .. MaxSent
  BY <1>1
<1>5. sent' \in 0 .. MaxSent
  BY <1>1
<1>6. QED
  BY <1>1, <1>3, <1>4, <1>5

\* It holds when the program starts.
LEMMA InitKept == Init => IInv
<1> SUFFICES ASSUME Init PROVE IInv
  OBVIOUS
<1> USE ChunkAssumption, BoundAssumption
<1>1. fade \in [direction : 0 .. 2, remaining : 0 .. FadeChunks, gain : 0 .. FadeChunks]
  BY DEF Init
<1>2. TypeOK
  <2>1. /\ control \in BOOLEAN /\ stop \in BOOLEAN /\ stopping \in BOOLEAN
        /\ error \in BOOLEAN /\ statusError \in BOOLEAN
    BY Zenon DEF Init
  <2>2. QED
    BY <1>1, <2>1, SMTT(30)
    DEF Init, TypeOK, Routes, States, MainSteps, PlayerSteps, WriterSteps, NoneLate
<1>3. Phases /\ LateKnown /\ DrainKnown /\ EndKnown
  BY SMTT(30)
  DEF Init, Phases, LateKnown, DrainKnown, EndKnown, DirectSteps, NoneLate
<1>4. FadeKnown /\ RepliesKnown
  BY SMTT(30) DEF Init, FadeKnown, RepliesKnown, DirectSteps
<1>5. QED
  BY <1>2, <1>3, <1>4 DEF IInv

\* Every step keeps the types.
LEMMA TypesKept ==
  ASSUME IInv, Next
  PROVE  TypeOK'
<1> USE ChunkAssumption, BoundAssumption
    DEF IInv, TypeOK, Phases, LateKnown, FadeKnown, RepliesKnown, DirectSteps,
        Routes, States, MainSteps, PlayerSteps, WriterSteps,
        outerVars, routeVars, soundVars, linkVars, playVars, haltVars, statusVars
<1>1. CASE SetRoute
  BY <1>1, SMTT(30) DEF SetRoute
<1>2. CASE Signal
  BY <1>2, SMTT(30) DEF Signal
<1>3. CASE StartFails
  BY <1>3, SMTT(30) DEF StartFails
<1>4. CASE ReadEnds
  BY <1>4, SMTT(30) DEF ReadEnds, Halted
<1>5. CASE DirectFails
  BY <1>5, SMTT(30) DEF DirectFails
<1>6. CASE PlayFails
  <2>1. error' \in BOOLEAN
    BY <1>6, Zenon DEF PlayFails
  <2>2. QED
    BY <1>6, <2>1, SMTT(30) DEF PlayFails, Halted
<1>7. CASE OpenControl
  BY <1>7, SMTT(30) DEF OpenControl
<1>8. CASE StartPlayer
  BY <1>8, SMTT(30) DEF StartPlayer
<1>9. CASE StartWriter
  <2>1. statusError' \in BOOLEAN
    BY <1>9, Zenon DEF StartWriter
  <2>2. QED
    BY <1>9, <2>1, SMTT(30) DEF StartWriter
<1>10. CASE LoopTest
  BY <1>10, SMTT(30) DEF LoopTest, Halted
<1>11. CASE ReadPeriod
  BY <1>11, SMTT(30) DEF ReadPeriod
<1>12. CASE TakeRequest
  <2>1. \/ fade' = fade
        \/ fade' = [direction |-> 1, remaining |-> FadeChunks, gain |-> fade.gain]
        \/ fade' = [direction |-> 2, remaining |-> FadeChunks, gain |-> fade.gain]
    BY <1>12 DEF TakeRequest, BeginFade
  <2>2. fade' \in [direction : 0 .. 2, remaining : 0 .. FadeChunks, gain : 0 .. FadeChunks]
    BY <2>1
  <2>3. QED
    BY <1>12, <2>2, SMTT(30) DEF TakeRequest, NoneLate, HasOutput
<1>13. CASE ApplyFade
  BY <1>13, SMTT(30) DEF ApplyFade, Faded, FadedOut, NoneLate
<1>14. CASE BeginDirect
  BY <1>14, SMTT(30) DEF BeginDirect
<1>15. CASE EndDirect
  BY <1>15, SMTT(30) DEF EndDirect, Halted
<1>16. CASE Pack
  <2>1. sent' \in 0 .. MaxSent
    BY <1>16, PackSends
  <2>2. net' \subseteq 1 .. MaxSent
    BY <1>16, PackSends
  <2>3. staged' \in 0 .. FrameChunks
    BY <1>16 DEF Pack
  <2>4. QED
    BY <1>16, <2>1, <2>2, <2>3, SMTT(30) DEF Pack
<1>17. CASE Drain
  BY <1>17, SMTT(30) DEF Drain, Halted
<1>18. CASE Cleanup
  BY <1>18, SMTT(30) DEF Cleanup
<1>19. CASE JoinWriter
  <2>1. control' \in BOOLEAN
    BY <1>19, Zenon DEF JoinWriter
  <2>2. QED
    BY <1>19, <2>1, SMTT(30) DEF JoinWriter
<1>20. CASE JoinPlayer
  BY <1>20, SMTT(30) DEF JoinPlayer
<1>21. CASE Exit
  <2>1. statusError' \in BOOLEAN
    BY <1>21, Zenon DEF Exit
  <2>2. QED
    BY <1>21, <2>1, SMTT(30) DEF Exit
<1>22. CASE PlayerTop
  BY <1>22, SMTT(30) DEF PlayerTop, Halted
<1>23. CASE Receive
  BY <1>23, SMTT(30) DEF Receive
<1>24. CASE ReceiveFails
  <2>1. error' \in BOOLEAN
    BY <1>24, Zenon DEF ReceiveFails, Halted
  <2>2. QED
    BY <1>24, <2>1, SMTT(30) DEF ReceiveFails
<1>25. CASE TakeDevice
  BY <1>25, SMTT(30) DEF TakeDevice
<1>26. CASE PlayReply
  BY <1>26, SMTT(30) DEF PlayReply
<1>27. CASE StorePlayed
  BY <1>27, SMTT(30) DEF StorePlayed
<1>28. CASE TakeSnapshot
  BY <1>28, SMTT(30) DEF TakeSnapshot
<1>29. CASE Persist
  <2>1. statusError' \in BOOLEAN
    BY <1>29, Zenon DEF Persist
  <2>2. QED
    BY <1>29, <2>1, SMTT(30) DEF Persist
<1>30. QED
  BY <1>1, <1>2, <1>3, <1>4, <1>5, <1>6, <1>7, <1>8, <1>9, <1>10, <1>11,
     <1>12, <1>13, <1>14, <1>15, <1>16, <1>17, <1>18, <1>19, <1>20, <1>21,
     <1>22, <1>23, <1>24, <1>25, <1>26, <1>27, <1>28, <1>29
  DEF Next, MainThread, Player, Writer

\* Every step keeps what the properties rest on.
LEMMA PartsKept ==
  ASSUME IInv, Next
  PROVE  (Phases /\ LateKnown /\ FadeKnown /\ RepliesKnown /\ DrainKnown /\ EndKnown)'
<1> USE ChunkAssumption, BoundAssumption
    DEF IInv, TypeOK, Phases, LateKnown, FadeKnown, RepliesKnown, DrainKnown, EndKnown,
        DirectSteps, Routes, States,
        outerVars, routeVars, soundVars, linkVars, playVars, haltVars, statusVars
<1>1. CASE SetRoute
  BY <1>1, SMTT(30) DEF SetRoute
<1>2. CASE Signal
  BY <1>2, SMTT(30) DEF Signal
<1>3. CASE StartFails
  BY <1>3, SMTT(30) DEF StartFails
<1>4. CASE ReadEnds
  BY <1>4, SMTT(30) DEF ReadEnds, Halted
<1>5. CASE DirectFails
  BY <1>5, SMTT(30) DEF DirectFails
<1>6. CASE PlayFails
  BY <1>6, SMTT(30) DEF PlayFails, Halted
<1>7. CASE OpenControl
  BY <1>7, SMTT(30) DEF OpenControl
<1>8. CASE StartPlayer
  BY <1>8, SMTT(30) DEF StartPlayer
<1>9. CASE StartWriter
  BY <1>9, SMTT(30) DEF StartWriter
<1>10. CASE LoopTest
  BY <1>10, SMTT(30) DEF LoopTest, Halted
<1>11. CASE ReadPeriod
  BY <1>11, SMTT(30) DEF ReadPeriod
<1>12. CASE TakeRequest
  <2> fade \in [direction : 0 .. 2, remaining : 0 .. FadeChunks, gain : 0 .. FadeChunks]
    BY DEF IInv, TypeOK
  <2>1. FadeKnown'
    <3>1. CASE request = "direct" /\ route = "ai" /\ route' = "direct" /\ BeginFade(1)
      BY <1>12, <3>1 DEF TakeRequest, BeginFade
    <3>2. CASE BeginFade(2) /\ UNCHANGED <<route, late>> /\ route = "direct"
      BY <1>12, <3>2 DEF TakeRequest, BeginFade
    <3>3. CASE UNCHANGED <<route, fade, late>>
      BY <1>12, <3>3 DEF TakeRequest
    <3>4. QED
      BY <1>12, <3>1, <3>2, <3>3 DEF TakeRequest
  <2>2. LateKnown'
    BY <1>12 DEF TakeRequest, NoneLate, HasOutput
  <2>3. RepliesKnown'
    BY <1>12 DEF TakeRequest, HasOutput
  <2>4. QED
    BY <1>12, <2>1, <2>2, <2>3, SMTT(30) DEF TakeRequest, HasOutput
<1>13. CASE ApplyFade
  BY <1>13, SMTT(30) DEF ApplyFade, Faded, FadedOut, NoneLate
<1>14. CASE BeginDirect
  BY <1>14, SMTT(30) DEF BeginDirect
<1>15. CASE EndDirect
  BY <1>15, SMTT(30) DEF EndDirect, Halted
<1>16. CASE Pack
  <2>1. sent' \in 0 .. MaxSent /\ sent <= sent'
    BY <1>16, PackSends
  <2>2. net' \subseteq 1 .. sent'
    BY <1>16, PackSends
  <2>3. QED
    BY <1>16, <2>1, <2>2, SMTT(30) DEF Pack
<1>17. CASE Drain
  BY <1>17, SMTT(30) DEF Drain, Halted
<1>18. CASE Cleanup
  BY <1>18, SMTT(30) DEF Cleanup
<1>19. CASE JoinWriter
  BY <1>19, SMTT(30) DEF JoinWriter
<1>20. CASE JoinPlayer
  BY <1>20, SMTT(30) DEF JoinPlayer
<1>21. CASE Exit
  BY <1>21, SMTT(30) DEF Exit
<1>22. CASE PlayerTop
  BY <1>22, SMTT(30) DEF PlayerTop, Halted
<1>23. CASE Receive
  BY <1>23, SMTT(30) DEF Receive
<1>24. CASE ReceiveFails
  BY <1>24, SMTT(30) DEF ReceiveFails, Halted
<1>25. CASE TakeDevice
  BY <1>25, SMTT(30) DEF TakeDevice
<1>26. CASE PlayReply
  BY <1>26, SMTT(30) DEF PlayReply
<1>27. CASE StorePlayed
  BY <1>27, SMTT(30) DEF StorePlayed
<1>28. CASE TakeSnapshot
  BY <1>28, SMTT(30) DEF TakeSnapshot
<1>29. CASE Persist
  BY <1>29, SMTT(30) DEF Persist
<1>30. QED
  BY <1>1, <1>2, <1>3, <1>4, <1>5, <1>6, <1>7, <1>8, <1>9, <1>10, <1>11,
     <1>12, <1>13, <1>14, <1>15, <1>16, <1>17, <1>18, <1>19, <1>20, <1>21,
     <1>22, <1>23, <1>24, <1>25, <1>26, <1>27, <1>28, <1>29
  DEF Next, MainThread, Player, Writer

\* The invariant holds in every state.
THEOREM PreInvariance == Spec => []IInv
<1>1. IInv /\ [Next]_vars => IInv'
  <2> SUFFICES ASSUME IInv, [Next]_vars PROVE IInv'
    OBVIOUS
  <2>1. CASE Next
    BY <2>1, TypesKept, PartsKept DEF IInv
  <2>2. CASE UNCHANGED vars
    BY <2>2, SMTT(30)
    DEF IInv, TypeOK, Phases, LateKnown, FadeKnown, RepliesKnown, DrainKnown, EndKnown,
        DirectSteps, vars,
        outerVars, routeVars, soundVars, linkVars, playVars, haltVars, statusVars
  <2>3. QED
    BY <2>1, <2>2
<1>2. QED
  BY <1>1, InitKept, PTL DEF Spec

\* Every thread is where its code can be, and write_mutex has one holder, who writes.
THEOREM PreTypes == Spec => []TypeOK
<1>1. IInv => TypeOK
  BY DEF IInv
<1>2. QED
  BY <1>1, PreInvariance, PTL

\* After a change of route at most one reply and the rest of one period are late.
THEOREM RoutesApart == Spec => []RoutesNotMixed
<1>1. IInv => RoutesNotMixed
  BY DEF IInv, LateKnown, RoutesNotMixed
<1>2. QED
  BY <1>1, PreInvariance, PTL

\* Exit code, status file and what was heard agree when the program ends.
THEOREM EndOnRecord == Spec => []ExitOnRecord
<1>1. IInv => ExitOnRecord
  <2> SUFFICES ASSUME IInv PROVE ExitOnRecord
    OBVIOUS
  <2>1. ReplayDrained
    BY DEF IInv, DrainKnown, EndKnown, ReplayDrained
  <2>2. StatusMatchesExit
    BY DEF IInv, EndKnown, StatusMatchesExit
  <2>3. QED
    BY <2>1, <2>2 DEF ExitOnRecord
<1>2. QED
  BY <1>1, PreInvariance, PTL

\* Only two steps change the route, and both leave the gain at 0: on the way to
\* direct sound the backend's route had none, on the way back the fade-out has just
\* ended.
LEMMA SwitchAtZero ==
  ASSUME IInv, Next, route' # route, options.input # "usb"
  PROVE  fade'.gain = 0
<1> USE DEF IInv, TypeOK, FadeKnown, Routes
<1>1. TakeRequest \/ ApplyFade
  BY SMTT(30)
  DEF Next, MainThread, Player, Writer, routeVars, soundVars,
      SetRoute, Signal, StartFails, ReadEnds, DirectFails, PlayFails,
      OpenControl, StartPlayer, StartWriter, LoopTest, ReadPeriod,
      BeginDirect, EndDirect, Pack, Drain, Cleanup, JoinWriter, JoinPlayer,
      Exit, PlayerTop, Receive, ReceiveFails, TakeDevice, PlayReply,
      StorePlayed, TakeSnapshot, Persist
<1>2. CASE TakeRequest
  BY <1>2 DEF TakeRequest, BeginFade
<1>3. CASE ApplyFade
  BY <1>3 DEF ApplyFade, Faded, FadedOut
<1>4. QED
  BY <1>1, <1>2, <1>3

\* The route of a playback device changes in silence only.
THEOREM SwitchesAreFaded == Spec => SwitchIsFaded
<1>1. IInv /\ [Next]_vars =>
        [route' # route /\ options.input # "usb" => fade'.gain = 0]_vars
  <2> SUFFICES ASSUME IInv, Next, route' # route, options.input # "usb"
               PROVE  fade'.gain = 0
    BY Zenon
  <2>1. QED
    BY SwitchAtZero
<1>2. QED
  BY <1>1, PreInvariance, PTL DEF Spec, SwitchIsFaded

\* The two routes are heard one after the other and joined in silence.
THEOREM CleanChanges == Spec => RoutesChangeCleanly
BY RoutesApart, SwitchesAreFaded, PTL DEF RoutesChangeCleanly
=============================================================================
