---------------------------- MODULE StreamingRvc ----------------------------
(***************************************************************************)
(* StreamingRvc (rvc-backend/src/rvc/streaming_pipeline.cpp): the audio    *)
(* pump feeds contract frames and takes converted frames, an inference     *)
(* thread turns windows of input into blocks of output.  They share the    *)
(* input ring, its counters and the output ring under three mutexes, and a *)
(* generation counter that a discontinuity of the input increments.        *)
(*                                                                         *)
(* The unit of length is the 20 ms contract frame.  A frame is known by    *)
(* the stream it belongs to, the stretch of input between two              *)
(* discontinuities, and its position in it.                                *)
(*                                                                         *)
(* Definitions named Bug... are plausible bugs of the definition below     *)
(* them.  No specification uses them: the properties are tested on them.   *)
(***************************************************************************)
EXTENDS Naturals, Sequences, FiniteSets

CONSTANTS
  Hop,           \* hop_in_, and with it the frames emitted for each block
  Window,        \* Config::window_samples
  Lookahead,     \* right_context_samples and guard_samples
  RingCapacity,  \* frames the input ring holds; max_history_samples in "full"
  OutCapacity,   \* kOutRingCapacity
  Reserve,       \* startup_buffer_blocks * emit_out_
  Delay,         \* startup_delay_out
  Profiles,      \* the profiles AudioWorker::start may choose
  MaxStreams,    \* bound: streams seen in a behaviour
  MaxFrames      \* bound: frames of one stream

ASSUME LengthAssumption ==
  /\ Hop \in Nat \ {0} /\ Window \in Nat /\ Hop <= Window
  /\ Lookahead \in Nat /\ Reserve \in Nat \ {0} /\ Delay \in Nat
  /\ RingCapacity \in Nat /\ Window + Lookahead <= RingCapacity
  /\ OutCapacity \in Nat /\ Reserve <= OutCapacity
ASSUME ProfileAssumption == Profiles \subseteq {"sliding", "upstream", "full"}
ASSUME BoundAssumption == MaxStreams \in Nat \ {0} /\ MaxFrames \in Nat

PumpSteps == {"push", "append", "count", "pop"}
InferenceSteps == {"loop", "recheck", "take", "infer", "quiet", "check", "emit"}

VARIABLES
  profile,     \* cfg_: sliding window, upstream realtime or full history
  stream,      \* the stream the pump is feeding
  sent,        \* frames of it pushed so far
  pump,        \* where the pump thread is
  ring,        \* the input ring, oldest frame first
  head,        \* ring_head_, in "full" only: read_last_window does not mind it
  pushed,      \* pushed_total_
  owned,       \* owned_
  nextStart,   \* next_window_start_
  based,       \* have_window_base_
  voiced,      \* window_voiced_
  gen,         \* reset_gen_
  out,         \* the output ring: of each frame, the stream and whether it is
               \* converted speech or silence
  started,     \* output_started_
  delayLeft,   \* startup_delay_remaining_
  inference,   \* where the inference thread is
  seen,        \* seen_reset
  window,      \* the window in conversion: its stream and last frame
  windowGen,   \* window_gen
  late,        \* stale_tail: the window follows a backlog of over two hops
  tail         \* the crossfade tail: stream and last frame of its block

feedVars   == <<profile, stream, sent, pump>>
countVars  == <<pushed, owned, nextStart, based, voiced, gen>>
inVars     == <<ring, head>>
outVars    == <<out, started, delayLeft>>
threadVars == <<inference, seen, window, windowGen, late, tail>>
vars == <<feedVars, countVars, inVars, outVars, threadVars>>

NoBlock == [stream |-> 0, last |-> 0]

Init ==
  /\ profile \in Profiles
  /\ stream = 1 /\ sent = 0 /\ pump = "push"
  /\ ring = <<>> /\ head = 0
  /\ pushed = 0 /\ owned = 0 /\ nextStart = 0 /\ based = FALSE /\ voiced = FALSE
  /\ gen = 0
  /\ out = <<>> /\ started = FALSE /\ delayLeft = Delay
  /\ inference = "loop" /\ seen = 0
  /\ window = NoBlock /\ windowGen = 0 /\ late = FALSE /\ tail = NoBlock

\* The newest n elements: what a full ring keeps.
Newest(s, n) == IF Len(s) <= n THEN s ELSE SubSeq(s, Len(s) - n + 1, Len(s))

-----------------------------------------------------------------------------
(***************************************************************************)
(* The pump thread: push and pop_output                                    *)
(***************************************************************************)

ClearOutput == out' = <<>> /\ started' = FALSE /\ delayLeft' = Delay

\* The output ring is left alone.
BugDiscontinuity ==
  /\ pump = "push" /\ sent > 0 /\ stream < MaxStreams
  /\ stream' = stream + 1 /\ sent' = 0
  /\ ring' = <<>> /\ head' = 0
  /\ pushed' = 0 /\ nextStart' = 0 /\ based' = FALSE /\ voiced' = FALSE
  /\ gen' = gen + 1
  /\ pump' = "append"
  /\ UNCHANGED <<profile, owned, outVars, threadVars>>

\* The input ring is left alone.
BugDiscontinuityKeepsRing ==
  /\ pump = "push" /\ sent > 0 /\ stream < MaxStreams
  /\ stream' = stream + 1 /\ sent' = 0
  /\ pushed' = 0 /\ nextStart' = 0 /\ based' = FALSE /\ voiced' = FALSE
  /\ gen' = gen + 1
  /\ ClearOutput
  /\ pump' = "append"
  /\ UNCHANGED <<profile, owned, inVars, threadVars>>

\* The scheduling state is left alone.
BugDiscontinuityKeepsBase ==
  /\ pump = "push" /\ sent > 0 /\ stream < MaxStreams
  /\ stream' = stream + 1 /\ sent' = 0
  /\ ring' = <<>> /\ head' = 0
  /\ pushed' = 0 /\ nextStart' = 0 /\ voiced' = FALSE
  /\ gen' = gen + 1
  /\ ClearOutput
  /\ pump' = "append"
  /\ UNCHANGED <<profile, owned, based, threadVars>>

\* The next frame's index or timestamp does not follow the last one's (a loss,
\* a new sender session, the end of a mute or bypass): handle_discontinuity,
\* under all three mutexes.
Discontinuity ==
  /\ pump = "push" /\ sent > 0 /\ stream < MaxStreams
  /\ stream' = stream + 1 /\ sent' = 0
  /\ ring' = <<>> /\ head' = 0
  /\ pushed' = 0 /\ nextStart' = 0 /\ based' = FALSE /\ voiced' = FALSE
  /\ gen' = gen + 1
  /\ ClearOutput
  /\ pump' = "append"
  /\ UNCHANGED <<profile, owned, threadVars>>

\* A full ring grows.
BugAppendFrame ==
  /\ pump \in {"push", "append"} /\ sent < MaxFrames
  /\ sent' = sent + 1
  /\ ring' = Append(ring, [stream |-> stream, n |-> sent + 1])
  /\ head' = IF profile = "full" /\ Len(ring) = RingCapacity
             THEN (head + 1) % RingCapacity ELSE head
  /\ pump' = "count"
  /\ UNCHANGED <<profile, stream, countVars, outVars, threadVars>>

\* The frame goes into the ring, under the ring's mutex alone; a full ring
\* loses its oldest frame.
AppendFrame ==
  /\ pump \in {"push", "append"} /\ sent < MaxFrames
  /\ sent' = sent + 1
  /\ ring' = Newest(Append(ring, [stream |-> stream, n |-> sent + 1]), RingCapacity)
  /\ head' = IF profile = "full" /\ Len(ring) = RingCapacity
             THEN (head + 1) % RingCapacity ELSE head
  /\ pump' = "count"
  /\ UNCHANGED <<profile, stream, countVars, outVars, threadVars>>

\* Then it is counted, under the scheduling mutex.
CountFrame ==
  /\ pump = "count"
  /\ pushed' = pushed + 1
  /\ \E vad \in BOOLEAN : voiced' = (voiced \/ vad)
  /\ pump' = "pop"
  /\ UNCHANGED <<profile, stream, sent, inVars, owned, nextStart, based, gen,
                 outVars, threadVars>>

\* The pump takes a converted frame; before playback has started it waits for
\* the startup delay and then for the reserve.
PopOutput ==
  /\ pump = "pop"
  /\ pump' = "push"
  /\ \/ /\ ~started /\ delayLeft > 0
        /\ delayLeft' = delayLeft - 1
        /\ UNCHANGED <<out, started>>
     \/ /\ ~started /\ delayLeft = 0 /\ Len(out) < Reserve
        /\ UNCHANGED outVars
     \/ /\ started \/ (delayLeft = 0 /\ Len(out) >= Reserve)
        /\ started' = TRUE
        /\ out' = IF out = <<>> THEN out ELSE Tail(out)
        /\ UNCHANGED delayLeft
  /\ UNCHANGED <<profile, stream, sent, countVars, inVars, threadVars>>

-----------------------------------------------------------------------------
(***************************************************************************)
(* The inference thread: inference_loop and try_process_one                *)
(***************************************************************************)

Required == nextStart + Window + Lookahead

\* A window can be taken.
Ready ==
  \/ profile = "full" /\ pushed >= Required
  \/ profile # "full" /\ based /\ pushed >= owned + Hop
  \/ profile = "upstream" /\ ~based /\ pushed >= Hop
  \/ profile = "sliding" /\ ~based /\ pushed >= Window

\* The loop's turn under the scheduling mutex: a new generation invalidates the
\* tail, a ready window is taken, otherwise the thread sleeps for up to 50 ms.
LoopSeesReset ==
  /\ inference = "loop" /\ gen # seen
  /\ seen' = gen
  /\ tail' = NoBlock
  /\ UNCHANGED <<feedVars, countVars, inVars, outVars, inference, window, windowGen, late>>

LoopReady ==
  /\ inference = "loop" /\ gen = seen /\ Ready
  /\ inference' = "recheck"
  /\ UNCHANGED <<feedVars, countVars, inVars, outVars, seen, window, windowGen, late, tail>>

\* The mutex was released: the generation is compared once more.
Recheck ==
  /\ inference = "recheck"
  /\ seen' = gen
  /\ inference' = IF gen = seen THEN "take" ELSE "loop"
  /\ UNCHANGED <<feedVars, countVars, inVars, outVars, window, windowGen, late, tail>>

\* reset_full_history_locked: the history is full or has lost its beginning,
\* the stream is anchored anew at the next frame.
Reanchor ==
  /\ ring' = <<>> /\ head' = 0
  /\ pushed' = 0 /\ owned' = 0 /\ nextStart' = 0 /\ based' = FALSE /\ voiced' = FALSE
  /\ tail' = NoBlock
  /\ ClearOutput
  /\ gen' = gen + 1
  /\ inference' = "loop"
  /\ UNCHANGED <<feedVars, seen, window, windowGen, late>>

\* The place of ring_head_ is not looked at.
BugPrefixPresent == Len(ring) >= Required

\* read_prefix finds ring_head_ at the beginning of the ring, and enough behind it.
PrefixPresent == head = 0 /\ Len(ring) >= Required

\* The scheduling state changed since it was found ready.
TakeNothing ==
  /\ inference = "take" /\ ~Ready
  /\ ~(profile = "full" /\ Required > RingCapacity)
  /\ inference' = "loop"
  /\ UNCHANGED <<feedVars, countVars, inVars, outVars, seen, window, windowGen, late, tail>>

\* A lost prefix is waited for.
BugTakeReanchor ==
  /\ inference = "take" /\ profile = "full"
  /\ Required > RingCapacity
  /\ Reanchor

\* A history that is full or has lost its beginning is given up.
TakeReanchor ==
  /\ inference = "take" /\ profile = "full"
  /\ \/ Required > RingCapacity
     \/ pushed >= Required /\ ~PrefixPresent
  /\ Reanchor

\* The next window starts after this one, with no overlap.
BugTakeWindow ==
  /\ inference = "take" /\ Ready
  /\ profile = "full" => Required <= RingCapacity /\ PrefixPresent
  /\ windowGen' = gen
  /\ late' = (profile # "full" /\ based /\ pushed > owned + 2 * Hop)
  /\ LET end == IF profile = "full" THEN nextStart + Window ELSE Len(ring) IN
       window' = [stream |-> ring[end].stream, last |-> ring[end].n]
  /\ nextStart' = IF profile = "full" THEN nextStart + Window ELSE nextStart
  /\ ring' = IF profile = "full" THEN ring ELSE Newest(ring, Window)
  /\ owned' = pushed
  /\ based' = TRUE
  /\ voiced' = FALSE
  /\ inference' = IF voiced THEN "infer" ELSE "quiet"
  /\ UNCHANGED <<feedVars, head, pushed, gen, outVars, seen, tail>>

\* The backlog is not compared with two hops.
BugTakeWindowNeverLate ==
  /\ inference = "take" /\ Ready
  /\ profile = "full" => Required <= RingCapacity /\ PrefixPresent
  /\ windowGen' = gen
  /\ late' = FALSE
  /\ LET end == IF profile = "full" THEN nextStart + Window ELSE Len(ring) IN
       window' = [stream |-> ring[end].stream, last |-> ring[end].n]
  /\ nextStart' = IF profile = "full" THEN nextStart + Hop ELSE nextStart
  /\ ring' = IF profile = "full" THEN ring ELSE Newest(ring, Window)
  /\ owned' = pushed
  /\ based' = TRUE
  /\ voiced' = FALSE
  /\ inference' = IF voiced THEN "infer" ELSE "quiet"
  /\ UNCHANGED <<feedVars, head, pushed, gen, outVars, seen, tail>>

\* A window is taken under the scheduling mutex: the latest one, or in "full"
\* the whole history up to the next window's lookahead.
TakeWindow ==
  /\ inference = "take" /\ Ready
  /\ profile = "full" => Required <= RingCapacity /\ PrefixPresent
  /\ windowGen' = gen
  /\ late' = (profile # "full" /\ based /\ pushed > owned + 2 * Hop)
  /\ LET end == IF profile = "full" THEN nextStart + Window ELSE Len(ring) IN
       window' = [stream |-> ring[end].stream, last |-> ring[end].n]
  /\ nextStart' = IF profile = "full" THEN nextStart + Hop ELSE nextStart
  /\ ring' = IF profile = "full" THEN ring ELSE Newest(ring, Window)
  /\ owned' = pushed
  /\ based' = TRUE
  /\ voiced' = FALSE
  /\ inference' = IF voiced THEN "infer" ELSE "quiet"
  /\ UNCHANGED <<feedVars, head, pushed, gen, outVars, seen, tail>>

\* The block is put in front of what is waiting.
BugEmit(speech) ==
  out' = Newest([i \in 1 .. Hop |-> [stream |-> window.stream, speech |-> speech]] \o out,
                OutCapacity)

\* What push_output does with a block of one kind of frames: a full ring loses
\* its oldest frames.
Emit(speech) ==
  out' = Newest(out \o [i \in 1 .. Hop |-> [stream |-> window.stream, speech |-> speech]],
                OutCapacity)

\* No speech in the window, or the conversion failed: a block of silence.
Quiet ==
  /\ inference = "quiet"
  /\ tail' = NoBlock
  /\ Emit(FALSE)
  /\ inference' = "loop"
  /\ UNCHANGED <<feedVars, countVars, inVars, started, delayLeft, seen, window,
                 windowGen, late>>

\* The conversion, without any mutex.
Infer ==
  /\ inference = "infer"
  /\ inference' \in {"check", "quiet"}
  /\ UNCHANGED <<feedVars, countVars, inVars, outVars, seen, window, windowGen, late, tail>>

\* A block converted from before a reset is dropped.
Check ==
  /\ inference = "check"
  /\ inference' = IF gen = windowGen THEN "emit" ELSE "loop"
  /\ UNCHANGED <<feedVars, countVars, inVars, outVars, seen, window, windowGen, late, tail>>

\* The block is joined to the previous one's tail and emitted.
EmitBlock ==
  /\ inference = "emit"
  /\ tail' = window
  /\ Emit(TRUE)
  /\ inference' = "loop"
  /\ UNCHANGED <<feedVars, countVars, inVars, started, delayLeft, seen, window,
                 windowGen, late>>

Pump == Discontinuity \/ AppendFrame \/ CountFrame \/ PopOutput

Inference ==
  \/ LoopSeesReset \/ LoopReady \/ Recheck
  \/ TakeNothing \/ TakeReanchor \/ TakeWindow
  \/ Quiet \/ Infer \/ Check \/ EmitBlock

Next == Pump \/ Inference

Spec == Init /\ [][Next]_vars

\* The inference thread is scheduled.  The pump owes nothing: frames may stop.
FairSpec == Spec /\ WF_vars(Inference)

-----------------------------------------------------------------------------
(***************************************************************************)
(* Properties                                                              *)
(***************************************************************************)

Blocks == [stream : 0 .. MaxStreams, last : 0 .. MaxFrames]

\* Type invariant of the two threads' state.
TypeOK ==
  /\ profile \in Profiles
  /\ stream \in 1 .. MaxStreams /\ sent \in 0 .. MaxFrames
  /\ pump \in PumpSteps /\ inference \in InferenceSteps
  /\ ring \in Seq([stream : 1 .. MaxStreams, n : 1 .. MaxFrames])
  /\ Len(ring) <= RingCapacity
  /\ head \in Nat /\ pushed \in Nat /\ owned \in Nat /\ nextStart \in Nat
  /\ gen \in Nat /\ seen \in Nat /\ windowGen \in Nat
  /\ based \in BOOLEAN /\ voiced \in BOOLEAN /\ late \in BOOLEAN /\ started \in BOOLEAN
  /\ out \in Seq([stream : 1 .. MaxStreams, speech : BOOLEAN])
  /\ Len(out) <= OutCapacity
  /\ delayLeft \in 0 .. Delay
  /\ window \in Blocks /\ tail \in Blocks

\* However pushes, window reads and re-anchors interleave, the ring holds the
\* latest frames of the stream being fed, in order and without a hole: no
\* window spans a discontinuity.
RingIsLatestInput ==
  \A i \in 1 .. Len(ring) : ring[i] = [stream |-> stream, n |-> sent - Len(ring) + i]

\* pushed_total_ - owned_ never wraps around.
BacklogNotNegative == based => owned <= pushed

\* What the inference thread reads is the stream's latest input, and it knows how
\* much of it is new.
InputKept == RingIsLatestInput /\ BacklogNotNegative

\* After a reset at most the one block that was in conversion is still heard
\* of an older stream.
OldOutputBounded ==
  Cardinality({i \in 1 .. Len(out) : out[i].stream # stream}) <= Hop

\* Frames of an older stream are never heard after those of a newer one.
OutputInOrder ==
  \A i, k \in 1 .. Len(out) : i <= k => out[i].stream <= out[k].stream

\* Old sound ends with the block in conversion, and new sound follows it.
OldSoundEnds == OldOutputBounded /\ OutputInOrder

\* A block about to be joined in the quality profile to one of its own stream.
QualityJoin ==
  inference = "emit" /\ profile = "full" /\ tail # NoBlock /\ tail.stream = window.stream

\* The frames left out between the tail and the window.
Skipped == window.last - tail.last - Hop

\* Across silence, failures, re-anchoring and backlog, the quality profile joins blocks
\* that follow each other in the input, or blocks whole input rings apart: a history
\* that has been overwritten by exactly a ring more is not "re-anchored" as a "wrapped"
\* one (try_process_one), because read_prefix finds ring_head_ at 0 again.  The stream
\* is then longer than what was left out by at least a ring.
QualityJoinsInStep ==
  QualityJoin =>
    /\ \E k \in 0 .. MaxFrames : Skipped = k * RingCapacity
    /\ Skipped > 0 /\ window.stream = stream => Skipped + RingCapacity <= sent

\* Slower than its input, the other profiles join a block to the tail of one that
\* ended up to two hops before it, or give the tail up (stale_tail); the frame that
\* push has stored and not yet counted may come on top.
RealtimeJoinsBounded ==
  (inference = "emit" /\ profile # "full" /\ ~late
     /\ tail # NoBlock /\ tail.stream = window.stream)
    => window.last - tail.last \in Hop - 1 .. 2 * Hop + 1

\* Blocks are crossfaded only with what they may follow.
JoinsAreClose == QualityJoinsInStep /\ RealtimeJoinsBounded

\* A window that is ready is taken or given up for a re-anchored stream: a full
\* history or a lost prefix does not stall the conversion for ever.
ReadyWindowTaken == Ready ~> ~Ready

\* "tail_/tail_valid_ belong to the inference thread: it invalidates them itself
\* once it has detected the change of generation" (handle_discontinuity): a
\* thread that has seen the latest generation holds no tail of an older stream.
FreshTail == seen = gen => tail = NoBlock \/ tail.stream = stream
=============================================================================
