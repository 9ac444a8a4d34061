-------------------------- MODULE StreamingRvcProofs --------------------------
(***************************************************************************)
(* What holds of StreamingRvc for any lengths of windows, rings and blocks *)
(* and any number of streams: the input ring is the latest input without a *)
(* hole, the backlog never wraps, the output is in order, at most one      *)
(* block of an older stream survives a reset, and a block is crossfaded    *)
(* with the tail of one that it may follow.                                *)
(***************************************************************************)
EXTENDS StreamingRvc, SequenceTheorems, FiniteSetTheorems, TLAPS

RingFrames == [stream : 1 .. MaxStreams, n : 1 .. MaxFrames]
OutFrames == [stream : 1 .. MaxStreams, speech : BOOLEAN]

\* The inference thread holds a window.
Busy == inference \in {"quiet", "infer", "check", "emit"}

\* Outside the quality profile the ring is empty only when nothing is counted:
\* a window that is ready has a last frame.
RingHasPushed ==
  profile # "full" /\ ring = <<>> => pushed = 0 /\ pump # "count"

\* Windows are of streams that were fed, and never older than what is to be heard.
WindowKnown ==
  /\ window.stream <= stream
  /\ Busy => window.stream \in 1 .. MaxStreams
  /\ \A i \in 1 .. Len(out) : out[i].stream <= window.stream

\* What is left of an older stream is at the front, and no more than a block; while
\* a block of an older stream is still to come nothing else is waiting, because a
\* reset empties the output ring and only the inference thread fills it.
OldFirst ==
  /\ \A i \in 1 .. Len(out) : out[i].stream # stream => i <= Hop
  /\ Busy /\ window.stream # stream => out = <<>>

IInv ==
  /\ TypeOK /\ RingIsLatestInput /\ RingHasPushed /\ BacklogNotNegative
  /\ WindowKnown /\ OutputInOrder /\ OldFirst

-----------------------------------------------------------------------------
\* Newest keeps the last elements, at most n of them.
LEMMA NewestKeeps ==
  ASSUME NEW S, NEW s \in Seq(S), NEW n \in Nat
  PROVE  /\ Newest(s, n) \in Seq(S)
         /\ Len(Newest(s, n)) = IF Len(s) <= n THEN Len(s) ELSE n
         /\ \A i \in 1 .. Len(Newest(s, n)) :
              /\ Len(s) - Len(Newest(s, n)) + i \in 1 .. Len(s)
              /\ Newest(s, n)[i] = s[Len(s) - Len(Newest(s, n)) + i]
PROOF
<1>1. Len(s) \in Nat
  BY LenProperties
<1>2. CASE Len(s) <= n
  BY <1>1, <1>2 DEF Newest
<1>3. CASE ~(Len(s) <= n)
  <2>1. Newest(s, n) = SubSeq(s, Len(s) - n + 1, Len(s))
    BY <1>3 DEF Newest
  <2>2. Len(s) - n + 1 \in Int /\ Len(s) \in Int /\ Len(s) - n + 1 >= 1
    BY <1>1, <1>3
  <2>3. \A i \in Len(s) - n + 1 .. Len(s) : s[i] \in S
    BY <1>1, <2>2, ElementOfSeq
  <2>4. /\ SubSeq(s, Len(s) - n + 1, Len(s)) \in Seq(S)
        /\ Len(SubSeq(s, Len(s) - n + 1, Len(s))) =
             IF Len(s) - n + 1 <= Len(s) THEN Len(s) - (Len(s) - n + 1) + 1 ELSE 0
        /\ \A i \in 1 .. Len(s) - (Len(s) - n + 1) + 1 :
             SubSeq(s, Len(s) - n + 1, Len(s))[i] = s[Len(s) - n + 1 + i - 1]
    BY <2>2, <2>3, SubSeqProperties
  <2>5. Len(Newest(s, n)) = n
    BY <1>1, <1>3, <2>1, <2>4
  <2>6. \A i \in 1 .. n : Newest(s, n)[i] = s[Len(s) - n + i]
    <3>1. ASSUME NEW i \in 1 .. n
          PROVE  Newest(s, n)[i] = s[Len(s) - n + i]
      <4>1. i \in 1 .. Len(s) - (Len(s) - n + 1) + 1
        BY <1>1, <3>1
      <4>2. Len(s) - n + 1 + i - 1 = Len(s) - n + i
        BY <1>1, <3>1
      <4>3. QED
        BY <2>1, <2>4, <4>1, <4>2
    <3>2. QED
      BY <3>1
  <2>7. \A i \in 1 .. n : Len(s) - n + i \in 1 .. Len(s)
    BY <1>1, <1>3
  <2>8. QED
    BY <1>3, <2>1, <2>4, <2>5, <2>6, <2>7
<1>4. QED
  BY <1>2, <1>3

\* A block is a sequence of Hop equal frames.
LEMMA BlockIsSequence ==
  ASSUME NEW S, NEW e \in S, NEW n \in Nat
  PROVE  /\ [i \in 1 .. n |-> e] \in Seq(S)
         /\ Len([i \in 1 .. n |-> e]) = n
PROOF
<1>1. [i \in 1 .. n |-> e] \in [1 .. n -> S]
  OBVIOUS
<1>2. [i \in 1 .. n |-> e] \in Seq(S)
  BY <1>1, SeqDef
<1>3. QED
  BY <1>2, LenProperties

\* push_output drops some of the oldest frames and adds a block at the end.
LEMMA EmitAppends ==
  ASSUME TypeOK, window.stream \in 1 .. MaxStreams, NEW speech \in BOOLEAN, Emit(speech)
  PROVE  /\ out' \in Seq(OutFrames) /\ Len(out') <= OutCapacity
         /\ \E d \in Nat :
              /\ Len(out') + d = Len(out) + Hop
              /\ \A i \in 1 .. Len(out') :
                   IF i + d <= Len(out) THEN out'[i] = out[i + d]
                   ELSE out'[i] = [stream |-> window.stream, speech |-> speech]
PROOF
<1> DEFINE e == [stream |-> window.stream, speech |-> speech]
           block == [i \in 1 .. Hop |-> e]
           all == out \o block
<1>1. e \in OutFrames /\ out \in Seq(OutFrames) /\ Hop \in Nat /\ OutCapacity \in Nat
  BY LengthAssumption DEF TypeOK, OutFrames
<1>2. /\ block \in Seq(OutFrames) /\ Len(block) = Hop
      /\ \A i \in 1 .. Hop : block[i] = e
  BY <1>1, BlockIsSequence
<1>3. /\ all \in Seq(OutFrames) /\ Len(all) = Len(out) + Hop
      /\ \A i \in 1 .. Len(out) + Hop :
           all[i] = IF i <= Len(out) THEN out[i] ELSE block[i - Len(out)]
  BY <1>1, <1>2, ConcatProperties
<1>4. out' = Newest(all, OutCapacity)
  BY DEF Emit
<1> HIDE DEF all, block
<1>5. /\ Newest(all, OutCapacity) \in Seq(OutFrames)
      /\ Len(Newest(all, OutCapacity)) = IF Len(all) <= OutCapacity THEN Len(all)
                                         ELSE OutCapacity
      /\ \A i \in 1 .. Len(Newest(all, OutCapacity)) :
           /\ Len(all) - Len(Newest(all, OutCapacity)) + i \in 1 .. Len(all)
           /\ Newest(all, OutCapacity)[i] = all[Len(all) - Len(Newest(all, OutCapacity)) + i]
  BY <1>1, <1>3, NewestKeeps
<1> DEFINE d == Len(all) - Len(out')
<1>6. Len(out) \in Nat /\ Len(all) \in Nat /\ Len(out') \in Nat /\ d \in Nat
  BY <1>1, <1>3, <1>4, <1>5, LenProperties
<1>7. ASSUME NEW i \in 1 .. Len(out')
      PROVE  IF i + d <= Len(out) THEN out'[i] = out[i + d] ELSE out'[i] = e
  <2>1. i + d \in 1 .. Len(out) + Hop /\ out'[i] = all[i + d]
    BY <1>3, <1>4, <1>5, <1>6, <1>7
  <2>2. CASE i + d <= Len(out)
    BY <1>3, <2>1, <2>2
  <2>3. CASE ~(i + d <= Len(out))
    <3>1. i + d - Len(out) \in 1 .. Hop
      BY <1>1, <1>6, <2>1, <2>3
    <3>2. QED
      BY <1>2, <1>3, <2>1, <2>3, <3>1
  <2>4. QED
    BY <2>2, <2>3
<1>8. Len(out') + d = Len(out) + Hop
  BY <1>1, <1>3, <1>6
<1>9. out' \in Seq(OutFrames) /\ Len(out') <= OutCapacity
  BY <1>1, <1>3, <1>4, <1>5, <1>6
<1> HIDE DEF d
<1>10. QED
  BY <1>6, <1>7, <1>8, <1>9

\* No block is a block.
LEMMA NoBlockIsBlock == NoBlock \in Blocks
PROOF
  BY BoundAssumption DEF NoBlock, Blocks

\* A window that is taken ends at a frame of the ring.
LEMMA WindowHasEnd ==
  ASSUME TypeOK, RingHasPushed, TakeWindow
  PROVE  (IF profile = "full" THEN nextStart + Window ELSE Len(ring)) \in 1 .. Len(ring)
PROOF
<1>1. Len(ring) \in Nat
  BY LenProperties DEF TypeOK
<1>2. CASE profile = "full"
  BY <1>1, <1>2, LengthAssumption DEF TakeWindow, PrefixPresent, Required, TypeOK
<1>3. CASE profile # "full"
  <2>1. pushed > 0
    BY <1>3, LengthAssumption DEF TakeWindow, Ready, TypeOK
  <2>2. ring # <<>>
    BY <1>3, <2>1 DEF RingHasPushed, TypeOK
  <2>3. QED
    BY <1>1, <1>3, <2>2, EmptySeq DEF TypeOK
<1>4. QED
  BY <1>2, <1>3

\* Types are kept by every step.
LEMMA TypeStep ==
  ASSUME TypeOK, RingHasPushed, WindowKnown, [Next]_vars
  PROVE  TypeOK'
PROOF
<1>1. CASE Discontinuity
  <2>1. /\ based' \in BOOLEAN /\ voiced' \in BOOLEAN /\ late' \in BOOLEAN
        /\ started' \in BOOLEAN
    BY <1>1 DEF Discontinuity, ClearOutput, TypeOK, feedVars, countVars, inVars,
         outVars, threadVars
  <2>2. QED
    BY <1>1, <2>1, LengthAssumption, BoundAssumption, NoBlockIsBlock, EmptySeq DEF
         Discontinuity, ClearOutput, PumpSteps, InferenceSteps, TypeOK, feedVars,
         countVars, inVars, outVars, threadVars
<1>2. CASE AppendFrame
  <2>1. ring \in Seq(RingFrames) /\ [stream |-> stream, n |-> sent + 1] \in RingFrames
    BY <1>2, BoundAssumption DEF AppendFrame, TypeOK, RingFrames
  <2>2. Append(ring, [stream |-> stream, n |-> sent + 1]) \in Seq(RingFrames)
    BY <2>1, AppendProperties
  <2>3. ring' \in Seq(RingFrames) /\ Len(ring') <= RingCapacity
    <3> DEFINE longer == Append(ring, [stream |-> stream, n |-> sent + 1])
    <3>1. longer \in Seq(RingFrames) /\ RingCapacity \in Nat /\ Len(longer) \in Nat
      BY <2>2, LengthAssumption, LenProperties
    <3>2. ring' = Newest(longer, RingCapacity)
      BY <1>2 DEF AppendFrame
    <3> HIDE DEF longer
    <3>3. /\ Newest(longer, RingCapacity) \in Seq(RingFrames)
          /\ Len(Newest(longer, RingCapacity)) =
               IF Len(longer) <= RingCapacity THEN Len(longer) ELSE RingCapacity
      BY <3>1, NewestKeeps
    <3>4. QED
      BY <3>1, <3>2, <3>3
  <2>4. head' \in Nat
    <3>1. RingCapacity \in Nat /\ RingCapacity > 0
      BY LengthAssumption
    <3>2. (head + 1) % RingCapacity \in Nat
      BY <3>1 DEF TypeOK
    <3>3. QED
      BY <1>2, <3>2 DEF AppendFrame, TypeOK
  <2>5. QED
    BY <1>2, <2>3, <2>4, BoundAssumption
    DEF AppendFrame, RingFrames, PumpSteps, TypeOK, feedVars, countVars, outVars, threadVars
<1>3. CASE CountFrame
  <2>1. /\ based' \in BOOLEAN /\ voiced' \in BOOLEAN /\ late' \in BOOLEAN
        /\ started' \in BOOLEAN
    BY <1>3 DEF CountFrame, TypeOK, feedVars, countVars, inVars, outVars,
         threadVars
  <2>2. QED
    BY <1>3, <2>1, LengthAssumption, BoundAssumption, NoBlockIsBlock, EmptySeq DEF
         CountFrame, PumpSteps, InferenceSteps, TypeOK, feedVars, countVars,
         inVars, outVars, threadVars
<1>4. CASE PopOutput
  <2>1. started' \in BOOLEAN
    BY <1>4 DEF PopOutput, TypeOK, outVars
  <2>2. out' \in Seq(OutFrames) /\ Len(out') <= OutCapacity
    <3>1. out \in Seq(OutFrames) /\ Len(out) \in Nat
      BY LenProperties DEF TypeOK, OutFrames
    <3>2. CASE out' = out
      BY <3>1, <3>2 DEF TypeOK
    <3>3. CASE out # <<>> /\ out' = Tail(out)
      BY <3>1, <3>3, HeadTailProperties, LengthAssumption DEF TypeOK
    <3>4. QED
      BY <1>4, <3>2, <3>3 DEF PopOutput, outVars
  <2>3. delayLeft' \in 0 .. Delay
    BY <1>4, LengthAssumption DEF PopOutput, TypeOK, outVars
  <2>4. QED
    BY <1>4, <2>1, <2>2, <2>3
    DEF PopOutput, OutFrames, PumpSteps, TypeOK, countVars, inVars, threadVars
<1>5. CASE LoopSeesReset
  BY <1>5, LengthAssumption, BoundAssumption, NoBlockIsBlock, EmptySeq DEF
       LoopSeesReset, TypeOK, feedVars, countVars, inVars, outVars, threadVars,
       PumpSteps, InferenceSteps
<1>6. CASE LoopReady
  BY <1>6, LengthAssumption, BoundAssumption, NoBlockIsBlock, EmptySeq DEF
       LoopReady, TypeOK, feedVars, countVars, inVars, outVars, threadVars,
       PumpSteps, InferenceSteps
<1>7. CASE Recheck
  BY <1>7, LengthAssumption, BoundAssumption, NoBlockIsBlock, EmptySeq DEF
       Recheck, TypeOK, feedVars, countVars, inVars, outVars, threadVars,
       PumpSteps, InferenceSteps
<1>8. CASE TakeNothing
  BY <1>8, LengthAssumption, BoundAssumption, NoBlockIsBlock, EmptySeq DEF
       TakeNothing, TypeOK, feedVars, countVars, inVars, outVars, threadVars,
       PumpSteps, InferenceSteps
<1>9. CASE TakeReanchor
  <2>1. /\ based' \in BOOLEAN /\ voiced' \in BOOLEAN /\ late' \in BOOLEAN
        /\ started' \in BOOLEAN
    BY <1>9 DEF TakeReanchor, Reanchor, ClearOutput, TypeOK, feedVars, countVars,
         inVars, outVars, threadVars
  <2>2. QED
    BY <1>9, <2>1, LengthAssumption, BoundAssumption, NoBlockIsBlock, EmptySeq DEF
         TakeReanchor, Reanchor, ClearOutput, PumpSteps, InferenceSteps, TypeOK,
         feedVars, countVars, inVars, outVars, threadVars
<1>10. CASE TakeWindow
  <2> DEFINE end == IF profile = "full" THEN nextStart + Window ELSE Len(ring)
  <2>1. end \in 1 .. Len(ring)
    BY <1>10, WindowHasEnd
  <2>2. ring \in Seq(RingFrames) /\ ring[end] \in RingFrames
    BY <2>1, ElementOfSeq DEF TypeOK, RingFrames
  <2>3. window' \in Blocks
    BY <1>10, <2>2, BoundAssumption DEF TakeWindow, Blocks, RingFrames
  <2>4. ring' \in Seq(RingFrames) /\ Len(ring') <= RingCapacity
    <3>1. Newest(ring, Window) \in Seq(RingFrames) /\ Len(Newest(ring, Window)) <= Len(ring)
      BY <2>2, NewestKeeps, LengthAssumption, LenProperties
    <3>2. QED
      BY <1>10, <2>2, <3>1, LengthAssumption, LenProperties DEF TakeWindow, TypeOK
  <2>5. based' \in BOOLEAN /\ voiced' \in BOOLEAN /\ late' \in BOOLEAN
    BY <1>10 DEF TakeWindow
  <2>6. nextStart' \in Nat /\ inference' \in InferenceSteps
    BY <1>10, LengthAssumption DEF TakeWindow, TypeOK, InferenceSteps
  <2>7. QED
    BY <1>10, <2>3, <2>4, <2>5, <2>6
    DEF TakeWindow, RingFrames, TypeOK, feedVars, outVars
<1>11. CASE Quiet
  <2>1. out' \in Seq(OutFrames) /\ Len(out') <= OutCapacity
    BY <1>11, EmitAppends DEF Quiet, WindowKnown, Busy
  <2>2. QED
    BY <1>11, <2>1, NoBlockIsBlock
    DEF Quiet, OutFrames, InferenceSteps, TypeOK, feedVars, countVars, inVars
<1>12. CASE Infer
  BY <1>12, LengthAssumption, BoundAssumption, NoBlockIsBlock, EmptySeq DEF Infer,
       TypeOK, feedVars, countVars, inVars, outVars, threadVars, PumpSteps,
       InferenceSteps
<1>13. CASE Check
  BY <1>13, LengthAssumption, BoundAssumption, NoBlockIsBlock, EmptySeq DEF Check,
       TypeOK, feedVars, countVars, inVars, outVars, threadVars, PumpSteps,
       InferenceSteps
<1>14. CASE EmitBlock
  <2>1. out' \in Seq(OutFrames) /\ Len(out') <= OutCapacity
    BY <1>14, EmitAppends DEF EmitBlock, WindowKnown, Busy
  <2>2. QED
    BY <1>14, <2>1
    DEF EmitBlock, OutFrames, InferenceSteps, TypeOK, feedVars, countVars, inVars
<1>15. CASE UNCHANGED vars
  BY <1>15, LengthAssumption, BoundAssumption, NoBlockIsBlock, EmptySeq DEF vars,
       TypeOK, feedVars, countVars, inVars, outVars, threadVars, PumpSteps,
       InferenceSteps
<1>16. QED
  BY <1>1, <1>2, <1>3, <1>4, <1>5, <1>6, <1>7, <1>8, <1>9, <1>10, <1>11, <1>12,
       <1>13, <1>14, <1>15 DEF Next, Pump, Inference

\* Whatever is appended, kept or dropped, the ring ends with the latest frame.
LEMMA RingStep ==
  ASSUME TypeOK, RingIsLatestInput, RingHasPushed, BacklogNotNegative, [Next]_vars
  PROVE  RingIsLatestInput' /\ RingHasPushed' /\ BacklogNotNegative'
PROOF
<1>1. CASE Discontinuity
  BY <1>1, EmptySeq DEF Discontinuity, ClearOutput, RingIsLatestInput,
       RingHasPushed, BacklogNotNegative, TypeOK, feedVars, countVars, inVars,
       outVars, threadVars
<1>2. CASE AppendFrame
  <2> DEFINE f == [stream |-> stream, n |-> sent + 1]
             longer == Append(ring, f)
  <2>1. ring \in Seq(RingFrames) /\ f \in RingFrames
    BY <1>2, BoundAssumption DEF AppendFrame, TypeOK, RingFrames
  <2>2. /\ longer \in Seq(RingFrames) /\ Len(longer) = Len(ring) + 1 /\ Len(ring) \in Nat
        /\ \A i \in 1 .. Len(ring) : longer[i] = ring[i]
        /\ longer[Len(ring) + 1] = f
    BY <2>1, AppendProperties, LenProperties
  <2>3. \A i \in 1 .. Len(longer) :
          longer[i] = [stream |-> stream, n |-> sent + 1 - Len(longer) + i]
    <3>1. ASSUME NEW i \in 1 .. Len(longer)
          PROVE  longer[i] = [stream |-> stream, n |-> sent + 1 - Len(longer) + i]
      <4>1. CASE i = Len(ring) + 1
        <5>1. sent + 1 - Len(longer) + i = sent + 1
          BY <2>2, <4>1 DEF TypeOK
        <5>2. QED
          BY <2>2, <4>1, <5>1
      <4>2. CASE i # Len(ring) + 1
        <5>1. i \in 1 .. Len(ring) /\ sent + 1 - Len(longer) + i = sent - Len(ring) + i
          BY <2>2, <3>1, <4>2 DEF TypeOK
        <5>2. QED
          BY <2>2, <5>1 DEF RingIsLatestInput
      <4>3. QED
        BY <4>1, <4>2
    <3>2. QED
      BY <3>1
  <2>4. ring' = Newest(longer, RingCapacity) /\ sent' = sent + 1 /\ stream' = stream
    BY <1>2 DEF AppendFrame
  <2> HIDE DEF longer, f
  <2>5. /\ ring' \in Seq(RingFrames)
        /\ Len(ring') = IF Len(longer) <= RingCapacity THEN Len(longer) ELSE RingCapacity
        /\ \A i \in 1 .. Len(ring') : /\ Len(longer) - Len(ring') + i \in 1 .. Len(longer)
                                      /\ ring'[i] = longer[Len(longer) - Len(ring') + i]
    <3>1. RingCapacity \in Nat /\ longer \in Seq(RingFrames)
      BY <2>2, LengthAssumption
    <3> DEFINE kept == Newest(longer, RingCapacity)
    <3>2. /\ kept \in Seq(RingFrames)
          /\ Len(kept) = IF Len(longer) <= RingCapacity THEN Len(longer) ELSE RingCapacity
          /\ \A i \in 1 .. Len(kept) : /\ Len(longer) - Len(kept) + i \in 1 .. Len(longer)
                                       /\ kept[i] = longer[Len(longer) - Len(kept) + i]
      BY <3>1, NewestKeeps
    <3>3. ring' = kept
      BY <2>4
    <3> HIDE DEF kept
    <3>4. QED
      BY <3>2, <3>3
  <2>6. RingIsLatestInput'
    <3>1. ASSUME NEW i \in 1 .. Len(ring')
          PROVE  ring'[i] = [stream |-> stream', n |-> sent' - Len(ring') + i]
      <4>1. Len(ring') \in Nat /\ Len(longer) \in Nat
        BY <2>2, <2>5, LenProperties
      <4>2. sent + 1 - Len(longer) + (Len(longer) - Len(ring') + i) = sent' - Len(ring') + i
        BY <2>4, <3>1, <4>1 DEF TypeOK
      <4>3. QED
        BY <2>3, <2>4, <2>5, <4>2
    <3>2. QED
      BY <3>1 DEF RingIsLatestInput
  <2>7. Len(ring') > 0
    BY <2>2, <2>5, LengthAssumption
  <2>8. QED
    BY <1>2, <2>6, <2>7, EmptySeq
    DEF AppendFrame, RingHasPushed, BacklogNotNegative, countVars
<1>3. CASE CountFrame
  BY <1>3, EmptySeq DEF CountFrame, RingIsLatestInput, RingHasPushed,
       BacklogNotNegative, TypeOK, feedVars, countVars, inVars, outVars,
       threadVars
<1>4. CASE PopOutput
  BY <1>4, EmptySeq DEF PopOutput, RingIsLatestInput, RingHasPushed,
       BacklogNotNegative, TypeOK, feedVars, countVars, inVars, outVars,
       threadVars
<1>5. CASE LoopSeesReset
  BY <1>5, EmptySeq DEF LoopSeesReset, RingIsLatestInput, RingHasPushed,
       BacklogNotNegative, TypeOK, feedVars, countVars, inVars, outVars,
       threadVars
<1>6. CASE LoopReady
  BY <1>6, EmptySeq DEF LoopReady, RingIsLatestInput, RingHasPushed,
       BacklogNotNegative, TypeOK, feedVars, countVars, inVars, outVars,
       threadVars
<1>7. CASE Recheck
  BY <1>7, EmptySeq DEF Recheck, RingIsLatestInput, RingHasPushed,
       BacklogNotNegative, TypeOK, feedVars, countVars, inVars, outVars,
       threadVars
<1>8. CASE TakeNothing
  BY <1>8, EmptySeq DEF TakeNothing, RingIsLatestInput, RingHasPushed,
       BacklogNotNegative, TypeOK, feedVars, countVars, inVars, outVars,
       threadVars
<1>9. CASE TakeReanchor
  BY <1>9, EmptySeq DEF TakeReanchor, Reanchor, ClearOutput, RingIsLatestInput,
       RingHasPushed, BacklogNotNegative, TypeOK, feedVars, countVars, inVars,
       outVars, threadVars
<1>10. CASE TakeWindow
  <2>1. ring \in Seq(RingFrames) /\ Len(ring) \in Nat /\ Window \in Nat
    BY LenProperties, LengthAssumption DEF TypeOK, RingFrames
  <2>2. /\ Newest(ring, Window) \in Seq(RingFrames)
        /\ Len(Newest(ring, Window)) = IF Len(ring) <= Window THEN Len(ring) ELSE Window
        /\ \A i \in 1 .. Len(Newest(ring, Window)) :
             /\ Len(ring) - Len(Newest(ring, Window)) + i \in 1 .. Len(ring)
             /\ Newest(ring, Window)[i] = ring[Len(ring) - Len(Newest(ring, Window)) + i]
    BY <2>1, NewestKeeps
  <2>3. stream' = stream /\ sent' = sent /\ sent \in Nat
    BY <1>10 DEF TakeWindow, TypeOK, feedVars
  <2>4. RingIsLatestInput'
    <3>1. CASE ring' = ring
      BY <2>3, <3>1 DEF RingIsLatestInput
    <3>2. CASE ring' = Newest(ring, Window)
      <4>1. ASSUME NEW i \in 1 .. Len(ring')
            PROVE  ring'[i] = [stream |-> stream', n |-> sent' - Len(ring') + i]
        <5>1. /\ Len(ring) - Len(ring') + i \in 1 .. Len(ring)
              /\ ring'[i] = ring[Len(ring) - Len(ring') + i]
          BY <2>2, <3>2
        <5>2. sent - Len(ring) + (Len(ring) - Len(ring') + i) = sent' - Len(ring') + i
          BY <2>1, <2>2, <2>3, <3>2, <4>1
        <5>3. QED
          BY <2>3, <5>1, <5>2 DEF RingIsLatestInput
      <4>2. QED
        BY <4>1 DEF RingIsLatestInput
    <3>3. QED
      BY <1>10, <3>1, <3>2 DEF TakeWindow
  <2>5. RingHasPushed'
    <3>1. CASE profile = "full"
      BY <1>10, <3>1 DEF TakeWindow, RingHasPushed, feedVars
    <3>2. CASE profile # "full"
      <4>1. Len(ring) > 0
        BY <1>10, <2>1, <3>2, WindowHasEnd
      <4>2. Len(ring') > 0
        BY <1>10, <2>1, <2>2, <3>2, <4>1, LengthAssumption DEF TakeWindow
      <4>3. QED
        BY <4>2, EmptySeq DEF RingHasPushed
    <3>3. QED
      BY <3>1, <3>2
  <2>6. BacklogNotNegative'
    BY <1>10 DEF TakeWindow, BacklogNotNegative, TypeOK
  <2>7. QED
    BY <2>4, <2>5, <2>6
<1>11. CASE Quiet
  BY <1>11, EmptySeq DEF Quiet, RingIsLatestInput, RingHasPushed,
       BacklogNotNegative, TypeOK, feedVars, countVars, inVars, outVars,
       threadVars
<1>12. CASE Infer
  BY <1>12, EmptySeq DEF Infer, RingIsLatestInput, RingHasPushed,
       BacklogNotNegative, TypeOK, feedVars, countVars, inVars, outVars,
       threadVars
<1>13. CASE Check
  BY <1>13, EmptySeq DEF Check, RingIsLatestInput, RingHasPushed,
       BacklogNotNegative, TypeOK, feedVars, countVars, inVars, outVars,
       threadVars
<1>14. CASE EmitBlock
  BY <1>14, EmptySeq DEF EmitBlock, RingIsLatestInput, RingHasPushed,
       BacklogNotNegative, TypeOK, feedVars, countVars, inVars, outVars,
       threadVars
<1>15. CASE UNCHANGED vars
  BY <1>15, EmptySeq DEF vars, RingIsLatestInput, RingHasPushed,
       BacklogNotNegative, TypeOK, feedVars, countVars, inVars, outVars,
       threadVars
<1>16. QED
  BY <1>1, <1>2, <1>3, <1>4, <1>5, <1>6, <1>7, <1>8, <1>9, <1>10, <1>11, <1>12,
       <1>13, <1>14, <1>15 DEF Next, Pump, Inference

\* A block of the window's stream put behind what is waiting keeps all of this.
LEMMA EmitKeepsOrder ==
  ASSUME TypeOK, WindowKnown, OutputInOrder, OldFirst, Busy,
         window' = window, stream' = stream, inference' = "loop",
         Len(out') \in Nat, NEW d \in Nat, NEW speech,
         Len(out') + d = Len(out) + Hop,
         \A i \in 1 .. Len(out') :
           IF i + d <= Len(out) THEN out'[i] = out[i + d]
           ELSE out'[i] = [stream |-> window.stream, speech |-> speech]
  PROVE  WindowKnown' /\ OutputInOrder' /\ OldFirst'
PROOF
<1>1. Len(out) \in Nat /\ Hop \in Nat /\ stream \in Nat /\ window.stream \in Nat
  BY LenProperties, LengthAssumption DEF TypeOK, Blocks
<1>2. \A i \in 1 .. Len(out') :
        IF i + d <= Len(out) THEN i + d \in 1 .. Len(out) /\ out'[i].stream = out[i + d].stream
        ELSE out'[i].stream = window.stream
  BY <1>1
<1>3. WindowKnown'
  BY <1>1, <1>2 DEF WindowKnown, Busy
<1>4. OutputInOrder'
  <2>1. ASSUME NEW i \in 1 .. Len(out'), NEW k \in 1 .. Len(out'), i <= k
        PROVE  out'[i].stream <= out'[k].stream
    <3>1. CASE k + d <= Len(out)
      <4>1. i + d <= k + d /\ i + d <= Len(out)
        BY <1>1, <2>1, <3>1
      <4>2. QED
        BY <1>2, <2>1, <3>1, <4>1 DEF OutputInOrder
    <3>2. CASE ~(k + d <= Len(out))
      BY <1>1, <1>2, <2>1, <3>2 DEF WindowKnown
    <3>3. QED
      BY <3>1, <3>2
  <2>2. QED
    BY <2>1 DEF OutputInOrder
<1>5. OldFirst'
  <2>1. ASSUME NEW i \in 1 .. Len(out'), out'[i].stream # stream
        PROVE  i <= Hop
    <3>1. CASE window.stream = stream
      <4>1. i + d \in 1 .. Len(out) /\ out[i + d].stream # stream
        BY <1>1, <1>2, <2>1, <3>1
      <4>2. i + d <= Hop
        BY <4>1 DEF OldFirst
      <4>3. QED
        BY <1>1, <2>1, <4>2
    <3>2. CASE window.stream # stream
      <4>1. Len(out) = 0
        BY <3>2, EmptySeq DEF OldFirst
      <4>2. QED
        BY <1>1, <2>1, <4>1
    <3>3. QED
      BY <3>1, <3>2
  <2>2. QED
    BY <2>1 DEF OldFirst, Busy
<1>6. QED
  BY <1>3, <1>4, <1>5

\* What is heard stays in order, and what is old in front.
LEMMA OutStep ==
  ASSUME TypeOK, RingIsLatestInput, RingHasPushed, WindowKnown, OutputInOrder, OldFirst, [Next]_vars
  PROVE  WindowKnown' /\ OutputInOrder' /\ OldFirst'
PROOF
<1>1. CASE Discontinuity
  <2>1. out' = <<>> /\ Len(out') = 0 /\ window' = window /\ inference' = inference
          /\ stream' = stream + 1
    BY <1>1, EmptySeq DEF Discontinuity, ClearOutput, threadVars
  <2>2. stream \in Nat /\ window.stream \in Nat
    BY DEF TypeOK, Blocks
  <2>3. QED
    BY <2>1, <2>2 DEF WindowKnown, OutputInOrder, OldFirst, Busy
<1>2. CASE AppendFrame
  BY <1>2, EmptySeq DEF AppendFrame, WindowKnown, OutputInOrder, OldFirst, Busy,
       TypeOK, feedVars, countVars, inVars, outVars, threadVars
<1>3. CASE CountFrame
  BY <1>3, EmptySeq DEF CountFrame, WindowKnown, OutputInOrder, OldFirst, Busy,
       TypeOK, feedVars, countVars, inVars, outVars, threadVars
<1>4. CASE PopOutput
  <2>1. window' = window /\ inference' = inference /\ stream' = stream
    BY <1>4 DEF PopOutput, threadVars
  <2>2. CASE out' = out
    BY <2>1, <2>2 DEF WindowKnown, OutputInOrder, OldFirst, Busy
  <2>3. CASE out # <<>> /\ out' = Tail(out)
    <3>1. /\ Len(out) \in Nat /\ Len(out') = Len(out) - 1
          /\ \A i \in 1 .. Len(out') : i + 1 \in 1 .. Len(out) /\ out'[i] = out[i + 1]
      BY <2>3, HeadTailProperties, LenProperties DEF TypeOK
    <3>2. WindowKnown'
      BY <2>1, <3>1 DEF WindowKnown, Busy
    <3>3. OutputInOrder'
      BY <3>1 DEF OutputInOrder
    <3>4. OldFirst'
      BY <2>1, <2>3, <3>1, LengthAssumption DEF OldFirst, Busy
    <3>5. QED
      BY <3>2, <3>3, <3>4
  <2>4. QED
    BY <1>4, <2>2, <2>3 DEF PopOutput, outVars
<1>5. CASE LoopSeesReset
  BY <1>5, EmptySeq DEF LoopSeesReset, WindowKnown, OutputInOrder, OldFirst, Busy,
       TypeOK, feedVars, countVars, inVars, outVars, threadVars
<1>6. CASE LoopReady
  BY <1>6, EmptySeq DEF LoopReady, WindowKnown, OutputInOrder, OldFirst, Busy,
       TypeOK, feedVars, countVars, inVars, outVars, threadVars
<1>7. CASE Recheck
  BY <1>7, EmptySeq DEF Recheck, WindowKnown, OutputInOrder, OldFirst, Busy,
       TypeOK, feedVars, countVars, inVars, outVars, threadVars
<1>8. CASE TakeNothing
  BY <1>8, EmptySeq DEF TakeNothing, WindowKnown, OutputInOrder, OldFirst, Busy,
       TypeOK, feedVars, countVars, inVars, outVars, threadVars
<1>9. CASE TakeReanchor
  <2>1. out' = <<>> /\ Len(out') = 0 /\ window' = window /\ inference' = "loop"
          /\ stream' = stream
    BY <1>9, EmptySeq DEF TakeReanchor, Reanchor, ClearOutput, feedVars
  <2>2. QED
    BY <2>1 DEF WindowKnown, OutputInOrder, OldFirst, Busy
<1>10. CASE TakeWindow
  <2> DEFINE end == IF profile = "full" THEN nextStart + Window ELSE Len(ring)
  <2>1. ring[end].stream = stream
    <3>1. end \in 1 .. Len(ring)
      BY <1>10, WindowHasEnd
    <3> HIDE DEF end
    <3>2. \A i \in 1 .. Len(ring) :
            ring[i] = [stream |-> stream, n |-> sent - Len(ring) + i]
      BY RingIsLatestInput DEF RingIsLatestInput
    <3>3. ring[end] = [stream |-> stream, n |-> sent - Len(ring) + end]
      BY <3>1, <3>2
    <3>4. QED
      BY <3>3
  <2>2. window'.stream = stream /\ stream' = stream /\ out' = out
    BY <1>10, <2>1 DEF TakeWindow, feedVars, outVars
  <2>3. \A i \in 1 .. Len(out) : out[i].stream <= stream
    <3>1. \A i \in 1 .. Len(out) : out[i] \in OutFrames
      BY ElementOfSeq DEF TypeOK, OutFrames
    <3>2. QED
      BY <3>1, BoundAssumption DEF WindowKnown, TypeOK, Blocks, OutFrames
  <2>4. QED
    BY <2>2, <2>3 DEF WindowKnown, OutputInOrder, OldFirst, Busy, TypeOK
<1>11. CASE Quiet
  <2>1. window.stream \in 1 .. MaxStreams /\ stream' = stream /\ window' = window
    BY <1>11 DEF Quiet, WindowKnown, Busy, feedVars
  <2>2. PICK d \in Nat :
          /\ Len(out') + d = Len(out) + Hop
          /\ \A i \in 1 .. Len(out') :
               IF i + d <= Len(out) THEN out'[i] = out[i + d]
               ELSE out'[i] = [stream |-> window.stream, speech |-> FALSE]
    BY <1>11, <2>1, EmitAppends DEF Quiet
  <2>3. Len(out) \in Nat /\ Len(out') \in Nat
    BY <1>11, <2>1, EmitAppends, LenProperties DEF Quiet, TypeOK
  <2>4. WindowKnown' /\ OutputInOrder' /\ OldFirst'
    BY <1>11, <2>1, <2>2, <2>3, EmitKeepsOrder DEF Quiet, Busy
  <2>5. QED
    BY <2>4
<1>12. CASE Infer
  BY <1>12, EmptySeq DEF Infer, WindowKnown, OutputInOrder, OldFirst, Busy,
       TypeOK, feedVars, countVars, inVars, outVars, threadVars
<1>13. CASE Check
  BY <1>13, EmptySeq DEF Check, WindowKnown, OutputInOrder, OldFirst, Busy,
       TypeOK, feedVars, countVars, inVars, outVars, threadVars
<1>14. CASE EmitBlock
  <2>1. window.stream \in 1 .. MaxStreams /\ stream' = stream /\ window' = window
    BY <1>14 DEF EmitBlock, WindowKnown, Busy, feedVars
  <2>2. PICK d \in Nat :
          /\ Len(out') + d = Len(out) + Hop
          /\ \A i \in 1 .. Len(out') :
               IF i + d <= Len(out) THEN out'[i] = out[i + d]
               ELSE out'[i] = [stream |-> window.stream, speech |-> TRUE]
    BY <1>14, <2>1, EmitAppends DEF EmitBlock
  <2>3. Len(out) \in Nat /\ Len(out') \in Nat
    BY <1>14, <2>1, EmitAppends, LenProperties DEF EmitBlock, TypeOK
  <2>4. WindowKnown' /\ OutputInOrder' /\ OldFirst'
    BY <1>14, <2>1, <2>2, <2>3, EmitKeepsOrder DEF EmitBlock, Busy
  <2>5. QED
    BY <2>4
<1>15. CASE UNCHANGED vars
  BY <1>15, EmptySeq DEF vars, WindowKnown, OutputInOrder, OldFirst, Busy, TypeOK,
       feedVars, countVars, inVars, outVars, threadVars
<1>16. QED
  BY <1>1, <1>2, <1>3, <1>4, <1>5, <1>6, <1>7, <1>8, <1>9, <1>10, <1>11, <1>12,
       <1>13, <1>14, <1>15 DEF Next, Pump, Inference

-----------------------------------------------------------------------------
\* The inductive invariant holds at first and is kept.
LEMMA Inductive ==
  /\ Init => IInv
  /\ IInv /\ [Next]_vars => IInv'
PROOF
<1>1. Init => IInv
  <2>1. SUFFICES ASSUME Init PROVE IInv
    OBVIOUS
  <2>2. /\ based \in BOOLEAN /\ voiced \in BOOLEAN /\ late \in BOOLEAN /\ started \in BOOLEAN
    BY <2>1 DEF Init
  <2>3. ring = <<>> /\ out = <<>> /\ Len(ring) = 0 /\ Len(out) = 0
    BY <2>1, EmptySeq DEF Init
  <2>4. TypeOK
    <3>1. stream \in 1 .. MaxStreams /\ sent \in 0 .. MaxFrames
      BY <2>1, BoundAssumption DEF Init
    <3>2. QED
      BY <2>1, <2>2, <2>3, <3>1, LengthAssumption, NoBlockIsBlock, EmptySeq
      DEF Init, TypeOK, PumpSteps, InferenceSteps
  <2>5. RingIsLatestInput /\ RingHasPushed /\ BacklogNotNegative
    BY <2>1, <2>3 DEF Init, RingIsLatestInput, RingHasPushed, BacklogNotNegative
  <2>6. WindowKnown /\ OutputInOrder /\ OldFirst
    BY <2>1, <2>3 DEF Init, NoBlock, WindowKnown, OutputInOrder, OldFirst, Busy
  <2>7. QED
    BY <2>4, <2>5, <2>6 DEF IInv
<1>2. IInv /\ [Next]_vars => IInv'
  BY TypeStep, RingStep, OutStep DEF IInv
<1>3. QED
  BY <1>1, <1>2

\* Hence it holds in every behaviour.
LEMMA StreamInvariant == Spec => []IInv
PROOF
  BY Inductive, PTL DEF Spec

\* The state shared by the pump and the inference thread keeps its types.
THEOREM StreamTypes == Spec => []TypeOK
PROOF
<1>1. IInv => TypeOK
  BY DEF IInv
<1>2. QED
  BY <1>1, StreamInvariant, PTL

\* The input ring holds the latest frames of one stream without a hole (push,
\* try_process_one, reset_full_history_locked).
THEOREM RingIsLatest == Spec => []RingIsLatestInput
PROOF
<1>1. IInv => RingIsLatestInput
  BY DEF IInv
<1>2. QED
  BY <1>1, StreamInvariant, PTL

\* pushed_total_ - owned_ does not wrap, although another thread resets the one.
THEOREM BacklogNeverWraps == Spec => []BacklogNotNegative
PROOF
<1>1. IInv => BacklogNotNegative
  BY DEF IInv
<1>2. QED
  BY <1>1, StreamInvariant, PTL

\* Nothing older is heard after something newer (push_output, pop_output).
THEOREM OutputStaysInOrder == Spec => []OutputInOrder
PROOF
<1>1. IInv => OutputInOrder
  BY DEF IInv
<1>2. QED
  BY <1>1, StreamInvariant, PTL

\* A reset leaves at most one block of older streams to be heard.
THEOREM OneOldBlock == Spec => []OldOutputBounded
PROOF
<1>1. IInv => OldOutputBounded
  <2>1. SUFFICES ASSUME IInv PROVE OldOutputBounded
    OBVIOUS
  <2>2. Hop \in Nat
    BY LengthAssumption
  <2>3. {i \in 1 .. Len(out) : out[i].stream # stream} \subseteq 1 .. Hop
    BY <2>1, <2>2, LenProperties DEF IInv, OldFirst, TypeOK
  <2>4. IsFiniteSet(1 .. Hop) /\ Cardinality(1 .. Hop) = Hop
    BY <2>2, FS_Interval
  <2>5. QED
    BY <2>3, <2>4, FS_Subset DEF OldOutputBounded
<1>2. QED
  BY <1>1, StreamInvariant, PTL

\* The inference thread reads the latest input and counts it right.
THEOREM InputIsKept == Spec => []InputKept
BY RingIsLatest, BacklogNeverWraps, PTL DEF InputKept

\* What is heard turns from an old stream to a new one once, within a block.
THEOREM OldSoundComesToAnEnd == Spec => []OldSoundEnds
BY OneOldBlock, OutputStaysInOrder, PTL DEF OldSoundEnds

-----------------------------------------------------------------------------
(***************************************************************************)
(* What a block is joined to                                               *)
(***************************************************************************)

\* Whole input rings.
Rings == {k * RingCapacity : k \in Nat}

\* What the loops count is what was pushed: pushed_total_ lacks the frame between
\* the two locks of push, and the ring has lost ring_head_ frames since the history
\* was anchored, and perhaps whole rings besides.
Counted ==
  /\ profile # "full" => sent = pushed + (IF pump = "count" THEN 1 ELSE 0)
  /\ profile = "full" => head + Len(ring) <= sent /\ head < RingCapacity

\* The frames of the stream before the one the history seems to be anchored at.
Anchor == sent - head - Len(ring)

\* The frames lost without notice since the block that ends with frame n was taken in
\* the quality profile.
Lost(n) == Anchor + nextStart + Window - Hop - n

\* The block taken latest from the stream ends with frame n: in the quality profile by
\* the place of the history's anchor, which skips a ring when ring_head_ comes round;
\* otherwise by owned_, one frame more if it was not yet counted.
LatestTaken(n) ==
  /\ profile = "full" =>
       /\ Lost(n) \in Rings /\ Lost(n) <= Anchor
       /\ Lost(n) > 0 => Len(ring) = RingCapacity
  /\ profile # "full" => based /\ (n = owned \/ n = owned + 1)

\* The window follows the tail, but for whole rings that were lost without notice.
Follows ==
  /\ profile = "full" =>
       /\ Skipped \in Rings
       /\ Skipped > 0 /\ window.stream = stream => Skipped + RingCapacity <= sent
  /\ profile # "full" /\ ~late => window.last - tail.last \in Hop - 1 .. 2 * Hop + 1

\* The inference thread's tail and window are of what was taken from the stream one
\* after the other, or of a stream that is over.
JoinInv ==
  /\ Counted
  /\ tail.stream <= stream
  /\ Busy => tail.stream <= window.stream
  /\ ~Busy /\ tail.stream = stream => LatestTaken(tail.last)
  /\ Busy /\ window.stream = stream => windowGen = gen /\ LatestTaken(window.last)
  /\ Busy /\ tail.stream = window.stream => Follows

\* None is a number of whole rings, and one more is one.
LEMMA RingsAdd ==
  /\ RingCapacity \in Nat /\ RingCapacity > 0
  /\ Rings \subseteq Nat /\ 0 \in Rings
  /\ \A s \in Rings : s + RingCapacity \in Rings
PROOF
<1>1. RingCapacity \in Nat /\ RingCapacity > 0
  BY LengthAssumption
<1>2. \A k \in Nat : k * RingCapacity \in Nat
  BY <1>1
<1>3. 0 * RingCapacity = 0
  BY <1>1
<1>4. \A k \in Nat : k * RingCapacity + RingCapacity = (k + 1) * RingCapacity /\ k + 1 \in Nat
  BY <1>1
<1>5. \A s \in Rings : s + RingCapacity \in Rings
  BY <1>4 DEF Rings
<1>6. QED
  BY <1>1, <1>2, <1>3, <1>5 DEF Rings

\* A frame pushed makes the stream longer by one, and the history with what it has
\* lost: the anchor stays, but skips a ring when ring_head_ comes round.
LEMMA AppendMovesAnchor ==
  ASSUME IInv, Counted, AppendFrame, profile = "full"
  PROVE  /\ Counted'
         /\ Len(ring) = RingCapacity => Len(ring') = RingCapacity
         /\ Anchor' = Anchor
              \/ (Anchor' = Anchor + RingCapacity /\ Len(ring') = RingCapacity)
PROOF
<1> DEFINE longer == Append(ring, [stream |-> stream, n |-> sent + 1])
<1>1. ring \in Seq(RingFrames) /\ [stream |-> stream, n |-> sent + 1] \in RingFrames
  BY BoundAssumption DEF AppendFrame, IInv, TypeOK, RingFrames
<1>2. longer \in Seq(RingFrames) /\ Len(longer) = Len(ring) + 1 /\ Len(ring) \in Nat
  BY <1>1, AppendProperties, LenProperties
<1>3. ring' = Newest(longer, RingCapacity)
  BY DEF AppendFrame
<1> HIDE DEF longer
<1>4. RingCapacity \in Nat /\ RingCapacity > 0
  BY LengthAssumption
<1>5. Len(ring') = IF Len(longer) <= RingCapacity THEN Len(longer) ELSE RingCapacity
  BY <1>2, <1>3, <1>4, NewestKeeps
<1>6. /\ sent \in Nat /\ sent' = sent + 1 /\ head \in Nat /\ Len(ring) <= RingCapacity
      /\ profile' = profile
  BY <1>4 DEF AppendFrame, IInv, TypeOK
<1>7. head + Len(ring) <= sent /\ head < RingCapacity
  BY DEF Counted
<1>8. CASE Len(ring) # RingCapacity
  <2>1. head' = head
    BY <1>8 DEF AppendFrame
  <2>2. Len(ring') = Len(ring) + 1
    BY <1>2, <1>4, <1>5, <1>6, <1>8
  <2>3. Anchor' = Anchor
    BY <1>2, <1>6, <2>1, <2>2 DEF Anchor
  <2>4. head' + Len(ring') <= sent' /\ head' < RingCapacity
    BY <1>2, <1>6, <1>7, <2>1, <2>2
  <2>5. QED
    BY <1>6, <1>8, <2>3, <2>4 DEF Counted
<1>9. CASE Len(ring) = RingCapacity
  <2>1. head' = (head + 1) % RingCapacity
    BY <1>9 DEF AppendFrame
  <2>2. Len(ring') = RingCapacity
    BY <1>2, <1>4, <1>5, <1>9
  <2>3. CASE head + 1 < RingCapacity
    <3>1. head' = head + 1
      BY <1>4, <1>6, <2>1, <2>3
    <3>2. Anchor' = Anchor
      BY <1>4, <1>6, <1>9, <2>2, <3>1 DEF Anchor
    <3>3. head' + Len(ring') <= sent' /\ head' < RingCapacity
      BY <1>4, <1>6, <1>7, <1>9, <2>2, <2>3, <3>1
    <3>4. QED
      BY <1>6, <2>2, <3>2, <3>3 DEF Counted
  <2>4. CASE head + 1 = RingCapacity
    <3>1. head' = 0
      BY <1>4, <2>1, <2>4
    <3>2. Anchor' = Anchor + RingCapacity
      BY <1>4, <1>6, <1>9, <2>2, <2>4, <3>1 DEF Anchor
    <3>3. head' + Len(ring') <= sent' /\ head' < RingCapacity
      BY <1>4, <1>6, <1>7, <1>9, <2>2, <3>1
    <3>4. QED
      BY <1>6, <2>2, <3>2, <3>3 DEF Counted
  <2>5. QED
    BY <1>4, <1>6, <1>7, <2>3, <2>4
<1>10. QED
  BY <1>8, <1>9

\* What was taken latest stays so as the anchor moves.
LEMMA AppendKeepsTaken ==
  ASSUME IInv, Counted, AppendFrame, NEW n \in Nat, LatestTaken(n)
  PROVE  LatestTaken(n)'
PROOF
<1>1. /\ profile' = profile /\ nextStart' = nextStart /\ owned' = owned /\ based' = based
  BY DEF AppendFrame, countVars
<1>2. CASE profile # "full"
  BY <1>1, <1>2 DEF LatestTaken
<1>3. CASE profile = "full"
  <2>1. /\ Anchor \in Int /\ nextStart \in Nat /\ Window \in Nat /\ Hop \in Nat
        /\ RingCapacity \in Nat
    BY LengthAssumption, LenProperties DEF IInv, TypeOK, Anchor
  <2>2. /\ Len(ring) = RingCapacity => Len(ring') = RingCapacity
        /\ Anchor' = Anchor \/ (Anchor' = Anchor + RingCapacity /\ Len(ring') = RingCapacity)
    BY <1>3, AppendMovesAnchor
  <2>3. /\ Lost(n) \in Rings /\ Lost(n) <= Anchor
        /\ Lost(n) > 0 => Len(ring) = RingCapacity
    BY <1>3 DEF LatestTaken
  <2>4. Lost(n) \in Int /\ Lost(n)' = Lost(n) + (Anchor' - Anchor)
    BY <1>1, <2>1, <2>2 DEF Lost
  <2>5. CASE Anchor' = Anchor
    <3>1. Lost(n)' = Lost(n)
      BY <2>1, <2>4, <2>5
    <3>2. QED
      BY <1>1, <1>3, <2>2, <2>3, <2>5, <3>1 DEF LatestTaken
  <2>6. CASE Anchor' = Anchor + RingCapacity /\ Len(ring') = RingCapacity
    <3>1. Lost(n)' = Lost(n) + RingCapacity
      BY <2>1, <2>4, <2>6
    <3>2. Lost(n)' \in Rings /\ Lost(n)' <= Anchor'
      BY <2>1, <2>3, <2>4, <2>6, <3>1, RingsAdd
    <3>3. QED
      BY <1>1, <1>3, <2>6, <3>2 DEF LatestTaken
  <2>7. QED
    BY <2>2, <2>5, <2>6
<1>4. QED
  BY <1>2, <1>3

\* A window that is taken ends with a frame of the stream: the place it is read at
\* in the history, or the latest one pushed.
LEMMA WindowTaken ==
  ASSUME IInv, JoinInv, TakeWindow
  PROVE  /\ window'.stream = stream
         /\ profile = "full" => window'.last = Anchor + nextStart + Window
         /\ profile # "full" => window'.last = sent
PROOF
<1> DEFINE end == IF profile = "full" THEN nextStart + Window ELSE Len(ring)
<1>1. end \in 1 .. Len(ring) /\ Len(ring) \in Nat
  BY WindowHasEnd, LenProperties DEF IInv, TypeOK
<1>2. window' = [stream |-> ring[end].stream, last |-> ring[end].n]
  BY DEF TakeWindow
<1>3. profile = "full" => end = nextStart + Window /\ head = 0
  BY DEF TakeWindow, PrefixPresent
<1>4. profile # "full" => end = Len(ring)
  OBVIOUS
<1> HIDE DEF end
<1>5. ring[end] = [stream |-> stream, n |-> sent - Len(ring) + end]
  BY <1>1 DEF IInv, RingIsLatestInput
<1>6. window'.stream = stream /\ window'.last = sent - Len(ring) + end
  BY <1>2, <1>5
<1>7. sent \in Nat /\ nextStart \in Nat /\ Window \in Nat /\ head \in Nat
  BY LengthAssumption DEF IInv, TypeOK
<1>8. profile = "full" => window'.last = Anchor + nextStart + Window
  BY <1>1, <1>3, <1>6, <1>7 DEF Anchor
<1>9. profile # "full" => window'.last = sent
  BY <1>1, <1>4, <1>6, <1>7
<1>10. QED
  BY <1>6, <1>8, <1>9

\* Every step keeps what the next block is joined to.
LEMMA JoinStep ==
  ASSUME IInv, JoinInv, [Next]_vars
  PROVE  JoinInv'
PROOF
<1>t. /\ sent \in Nat /\ head \in Nat /\ Len(ring) \in Nat /\ nextStart \in Nat /\ owned \in Nat
      /\ pushed \in Nat /\ stream \in Nat /\ stream > 0
      /\ window.stream \in Nat /\ tail.stream \in Nat /\ window.last \in Nat /\ tail.last \in Nat
      /\ Window \in Nat /\ Hop \in Nat /\ Hop > 0
  BY LengthAssumption, LenProperties DEF IInv, TypeOK, Blocks
<1>1. CASE Discontinuity
  <2>1. /\ stream' = stream + 1 /\ sent' = 0 /\ ring' = <<>> /\ Len(ring') = 0 /\ head' = 0
        /\ pushed' = 0 /\ pump' = "append" /\ profile' = profile
        /\ window' = window /\ tail' = tail /\ inference' = inference /\ late' = late
    BY <1>1, EmptySeq DEF Discontinuity, threadVars
  <2>2. window.stream <= stream
    BY DEF IInv, WindowKnown
  <2>3. tail'.stream # stream' /\ window'.stream # stream'
    BY <1>t, <2>1, <2>2 DEF JoinInv
  <2>4. Counted'
    BY <2>1, RingsAdd DEF Counted
  <2>5. Busy' = Busy /\ (Follows => Follows')
    BY <2>1, <2>3 DEF Busy, Follows, Skipped
  <2>6. tail'.stream <= stream'
    BY <1>t, <2>1 DEF JoinInv
  <2>7. QED
    BY <2>1, <2>3, <2>4, <2>5, <2>6 DEF JoinInv
<1>2. CASE AppendFrame
  <2>1. /\ stream' = stream /\ sent' = sent + 1 /\ profile' = profile /\ gen' = gen
        /\ pushed' = pushed /\ owned' = owned /\ based' = based /\ nextStart' = nextStart
        /\ pump # "count" /\ pump' = "count"
        /\ window' = window /\ windowGen' = windowGen /\ tail' = tail
        /\ inference' = inference /\ late' = late
    BY <1>2 DEF AppendFrame, countVars, threadVars
  <2>2. Counted
    BY DEF JoinInv
  <2>3. Counted'
    <3>1. CASE profile = "full"
      BY <1>2, <2>2, <3>1, AppendMovesAnchor
    <3>2. CASE profile # "full"
      BY <1>t, <2>1, <2>2, <3>2 DEF Counted
    <3>3. QED
      BY <3>1, <3>2
  <2>4. Busy' = Busy
    BY <2>1 DEF Busy
  <2>5. Follows => Follows'
    <3>1. Skipped' = Skipped /\ Skipped \in Int /\ RingCapacity \in Nat
      BY <1>t, <2>1, RingsAdd DEF Skipped
    <3>2. Skipped + RingCapacity <= sent => Skipped + RingCapacity <= sent'
      BY <1>t, <2>1, <3>1
    <3>3. QED
      BY <2>1, <3>1, <3>2 DEF Follows
  <2>6. \A n \in Nat : LatestTaken(n) => LatestTaken(n)'
    BY <1>2, <2>2, AppendKeepsTaken
  <2>7. /\ LatestTaken(tail.last) => LatestTaken(tail.last)'
        /\ LatestTaken(window.last) => LatestTaken(window.last)'
    BY <1>t, <2>1, <2>6 DEF LatestTaken, Lost
  <2>8. QED
    BY <2>1, <2>3, <2>4, <2>5, <2>7 DEF JoinInv
<1>3. CASE CountFrame
  <2>1. /\ stream' = stream /\ sent' = sent /\ profile' = profile /\ gen' = gen
        /\ ring' = ring /\ head' = head
        /\ pushed' = pushed + 1 /\ owned' = owned /\ based' = based /\ nextStart' = nextStart
        /\ pump = "count" /\ pump' = "pop"
        /\ window' = window /\ windowGen' = windowGen /\ tail' = tail
        /\ inference' = inference /\ late' = late
    BY <1>3 DEF CountFrame, inVars, threadVars
  <2>2. Counted'
    BY <1>t, <2>1 DEF Counted, JoinInv
  <2>3. Busy' = Busy /\ Follows' = Follows /\ Anchor' = Anchor
    BY <2>1 DEF Busy, Follows, Skipped, Anchor
  <2>4. /\ LatestTaken(tail.last) => LatestTaken(tail.last)'
        /\ LatestTaken(window.last) => LatestTaken(window.last)'
    BY <2>1, <2>3 DEF LatestTaken, Lost
  <2>5. QED
    BY <2>1, <2>2, <2>3, <2>4 DEF JoinInv
<1>4. CASE PopOutput
  <2>1. /\ stream' = stream /\ sent' = sent /\ profile' = profile /\ gen' = gen
        /\ ring' = ring /\ head' = head
        /\ pushed' = pushed /\ owned' = owned /\ based' = based /\ nextStart' = nextStart
        /\ pump = "pop" /\ pump' = "push"
        /\ window' = window /\ windowGen' = windowGen /\ tail' = tail
        /\ inference' = inference /\ late' = late
    BY <1>4 DEF PopOutput, countVars, inVars, threadVars
  <2>2. Counted'
    BY <1>t, <2>1 DEF Counted, JoinInv
  <2>3. Busy' = Busy /\ Follows' = Follows /\ Anchor' = Anchor
    BY <2>1 DEF Busy, Follows, Skipped, Anchor
  <2>4. /\ LatestTaken(tail.last) => LatestTaken(tail.last)'
        /\ LatestTaken(window.last) => LatestTaken(window.last)'
    BY <2>1, <2>3 DEF LatestTaken, Lost
  <2>5. QED
    BY <2>1, <2>2, <2>3, <2>4 DEF JoinInv
<1>5. CASE LoopSeesReset
  <2>1. /\ tail' = NoBlock /\ tail'.stream = 0 /\ ~Busy'
        /\ stream' = stream /\ sent' = sent /\ profile' = profile /\ pump' = pump
        /\ ring' = ring /\ head' = head /\ pushed' = pushed
    BY <1>5 DEF LoopSeesReset, NoBlock, Busy, feedVars, countVars, inVars
  <2>2. Counted'
    BY <2>1 DEF Counted, JoinInv
  <2>3. QED
    BY <1>t, <2>1, <2>2 DEF JoinInv
<1>6. CASE LoopReady \/ Recheck \/ TakeNothing
  <2>1. /\ stream' = stream /\ sent' = sent /\ profile' = profile /\ pump' = pump
        /\ ring' = ring /\ head' = head /\ pushed' = pushed
        /\ owned' = owned /\ based' = based /\ nextStart' = nextStart
        /\ tail' = tail
    BY <1>6 DEF LoopReady, Recheck, TakeNothing, feedVars, countVars, inVars
  <2>2. ~Busy /\ ~Busy'
    BY <1>6 DEF LoopReady, Recheck, TakeNothing, Busy
  <2>3. Counted'
    BY <2>1 DEF Counted, JoinInv
  <2>4. LatestTaken(tail.last) => LatestTaken(tail.last)'
    BY <2>1 DEF LatestTaken, Lost, Anchor
  <2>5. QED
    BY <2>1, <2>2, <2>3, <2>4 DEF JoinInv
<1>7. CASE TakeReanchor
  <2>1. /\ tail' = NoBlock /\ tail'.stream = 0 /\ ~Busy' /\ profile = "full"
        /\ stream' = stream /\ sent' = sent /\ profile' = profile
        /\ ring' = <<>> /\ Len(ring') = 0 /\ head' = 0
    BY <1>7, EmptySeq DEF TakeReanchor, Reanchor, NoBlock, Busy, feedVars
  <2>2. Counted'
    BY <1>t, <2>1, RingsAdd DEF Counted
  <2>3. QED
    BY <1>t, <2>1, <2>2 DEF JoinInv
<1>8. CASE TakeWindow
  <2>1. /\ stream' = stream /\ sent' = sent /\ profile' = profile /\ pump' = pump
        /\ head' = head /\ pushed' = pushed /\ owned' = pushed /\ based' = TRUE
        /\ tail' = tail /\ windowGen' = gen /\ gen' = gen
        /\ nextStart' = IF profile = "full" THEN nextStart + Hop ELSE nextStart
        /\ profile = "full" => ring' = ring
        /\ late' = (profile # "full" /\ based /\ pushed > owned + 2 * Hop)
        /\ ~Busy /\ Busy'
    BY <1>8 DEF TakeWindow, Busy, feedVars
  <2>2. /\ window'.stream = stream
        /\ profile = "full" => window'.last = Anchor + nextStart + Window
        /\ profile # "full" => window'.last = sent
    BY <1>8, WindowTaken
  <2>3. Counted'
    BY <2>1 DEF Counted, JoinInv
  <2>4. profile # "full" => sent = pushed \/ sent = pushed + 1
    BY <1>t DEF Counted, JoinInv
  <2>5. LatestTaken(window.last)'
    <3>1. CASE profile = "full"
      <4>1. Anchor \in Int /\ Anchor' = Anchor
        BY <1>t, <2>1, <3>1 DEF Anchor
      <4>2. LatestTaken(window.last)' <=> 0 \in Rings /\ 0 <= Anchor
        BY <1>t, <2>1, <2>2, <3>1, <4>1 DEF LatestTaken, Lost
      <4>3. 0 <= Anchor
        BY <1>t, <3>1 DEF JoinInv, Counted, Anchor
      <4>4. QED
        BY <4>2, <4>3, RingsAdd
    <3>2. CASE profile # "full"
      BY <2>1, <2>2, <2>4, <3>2 DEF LatestTaken
    <3>3. QED
      BY <3>1, <3>2
  <2>6. tail.stream = stream => Follows'
    <3>1. SUFFICES ASSUME tail.stream = stream PROVE Follows'
      OBVIOUS
    <3>2. LatestTaken(tail.last)
      BY <2>1, <3>1 DEF JoinInv
    <3>3. CASE profile = "full"
      <4>1. Anchor \in Int
        BY <1>t DEF Anchor
      <4>2. /\ Lost(tail.last) \in Rings /\ Lost(tail.last) <= Anchor
            /\ Lost(tail.last) > 0 => Len(ring) = RingCapacity
        BY <3>2, <3>3 DEF LatestTaken
      <4>3. Skipped' = Lost(tail.last)
        BY <1>t, <2>1, <2>2, <3>3, <4>1 DEF Skipped, Lost
      <4>4. head = 0
        BY <1>8, <3>3 DEF TakeWindow, PrefixPresent
      <4>5. Skipped' > 0 => Skipped' + RingCapacity <= sent
        <5>1. Lost(tail.last) \in Nat /\ RingCapacity \in Nat
          BY <4>2, RingsAdd
        <5>2. Lost(tail.last) > 0 => Anchor = sent - RingCapacity
          BY <1>t, <4>2, <4>4, <5>1 DEF Anchor
        <5>3. Lost(tail.last) > 0 => Lost(tail.last) + RingCapacity <= sent
          BY <1>t, <4>1, <4>2, <5>1, <5>2
        <5>4. QED
          BY <4>3, <5>3
      <4>6. QED
        BY <2>1, <3>3, <4>2, <4>3, <4>5 DEF Follows
    <3>4. CASE profile # "full"
      <4>1. based /\ (tail.last = owned \/ tail.last = owned + 1)
        BY <3>2, <3>4 DEF LatestTaken
      <4>2. pushed >= owned + Hop
        BY <1>8, <3>4, <4>1 DEF TakeWindow, Ready
      <4>3. ~late' => pushed <= owned + 2 * Hop
        <5>1. ~late' => ~(pushed > owned + 2 * Hop)
          BY <2>1, <3>4, <4>1, Zenon
        <5>2. QED
          BY <1>t, <5>1
      <4>4. window'.last = pushed \/ window'.last = pushed + 1
        BY <2>2, <2>4, <3>4
      <4>5. ~late' => window'.last - tail.last \in Hop - 1 .. 2 * Hop + 1
        BY <1>t, <4>1, <4>2, <4>3, <4>4
      <4>6. QED
        BY <2>1, <3>4, <4>5 DEF Follows
    <3>5. QED
      BY <3>3, <3>4
  <2>7. tail.stream <= stream
    BY DEF JoinInv
  <2>8. QED
    BY <2>1, <2>2, <2>3, <2>5, <2>6, <2>7 DEF JoinInv
<1>9. CASE Quiet
  <2>1. /\ tail' = NoBlock /\ tail'.stream = 0 /\ ~Busy'
        /\ stream' = stream /\ sent' = sent /\ profile' = profile /\ pump' = pump
        /\ ring' = ring /\ head' = head /\ pushed' = pushed
    BY <1>9 DEF Quiet, NoBlock, Busy, feedVars, countVars, inVars
  <2>2. Counted'
    BY <2>1 DEF Counted, JoinInv
  <2>3. QED
    BY <1>t, <2>1, <2>2 DEF JoinInv
<1>10. CASE Infer \/ (Check /\ gen = windowGen) \/ UNCHANGED vars
  <2>1. /\ stream' = stream /\ sent' = sent /\ profile' = profile /\ pump' = pump
        /\ ring' = ring /\ head' = head /\ pushed' = pushed
        /\ owned' = owned /\ based' = based /\ nextStart' = nextStart /\ gen' = gen
        /\ tail' = tail /\ window' = window /\ windowGen' = windowGen /\ late' = late
    BY <1>10 DEF Infer, Check, vars, feedVars, countVars, inVars, threadVars
  <2>2. Busy' = Busy
    BY <1>10 DEF Infer, Check, vars, threadVars, Busy
  <2>3. Counted' /\ Follows' = Follows /\ Anchor' = Anchor
    BY <2>1 DEF Counted, Follows, Skipped, Anchor, JoinInv
  <2>4. /\ LatestTaken(tail.last) => LatestTaken(tail.last)'
        /\ LatestTaken(window.last) => LatestTaken(window.last)'
    BY <2>1, <2>3 DEF LatestTaken, Lost
  <2>5. QED
    BY <2>1, <2>2, <2>3, <2>4 DEF JoinInv
<1>11. CASE Check /\ gen # windowGen
  <2>1. /\ stream' = stream /\ sent' = sent /\ profile' = profile /\ pump' = pump
        /\ ring' = ring /\ head' = head /\ pushed' = pushed /\ tail' = tail
        /\ Busy /\ ~Busy'
    BY <1>11 DEF Check, Busy, feedVars, countVars, inVars
  <2>2. window.stream # stream /\ window.stream <= stream
    BY <1>11, <2>1 DEF JoinInv, IInv, WindowKnown
  <2>3. tail.stream < stream
    BY <1>t, <2>1, <2>2 DEF JoinInv
  <2>4. Counted'
    BY <2>1 DEF Counted, JoinInv
  <2>5. QED
    BY <1>t, <2>1, <2>3, <2>4 DEF JoinInv
<1>12. CASE EmitBlock
  <2>1. /\ stream' = stream /\ sent' = sent /\ profile' = profile /\ pump' = pump
        /\ ring' = ring /\ head' = head /\ pushed' = pushed
        /\ owned' = owned /\ based' = based /\ nextStart' = nextStart
        /\ tail' = window /\ Busy /\ ~Busy'
    BY <1>12 DEF EmitBlock, Busy, feedVars, countVars, inVars
  <2>2. Counted'
    BY <2>1 DEF Counted, JoinInv
  <2>3. window.stream <= stream
    BY DEF IInv, WindowKnown
  <2>4. window.stream = stream => LatestTaken(window.last)
    BY <2>1 DEF JoinInv
  <2>5. LatestTaken(window.last) => LatestTaken(tail.last)'
    BY <2>1 DEF LatestTaken, Lost, Anchor
  <2>6. QED
    BY <2>1, <2>2, <2>3, <2>4, <2>5 DEF JoinInv
<1>13. QED
  BY <1>1, <1>2, <1>3, <1>4, <1>5, <1>6, <1>7, <1>8, <1>9, <1>10, <1>11, <1>12
  DEF Next, Pump, Inference

\* What a block is joined to is known in every behaviour.
LEMMA JoinInvariant == Spec => []JoinInv
PROOF
<1>1. Init => JoinInv
  <2>1. SUFFICES ASSUME Init PROVE JoinInv
    OBVIOUS
  <2>2. /\ stream = 1 /\ sent = 0 /\ pushed = 0 /\ pump = "push" /\ head = 0 /\ Len(ring) = 0
        /\ tail.stream = 0 /\ ~Busy
    BY <2>1, EmptySeq DEF Init, NoBlock, Busy
  <2>3. QED
    BY <2>2, RingsAdd DEF JoinInv, Counted
<1>2. IInv /\ JoinInv /\ [Next]_vars => JoinInv'
  BY JoinStep
<1>3. QED
  BY <1>1, <1>2, StreamInvariant, PTL DEF Spec

\* A realtime profile joins a block only with the tail of one that ended between one
\* and two hops before it, give or take a frame that is not yet counted, or gives the
\* tail up (try_process_one, stale_tail): whatever the lengths and the streams.
THEOREM RealtimeBlocksFollow == Spec => []RealtimeJoinsBounded
PROOF
<1>1. IInv /\ JoinInv => RealtimeJoinsBounded
  BY DEF JoinInv, Follows, Busy, RealtimeJoinsBounded
<1>2. QED
  BY <1>1, StreamInvariant, JoinInvariant, PTL

\* Blocks are joined only with what they may follow, or in the quality profile with
\* one whole input rings before it, of which the stream has had another ring since
\* (push, read_prefix, reset_full_history_locked): whatever the lengths, and however
\* long the streams.
THEOREM BlocksFollow == Spec => []JoinsAreClose
PROOF
<1>1. IInv /\ JoinInv => QualityJoinsInStep
  <2>1. SUFFICES ASSUME IInv, JoinInv, QualityJoin
                 PROVE  /\ \E k \in 0 .. MaxFrames : Skipped = k * RingCapacity
                        /\ Skipped > 0 /\ window.stream = stream
                             => Skipped + RingCapacity <= sent
    BY DEF QualityJoinsInStep
  <2>2. Follows /\ profile = "full"
    BY <2>1 DEF QualityJoin, JoinInv, Busy
  <2>3. PICK k \in Nat : Skipped = k * RingCapacity
    BY <2>2 DEF Follows, Rings
  <2>4. /\ window.last \in Nat /\ window.last <= MaxFrames /\ tail.last \in Nat
        /\ Hop \in Nat /\ MaxFrames \in Nat
    BY <2>1, LengthAssumption, BoundAssumption DEF IInv, TypeOK, Blocks
  <2>5. k * RingCapacity <= MaxFrames
    BY <2>3, <2>4 DEF Skipped
  <2>6. k <= k * RingCapacity
    <3>1. RingCapacity - 1 \in Nat /\ k * (RingCapacity - 1) \in Nat
      BY RingsAdd
    <3>2. k * RingCapacity = k * (RingCapacity - 1) + k
      BY RingsAdd
    <3>3. QED
      BY <3>1, <3>2
  <2>7. k \in 0 .. MaxFrames
    BY <2>4, <2>5, <2>6, RingsAdd
  <2>8. QED
    BY <2>2, <2>3, <2>7 DEF Follows
<1>2. IInv /\ JoinInv => RealtimeJoinsBounded
  BY DEF JoinInv, Follows, Busy, RealtimeJoinsBounded
<1>3. QED
  BY <1>1, <1>2, StreamInvariant, JoinInvariant, PTL DEF JoinsAreClose
=============================================================================
