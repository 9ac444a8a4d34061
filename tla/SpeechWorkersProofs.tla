------------------------- MODULE SpeechWorkersProofs -------------------------
(***************************************************************************)
(* The two threads of the speech service say what they were given, once    *)
(* and in order, for every number of tasks, pieces, faults and restarts:   *)
(* TypeOK, RecordIsTrue, CloseKeepsTasks, HeardInOrder and EndIsFinal of   *)
(* SpeechWorkers.                                                          *)
(*                                                                         *)
(* The argument is IInv.  What is heard next is in order if what is queued *)
(* is (Queue): the pieces wait sorted, behind the one in hand, none is     *)
(* missing, and a task begins only when every earlier one is made          *)
(* (InTurn).  A record on disk is true of the device if the player is      *)
(* where the counts say (Counts, Sound): a piece is heard after the start  *)
(* of its task is stored, and a task completes when all its pieces are     *)
(* counted, each of which was heard.  All of it has to survive a store     *)
(* that fails (lostStore), after which memory knows more than the disk     *)
(* (Records), and a process that is gone (Gone), after which the disk is   *)
(* all that is known (Heard).                                              *)
(*                                                                         *)
(* A lemma named after an action, QueuePieceKeeps for QueuePiece, says     *)
(* that the action keeps IInv; it treats each part of IInv in a step.      *)
(***************************************************************************)
EXTENDS SpeechWorkers, SequenceTheorems, WellFoundedInduction, TLAPS

-----------------------------------------------------------------------------
(***************************************************************************)
(* The inductive invariant                                                 *)
(***************************************************************************)

\* The threads of the service exist.
Live == mode \in {"up", "closing"}

\* A task the threads have begun and not ended.
Begun(j) == job[j].status \in {"processing", "ready", "playing"}

\* The playback thread has taken a piece it has not counted yet.
InHand == {"open", "begin", "feed", "fed", "sound"}
Fetched(j) == job[j].played + IF playing[1] = j /\ playStep \in InHand THEN 1 ELSE 0

\* The order in which pieces are to be heard.
Before(a, b) == a[1] < b[1] \/ (a[1] = b[1] /\ a[2] < b[2])

\* The disk knows that the task has ended.
StoredEnded(j) == stored[j].status \in TERMINAL

\* A process that is gone has left nothing in memory.
Gone ==
  ~Live =>
    /\ job = [j \in Jobs |-> Absent] /\ playQueue = <<>>
    /\ active = NoJob /\ step = "ended"
    /\ activePlay = NoJob /\ playing = NoPiece /\ playStep = "ended" /\ player = NoPlayer
    /\ ~broken /\ ~unstored /\ restore = {}

\* Where the threads are and what they have in hand there; until close there is
\* nothing to restore.
Places ==
  /\ unstored => lostStore
  /\ step = "idle" => active = NoJob
  /\ playStep \notin PlaySteps => playing = NoPiece
  /\ playStep \notin PlaySteps \ {"open"} => activePlay = NoJob /\ player = NoPlayer
  /\ activePlay \in {NoJob, Played}
  /\ active # NoJob => job[active].status \notin {"none", "queued"}
  /\ Played # NoJob => job[Played].status \notin {"none", "queued"} /\ kind[Played] # "silent"
  /\ playStep \in {"feed", "fed", "next"} => kind[Played] = "stream"
  /\ playStep = "sound" => kind[Played] = "pieces"
  /\ mode = "up" => restore = {}

\* Every look at the player's steps but the first finds the task in active_play,
\* unless it ended.
Sounding == PlaySteps \ {"open"}
Held ==
  \A j \in Jobs : j = Played /\ playStep \in Sounding => activePlay = j \/ Ended(j)

\* No more is played than was made, nor made than there is to make.
CountsOf(j) ==
  /\ job[j].status \in {"none", "queued"} => job[j].made = 0
  /\ Fetched(j) <= job[j].made /\ job[j].made <= Pieces[j]
  /\ job[j].done => job[j].made = Pieces[j]
  /\ job[j].done /\ kind[j] = "silent" => Ended(j)
  /\ job[j].done /\ kind[j] = "pieces" /\ ~Ended(j) => job[j].played < Pieces[j]

\* Synthesis has pieces left to make until it joins them.
PieceMade ==
  /\ step = "synth" => job[active].made < Pieces[active]
  /\ step = "join" => job[active].made = Pieces[active]

\* The piece in hand is the next one to count, or the last that was counted.
PieceInHand ==
  /\ playStep \in InHand => playing[2] = job[Played].played + 1
  /\ playStep = "next" => playing[2] = job[Played].played
  /\ Played # NoJob => playing[2] <= job[Played].made

Counts == (\A j \in Jobs : CountsOf(j)) /\ PieceMade /\ PieceInHand

\* Memory and disk agree about a task, as far as a restart uses it.
RecordOf(j) ==
  /\ job[j].status = "none" <=> stored[j].status = "none"
  /\ StoredEnded(j) => Ended(j)
  /\ stored[j].started => job[j].started
  /\ j \in pending => job[j].status = "queued" \/ Ended(j)
  /\ job[j].status = "queued" => j \in pending
  /\ ~lostStore /\ j \in pending => job[j].status = "queued" /\ stored[j].status = "queued"
  /\ ~lostStore /\ Ended(j) =>
       \/ StoredEnded(j)
       \/ j = active /\ step \in WorkerSteps
       \/ j = Played /\ playStep = "reap"

Records == Live => \A j \in Jobs : RecordOf(j)

\* Tasks are admitted and begun in the order of the disk queue, and the synthesis
\* thread leaves none half made.
InTurn ==
  /\ \A i, j \in Jobs : i < j /\ stored[i].status = "none" => stored[j].status = "none"
  /\ \A k, j \in Jobs : Begun(k) /\ job[j].status = "queued" => k < j
  /\ step \in WorkerSteps => \A k \in Jobs : Begun(k) => k <= active
  /\ mode = "up" => \A j \in Jobs : Begun(j) =>
       job[j].done \/ (j = active /\ step \in {"synth", "join"})

\* Piece p of task j waits for playback.
Waits(j, p) == \E i \in 1 .. Len(playQueue) : playQueue[i] = <<j, p>>

\* What waits for playback is of tasks that have not ended, and made already.
WaitingIsMade ==
  \A j \in Jobs, p \in PieceNumbers : Waits(j, p) =>
    /\ ~Ended(j) /\ kind[j] # "silent"
    /\ Fetched(j) < p /\ p <= job[j].made

\* What waits does so in the order in which it is to be heard,
Sorted ==
  \A i, k \in 1 .. Len(playQueue) : i < k => Before(playQueue[i], playQueue[k])

\* behind the piece in hand,
NotOvertaken ==
  \A j \in Jobs : j = Played /\ ~Ended(j) =>
    \A i \in 1 .. Len(playQueue) : Before(playing, playQueue[i])

\* and every piece made and not yet taken waits.
NothingSkipped ==
  mode = "up" =>
    \A j \in Jobs : ~Ended(j) /\ kind[j] # "silent" =>
      \A p \in PieceNumbers : Fetched(j) < p /\ p <= job[j].made => Waits(j, p)

\* One player plays all of a continuous task.
StreamIsWhole ==
  /\ mode = "up" =>
       \A j \in Jobs : kind[j] = "stream" /\ ~Ended(j) /\ (Played # j \/ playStep = "open")
                         => job[j].played = 0
  /\ \A j \in Jobs : j = Played /\ playStep = "reap" => kind[j] = "pieces" \/ Ended(j)

Queue == WaitingIsMade /\ Sorted /\ NotOvertaken /\ NothingSkipped /\ StreamIsWhole

\* A player has the pieces of the task in hand up to the piece in hand, without a gap;
\* all it passed on was heard.  As long as no store has failed, every earlier task has
\* ended on disk and nothing of a later one was heard.
PlayerSound ==
  player.up =>
       /\ mode = "up" /\ Played # NoJob /\ player.of = Played /\ activePlay = Played
       /\ player.out <= player.fed /\ player.fed <= playing[2]
       /\ ~player.fast => player.out = player.fed
       /\ player.fast => Played \in filtered
       /\ job[Played].status # "cancelled"
       /\ job[Played].status = "completed" => playStep = "reap" /\ player.out = player.fed
       /\ playStep \in {"begin", "feed"} => player.fed = playing[2] - 1
       /\ playStep \in {"fed", "next", "sound"} => player.fed = playing[2]
       /\ kind[Played] = "pieces" => playStep \in {"sound", "reap"} /\ player.out = player.fed
       /\ \A p \in 1 .. player.out : <<Played, p>> \in heard
       /\ ~lostStore =>
            /\ \A k \in Jobs : k < Played => StoredEnded(k)
            /\ \A j \in Jobs, p \in PieceNumbers : <<j, p>> \in heard => j <= Played

\* A piece is heard after the start of its task was recorded and before it is counted.
Sound ==
  /\ PlayerSound
  /\ playStep = "feed" /\ player.up /\ ~player.fast => stored[Played].started \/ lostStore
  /\ playStep = "begin" /\ kind[Played] = "pieces" =>
        Ended(Played) \/ stored[Played].started \/ lostStore
  /\ \A j \in Jobs : kind[j] = "pieces" =>
       \A p \in 1 .. job[j].played : <<j, p>> \in heard
  /\ playStep = "sound" => playing \in heard

\* What the disk says of the device, and what close may put back to be spoken again: a
\* task of which something was heard comes back only through the tempo filter, whose
\* output the service does not see.
Heard ==
  /\ \A j \in Jobs : stored[j].status = "completed" /\ kind[j] # "silent" =>
       \A p \in 1 .. Pieces[j] : <<j, p>> \in heard
  /\ ~lostStore =>
       \A j \in Jobs, p \in PieceNumbers : <<j, p>> \in heard =>
         \A k \in Jobs : k < j => StoredEnded(k)
  /\ ~lostStore =>
       \A k \in restore, j \in Jobs, p \in PieceNumbers :
         <<j, p>> \in heard => j <= k /\ (j = k => k \in filtered)
  /\ \A j \in Jobs, p \in PieceNumbers : <<j, p>> \in heard => stored[j].status # "none"

\* While the service closes: what is copied to be restored has ended in memory, and what
\* is to be kept is among the copies or still queued on disk.
Keeping ==
  mode = "closing" =>
    /\ restore \subseteq kept
    /\ \A j \in restore : Ended(j)
    /\ ~lostStore => \A j \in kept :
         j \in restore \/ (j \in pending /\ stored[j].status = "queued")

-----------------------------------------------------------------------------
(***************************************************************************)
(* The queue without the pieces of some tasks                              *)
(***************************************************************************)

\* A set of numbers that has a member has a least one.
LEMMA LeastIndex ==
  ASSUME NEW T \in SUBSET Nat, T # {}
  PROVE  \E x \in T : \A y \in T : x <= y
<1>1. \E x \in T : \A y \in T : ~ (<<y, x>> \in OpToRel(<, Nat))
  BY NatLessThanWellFounded, WFMin
<1>2. PICK x \in T : \A y \in T : ~ (<<y, x>> \in OpToRel(<, Nat))
  BY <1>1
<1>3. \A y \in T : ~ (y < x)
  BY <1>2 DEF OpToRel
<1> QED BY <1>3

\* What is kept of the first n pieces.
Rest(q, f, n, S) ==
  f = [i \in 0 .. n |-> IF i = 0 THEN <<>>
                        ELSE IF q[i][1] \in S THEN f[i - 1]
                        ELSE Append(f[i - 1], q[i])]

\* The recursion that Without follows has a solution, by induction on the pieces gone
\* through: there is no least place where it fails.
LEMMA RestExists ==
  ASSUME NEW A, NEW q \in Seq(A), NEW S
  PROVE  \E f : Rest(q, f, Len(q), S)
<1> DEFINE T == {n \in Nat : n <= Len(q) /\ ~ \E f : Rest(q, f, n, S)}
<1>0. Len(q) \in Nat /\ Len(q) <= Len(q)
  BY LenProperties
<1> SUFFICES ASSUME T # {} PROVE FALSE
  BY Zenon, <1>0
<1>1. PICK n \in T : \A y \in T : n <= y
  BY LeastIndex
<1>2. CASE n = 0
  <2> DEFINE g == [i \in 0 .. 0 |-> <<>>]
  <2>1. Rest(q, g, 0, S)
    BY DEF Rest
  <2> QED BY <1>1, <1>2, <2>1
<1>3. CASE n # 0
  <2>1. n - 1 \in Nat /\ n - 1 < n /\ n - 1 <= Len(q) /\ n \in Nat
    BY <1>3, LenProperties
  <2>2. PICK f : Rest(q, f, n - 1, S)
    BY <2>1, <1>1
  <2> DEFINE g == [i \in 0 .. n |-> IF i < n THEN f[i]
                       ELSE IF q[n][1] \in S THEN f[n - 1]
                        ELSE Append(f[n - 1], q[n])]
  <2>3. ASSUME NEW i \in 0 .. n
        PROVE g[i] = IF i = 0 THEN <<>>
                        ELSE IF q[i][1] \in S THEN g[i - 1]
                        ELSE Append(g[i - 1], q[i])
    <3>1. CASE i = n
      BY <3>1, <1>3, <2>1
    <3>2. CASE i # n
      <4>1. i \in 0 .. (n - 1) /\ g[i] = f[i]
        BY <3>2, <2>1
      <4>2. f[i] = IF i = 0 THEN <<>>
                        ELSE IF q[i][1] \in S THEN f[i - 1]
                        ELSE Append(f[i - 1], q[i])
        BY <4>1, <2>2 DEF Rest
      <4>3. i # 0 => g[i - 1] = f[i - 1]
        BY <4>1, <2>1
      <4> QED BY <4>1, <4>2, <4>3
    <3> QED BY <3>1, <3>2
  <2>4. Rest(q, g, n, S)
    BY <2>3 DEF Rest
  <2> QED BY <1>1, <2>4
<1> QED BY <1>2, <1>3

\* w holds the pieces kept, as far as the queue has been gone through.
Kept(q, A, w, n, S) ==
  /\ w \in Seq(A) /\ Len(w) <= n
  /\ \A i \in 1 .. Len(w) : \E k \in 1 .. n : w[i] = q[k] /\ q[k][1] \notin S
  /\ \A k \in 1 .. n : q[k][1] \notin S => \E i \in 1 .. Len(w) : w[i] = q[k]
  /\ \A i, j \in 1 .. Len(w) : i < j =>
        \E k, l \in 1 .. n : k < l /\ w[i] = q[k] /\ w[j] = q[l]

\* One more piece of the queue is gone through.
LEMMA KeptStep ==
  ASSUME NEW A, NEW q \in Seq(A), NEW S, NEW n \in 1 .. Len(q), NEW w, Kept(q, A, w, n - 1, S)
  PROVE  /\ q[n][1] \in S => Kept(q, A, w, n, S)
         /\ q[n][1] \notin S => Kept(q, A, Append(w, q[n]), n, S)
<1>0. /\ w \in Seq(A) /\ Len(w) \in Nat /\ q[n] \in A /\ n \in Nat
      /\ n - 1 \in Nat /\ 1 .. (n - 1) \subseteq 1 .. n
  BY LenProperties, ElementOfSeq DEF Kept
<1>1. ASSUME q[n][1] \in S PROVE Kept(q, A, w, n, S)
  <2>1. \A k \in 1 .. n : q[k][1] \notin S => k \in 1 .. (n - 1)
    BY <1>0, <1>1
  <2> QED BY <1>0, <2>1 DEF Kept
<1>2. ASSUME q[n][1] \notin S PROVE Kept(q, A, Append(w, q[n]), n, S)
  <2> DEFINE v == Append(w, q[n])
  <2>1. /\ v \in Seq(A) /\ Len(v) = Len(w) + 1
        /\ \A i \in 1 .. Len(w) : v[i] = w[i]
        /\ v[Len(w) + 1] = q[n]
    BY <1>0, AppendProperties
  <2> HIDE DEF v
  <2>2. \A i \in 1 .. Len(v) : i \in 1 .. Len(w) \/ i = Len(w) + 1
    BY <1>0, <2>1
  <2>3. \A i \in 1 .. Len(v) : \E k \in 1 .. n : v[i] = q[k] /\ q[k][1] \notin S
    <3> SUFFICES ASSUME NEW i \in 1 .. Len(v)
                 PROVE  \E k \in 1 .. n : v[i] = q[k] /\ q[k][1] \notin S
      OBVIOUS
    <3>1. CASE i \in 1 .. Len(w)
      <4>1. PICK k \in 1 .. (n - 1) : w[i] = q[k] /\ q[k][1] \notin S
        BY <3>1 DEF Kept
      <4> QED BY <4>1, <3>1, <1>0, <2>1
    <3>2. CASE i = Len(w) + 1
      BY <3>2, <1>0, <1>2, <2>1
    <3> QED BY <2>2, <3>1, <3>2
  <2>4. \A k \in 1 .. n : q[k][1] \notin S => \E i \in 1 .. Len(v) : v[i] = q[k]
    <3> SUFFICES ASSUME NEW k \in 1 .. n, q[k][1] \notin S PROVE \E i \in 1 .. Len(v) : v[i] = q[k]
      OBVIOUS
    <3>1. CASE k = n
      BY <3>1, <2>1, <1>0
    <3>2. CASE k # n
      <4>1. k \in 1 .. (n - 1)
        BY <3>2
      <4>2. PICK i \in 1 .. Len(w) : w[i] = q[k]
        BY <4>1 DEF Kept
      <4> QED BY <4>2, <2>1, <1>0
    <3> QED BY <3>1, <3>2
  <2>5. ASSUME NEW i \in 1 .. Len(v), NEW j \in 1 .. Len(v), i < j
        PROVE \E k, l \in 1 .. n : k < l /\ v[i] = q[k] /\ v[j] = q[l]
    <3>1. CASE j = Len(w) + 1
      <4>1. i \in 1 .. Len(w)
        BY <3>1, <2>5, <1>0, <2>1
      <4>2. PICK k \in 1 .. (n - 1) : w[i] = q[k]
        BY <4>1 DEF Kept
      <4> QED BY <4>1, <4>2, <2>1, <3>1, <1>0
    <3>2. CASE j # Len(w) + 1
      <4>1. i \in 1 .. Len(w) /\ j \in 1 .. Len(w)
        BY <3>2, <2>2, <2>5, <1>0, <2>1
      <4>2. PICK k \in 1 .. (n - 1), l \in 1 .. (n - 1) : k < l /\ w[i] = q[k] /\ w[j] = q[l]
        BY <4>1, <2>5 DEF Kept
      <4> QED BY <4>1, <4>2, <2>1, <1>0
    <3> QED BY <3>1, <3>2
  <2>6. Len(v) <= n
    BY <2>1, <1>0 DEF Kept
  <2>7. Kept(q, A, v, n, S)
    BY <2>1, <2>3, <2>4, <2>5, <2>6 DEF Kept
  <2> QED BY <2>7 DEF v
<1> QED BY <1>1, <1>2

\* What the queue is without S: all that waits of other tasks, nothing else, in order.
LEMMA WithoutIsKept ==
  ASSUME NEW A, playQueue \in Seq(A), NEW S
  PROVE  Kept(playQueue, A, Without(S), Len(playQueue), S)
<1> DEFINE F == CHOOSE f : Rest(playQueue, f, Len(playQueue), S)
<1>1. Rest(playQueue, F, Len(playQueue), S)
  BY RestExists
<1>2. Without(S) = F[Len(playQueue)]
  BY DEF Without, Rest
<1> HIDE DEF F
<1> DEFINE T == {n \in Nat : n <= Len(playQueue) /\ ~ Kept(playQueue, A, F[n], n, S)}
<1>3. Len(playQueue) \in Nat
  BY LenProperties
<1> SUFFICES ASSUME T # {} PROVE FALSE
  BY <1>2, <1>3
<1>4. PICK n \in T : \A y \in T : n <= y
  BY LeastIndex
<1>5. /\ F[0] = <<>>
      /\ \A i \in 1 .. Len(playQueue) :
           F[i] = IF playQueue[i][1] \in S THEN F[i - 1] ELSE Append(F[i - 1], playQueue[i])
  <2>1. F = [i \in 0 .. Len(playQueue) |-> IF i = 0 THEN <<>>
                        ELSE IF playQueue[i][1] \in S THEN F[i - 1]
                        ELSE Append(F[i - 1], playQueue[i])]
    BY <1>1 DEF Rest
  <2> HIDE <1>1
  <2>2. \A i \in 0 .. Len(playQueue) : F[i] = IF i = 0 THEN <<>>
                        ELSE IF playQueue[i][1] \in S THEN F[i - 1]
                        ELSE Append(F[i - 1], playQueue[i])
    BY Zenon, <2>1
  <2> QED BY <2>2, <1>3
<1>6. CASE n = 0
  <2>1. F[n] = <<>> /\ <<>> \in Seq(A) /\ Len(<<>>) = 0
    BY <1>5, <1>6, EmptySeq
  <2>2. Kept(playQueue, A, <<>>, 0, S)
    BY <2>1 DEF Kept
  <2> QED BY <2>1, <2>2, <1>4, <1>6
<1>7. CASE n # 0
  <2>1. n - 1 \in Nat /\ n - 1 < n /\ n - 1 <= Len(playQueue) /\ n \in 1 .. Len(playQueue)
    BY <1>7, <1>3
  <2>2. Kept(playQueue, A, F[n - 1], n - 1, S)
    BY <2>1, <1>4
  <2> QED BY <2>1, <2>2, <1>5, KeptStep, <1>4
<1> QED BY <1>6, <1>7

IInv ==
  /\ TypeOK /\ Gone /\ Places /\ Held /\ Counts /\ Records /\ InTurn
  /\ Queue /\ Sound /\ Heard /\ Keeping /\ RecordIsTrue /\ CloseKeepsTasks

-----------------------------------------------------------------------------
(***************************************************************************)
(* Types                                                                   *)
(***************************************************************************)

MemoryRecord == [status : Statuses, made : Nat, played : Nat,
                 done : BOOLEAN, started : BOOLEAN]
DiskRecord == [status : Statuses, started : BOOLEAN]

\* NoJob is no task, every task has a piece, and the pieces are numbered.
LEMMA JobNumbers ==
  /\ NoJob = 0 /\ NoJob \notin Jobs /\ Jobs \subseteq Nat
  /\ \A j \in Jobs : Pieces[j] \in Nat \ {0}
  /\ PieceNumbers \subseteq Nat \ {0}
  /\ \A j \in Jobs : \A p \in 1 .. Pieces[j] : p \in PieceNumbers
BY SpeechWorkersAssumption DEF Jobs, NoJob, PieceNumbers

\* The piece the playback thread has taken is a piece of a task.
LEMMA PieceTaken ==
  ASSUME TypeOK
  PROVE  /\ Played \in Jobs \cup {NoJob}
         /\ Played \in Jobs => playing[2] \in PieceNumbers /\ playing \in Jobs \X PieceNumbers
         /\ playStep \in PlaySteps => Played \in Jobs
BY JobNumbers DEF TypeOK, Played, NoPiece

\* What waits for playback is pieces of tasks.
LEMMA PiecesQueued ==
  ASSUME TypeOK
  PROVE  /\ Len(playQueue) \in Nat
         /\ \A i \in 1 .. Len(playQueue) :
              /\ playQueue[i] \in Jobs \X PieceNumbers
              /\ playQueue[i][1] \in Jobs /\ playQueue[i][2] \in PieceNumbers
<1>1. playQueue \in Seq(Jobs \X PieceNumbers)
  BY DEF TypeOK
<1>2. Len(playQueue) \in Nat
  BY <1>1, LenProperties
<1>3. \A i \in 1 .. Len(playQueue) : playQueue[i] \in Jobs \X PieceNumbers
  BY <1>1, ElementOfSeq
<1> QED BY <1>2, <1>3

\* A record brought in line with the disk only gains a start.
LEMMA SyncedRecord ==
  ASSUME NEW j \in Jobs, NEW r \in MemoryRecord
  PROVE  /\ Synced(j, r) \in MemoryRecord
         /\ Synced(j, r).status = r.status
         /\ Synced(j, r).made = r.made /\ Synced(j, r).played = r.played
         /\ Synced(j, r).done = r.done
         /\ r.started => Synced(j, r).started
BY DEF Synced, MemoryRecord

\* What a save of the tasks S writes, in memory and, unless a store failed, on disk.
LEMMA Saved ==
  ASSUME TypeOK, NEW S, NEW mem \in [Jobs -> MemoryRecord], Save(S, mem)
  PROVE  /\ job' \in [Jobs -> MemoryRecord] /\ stored' \in [Jobs -> DiskRecord]
         /\ \A j \in Jobs :
              /\ job'[j].status = mem[j].status
              /\ job'[j].made = mem[j].made /\ job'[j].played = mem[j].played
              /\ job'[j].done = mem[j].done
              /\ mem[j].started => job'[j].started
              /\ j \notin S => job'[j] = mem[j] /\ stored'[j] = stored[j]
              /\ unstored => stored'[j] = stored[j]
              /\ j \in S /\ ~unstored => /\ stored'[j].status = job'[j].status
                                         /\ stored'[j].started = job'[j].started
<1>1. /\ job' = [j \in Jobs |-> IF j \in S THEN Synced(j, mem[j]) ELSE mem[j]]
      /\ stored' = [j \in Jobs |-> IF j \in S /\ ~unstored
                                   THEN OnDisk(Synced(j, mem[j])) ELSE stored[j]]
  BY DEF Save
<1>2. \A j \in Jobs : mem[j] \in MemoryRecord /\ stored[j] \in DiskRecord
  BY DEF TypeOK, DiskRecord
<1>3. \A j \in Jobs : Synced(j, mem[j]) \in MemoryRecord
                      /\ OnDisk(Synced(j, mem[j])) \in DiskRecord
  BY <1>2, SyncedRecord DEF OnDisk, MemoryRecord, DiskRecord
<1>4. job' \in [Jobs -> MemoryRecord] /\ stored' \in [Jobs -> DiskRecord]
  BY <1>1, <1>2, <1>3
<1>5. ASSUME NEW j \in Jobs
      PROVE  /\ job'[j].status = mem[j].status
             /\ job'[j].made = mem[j].made /\ job'[j].played = mem[j].played
             /\ job'[j].done = mem[j].done
             /\ mem[j].started => job'[j].started
             /\ j \notin S => job'[j] = mem[j] /\ stored'[j] = stored[j]
             /\ unstored => stored'[j] = stored[j]
             /\ j \in S /\ ~unstored => /\ stored'[j].status = job'[j].status
                                        /\ stored'[j].started = job'[j].started
  <2>1. /\ job'[j] = IF j \in S THEN Synced(j, mem[j]) ELSE mem[j]
        /\ stored'[j] = IF j \in S /\ ~unstored THEN OnDisk(Synced(j, mem[j])) ELSE stored[j]
    BY <1>1
  <2> QED BY <1>2, <2>1, SyncedRecord DEF OnDisk
<1> QED BY <1>4, <1>5

\* The type invariant, by who writes the state.
PlayerRecord == [of : Jobs \cup {NoJob}, fast : BOOLEAN, up : BOOLEAN, fed : Nat, out : Nat]

TypedTasks ==
  /\ job \in [Jobs -> MemoryRecord] /\ stored \in [Jobs -> DiskRecord]
  /\ kind \in [Jobs -> AllKinds] /\ pending \subseteq Jobs
  /\ playQueue \in Seq(Jobs \X PieceNumbers)

TypedWorker ==
  /\ active \in Jobs \cup {NoJob} /\ step \in WorkerSteps \cup {"idle", "ended"}
  /\ step \in WorkerSteps => active \in Jobs

TypedPlayer ==
  /\ activePlay \in Jobs \cup {NoJob}
  /\ playStep \in PlaySteps \cup {"wait", "ended"}
  /\ playing \in (Jobs \X PieceNumbers) \cup {NoPiece}
  /\ playStep \in PlaySteps => playing # NoPiece
  /\ player \in PlayerRecord

TypedFaults ==
  /\ broken \in BOOLEAN /\ unstored \in BOOLEAN /\ lostStore \in BOOLEAN
  /\ faults \in 0 .. MaxFaults

TypedService ==
  /\ mode \in {"up", "closing", "closed", "down"}
  /\ restarts \in 0 .. MaxRestarts
  /\ restore \subseteq Jobs /\ kept \subseteq Jobs
  /\ filtered \subseteq Jobs
  /\ heard \subseteq Jobs \X PieceNumbers

\* The type invariant is its parts, in this state
LEMMA Typed ==
  ASSUME TypeOK
  PROVE  TypedTasks /\ TypedWorker /\ TypedPlayer /\ TypedFaults /\ TypedService
<1>1. TypedTasks
  BY DEF TypeOK, TypedTasks, MemoryRecord, DiskRecord
<1>2. TypedWorker
  BY DEF TypeOK, TypedWorker
<1>3. TypedPlayer
  BY DEF TypeOK, TypedPlayer, PlayerRecord
<1>4. TypedFaults /\ TypedService
  BY DEF TypeOK, TypedFaults, TypedService
<1> QED BY <1>1, <1>2, <1>3, <1>4

\* and in the next.
LEMMA TypesHold ==
  ASSUME TypedTasks', TypedWorker', TypedPlayer', TypedFaults', TypedService'
  PROVE  TypeOK'
<1>1. job' \in [Jobs -> [status : Statuses, made : Nat, played : Nat,
                         done : BOOLEAN, started : BOOLEAN]]
  BY DEF TypedTasks, MemoryRecord
<1>2. stored' \in [Jobs -> [status : Statuses, started : BOOLEAN]]
  BY DEF TypedTasks, DiskRecord
<1>3. player' \in [of : Jobs \cup {NoJob}, fast : BOOLEAN, up : BOOLEAN, fed : Nat, out : Nat]
  BY DEF TypedPlayer, PlayerRecord
<1> QED BY <1>1, <1>2, <1>3
           DEF TypedTasks, TypedWorker, TypedPlayer, TypedFaults, TypedService, TypeOK

\* The records under the invariant; a task that is begun has not ended.
LEMMA Shape ==
  ASSUME IInv
  PROVE  /\ job \in [Jobs -> MemoryRecord] /\ stored \in [Jobs -> DiskRecord]
         /\ \A j \in Jobs : job[j] \in MemoryRecord /\ stored[j] \in DiskRecord
         /\ \A j \in Jobs : Begun(j) <=> ~Ended(j) /\ job[j].status \notin {"none", "queued"}
BY DEF IInv, TypeOK, MemoryRecord, DiskRecord, Begun, Ended, TERMINAL, Statuses

\* The counts of a task are numbers, and no more of it is played than was made.
LEMMA FetchedCount ==
  ASSUME IInv
  PROVE  \A j \in Jobs :
           /\ job[j].played \in Nat /\ job[j].made \in Nat /\ Fetched(j) \in Nat
           /\ CountsOf(j) /\ Fetched(j) <= job[j].made /\ job[j].played <= job[j].made
           /\ j # Played \/ playStep \notin InHand => Fetched(j) = job[j].played
           /\ j = Played /\ playStep \in InHand => Fetched(j) = job[j].played + 1
<1> SUFFICES ASSUME NEW j \in Jobs
             PROVE  /\ job[j].played \in Nat /\ job[j].made \in Nat /\ Fetched(j) \in Nat
                    /\ CountsOf(j) /\ Fetched(j) <= job[j].made /\ job[j].played <= job[j].made
                    /\ j # Played \/ playStep \notin InHand => Fetched(j) = job[j].played
                    /\ j = Played /\ playStep \in InHand => Fetched(j) = job[j].played + 1
  OBVIOUS
<1>1. job[j].played \in Nat /\ job[j].made \in Nat
  BY Shape DEF MemoryRecord
<1>2. /\ Fetched(j) \in Nat
      /\ j # Played \/ playStep \notin InHand => Fetched(j) = job[j].played
      /\ j = Played /\ playStep \in InHand => Fetched(j) = job[j].played + 1
  BY <1>1 DEF Fetched, Played
<1>3. CountsOf(j)
  BY DEF IInv, Counts
<1>4. Fetched(j) <= job[j].made
  BY <1>3 DEF CountsOf
<1>5. job[j].played <= job[j].made
  BY <1>1, <1>2, <1>4
<1> QED BY <1>1, <1>2, <1>3, <1>4, <1>5

\* What a save of one task writes.
LEMMA SavedOne ==
  ASSUME IInv, NEW a \in Jobs, NEW mem \in [Jobs -> MemoryRecord], Save({a}, mem)
  PROVE  /\ job' \in [Jobs -> MemoryRecord] /\ stored' \in [Jobs -> DiskRecord]
         /\ \A j \in Jobs : j # a => job'[j] = mem[j] /\ stored'[j] = stored[j]
         /\ job'[a].status = mem[a].status
         /\ job'[a].made = mem[a].made /\ job'[a].played = mem[a].played
         /\ job'[a].done = mem[a].done
         /\ mem[a].started => job'[a].started
         /\ unstored => stored'[a] = stored[a]
         /\ ~unstored => stored'[a].status = job'[a].status /\ stored'[a].started = job'[a].started
<1>1. TypeOK
  BY DEF IInv
<1>2. /\ job' \in [Jobs -> MemoryRecord] /\ stored' \in [Jobs -> DiskRecord]
      /\ \A j \in Jobs :
           /\ job'[j].status = mem[j].status
           /\ job'[j].made = mem[j].made /\ job'[j].played = mem[j].played
           /\ job'[j].done = mem[j].done
           /\ mem[j].started => job'[j].started
           /\ j \notin {a} => job'[j] = mem[j] /\ stored'[j] = stored[j]
           /\ unstored => stored'[j] = stored[j]
           /\ j \in {a} /\ ~unstored => /\ stored'[j].status = job'[j].status
                                        /\ stored'[j].started = job'[j].started
  BY <1>1, Saved
<1> QED BY <1>2

-----------------------------------------------------------------------------
(***************************************************************************)
(* What steps of a kind leave alone                                        *)
(***************************************************************************)

\* What ended, and what was recorded as started, stays so on disk; what failed
\* to be stored is not forgotten.
DiskOnlyGrows ==
  /\ \A j \in Jobs : StoredEnded(j) => StoredEnded(j)'
  /\ \A j \in Jobs : stored[j].started => stored'[j].started
  /\ \A j \in Jobs : stored'[j].status = "none" => stored[j].status = "none"
  /\ lostStore => lostStore'

\* A task is not completed by this step unless all of it was heard.
CompletesHeard ==
  /\ \A j \in Jobs : job'[j].status = "completed" /\ kind[j] # "silent" =>
       job[j].status = "completed" \/ \A p \in 1 .. Pieces[j] : <<j, p>> \in heard
  /\ \A j \in Jobs : stored'[j].status = "completed" =>
       stored[j].status = "completed" \/ job'[j].status = "completed"

\* A step that nothing is heard in, and that completes only what was heard.
LEMMA NothingHeard ==
  ASSUME IInv, DiskOnlyGrows, CompletesHeard,
         UNCHANGED <<kind, heard, restore>>, filtered \subseteq filtered'
  PROVE  Heard' /\ RecordIsTrue'
<1>1. HeardOnRecord'
  BY DEF IInv, RecordIsTrue, HeardOnRecord, DiskOnlyGrows, StoredEnded
<1>2. CompletedWasHeard'
  BY DEF IInv, RecordIsTrue, CompletedWasHeard, CompletesHeard
<1>3. Heard'
  <2>1. (\A j \in Jobs : stored[j].status = "completed" /\ kind[j] # "silent" =>
           \A p \in 1 .. Pieces[j] : <<j, p>> \in heard)'
    BY <1>2 DEF IInv, Heard, CompletesHeard, CompletedWasHeard
  <2>2. (~lostStore =>
           \A j \in Jobs, p \in PieceNumbers : <<j, p>> \in heard =>
             \A k \in Jobs : k < j => StoredEnded(k))'
    BY DEF IInv, Heard, DiskOnlyGrows
  <2>3. (~lostStore =>
           \A k \in restore, j \in Jobs, p \in PieceNumbers :
             <<j, p>> \in heard => j <= k /\ (j = k => k \in filtered))'
    BY DEF IInv, Heard, DiskOnlyGrows
  <2>4. (\A j \in Jobs, p \in PieceNumbers : <<j, p>> \in heard => stored[j].status # "none")'
    BY DEF IInv, Heard, DiskOnlyGrows
  <2> QED BY <2>1, <2>2, <2>3, <2>4 DEF Heard
<1> QED BY <1>1, <1>2, <1>3 DEF RecordIsTrue

\* The playback thread and its player stay as they are, or the player is gone.
LEMMA PlayerUndisturbed ==
  ASSUME IInv, DiskOnlyGrows,
         UNCHANGED <<kind, heard, playing, playStep, filtered>>,
         player' = player \/ ~player'.up,
         player'.up => UNCHANGED <<mode, activePlay>>,
         \A j \in Jobs : job'[j].played = job[j].played,
         \A j \in Jobs : Ended(j) => Ended(j)',
         player'.up => job'[Played].status # "cancelled",
         player'.up /\ job'[Played].status = "completed" =>
           job[Played].status = "completed" \/ (playStep = "reap" /\ player.out = player.fed)
  PROVE  Sound'
<1>1. PlayerSound'
  BY PieceTaken DEF IInv, Sound, PlayerSound, DiskOnlyGrows, Played
<1>2. (playStep = "feed" /\ player.up /\ ~player.fast => stored[Played].started \/ lostStore)'
  BY PieceTaken DEF IInv, Sound, DiskOnlyGrows, Played, PlaySteps
<1>3. (playStep = "begin" /\ kind[Played] = "pieces" =>
        Ended(Played) \/ stored[Played].started \/ lostStore)'
  BY PieceTaken DEF IInv, Sound, DiskOnlyGrows, Played, PlaySteps
<1>4. (\A j \in Jobs : kind[j] = "pieces" =>
        \A p \in 1 .. job[j].played : <<j, p>> \in heard)'
  BY DEF IInv, Sound
<1>5. (playStep = "sound" => playing \in heard)'
  BY DEF IInv, Sound
<1> QED BY <1>1, <1>2, <1>3, <1>4, <1>5 DEF Sound

\* The queue after a task's next piece was put at its end.
LEMMA PieceAppended ==
  ASSUME IInv, NEW a \in Jobs, kind[a] # "silent", ~Ended(a)', NEW n \in Nat,
         n = job[a].made + 1, n \in PieceNumbers, job'[a].made = n,
         \A j \in Jobs : Begun(j) => j <= a,
         \A j \in Jobs : j # a => job'[j] = job[j],
         \A j \in Jobs : Ended(j)' <=> Ended(j),
         \A j \in Jobs : Fetched(j)' = Fetched(j),
         playQueue' = Append(playQueue, <<a, n>>),
         UNCHANGED <<kind, mode, playing>>
  PROVE  WaitingIsMade' /\ Sorted' /\ NotOvertaken' /\ NothingSkipped'
<1> USE JobNumbers
<1> DEFINE L == Len(playQueue)
<1>0. /\ \A j \in Jobs : job[j] \in MemoryRecord
      /\ \A j \in Jobs : Fetched(j) \in Nat /\ Fetched(j) <= job[j].made /\ job[j].made \in Nat
      /\ L \in Nat
  BY PiecesQueued, FetchedCount, Shape DEF IInv
<1>a. \A j \in Jobs : job'[j].made \in Nat /\ job[j].made <= job'[j].made
  <2> SUFFICES ASSUME NEW j \in Jobs PROVE job'[j].made \in Nat /\ job[j].made <= job'[j].made
    OBVIOUS
  <2> QED BY <1>0
<1>1. /\ Len(playQueue') = L + 1 /\ playQueue'[L + 1] = <<a, n>>
      /\ \A i \in 1 .. L : playQueue'[i] = playQueue[i]
  <2>1. playQueue \in Seq(Jobs \X PieceNumbers) /\ <<a, n>> \in Jobs \X PieceNumbers
    BY DEF IInv, TypeOK
  <2> QED BY <2>1, AppendProperties
<1>2. \A i \in 1 .. Len(playQueue') : i \in 1 .. L \/ i = L + 1
  BY <1>0, <1>1
<1>3. \A j \in Jobs, p \in PieceNumbers :
        Waits(j, p)' <=> Waits(j, p) \/ (j = a /\ p = n)
  <2> SUFFICES ASSUME NEW j \in Jobs, NEW p \in PieceNumbers
               PROVE  Waits(j, p)' <=> Waits(j, p) \/ (j = a /\ p = n)
    OBVIOUS
  <2>1. ASSUME Waits(j, p)' PROVE Waits(j, p) \/ (j = a /\ p = n)
    <3>1. PICK i \in 1 .. Len(playQueue') : playQueue'[i] = <<j, p>>
      BY <2>1 DEF Waits
    <3> QED BY <3>1, <1>1, <1>2 DEF Waits
  <2>2. ASSUME Waits(j, p) PROVE Waits(j, p)'
    <3>1. PICK i \in 1 .. L : playQueue[i] = <<j, p>>
      BY <2>2 DEF Waits
    <3>2. playQueue'[i] = <<j, p>> /\ i \in 1 .. Len(playQueue')
      BY <3>1, <1>1, <1>0
    <3> QED BY <3>2 DEF Waits
  <2>3. ASSUME j = a, p = n PROVE Waits(j, p)'
    <3>1. playQueue'[L + 1] = <<j, p>> /\ L + 1 \in 1 .. Len(playQueue')
      BY <2>3, <1>1, <1>0
    <3> QED BY <3>1 DEF Waits
  <2> QED BY <2>1, <2>2, <2>3
<1>4. WaitingIsMade'
  <2> SUFFICES ASSUME NEW j \in Jobs, NEW p \in PieceNumbers, Waits(j, p)'
               PROVE  /\ ~Ended(j)' /\ kind[j] # "silent"
                      /\ Fetched(j) < p /\ p <= job'[j].made
    BY DEF WaitingIsMade
  <2>1. CASE Waits(j, p)
    <3>1. ~Ended(j) /\ kind[j] # "silent" /\ Fetched(j) < p /\ p <= job[j].made
      BY <2>1 DEF IInv, Queue, WaitingIsMade
    <3>2. job[j].made \in Nat /\ job'[j].made \in Nat /\ job[j].made <= job'[j].made /\ p \in Nat
      BY <1>0, <1>a
    <3>3. p <= job'[j].made
      BY <3>1, <3>2
    <3> QED BY <3>1, <3>3
  <2>2. CASE j = a /\ p = n
    BY <2>2, <1>0
  <2> QED BY <1>3, <2>1, <2>2
<1>5. \A i \in 1 .. L : playQueue[i][1] \in Jobs /\ playQueue[i][2] \in PieceNumbers
                        /\ Waits(playQueue[i][1], playQueue[i][2])
  BY PiecesQueued DEF IInv, Waits
<1>7. \A i \in 1 .. L : Before(playQueue[i], <<a, n>>)
  <2>1. ASSUME NEW j \in Jobs, NEW p \in PieceNumbers, Waits(j, p)
        PROVE  j < a \/ (j = a /\ p < n)
    <3>1. ~Ended(j) /\ p <= job[j].made
      BY <2>1 DEF IInv, Queue, WaitingIsMade
    <3>2. CountsOf(j) /\ job[j] \in MemoryRecord /\ p \in Nat \ {0} /\ job[j].made \in Nat
      BY <1>0 DEF IInv, Counts
    <3>3. job[j].status \notin {"none", "queued"}
      BY <3>1, <3>2 DEF CountsOf
    <3>4. Begun(j)
      BY <3>1, <3>2, <3>3 DEF Begun, Ended, TERMINAL, MemoryRecord, Statuses
    <3>5. j <= a
      BY <3>4
    <3>6. ASSUME j = a PROVE p < n
      <4>1. p <= job[a].made /\ job[a].made \in Nat /\ p \in Nat
        BY <3>1, <3>2, <3>6
      <4> QED BY <4>1
    <3> QED BY <3>5, <3>6
  <2> SUFFICES ASSUME NEW i \in 1 .. L
               PROVE  playQueue[i][1] < a \/ (playQueue[i][1] = a /\ playQueue[i][2] < n)
    BY DEF Before
  <2> QED BY <1>5, <2>1
<1>8. Sorted'
  <2> SUFFICES ASSUME NEW i \in 1 .. Len(playQueue'), NEW k \in 1 .. Len(playQueue'), i < k
               PROVE  Before(playQueue'[i], playQueue'[k])
    BY DEF Sorted, Before
  <2>1. i \in 1 .. L
    BY <1>0, <1>1
  <2>2. CASE k \in 1 .. L
    BY <2>1, <2>2, <1>1 DEF IInv, Queue, Sorted
  <2>3. CASE k = L + 1
    BY <2>1, <2>3, <1>1, <1>7
  <2> QED BY <1>2, <2>2, <2>3
<1>9. NotOvertaken'
  <2> SUFFICES ASSUME NEW j \in Jobs, j = Played, ~Ended(j), NEW i \in 1 .. Len(playQueue')
               PROVE  Before(playing, playQueue'[i])
    BY DEF NotOvertaken, Before, Played
  <2>1. CASE i \in 1 .. L
    BY <2>1, <1>1 DEF IInv, Queue, NotOvertaken
  <2>2. CASE i = L + 1
    <3>1. job[j].status \notin {"none", "queued"}
      BY DEF IInv, Places
    <3>2. Begun(j)
      BY <3>1, <1>0 DEF Begun, Ended, TERMINAL, MemoryRecord, Statuses
    <3>3. playing[2] <= job[j].made /\ playing[2] \in Nat
      BY PieceTaken DEF IInv, Counts, PieceInHand
    <3>4. j <= a /\ (j = a => playing[2] < n)
      <4>1. j <= a
        BY <3>2
      <4>2. ASSUME j = a PROVE playing[2] < n
        <5>1. playing[2] <= job[a].made /\ job[a].made \in Nat
          BY <3>3, <4>2, <1>0
        <5> QED BY <5>1, <3>3
      <4> QED BY <4>1, <4>2
    <3> QED BY <2>2, <1>1, <3>4 DEF Before, Played
  <2> QED BY <1>2, <2>1, <2>2
<1>10. NothingSkipped'
  <2> SUFFICES ASSUME mode = "up", NEW j \in Jobs, ~Ended(j), kind[j] # "silent",
                      NEW p \in PieceNumbers, Fetched(j) < p, p <= job'[j].made
               PROVE  Waits(j, p) \/ (j = a /\ p = n)
    BY <1>3 DEF NothingSkipped
  <2>1. CASE p <= job[j].made
    BY <2>1 DEF IInv, Queue, NothingSkipped
  <2>2. CASE ~ (p <= job[j].made)
    <3>1. j = a
      BY <2>2
    <3>2. p \in Nat /\ job[a].made \in Nat /\ n = job[a].made + 1
      BY <1>0
    <3>3. p <= n /\ ~ (p <= job[a].made)
      BY <3>1, <2>2
    <3>4. p = n
      BY <3>2, <3>3
    <3> QED BY <3>1, <3>4
  <2> QED BY <2>1, <2>2
<1> QED BY <1>4, <1>8, <1>9, <1>10

\* Tasks of S lose what they have waiting.
QueueLoses(S) ==
  /\ \A i, k \in 1 .. Len(playQueue') : i < k => Before(playQueue'[i], playQueue'[k])
  /\ \A i \in 1 .. Len(playQueue') : \E k \in 1 .. Len(playQueue) : playQueue'[i] = playQueue[k]
  /\ \A j \in Jobs, p \in PieceNumbers : Waits(j, p)' <=> Waits(j, p) /\ j \notin S

\* A queue that stays loses nothing,
LEMMA NoneLost ==
  ASSUME IInv, playQueue' = playQueue
  PROVE  QueueLoses({})
BY DEF IInv, Queue, Sorted, QueueLoses, Waits

\* one that is emptied loses the pieces of every task,
LEMMA AllLost ==
  ASSUME IInv, playQueue' = <<>>
  PROVE  QueueLoses(Jobs)
BY DEF QueueLoses, Waits

\* and one without S those of S.
LEMMA SomeLost ==
  ASSUME IInv, NEW S, playQueue' = Without(S)
  PROVE  QueueLoses(S) /\ playQueue' \in Seq(Jobs \X PieceNumbers)
<1>1. Kept(playQueue, Jobs \X PieceNumbers, playQueue', Len(playQueue), S)
  BY WithoutIsKept DEF IInv, TypeOK
<1>2. ASSUME NEW i \in 1 .. Len(playQueue'), NEW k \in 1 .. Len(playQueue'), i < k
      PROVE  Before(playQueue'[i], playQueue'[k])
  <2>1. PICK m \in 1 .. Len(playQueue), n \in 1 .. Len(playQueue) :
           m < n /\ playQueue'[i] = playQueue[m] /\ playQueue'[k] = playQueue[n]
    BY <1>1, <1>2 DEF Kept
  <2> QED BY <2>1 DEF IInv, Queue, Sorted
<1>3. \A i \in 1 .. Len(playQueue') : \E k \in 1 .. Len(playQueue) :
         playQueue'[i] = playQueue[k] /\ playQueue[k][1] \notin S
  BY <1>1 DEF Kept
<1>4. ASSUME NEW j \in Jobs, NEW p \in PieceNumbers
      PROVE  Waits(j, p)' <=> Waits(j, p) /\ j \notin S
  <2>1. ASSUME Waits(j, p)' PROVE Waits(j, p) /\ j \notin S
    <3>1. PICK i \in 1 .. Len(playQueue') : playQueue'[i] = <<j, p>>
      BY <2>1 DEF Waits
    <3>2. PICK k \in 1 .. Len(playQueue) : playQueue[k] = <<j, p>> /\ playQueue[k][1] \notin S
      BY <3>1, <1>3
    <3> QED BY <3>2 DEF Waits
  <2>2. ASSUME Waits(j, p), j \notin S PROVE Waits(j, p)'
    <3>1. PICK k \in 1 .. Len(playQueue) : playQueue[k] = <<j, p>>
      BY <2>2 DEF Waits
    <3>2. \E i \in 1 .. Len(playQueue') : playQueue'[i] = playQueue[k]
      <4>1. playQueue[k][1] \notin S
        BY <2>2, <3>1
      <4> QED BY <1>1, <4>1 DEF Kept
    <3> QED BY <3>1, <3>2 DEF Waits
  <2> QED BY <2>1, <2>2
<1>5. playQueue' \in Seq(Jobs \X PieceNumbers)
  BY <1>1 DEF Kept
<1> QED BY <1>2, <1>3, <1>4, <1>5 DEF QueueLoses

\* The queue keeps its invariant when only tasks that end lose pieces.
LEMMA QueueLess ==
  ASSUME IInv, NEW S, QueueLoses(S),
         \A j \in Jobs : Ended(j) => Ended(j)',
         \A j \in Jobs : ~Ended(j)' => j \notin S \/ \A p \in PieceNumbers : ~Waits(j, p),
         \A j \in Jobs : Ended(j)' => Ended(j) \/ j \in S \/ \A p \in PieceNumbers : ~Waits(j, p),
         \A j \in Jobs : job'[j].made = job[j].made /\ job'[j].played = job[j].played,
         UNCHANGED <<kind, playing, playStep>>,
         mode' = "up" => mode = "up"
  PROVE  Queue'
<1>0. \A j \in Jobs : Fetched(j)' = Fetched(j)
  BY DEF Fetched
<1>1. WaitingIsMade'
  BY <1>0 DEF IInv, Queue, WaitingIsMade, QueueLoses
<1>2. Sorted'
  BY DEF Sorted, Before, QueueLoses
<1>3. NotOvertaken'
  <2> SUFFICES ASSUME NEW j \in Jobs, j = Played, ~Ended(j), NEW i \in 1 .. Len(playQueue')
               PROVE  Before(playing, playQueue'[i])
    BY DEF NotOvertaken, Before, Played
  <2>1. PICK k \in 1 .. Len(playQueue) : playQueue'[i] = playQueue[k]
    BY DEF QueueLoses
  <2> QED BY <2>1 DEF IInv, Queue, NotOvertaken
<1>4. NothingSkipped'
  BY <1>0 DEF IInv, Queue, NothingSkipped, QueueLoses
<1>5. StreamIsWhole'
  BY PieceTaken DEF IInv, Queue, StreamIsWhole, Played
<1> QED BY <1>1, <1>2, <1>3, <1>4, <1>5 DEF Queue

\* The playback thread takes the piece in front.
LEMMA HeadTaken ==
  ASSUME IInv, playQueue # <<>>, playQueue' = Tail(playQueue), playing' = Head(playQueue),
         NEW j \in Jobs, j = Head(playQueue)[1]
  PROVE  /\ playQueue' \in Seq(Jobs \X PieceNumbers) /\ playing' \in Jobs \X PieceNumbers
         /\ playing' = <<j, playing'[2]>> /\ playing'[2] \in PieceNumbers
         /\ Waits(j, playing'[2])
         /\ ~Ended(j) /\ kind[j] # "silent" /\ playing'[2] <= job[j].made
         /\ Fetched(j) < playing'[2]
         /\ mode = "up" => playing'[2] = Fetched(j) + 1
         /\ Sorted' /\ \A i \in 1 .. Len(playQueue') : Before(playing', playQueue'[i])
         /\ \A k \in Jobs, p \in PieceNumbers :
              Waits(k, p)' <=> Waits(k, p) /\ <<k, p>> # playing'
<1> USE JobNumbers
<1> DEFINE L == Len(playQueue)
<1>1. /\ L \in Nat \ {0} /\ Len(playQueue') = L - 1
      /\ \A i \in 1 .. (L - 1) : playQueue'[i] = playQueue[i + 1]
      /\ playing' = playQueue[1] /\ 1 \in 1 .. L
      /\ playQueue' \in Seq(Jobs \X PieceNumbers) /\ playing' \in Jobs \X PieceNumbers
  <2>1. playQueue \in Seq(Jobs \X PieceNumbers)
    BY DEF IInv, TypeOK
  <2> QED BY <2>1, HeadTailProperties, LenProperties
<1> DEFINE n == playing'[2]
<1>2. playing' = <<j, n>> /\ n \in PieceNumbers /\ n \in Nat
  <2>1. \A x \in Jobs \X PieceNumbers : x = <<x[1], x[2]>> /\ x[2] \in PieceNumbers
    OBVIOUS
  <2>2. playing'[1] = j
    OBVIOUS
  <2> QED BY <1>1, <2>1, <2>2
<1>3. Waits(j, n)
  BY <1>1, <1>2 DEF Waits
<1> HIDE DEF n
<1>4. ~Ended(j) /\ kind[j] # "silent" /\ n <= job[j].made /\ Fetched(j) < n
  BY <1>2, <1>3 DEF IInv, Queue, WaitingIsMade
<1>5. \A i \in 1 .. (L - 1) : Before(playing', playQueue'[i])
  <2> SUFFICES ASSUME NEW i \in 1 .. (L - 1) PROVE Before(playQueue[1], playQueue[i + 1])
    BY <1>1
  <2>1. i + 1 \in 1 .. L /\ 1 < i + 1
    BY <1>1
  <2> QED BY <1>1, <2>1 DEF IInv, Queue, Sorted
<1>6. Sorted'
  <2> SUFFICES ASSUME NEW i \in 1 .. Len(playQueue'), NEW k \in 1 .. Len(playQueue'), i < k
               PROVE  Before(playQueue'[i], playQueue'[k])
    BY DEF Sorted, Before
  <2>1. i + 1 \in 1 .. L /\ k + 1 \in 1 .. L /\ i + 1 < k + 1
    BY <1>1
  <2> QED BY <1>1, <2>1 DEF IInv, Queue, Sorted
<1>7. ASSUME NEW k \in Jobs, NEW p \in PieceNumbers
      PROVE  Waits(k, p)' <=> Waits(k, p) /\ <<k, p>> # playing'
  <2>1. ASSUME Waits(k, p)' PROVE Waits(k, p) /\ <<k, p>> # playing'
    <3>1. PICK i \in 1 .. (L - 1) : playQueue'[i] = <<k, p>>
      BY <2>1, <1>1 DEF Waits
    <3>2. playQueue[i + 1] = <<k, p>> /\ i + 1 \in 1 .. L
      BY <3>1, <1>1
    <3>3. Before(<<j, n>>, <<k, p>>)
      BY <3>1, <1>5, <1>2
    <3>4. j < k \/ n < p
      BY <3>3 DEF Before
    <3>5. <<k, p>> # <<j, n>>
      BY <3>4, <1>2
    <3> QED BY <3>2, <3>5, <1>2 DEF Waits
  <2>2. ASSUME Waits(k, p), <<k, p>> # playing' PROVE Waits(k, p)'
    <3>1. PICK i \in 1 .. L : playQueue[i] = <<k, p>>
      BY <2>2 DEF Waits
    <3>2. i # 1 /\ i - 1 \in 1 .. (L - 1)
      BY <3>1, <2>2, <1>1
    <3>3. playQueue'[i - 1] = <<k, p>>
      BY <3>1, <3>2, <1>1
    <3> QED BY <3>2, <3>3, <1>1 DEF Waits
  <2> QED BY <2>1, <2>2
<1>8. ASSUME mode = "up" PROVE n = Fetched(j) + 1
  <2>0. Fetched(j) \in Nat
    BY DEF Fetched, IInv, TypeOK
  <2> SUFFICES ASSUME n # Fetched(j) + 1 PROVE FALSE
    OBVIOUS
  <2> PICK m \in Nat : m = Fetched(j) + 1
    BY <2>0
  <2>1. m < n /\ m \in Nat \ {0} /\ m <= job[j].made /\ job[j].made \in Nat
    <3>1. job[j].made \in Nat
      BY DEF IInv, TypeOK
    <3> QED BY <2>0, <1>2, <1>4, <3>1
  <2>2. m \in PieceNumbers
    <3>1. job[j].made <= Pieces[j]
      BY DEF IInv, Counts, CountsOf
    <3>2. m \in 1 .. Pieces[j]
      BY <2>1, <3>1
    <3> QED BY <3>2
  <2>3. Waits(j, m)
    BY <1>4, <1>8, <2>0, <2>1, <2>2 DEF IInv, Queue, NothingSkipped
  <2>4. Waits(j, m)'
    <3>1. <<j, m>> # <<j, n>>
      BY <2>1, <1>2
    <3> QED BY <2>2, <2>3, <3>1, <1>2, <1>7
  <2>5. PICK i \in 1 .. (L - 1) : playQueue'[i] = <<j, m>>
    <3>1. PICK i \in 1 .. Len(playQueue') : playQueue'[i] = <<j, m>>
      BY <2>4 DEF Waits
    <3> QED BY <3>1, <1>1
  <2>6. Before(<<j, n>>, <<j, m>>)
    BY <2>5, <1>5, <1>2
  <2> QED BY <2>6, <2>1, <1>2 DEF Before
<1> QED BY <1>1, <1>2, <1>3, <1>4, <1>5, <1>6, <1>7, <1>8 DEF n

\* One task in a step of a living process that neither submits nor begins it.
RecordStep(j) ==
  /\ \/ stored'[j] = stored[j]
     \/ stored'[j].status = job'[j].status /\ stored'[j].started = job'[j].started
  /\ job'[j].status = "none" <=> job[j].status = "none"
  /\ Ended(j) => Ended(j)'
  /\ job[j].started => job'[j].started
  /\ job'[j].status = "queued" => job[j].status = "queued" /\ j \in pending'
  /\ j \in pending' =>
       /\ j \in pending
       /\ job'[j] = job[j] \/ Ended(j)'
       /\ (job'[j] = job[j] /\ stored'[j] = stored[j]) \/ lostStore'
  /\ ~lostStore' /\ Ended(j)' =>
       \/ StoredEnded(j)'
       \/ j = active' /\ step' \in WorkerSteps
       \/ j = Played' /\ playStep' = "reap"

\* Memory and disk keep agreeing when every task goes on as RecordStep allows.
LEMMA RecordsStay ==
  ASSUME IInv, Live, Live', TypeOK', lostStore => lostStore',
         \A j \in Jobs : RecordStep(j)
  PROVE  /\ Records' /\ DiskOnlyGrows
         /\ \A j \in Jobs : stored'[j].status = "completed" =>
              stored[j].status = "completed" \/ job'[j].status = "completed"
<1> SUFFICES ASSUME NEW j \in Jobs
             PROVE  /\ RecordOf(j)'
                    /\ StoredEnded(j) => StoredEnded(j)'
                    /\ stored[j].started => stored'[j].started
                    /\ stored'[j].status = "none" => stored[j].status = "none"
                    /\ stored'[j].status = "completed" =>
                         stored[j].status = "completed" \/ job'[j].status = "completed"
  BY DEF Records, DiskOnlyGrows
<1>1. RecordOf(j) /\ RecordStep(j)
  BY DEF IInv, Records
<1>2. stored[j].started => stored'[j].started
  BY <1>1 DEF RecordOf, RecordStep
<1>3. stored'[j].status = "completed" =>
        stored[j].status = "completed" \/ job'[j].status = "completed"
  BY <1>1 DEF RecordStep
<1>4. StoredEnded(j) => StoredEnded(j)'
  BY <1>1 DEF RecordOf, RecordStep, StoredEnded, Ended, TERMINAL
<1>5. RecordOf(j)'
  <2>1. (job[j].status = "none" <=> stored[j].status = "none")'
    BY <1>1 DEF RecordOf, RecordStep
  <2>2. (StoredEnded(j) => Ended(j))'
    BY <1>1 DEF RecordOf, RecordStep, StoredEnded, Ended, TERMINAL
  <2>3. (stored[j].started => job[j].started)'
    BY <1>1 DEF RecordOf, RecordStep
  <2>4. (j \in pending => job[j].status = "queued" \/ Ended(j))'
    BY <1>1 DEF RecordOf, RecordStep, Ended
  <2>5. (job[j].status = "queued" => j \in pending)'
    BY <1>1 DEF RecordStep
  <2>6. (~lostStore /\ j \in pending => job[j].status = "queued" /\ stored[j].status = "queued")'
    BY <1>1 DEF RecordOf, RecordStep
  <2>7. (~lostStore /\ Ended(j) =>
           \/ StoredEnded(j)
           \/ j = active /\ step \in WorkerSteps
           \/ j = Played /\ playStep = "reap")'
    BY <1>1 DEF RecordStep
  <2> QED BY <2>1, <2>2, <2>3, <2>4, <2>5, <2>6, <2>7 DEF RecordOf
<1>6. stored'[j].status = "none" => stored[j].status = "none"
  BY <1>1 DEF RecordOf, RecordStep
<1> QED BY <1>2, <1>3, <1>4, <1>5, <1>6

\* The tasks keep being begun in turn when no step begins one.
LEMMA TurnStays ==
  ASSUME IInv, Live, Live', TypeOK', \A j \in Jobs : RecordStep(j),
         \A j \in Jobs : Begun(j)' => Begun(j),
         step' \in WorkerSteps => step \in WorkerSteps /\ active' = active,
         mode' = "up" => mode = "up",
         mode' = "up" =>
           \A j \in Jobs : Begun(j)' =>
             job'[j].done \/ (~job[j].done /\ (j = active /\ step \in {"synth", "join"} =>
                                j = active' /\ step' \in {"synth", "join"}))
  PROVE  InTurn'
<1>1. \A j \in Jobs : stored'[j].status = "none" <=> stored[j].status = "none"
  BY DEF IInv, Records, RecordOf, RecordStep
<1>2. (\A i, j \in Jobs : i < j /\ stored[i].status = "none" => stored[j].status = "none")'
  BY <1>1 DEF IInv, InTurn
<1>3. (\A k, j \in Jobs : Begun(k) /\ job[j].status = "queued" => k < j)'
  BY DEF IInv, InTurn, RecordStep
<1>4. (step \in WorkerSteps => \A k \in Jobs : Begun(k) => k <= active)'
  BY DEF IInv, InTurn
<1>5. (mode = "up" => \A j \in Jobs : Begun(j) =>
         job[j].done \/ (j = active /\ step \in {"synth", "join"}))'
  BY DEF IInv, InTurn
<1> QED BY <1>2, <1>3, <1>4, <1>5 DEF InTurn

\* No piece is made, taken or counted.
LEMMA HandStays ==
  ASSUME IInv, UNCHANGED <<playing, playStep>>,
         \A j \in Jobs : job'[j].made = job[j].made /\ job'[j].played = job[j].played
  PROVE  PieceInHand'
BY PieceTaken DEF IInv, Counts, PieceInHand, Played, InHand, PlaySteps

\* No piece is made, and the synthesis thread stays at the same place of its task.
LEMMA MadeStays ==
  ASSUME IInv, \A j \in Jobs : job'[j].made = job[j].made,
         step' \in {"synth", "join"} => step' = step /\ active' = active /\ active \in Jobs
  PROVE  PieceMade'
BY DEF IInv, Counts, PieceMade

\* Nothing is made, counted or taken, and a task only ends.
LEMMA CountsStay ==
  ASSUME IInv, UNCHANGED <<kind, playing, playStep>>, PieceMade',
         \A j \in Jobs : /\ job'[j].made = job[j].made /\ job'[j].played = job[j].played
                         /\ job'[j].done = job[j].done /\ (Ended(j) => Ended(j)')
                         /\ job'[j].status \in {"none", "queued"} =>
                              job[j].status \in {"none", "queued"}
  PROVE  Counts'
<1>1. \A j \in Jobs : CountsOf(j)'
  <2> SUFFICES ASSUME NEW j \in Jobs PROVE CountsOf(j)'
    OBVIOUS
  <2>1. CountsOf(j) /\ Fetched(j)' = Fetched(j)
    BY DEF IInv, Counts, Fetched
  <2> QED BY <2>1 DEF CountsOf
<1> QED BY <1>1, HandStays DEF Counts

\* A task this step does not touch.
LEMMA RecordStill ==
  ASSUME IInv, Live, NEW j \in Jobs, job'[j] = job[j], stored'[j] = stored[j],
         j \in pending' <=> j \in pending, lostStore => lostStore',
         j = active /\ step \in WorkerSteps =>
           StoredEnded(j) \/ ~Ended(j) \/ (j = active' /\ step' \in WorkerSteps),
         j = Played /\ playStep = "reap" =>
           StoredEnded(j) \/ ~Ended(j) \/ (j = playing'[1] /\ playStep' = "reap")
  PROVE  RecordStep(j)
<1>1. RecordOf(j)
  BY DEF IInv, Records
<1> QED BY <1>1 DEF RecordOf, RecordStep, StoredEnded, Ended, Played

\* A step of a thread of the living service, put together.
LEMMA Together ==
  ASSUME IInv, Live, UNCHANGED <<kind, mode, heard, restore, kept>>,
         filtered \subseteq filtered', lostStore => lostStore',
         mode = "closing" => pending' = pending,
         TypeOK', \A j \in Jobs : RecordStep(j),
         \A j \in Jobs : job'[j].status = "completed" /\ kind[j] # "silent" =>
           job[j].status = "completed" \/ \A p \in 1 .. Pieces[j] : <<j, p>> \in heard,
         Held' \/ (/\ activePlay' = activePlay /\ playing'[1] = playing[1]
                   /\ playStep' \in Sounding => playStep \in Sounding),
         Places', Counts', InTurn', Queue', Sound'
  PROVE  IInv'
<1>1. Live'
  BY DEF Live
<1>2. /\ Records' /\ DiskOnlyGrows
      /\ \A j \in Jobs : stored'[j].status = "completed" =>
           stored[j].status = "completed" \/ job'[j].status = "completed"
  BY <1>1, RecordsStay
<1>3. Heard' /\ RecordIsTrue'
  BY <1>2, NothingHeard DEF CompletesHeard
<1>4. Gone'
  BY <1>1 DEF Gone
<1>5. Keeping'
  <2> SUFFICES ASSUME mode = "closing"
               PROVE  /\ restore \subseteq kept
                      /\ \A j \in restore : Ended(j)'
                      /\ ~lostStore' => \A j \in kept :
                           j \in restore \/ (j \in pending /\ stored'[j].status = "queued")
    BY DEF Keeping
  <2>1. \A j \in kept : j \in Jobs /\ RecordStep(j)
    BY DEF IInv, TypeOK
  <2>2. ASSUME ~lostStore', NEW j \in kept, j \notin restore
        PROVE  j \in pending /\ stored'[j].status = "queued"
    <3>1. j \in pending /\ stored[j].status = "queued"
      BY <2>2 DEF IInv, Keeping
    <3> QED BY <2>1, <2>2, <3>1 DEF RecordStep
  <2>3. \A j \in restore : Ended(j)'
    BY DEF IInv, TypeOK, Keeping, RecordStep
  <2> QED BY <2>2, <2>3 DEF IInv, Keeping
<1>6. CloseKeepsTasks'
  BY DEF Live, CloseKeepsTasks
<1>7. Held'
  BY DEF IInv, Held, Played, RecordStep
<1> QED BY <1>2, <1>3, <1>4, <1>5, <1>6, <1>7 DEF IInv

\* The playback thread lets go of its task.
LEMMA HandEmptied ==
  ASSUME IInv, kind' = kind, playing' = NoPiece, playStep' \notin PlaySteps, PieceMade',
         \A j \in Jobs : /\ job'[j].made = job[j].made /\ job'[j].played = job[j].played
                         /\ job'[j].done = job[j].done /\ (Ended(j) => Ended(j)')
                         /\ job'[j].status \in {"none", "queued"} =>
                              job[j].status \in {"none", "queued"}
  PROVE  Counts' /\ \A j \in Jobs : Fetched(j)' = job[j].played
<1> USE JobNumbers
<1>1. Played' = NoJob /\ playStep' \notin InHand /\ playStep' # "next"
  BY DEF Played, NoPiece, InHand, PlaySteps
<1>2. \A j \in Jobs : Fetched(j)' = job[j].played
  <2>1. \A j \in Jobs : job[j].played \in Nat
    BY DEF IInv, TypeOK
  <2> QED BY <1>1, <2>1 DEF Fetched
<1>3. \A j \in Jobs : CountsOf(j)'
  <2> SUFFICES ASSUME NEW j \in Jobs PROVE CountsOf(j)'
    OBVIOUS
  <2>1. CountsOf(j) /\ job[j].played \in Nat /\ job[j].made \in Nat
    BY DEF IInv, Counts, TypeOK
  <2>2. Fetched(j) = job[j].played \/ Fetched(j) = job[j].played + 1
    BY <2>1 DEF Fetched
  <2>3. job[j].played <= job[j].made
    BY <2>1, <2>2 DEF CountsOf
  <2> QED BY <1>2, <2>1, <2>3 DEF CountsOf
<1>4. PieceInHand'
  BY <1>1 DEF PieceInHand
<1> QED BY <1>2, <1>3, <1>4 DEF Counts

\* The playback thread lets go of its task, which has ended or is played to its end.
LEMMA QueueLeft ==
  ASSUME IInv, NEW S, QueueLoses(S), playStep \in PlaySteps,
         playing' = NoPiece, playStep' \notin PlaySteps, kind' = kind,
         mode' = "up" => mode = "up" /\ \A j \in Jobs : j = Played => playStep = "reap" \/ Ended(j)',
         \A j \in Jobs : Ended(j) => Ended(j)',
         \A j \in Jobs : ~Ended(j)' => j \notin S \/ \A p \in PieceNumbers : ~Waits(j, p),
         \A j \in Jobs : Ended(j)' => Ended(j) \/ j \in S \/ \A p \in PieceNumbers : ~Waits(j, p),
         \A j \in Jobs : job'[j].made = job[j].made /\ job'[j].played = job[j].played,
         \A j \in Jobs : Fetched(j)' = job[j].played
  PROVE  Queue'
<1> USE JobNumbers
<1>1. Played' = NoJob /\ playStep' # "open" /\ playStep' # "reap" /\ Played \in Jobs
  BY PieceTaken DEF Played, NoPiece, PlaySteps, IInv
<1>2. ASSUME NEW j \in Jobs PROVE /\ job[j].played \in Nat /\ Fetched(j) \in Nat
                                  /\ Fetched(j)' <= Fetched(j)
                                  /\ j # Played \/ playStep = "reap" => Fetched(j)' = Fetched(j)
  <2>1. job[j].played \in Nat
    BY DEF IInv, TypeOK
  <2> QED BY <2>1 DEF Fetched, InHand, Played
<1>3. WaitingIsMade'
  <2> SUFFICES ASSUME NEW j \in Jobs, NEW p \in PieceNumbers, Waits(j, p)'
               PROVE  /\ ~Ended(j)' /\ kind[j] # "silent"
                      /\ Fetched(j)' < p /\ p <= job[j].made
    BY DEF WaitingIsMade
  <2>1. Waits(j, p) /\ j \notin S
    BY DEF QueueLoses
  <2>2. ~Ended(j) /\ kind[j] # "silent" /\ Fetched(j) < p /\ p <= job[j].made
    BY <2>1 DEF IInv, Queue, WaitingIsMade
  <2>3. Fetched(j)' < p
    <3>1. Fetched(j)' \in Nat /\ Fetched(j) \in Nat /\ Fetched(j)' <= Fetched(j) /\ p \in Nat
      BY <1>2
    <3> QED BY <2>2, <3>1
  <2> QED BY <2>1, <2>2, <2>3
<1>4. Sorted'
  BY DEF Sorted, Before, QueueLoses
<1>5. NotOvertaken'
  BY <1>1 DEF NotOvertaken
<1>6. NothingSkipped'
  <2> SUFFICES ASSUME mode' = "up", NEW j \in Jobs, ~Ended(j)', kind[j] # "silent",
                      NEW p \in PieceNumbers, Fetched(j)' < p, p <= job[j].made
               PROVE  Waits(j, p)'
    BY DEF NothingSkipped
  <2>1. Fetched(j)' = Fetched(j) /\ mode = "up" /\ ~Ended(j)
    BY <1>2
  <2>2. Waits(j, p)
    BY <2>1 DEF IInv, Queue, NothingSkipped
  <2> QED BY <2>2 DEF QueueLoses
<1>7. StreamIsWhole'
  <2>1. ASSUME mode' = "up", NEW j \in Jobs, kind[j] = "stream", ~Ended(j)'
        PROVE  job[j].played = 0
    BY <1>1, <2>1 DEF IInv, Queue, StreamIsWhole
  <2> QED BY <1>1, <2>1 DEF StreamIsWhole
<1> QED BY <1>3, <1>4, <1>5, <1>6, <1>7 DEF Queue

\* There is no player any more, and nothing is heard.
LEMMA SoundWithout ==
  ASSUME IInv, UNCHANGED <<kind, heard>>, ~player'.up, playStep' \notin PlaySteps,
         \A j \in Jobs : job'[j].played = job[j].played
  PROVE  Sound'
<1>1. PlayerSound'
  BY DEF PlayerSound
<1>2. (\A j \in Jobs : kind[j] = "pieces" =>
        \A p \in 1 .. job[j].played : <<j, p>> \in heard)'
  BY DEF IInv, Sound
<1> QED BY <1>1, <1>2 DEF Sound, PlaySteps

\* What the synthesis thread works on is a task, and begun or ended.
LEMMA TaskInHand ==
  ASSUME IInv, step \in WorkerSteps
  PROVE  /\ active \in Jobs /\ Live
         /\ job[active].status \notin {"none", "queued"}
         /\ ~Ended(active) => Begun(active)
BY Shape, JobNumbers DEF IInv, TypeOK, Gone, WorkerSteps, Places

\* What the playback thread works on is a task for a device, and begun or ended.
LEMMA TaskPlayed ==
  ASSUME IInv, playStep \in PlaySteps
  PROVE  /\ Played \in Jobs /\ Live /\ Played # NoJob
         /\ job[Played].status \notin {"none", "queued"} /\ kind[Played] # "silent"
         /\ ~Ended(Played) => Begun(Played)
BY Shape, JobNumbers, PieceTaken DEF IInv, Gone, PlaySteps, Places

\* Faults are counted up to their bound.
LEMMA FaultsCounted ==
  ASSUME IInv, NEW n \in Nat, Faults(n)
  PROVE  faults' \in 0 .. MaxFaults
<1>1. faults \in Nat /\ MaxFaults \in Nat
  BY SpeechWorkersAssumption DEF IInv, TypeOK
<1>2. faults' = faults + n /\ faults' <= MaxFaults
  BY DEF Faults
<1>3. faults' \in Nat
  BY <1>1, <1>2
<1> QED BY <1>1, <1>2, <1>3

\* A pruning of old jobs fails to store them, or changes nothing the threads use.
LEMMA Pruned ==
  ASSUME IInv, Prune
  PROVE  /\ unstored => lostStore
         /\ lostStore => lostStore'
         /\ unstored' \in BOOLEAN /\ lostStore' \in BOOLEAN /\ faults' \in 0 .. MaxFaults
         /\ unstored' => lostStore'
<1>1. /\ unstored => lostStore
      /\ unstored \in BOOLEAN /\ lostStore \in BOOLEAN /\ faults \in 0 .. MaxFaults
  BY DEF IInv, Places, TypeOK
<1>2. CASE UNCHANGED <<unstored, faults, lostStore>>
  BY <1>1, <1>2
<1>3. CASE ~unstored /\ unstored' = TRUE /\ lostStore' = TRUE /\ Faults(1)
  BY <1>1, <1>3, FaultsCounted
<1> QED BY <1>2, <1>3 DEF Prune

-----------------------------------------------------------------------------
(***************************************************************************)
(* The synthesis thread                                                    *)
(***************************************************************************)

LEMMA QueuePieceKeeps ==
  ASSUME IInv, QueuePiece
  PROVE  IInv'
<1> USE JobNumbers
<1> DEFINE ready == IF kind[active] = "silent" \/ Synced(active, job[active]).started
                    THEN job[active].status ELSE "ready"
           mem == [job EXCEPT ![active].made = job[active].made + 1,
                              ![active].status = ready]
<1>a. PICK a \in Jobs : a = active
  BY TaskInHand DEF QueuePiece, WorkerSteps
<1>1. /\ step = "synth" /\ ~Ended(a) /\ mode = "up" /\ Live /\ Begun(a)
      /\ job[a].status \in {"processing", "ready", "playing"}
      /\ job \in [Jobs -> MemoryRecord] /\ stored \in [Jobs -> DiskRecord]
      /\ job[a] \in MemoryRecord /\ job[a].made < Pieces[a]
  BY <1>a, TaskInHand, Shape
     DEF QueuePiece, Stopping, Closed, IInv, Counts, PieceMade, WorkerSteps, Live, Begun
<1>2. ready \in {"processing", "ready", "playing"} /\ Save({active}, mem)
  BY <1>1, <1>a DEF QueuePiece
<1> HIDE DEF ready
<1>3. /\ mem \in [Jobs -> MemoryRecord]
      /\ mem[a].status \in {"processing", "ready", "playing"}
      /\ mem[a].made = job[a].made + 1 /\ mem[a].played = job[a].played
      /\ mem[a].done = job[a].done /\ mem[a].started = job[a].started
      /\ \A j \in Jobs : j # a => mem[j] = job[j]
  BY <1>1, <1>2, <1>a DEF MemoryRecord, Statuses
<1> HIDE DEF mem
<1>4. /\ job' \in [Jobs -> MemoryRecord] /\ stored' \in [Jobs -> DiskRecord]
      /\ job'[a].status \in {"processing", "ready", "playing"}
      /\ job'[a].made = job[a].made + 1 /\ job'[a].played = job[a].played
      /\ job'[a].done = job[a].done
      /\ job[a].started => job'[a].started
      /\ \A j \in Jobs : j # a => job'[j] = job[j] /\ stored'[j] = stored[j]
      /\ unstored => stored'[a] = stored[a]
      /\ ~unstored => stored'[a].status = job'[a].status /\ stored'[a].started = job'[a].started
  <2>1. Save({a}, mem)
    BY <1>2, <1>a
  <2>2. /\ job' \in [Jobs -> MemoryRecord] /\ stored' \in [Jobs -> DiskRecord]
        /\ \A j \in Jobs : j # a => job'[j] = mem[j] /\ stored'[j] = stored[j]
        /\ job'[a].status = mem[a].status
        /\ job'[a].made = mem[a].made /\ job'[a].played = mem[a].played
        /\ job'[a].done = mem[a].done
        /\ mem[a].started => job'[a].started
        /\ unstored => stored'[a] = stored[a]
        /\ ~unstored => stored'[a].status = job'[a].status /\ stored'[a].started = job'[a].started
    BY <1>3, <2>1, SavedOne
  <2> QED BY <1>3, <2>2
<1>5. UNCHANGED <<kind, pending, active, activePlay, playing, playStep, player, broken,
                  unstored, faults, lostStore, mode, restore, restarts, heard, filtered, kept>>
  BY DEF QueuePiece, playVars, faultVars, serviceVars, historyVars
<1>6. step' = IF job[a].made + 1 < Pieces[a] THEN "synth" ELSE "join"
  BY <1>a DEF QueuePiece
<1>7. playQueue' = IF kind[a] = "silent" THEN playQueue
                   ELSE Append(playQueue, <<a, job[a].made + 1>>)
  BY <1>a DEF QueuePiece
<1>8. \A j \in Jobs : (Ended(j)' <=> Ended(j)) /\ (Begun(j)' <=> Begun(j))
                      /\ Fetched(j)' = Fetched(j)
  BY <1>1, <1>4, <1>5 DEF Ended, TERMINAL, Begun, Fetched
<1>9. job[a].made + 1 \in PieceNumbers /\ job[a].made + 1 \in Nat /\ job[a].made + 1 <= Pieces[a]
  <2>1. job[a].made \in Nat
    BY <1>1 DEF MemoryRecord
  <2> QED BY <1>1, <2>1
<1>10. TypeOK'
  <2>1. playQueue' \in Seq(Jobs \X PieceNumbers)
    <3>1. playQueue \in Seq(Jobs \X PieceNumbers)
      BY DEF IInv, TypeOK
    <3>2. <<a, job[a].made + 1>> \in Jobs \X PieceNumbers
      BY <1>9
    <3>3. Append(playQueue, <<a, job[a].made + 1>>) \in Seq(Jobs \X PieceNumbers)
      BY <3>1, <3>2, AppendProperties
    <3> QED BY <1>7, <3>1, <3>3
  <2>2. step' \in {"synth", "join"}
    BY <1>6
  <2>3. TypedTasks /\ TypedWorker /\ TypedPlayer /\ TypedFaults /\ TypedService
    BY Typed DEF IInv
  <2>4. TypedTasks'
    BY <1>4, <1>5, <2>1, <2>3 DEF TypedTasks
  <2>5. TypedWorker'
    BY <1>1, <1>5, <2>2, <2>3 DEF TypedWorker, WorkerSteps
  <2>6. TypedPlayer' /\ TypedFaults' /\ TypedService'
    BY <1>5, <2>3 DEF TypedPlayer, TypedFaults, TypedService
  <2> QED BY <2>4, <2>5, <2>6, TypesHold
<1>11. Gone' /\ Live'
  BY <1>1, <1>5 DEF Gone, Live
<1>12. Places'
  BY <1>1, <1>a, <1>4, <1>5, <1>6, PieceTaken DEF IInv, Places, Played
<1>13. Counts'
  <2>1. \A j \in Jobs : CountsOf(j)'
    <3> SUFFICES ASSUME NEW j \in Jobs PROVE CountsOf(j)'
      OBVIOUS
    <3>1. CountsOf(j) /\ CountsOf(a) /\ Fetched(a) \in Nat /\ job[a].made \in Nat
      BY <1>1 DEF IInv, Counts, Fetched, MemoryRecord
    <3>2. CASE j = a
      <4>1. /\ CountsOf(a) /\ Fetched(a) \in Nat /\ Fetched(a)' = Fetched(a)
            /\ Pieces[a] \in Nat /\ job[a].made \in Nat
        BY <3>1, <1>8
      <4>2. Fetched(a)' <= job'[a].made /\ job'[a].made <= Pieces[a]
        BY <4>1, <1>4, <1>9 DEF CountsOf
      <4>3. ~job[a].done
        BY <4>1, <1>1 DEF CountsOf
      <4> QED BY <3>2, <4>2, <4>3, <1>4 DEF CountsOf
    <3>3. CASE j # a
      BY <3>1, <3>3, <1>4, <1>5, <1>8 DEF CountsOf
    <3> QED BY <3>2, <3>3
  <2>2. PieceMade'
    <3>1. job'[a].made < Pieces[a] \/ job'[a].made = Pieces[a]
      <4>1. job[a].made + 1 < Pieces[a] \/ job[a].made + 1 = Pieces[a]
        <5> PICK m \in Nat, n \in Nat : m = job[a].made + 1 /\ n = Pieces[a]
          BY <1>9
        <5> QED BY <1>9
      <4> QED BY <4>1, <1>4
    <3>2. active' = a /\ job'[a].made = job[a].made + 1
      BY <1>a, <1>4, <1>5
    <3>3. CASE job[a].made + 1 < Pieces[a]
      BY <3>2, <3>3, <1>6 DEF PieceMade
    <3>4. CASE ~(job[a].made + 1 < Pieces[a])
      BY <3>1, <3>2, <3>4, <1>6 DEF PieceMade
    <3> QED BY <3>3, <3>4
  <2>3. PieceInHand'
    <3>1. \A j \in Jobs : job'[j].played = job[j].played /\ job[j].made <= job'[j].made
                          /\ job[j].made \in Nat /\ job'[j].made \in Nat
      BY <1>4, <1>9, Shape DEF MemoryRecord
    <3>2. Played' = Played /\ (Played # NoJob => Played \in Jobs /\ playing[2] \in Nat)
          /\ (playStep \in InHand \cup {"next"} => Played \in Jobs)
      BY <1>5, PieceTaken DEF Played, IInv, InHand, PlaySteps
    <3>3. PieceInHand
      BY DEF IInv, Counts
    <3>4. (playStep \in InHand => playing[2] = job[Played].played + 1)'
      BY <1>5, <3>1, <3>2, <3>3 DEF PieceInHand, InHand
    <3>5. (playStep = "next" => playing[2] = job[Played].played)'
      BY <1>5, <3>1, <3>2, <3>3 DEF PieceInHand
    <3>6. (Played # NoJob => playing[2] <= job[Played].made)'
      <4> SUFFICES ASSUME NEW j \in Jobs, j = Played, playing[2] \in Nat
                   PROVE  playing[2] <= job'[j].made
        BY <1>5, <3>2
      <4>1. playing[2] <= job[j].made
        BY <3>2, <3>3 DEF PieceInHand
      <4> QED BY <3>1, <4>1
    <3> QED BY <3>4, <3>5, <3>6 DEF PieceInHand
  <2> QED BY <2>1, <2>2, <2>3 DEF Counts
<1>14. \A j \in Jobs : RecordStep(j)
  <2> SUFFICES ASSUME NEW j \in Jobs PROVE RecordStep(j)
    OBVIOUS
  <2>1. RecordOf(j) /\ RecordOf(a)
    BY <1>1 DEF IInv, Records
  <2>2. CASE j = a
    BY <2>1, <2>2, <1>1, <1>4, <1>5, <1>8 DEF RecordStep, RecordOf
  <2>3. CASE j # a
    BY <2>1, <2>3, <1>1, <1>a, <1>4, <1>5, <1>6, <1>8
       DEF RecordStep, RecordOf, StoredEnded, WorkerSteps, Played
  <2> QED BY <2>2, <2>3
<1>15. DiskOnlyGrows
  BY <1>1, <1>5, <1>10, <1>11, <1>14, RecordsStay
<1>16. InTurn'
  <2>1. \A j \in Jobs : Begun(j)' =>
          job'[j].done \/ (~job[j].done /\ (j = active /\ step \in {"synth", "join"} =>
                                j = active' /\ step' \in {"synth", "join"}))
    BY <1>4, <1>5, <1>6
  <2> QED BY <1>1, <1>5, <1>8, <1>10, <1>11, <1>14, <2>1, TurnStays DEF WorkerSteps
<1>17. Queue'
  <2>1. StreamIsWhole'
    BY <1>1, <1>4, <1>5, <1>8 DEF IInv, Queue, StreamIsWhole, Played
  <2>2. CASE kind[a] = "silent"
    <3>1. WaitingIsMade'
      BY <2>2, <1>4, <1>5, <1>7, <1>8 DEF IInv, Queue, WaitingIsMade, Waits
    <3>2. Sorted'
      BY <2>2, <1>7 DEF IInv, Queue, Sorted, Before
    <3>3. NotOvertaken'
      BY <2>2, <1>5, <1>7, <1>8 DEF IInv, Queue, NotOvertaken, Before, Played
    <3>4. NothingSkipped'
      <4>1. \A j \in Jobs, p \in PieceNumbers : Waits(j, p)' <=> Waits(j, p)
        BY <2>2, <1>7 DEF Waits
      <4>2. \A j \in Jobs : kind[j] # "silent" => job'[j].made = job[j].made
        BY <2>2, <1>4
      <4> QED BY <4>1, <4>2, <1>5, <1>8 DEF IInv, Queue, NothingSkipped
    <3> QED BY <2>1, <3>1, <3>2, <3>3, <3>4 DEF Queue
  <2>3. CASE kind[a] # "silent"
    <3>1. \A j \in Jobs : Begun(j) => j <= a
      BY <1>1, <1>a DEF IInv, InTurn, WorkerSteps
    <3> QED BY <2>1, <2>3, <3>1, <1>1, <1>4, <1>5, <1>7, <1>8, <1>9, PieceAppended DEF Queue
  <2> QED BY <2>2, <2>3
<1>18. Sound'
  BY <1>1, <1>4, <1>5, <1>8, <1>15, PlayerUndisturbed, PieceTaken
     DEF IInv, Sound, PlayerSound
<1>19. \A j \in Jobs : job'[j].status = "completed" => job[j].status = "completed"
  BY <1>4
<1> QED BY <1>1, <1>5, <1>10, <1>12, <1>13, <1>14, <1>16, <1>17, <1>18, <1>19, Together

LEMMA WorkerReturnsKeeps ==
  ASSUME IInv, WorkerReturns
  PROVE  IInv'
<1> USE JobNumbers
<1>1. /\ step = "idle" /\ step' = "ended" /\ active = NoJob /\ Live /\ Live'
      /\ UNCHANGED <<job, stored, kind, pending, playQueue, active, activePlay, playing, playStep,
                     player, broken, unstored, faults, lostStore, mode, restore, restarts,
                     heard, filtered, kept>>
  BY DEF WorkerReturns, playVars, faultVars, serviceVars, historyVars, IInv, Gone, Places,
         Live
<1>2. TypeOK'
  <2>1. TypedTasks /\ TypedWorker /\ TypedPlayer /\ TypedFaults /\ TypedService
    BY Typed DEF IInv
  <2>2. TypedTasks' /\ TypedWorker' /\ TypedPlayer' /\ TypedFaults' /\ TypedService'
    BY <1>1, <2>1
       DEF TypedTasks, TypedWorker, TypedPlayer, TypedFaults, TypedService, WorkerSteps
  <2> QED BY <2>2, TypesHold
<1>3. Places'
  BY <1>1 DEF IInv, Places, Played
<1>4. Counts'
  <2>1. PieceMade'
    BY <1>1, MadeStays
  <2> QED BY <1>1, <2>1, CountsStay DEF Ended
<1>5. \A j \in Jobs : RecordStep(j)
  BY <1>1, RecordStill DEF WorkerSteps, Played
<1>6. InTurn'
  BY <1>1, <1>2, <1>5, TurnStays DEF IInv, InTurn, WorkerSteps, Begun
<1>7. Queue'
  BY <1>1, NoneLost, QueueLess DEF Ended
<1>8. Sound'
  BY <1>1 DEF IInv, Sound, PlayerSound, StoredEnded, Played, Ended
<1> QED BY <1>1, <1>2, <1>3, <1>4, <1>5, <1>6, <1>7, <1>8, Together

LEMMA TakeJobKeeps ==
  ASSUME IInv, TakeJob
  PROVE  IInv'
<1> USE JobNumbers
<1>1. /\ step = "idle" /\ active = NoJob /\ mode = "up" /\ Live /\ Live'
      /\ UNCHANGED <<stored, kind, playQueue, activePlay, playing, playStep,
                     player, broken, unstored, faults, lostStore, mode, restore, restarts,
                     heard, filtered, kept>>
  BY DEF TakeJob, Closed, playVars, faultVars, serviceVars, historyVars, IInv, Gone,
         Places, Live
<1>2. PICK a \in pending :
        /\ \A k \in pending : a <= k
        /\ pending' = pending \ {a}
        /\ IF Ended(a) THEN UNCHANGED <<job, workerVars>>
           ELSE /\ job' = [job EXCEPT ![a].status = "processing"]
                /\ active' = a /\ step' = "synth"
  BY DEF TakeJob
<1>3. /\ a \in Jobs /\ job \in [Jobs -> MemoryRecord] /\ RecordOf(a) /\ CountsOf(a)
      /\ \A j \in Jobs : RecordOf(j) /\ job[j] \in MemoryRecord
  BY <1>1, <1>2, Shape DEF IInv, TypeOK, Records, Counts
<1>4. CASE Ended(a)
  <2>1. UNCHANGED <<job, active, step>>
    BY <1>2, <1>4 DEF workerVars
  <2>2. TypeOK'
    <3>1. TypedTasks /\ TypedWorker /\ TypedPlayer /\ TypedFaults /\ TypedService
      BY Typed DEF IInv
    <3>2. TypedTasks' /\ TypedWorker' /\ TypedPlayer' /\ TypedFaults' /\ TypedService'
      BY <1>1, <1>2, <2>1, <3>1
         DEF TypedTasks, TypedWorker, TypedPlayer, TypedFaults, TypedService
    <3> QED BY <3>2, TypesHold
  <2>3. Places'
    BY <1>1, <2>1 DEF IInv, Places, Played
  <2>4. Counts'
    <3>1. PieceMade'
      BY <1>1, <2>1, MadeStays
    <3> QED BY <1>1, <2>1, <3>1, CountsStay DEF Ended
  <2>5. \A j \in Jobs : RecordStep(j)
    <3> SUFFICES ASSUME NEW j \in Jobs PROVE RecordStep(j)
      OBVIOUS
    <3>1. CASE j # a
      BY <1>1, <1>2, <2>1, <3>1, RecordStill DEF WorkerSteps, Played
    <3>2. CASE j = a
      <4>1. job[a].status # "queued" /\ lostStore
        BY <1>2, <1>3, <1>4 DEF RecordOf, Ended, TERMINAL
      <4> QED BY <1>1, <1>2, <1>3, <2>1, <3>2, <4>1 DEF RecordStep, Ended
    <3> QED BY <3>1, <3>2
  <2>6. InTurn'
    BY <1>1, <2>1, <2>2, <2>5, TurnStays DEF IInv, InTurn, WorkerSteps, Begun
  <2>7. Queue'
    BY <1>1, <2>1, NoneLost, QueueLess DEF Ended
  <2>8. Sound'
    BY <1>1, <2>1 DEF IInv, Sound, PlayerSound, StoredEnded, Played, Ended
  <2> QED BY <1>1, <2>1, <2>2, <2>3, <2>4, <2>5, <2>6, <2>7, <2>8, Together
<1>5. CASE ~Ended(a)
  <2>1. /\ active' = a /\ step' = "synth" /\ job[a].status = "queued"
        /\ job' \in [Jobs -> MemoryRecord] /\ job'[a].status = "processing"
        /\ job'[a].made = job[a].made /\ job'[a].played = job[a].played
        /\ job'[a].done = job[a].done /\ job'[a].started = job[a].started
        /\ \A j \in Jobs : j # a => job'[j] = job[j]
    BY <1>2, <1>3, <1>5 DEF RecordOf, MemoryRecord, Statuses
  <2>2. /\ ~Ended(a)' /\ Begun(a)' /\ ~Begun(a)
        /\ \A j \in Jobs : (Ended(j)' <=> Ended(j)) /\ (j # a => (Begun(j)' <=> Begun(j)))
    BY <1>5, <2>1 DEF Ended, TERMINAL, Begun
  <2>3. TypeOK'
    <3>1. TypedTasks /\ TypedWorker /\ TypedPlayer /\ TypedFaults /\ TypedService
      BY Typed DEF IInv
    <3>2. TypedTasks' /\ TypedPlayer' /\ TypedFaults' /\ TypedService'
      BY <1>1, <1>2, <2>1, <3>1 DEF TypedTasks, TypedPlayer, TypedFaults, TypedService
    <3>3. TypedWorker'
      BY <1>3, <2>1 DEF TypedWorker, WorkerSteps
    <3> QED BY <3>2, <3>3, TypesHold
  <2>4. Places'
    BY <1>1, <1>3, <2>1, PieceTaken DEF IInv, Places, Played
  <2>5. Counts'
    <3>1. PieceMade'
      <4>1. job'[a].made = 0
        BY <1>3, <2>1 DEF CountsOf
      <4> QED BY <1>3, <2>1, <4>1 DEF PieceMade
    <3>2. \A j \in Jobs : /\ job'[j].made = job[j].made /\ job'[j].played = job[j].played
                          /\ job'[j].done = job[j].done /\ (Ended(j) => Ended(j)')
                          /\ (job'[j].status \in {"none", "queued"} =>
                                job[j].status \in {"none", "queued"})
      BY <2>1, <2>2
    <3> QED BY <1>1, <3>1, <3>2, CountsStay
  <2>6. \A j \in Jobs : RecordStep(j)
    <3> SUFFICES ASSUME NEW j \in Jobs PROVE RecordStep(j)
      OBVIOUS
    <3>1. CASE j # a
      BY <1>1, <1>2, <2>1, <3>1, RecordStill DEF WorkerSteps, Played
    <3>2. CASE j = a
      BY <1>1, <1>2, <1>3, <2>1, <2>2, <3>2 DEF RecordStep
    <3> QED BY <3>1, <3>2
  <2>7. InTurn'
    <3>1. \A j \in Jobs : job'[j].status = "queued" => j \in pending /\ j # a
      BY <1>3, <2>1 DEF RecordOf
    <3>2. \A k \in Jobs : Begun(k)' => k <= a
      <4> SUFFICES ASSUME NEW k \in Jobs, Begun(k)', k # a PROVE k < a
        BY <1>3
      <4>1. Begun(k)
        BY <2>2
      <4> QED BY <1>3, <2>1, <4>1 DEF IInv, InTurn
    <3>3. (\A k, j \in Jobs : Begun(k) /\ job[j].status = "queued" => k < j)'
      <4> SUFFICES ASSUME NEW k \in Jobs, NEW j \in Jobs, Begun(k)', job'[j].status = "queued"
                   PROVE  k < j
        OBVIOUS
      <4>1. a <= j /\ j # a /\ k <= a
        BY <1>2, <3>1, <3>2
      <4> QED BY <4>1, <1>3
    <3>4. (mode = "up" => \A j \in Jobs : Begun(j) =>
             job[j].done \/ (j = active /\ step \in {"synth", "join"}))'
      BY <1>1, <2>1, <2>2 DEF IInv, InTurn
    <3>5. (\A i, j \in Jobs : i < j /\ stored[i].status = "none" => stored[j].status = "none")'
      BY <1>1 DEF IInv, InTurn
    <3> QED BY <2>1, <3>2, <3>3, <3>4, <3>5 DEF InTurn
  <2>8. Queue'
    BY <1>1, <2>1, <2>2, NoneLost, QueueLess
  <2>9. Sound'
    <3>1. DiskOnlyGrows
      BY <1>1, <2>3, <2>6, RecordsStay
    <3> QED BY <1>1, <2>1, <2>2, <3>1, PieceTaken, PlayerUndisturbed
               DEF IInv, Sound, PlayerSound
  <2>10. \A j \in Jobs : job'[j].status = "completed" => job[j].status = "completed"
    BY <2>1
  <2> QED BY <1>1, <2>3, <2>4, <2>5, <2>6, <2>7, <2>8, <2>9, <2>10, Together
<1> QED BY <1>4, <1>5

LEMMA WaitForRoomKeeps ==
  ASSUME IInv, WaitForRoom
  PROVE  IInv'
<1> USE JobNumbers
<1>1. PICK a \in Jobs : a = active
  BY TaskInHand DEF WaitForRoom, WorkerSteps
<1>2. /\ step = "synth" /\ ~Ended(a) /\ Live /\ Live' /\ Begun(a)
      /\ UNCHANGED <<stored, kind, pending, playQueue, active, step, activePlay, playing, playStep,
                     player, broken, unstored, faults, lostStore, mode, restore, restarts,
                     heard, filtered, kept>>
      /\ job' = [job EXCEPT ![a] = Synced(a, job[a])]
  BY <1>1, TaskInHand
     DEF WaitForRoom, workerVars, playVars, faultVars, serviceVars, historyVars, Live,
         WorkerSteps, Stopping
<1>3. /\ job \in [Jobs -> MemoryRecord] /\ \A j \in Jobs : job[j] \in MemoryRecord /\ RecordOf(j)
      /\ Synced(a, job[a]) \in MemoryRecord
  BY <1>2, Shape, SyncedRecord DEF IInv, Records
<1>4. /\ job' \in [Jobs -> MemoryRecord]
      /\ \A j \in Jobs : /\ job'[j].status = job[j].status
                         /\ job'[j].made = job[j].made /\ job'[j].played = job[j].played
                         /\ job'[j].done = job[j].done /\ (job[j].started => job'[j].started)
                         /\ j # a => job'[j] = job[j]
  BY <1>2, <1>3, SyncedRecord
<1>5. \A j \in Jobs : (Ended(j)' <=> Ended(j)) /\ (Begun(j)' <=> Begun(j))
  BY <1>4 DEF Ended, Begun
<1>6. TypeOK'
  <2>1. TypedTasks /\ TypedWorker /\ TypedPlayer /\ TypedFaults /\ TypedService
    BY Typed DEF IInv
  <2>2. TypedTasks' /\ TypedWorker' /\ TypedPlayer' /\ TypedFaults' /\ TypedService'
    BY <1>2, <1>4, <2>1 DEF TypedTasks, TypedWorker, TypedPlayer, TypedFaults, TypedService
  <2> QED BY <2>2, TypesHold
<1>7. Places'
  BY <1>1, <1>2, <1>4, PieceTaken DEF IInv, Places, Played
<1>8. Counts'
  <2>1. PieceMade'
    BY <1>1, <1>2, <1>4, MadeStays
  <2> QED BY <1>2, <1>4, <1>5, <2>1, CountsStay
<1>9. \A j \in Jobs : RecordStep(j)
  <2> SUFFICES ASSUME NEW j \in Jobs PROVE RecordStep(j)
    OBVIOUS
  <2>1. CASE j # a
    BY <1>2, <1>4, <2>1, RecordStill DEF Played
  <2>2. CASE j = a
    <3>1. a \notin pending
      BY <1>2, <1>3 DEF RecordOf, Begun
    <3> QED BY <1>2, <1>4, <1>5, <2>2, <3>1 DEF RecordStep, Begun
  <2> QED BY <2>1, <2>2
<1>10. InTurn'
  <2>1. \A j \in Jobs : Begun(j)' => Begun(j)
    BY <1>5
  <2> QED BY <1>2, <1>4, <1>6, <1>9, <2>1, TurnStays
<1>11. Queue'
  BY <1>2, <1>4, <1>5, NoneLost, QueueLess
<1>12. Sound'
  <2>1. DiskOnlyGrows
    BY <1>2, <1>6, <1>9, RecordsStay
  <2> QED BY <1>2, <1>4, <1>5, <2>1, PieceTaken, PlayerUndisturbed
             DEF IInv, Sound, PlayerSound
<1> QED BY <1>2, <1>4, <1>6, <1>7, <1>8, <1>9, <1>10, <1>11, <1>12, Together

LEMMA GeneratedKeeps ==
  ASSUME IInv, Generated
  PROVE  IInv'
<1> USE JobNumbers
<1>1. PICK a \in Jobs : a = active
  BY TaskInHand DEF Generated, WorkerSteps
<1>2. /\ step = "join" /\ ~Ended(a) /\ mode = "up" /\ Live /\ Live' /\ Begun(a) /\ step' = "end"
      /\ UNCHANGED <<stored, kind, pending, playQueue, active, activePlay, playing, playStep,
                     player, broken, unstored, faults, lostStore, mode, restore, restarts,
                     heard, filtered, kept>>
      /\ job' = [job EXCEPT ![a].done = TRUE,
                            ![a].status = IF CompletesHere THEN "completed" ELSE @]
  BY <1>1, TaskInHand DEF Generated, playVars, faultVars, serviceVars, historyVars,
                          Live, WorkerSteps, Stopping, Closed
<1>3. CompletesHere <=> kind[a] = "silent" \/ (kind[a] = "pieces" /\ job[a].played = Pieces[a])
  BY <1>1 DEF CompletesHere
<1> HIDE DEF CompletesHere
<1>4. /\ job \in [Jobs -> MemoryRecord] /\ CountsOf(a) /\ job[a].made = Pieces[a]
      /\ job[a].made \in Nat /\ job[a].played \in Nat /\ Pieces[a] \in Nat
      /\ \A j \in Jobs : job[j] \in MemoryRecord /\ RecordOf(j) /\ CountsOf(j)
  BY <1>1, <1>2, Shape DEF IInv, Counts, PieceMade, Records, MemoryRecord
<1>5. /\ job' \in [Jobs -> MemoryRecord]
      /\ job'[a].status = IF CompletesHere THEN "completed" ELSE job[a].status
      /\ job'[a].made = job[a].made /\ job'[a].played = job[a].played
      /\ job'[a].done /\ job'[a].started = job[a].started
      /\ \A j \in Jobs : j # a => job'[j] = job[j]
  BY <1>2, <1>4 DEF MemoryRecord, Statuses, TERMINAL
<1>6. /\ \A j \in Jobs : (Ended(j) => Ended(j)') /\ (j # a => (Ended(j)' <=> Ended(j)))
      /\ \A j \in Jobs : Begun(j)' => Begun(j)
      /\ Ended(a)' <=> CompletesHere
      /\ \A j \in Jobs : Fetched(j)' = Fetched(j)
  BY <1>2, <1>5 DEF Ended, TERMINAL, Begun, Fetched
<1>7. Fetched(a) <= Pieces[a] /\ job[a].played <= Pieces[a]
  BY <1>4 DEF CountsOf, Fetched
<1>8. ASSUME CompletesHere, NEW p \in PieceNumbers PROVE ~Waits(a, p)
  <2> SUFFICES ASSUME Waits(a, p) PROVE FALSE
    OBVIOUS
  <2>1. kind[a] # "silent" /\ Fetched(a) < p /\ p <= Pieces[a]
    BY <1>4 DEF IInv, Queue, WaitingIsMade
  <2>2. job[a].played = Pieces[a]
    BY <2>1, <1>3, <1>8
  <2>3. Fetched(a) = Pieces[a] \/ Fetched(a) = Pieces[a] + 1
    BY <2>2, <1>4 DEF Fetched
  <2> QED BY <2>1, <2>3, <1>4
<1>9. TypeOK'
  <2>1. TypedTasks /\ TypedWorker /\ TypedPlayer /\ TypedFaults /\ TypedService
    BY Typed DEF IInv
  <2>2. TypedTasks' /\ TypedWorker' /\ TypedPlayer' /\ TypedFaults' /\ TypedService'
    BY <1>2, <1>5, <2>1
       DEF TypedTasks, TypedWorker, TypedPlayer, TypedFaults, TypedService, WorkerSteps
  <2> QED BY <2>2, TypesHold
<1>10. Places'
  BY <1>1, <1>2, <1>5, PieceTaken DEF IInv, Places, Played
<1>11. Counts'
  <2>1. PieceMade'
    BY <1>2 DEF PieceMade
  <2>2. PieceInHand'
    <3>1. \A j \in Jobs : job'[j].made = job[j].made /\ job'[j].played = job[j].played
      BY <1>5
    <3> QED BY <1>2, <3>1, HandStays
  <2>3. ASSUME NEW j \in Jobs, j # a PROVE CountsOf(j)'
    BY <2>3, <1>2, <1>4, <1>5, <1>6 DEF CountsOf
  <2>4. CountsOf(a)'
    <3>1. job[a].played # Pieces[a] => job[a].played < Pieces[a]
      BY <1>4, <1>7
    <3> QED BY <3>1, <1>2, <1>3, <1>4, <1>5, <1>6 DEF CountsOf
  <2> QED BY <2>1, <2>2, <2>3, <2>4 DEF Counts
<1>12. \A j \in Jobs : RecordStep(j)
  <2> SUFFICES ASSUME NEW j \in Jobs PROVE RecordStep(j)
    OBVIOUS
  <2>1. CASE j # a
    BY <1>1, <1>2, <1>5, <2>1, RecordStill DEF Played
  <2>2. CASE j = a
    <3>1. a \notin pending
      BY <1>2, <1>4 DEF RecordOf, Begun
    <3> QED BY <1>1, <1>2, <1>5, <1>6, <2>2, <3>1 DEF RecordStep, Begun, WorkerSteps
  <2> QED BY <2>1, <2>2
<1>13. InTurn'
  <2>1. \A j \in Jobs : j # a => job'[j].done = job[j].done /\ (Begun(j) => job[j].done)
    BY <1>1, <1>2, <1>5 DEF IInv, InTurn
  <2> QED BY <1>1, <1>2, <1>5, <1>6, <1>9, <1>12, <2>1, TurnStays DEF WorkerSteps
<1>14. Queue'
  <2>1. \A j \in Jobs : Ended(j)' => Ended(j) \/ \A p \in PieceNumbers : ~Waits(j, p)
    BY <1>6, <1>8
  <2>2. \A j \in Jobs : job'[j].made = job[j].made /\ job'[j].played = job[j].played
    BY <1>5
  <2> QED BY <1>2, <1>6, <2>1, <2>2, NoneLost, QueueLess
<1>15. Sound'
  <2>1. DiskOnlyGrows
    BY <1>2, <1>9, <1>12, RecordsStay
  <2>2. ASSUME player.up PROVE /\ job'[Played].status # "cancelled"
                               /\ job'[Played].status = "completed" =>
                                    \/ job[Played].status = "completed"
                                    \/ playStep = "reap" /\ player.out = player.fed
    <3>1. Played \in Jobs /\ job[Played].status # "cancelled"
      BY <2>2, PieceTaken DEF IInv, Sound, PlayerSound
    <3>2. CASE Played # a
      BY <3>1, <3>2, <1>5
    <3>3. CASE Played = a /\ ~CompletesHere
      BY <3>1, <3>3, <1>5
    <3>4. CASE Played = a /\ CompletesHere
      <4>1. kind[a] = "pieces" /\ job[a].played = Pieces[a]
        BY <3>4, <3>1, <1>3 DEF IInv, Places
      <4>2. playStep \in {"sound", "reap"} /\ player.out = player.fed
        BY <2>2, <3>4, <4>1 DEF IInv, Sound, PlayerSound
      <4>3. playStep # "sound"
        <5> SUFFICES ASSUME playStep = "sound" PROVE FALSE
          OBVIOUS
        <5>1. Fetched(a) = job[a].played + 1
          BY <3>4 DEF Fetched, InHand, Played
        <5> QED BY <5>1, <4>1, <1>7, <1>4
      <4> QED BY <3>4, <4>2, <4>3, <1>5
    <3> QED BY <3>2, <3>3, <3>4
  <2>3. \A j \in Jobs : job'[j].played = job[j].played
    BY <1>5
  <2> QED BY <1>2, <1>6, <2>1, <2>2, <2>3, PlayerUndisturbed
<1>16. \A j \in Jobs : job'[j].status = "completed" /\ kind[j] # "silent" =>
         job[j].status = "completed" \/ \A p \in 1 .. Pieces[j] : <<j, p>> \in heard
  <2> SUFFICES ASSUME NEW j \in Jobs, job'[j].status = "completed", kind[j] # "silent",
                      job[j].status # "completed"
               PROVE  \A p \in 1 .. Pieces[j] : <<j, p>> \in heard
    OBVIOUS
  <2>1. j = a /\ kind[a] = "pieces" /\ job[a].played = Pieces[a]
    BY <1>3, <1>5
  <2> QED BY <2>1 DEF IInv, Sound
<1> QED BY <1>2, <1>9, <1>10, <1>11, <1>12, <1>13, <1>14, <1>15, <1>16, Together

LEMMA WorkerFailsKeeps ==
  ASSUME IInv, WorkerFails
  PROVE  IInv'
<1> USE JobNumbers
<1>1. PICK a \in Jobs : a = active
  BY TaskInHand DEF WorkerFails, WorkerSteps
<1>2. /\ step \in {"synth", "join"} /\ ~Ended(a) /\ Live /\ Live' /\ Begun(a) /\ step' = "end"
      /\ UNCHANGED <<stored, kind, pending, active, activePlay, playing, playStep,
                     broken, unstored, faults, lostStore, mode, restore, restarts,
                     heard, filtered, kept>>
      /\ job' = [job EXCEPT ![a].status = "failed"]
      /\ playQueue' = Without({a})
      /\ player' = player \/ player' = Killed
  BY <1>1, TaskInHand
     DEF WorkerFails, faultVars, serviceVars, historyVars, Live, WorkerSteps
<1>3. /\ job \in [Jobs -> MemoryRecord]
      /\ \A j \in Jobs : job[j] \in MemoryRecord /\ RecordOf(j) /\ CountsOf(j)
  BY <1>2, Shape DEF IInv, Counts, Records
<1>4. /\ job' \in [Jobs -> MemoryRecord]
      /\ job'[a].status = "failed"
      /\ job'[a].made = job[a].made /\ job'[a].played = job[a].played
      /\ job'[a].done = job[a].done /\ job'[a].started = job[a].started
      /\ \A j \in Jobs : j # a => job'[j] = job[j]
  BY <1>2, <1>3 DEF MemoryRecord, Statuses, TERMINAL
<1>5. /\ \A j \in Jobs : (Ended(j) => Ended(j)') /\ (j # a => (Ended(j)' <=> Ended(j)))
      /\ \A j \in Jobs : Begun(j)' => Begun(j) /\ j # a
      /\ Ended(a)'
  BY <1>2, <1>4 DEF Ended, TERMINAL, Begun
<1>6. QueueLoses({a}) /\ playQueue' \in Seq(Jobs \X PieceNumbers)
  BY <1>2, SomeLost
<1>7. player' \in PlayerRecord /\ (player' = player \/ ~player'.up)
  <2>1. player \in PlayerRecord
    BY DEF IInv, TypeOK, PlayerRecord
  <2> QED BY <1>2, <2>1 DEF Killed, PlayerRecord
<1>8. TypeOK'
  <2>1. TypedTasks /\ TypedWorker /\ TypedPlayer /\ TypedFaults /\ TypedService
    BY Typed DEF IInv
  <2>2. TypedTasks' /\ TypedWorker' /\ TypedPlayer' /\ TypedFaults' /\ TypedService'
    BY <1>1, <1>2, <1>4, <1>6, <1>7, <2>1
       DEF TypedTasks, TypedWorker, TypedPlayer, TypedFaults, TypedService, WorkerSteps
  <2> QED BY <2>2, TypesHold
<1>9. Places'
  BY <1>1, <1>2, <1>4, PieceTaken DEF IInv, Places, Played, Killed, NoPlayer
<1>10. Counts'
  <2>1. PieceMade'
    BY <1>2 DEF PieceMade
  <2>2. \A j \in Jobs : /\ job'[j].made = job[j].made /\ job'[j].played = job[j].played
                        /\ job'[j].done = job[j].done /\ (Ended(j) => Ended(j)')
                        /\ (job'[j].status \in {"none", "queued"} =>
                              job[j].status \in {"none", "queued"})
    BY <1>4, <1>5
  <2> QED BY <1>2, <2>1, <2>2, CountsStay
<1>11. \A j \in Jobs : RecordStep(j)
  <2> SUFFICES ASSUME NEW j \in Jobs PROVE RecordStep(j)
    OBVIOUS
  <2>1. CASE j # a
    BY <1>1, <1>2, <1>4, <2>1, RecordStill DEF Played
  <2>2. CASE j = a
    <3>1. a \notin pending
      BY <1>2, <1>3 DEF RecordOf, Begun
    <3> QED BY <1>1, <1>2, <1>4, <1>5, <2>2, <3>1 DEF RecordStep, Begun, WorkerSteps
  <2> QED BY <2>1, <2>2
<1>12. InTurn'
  <2>1. \A j \in Jobs : j # a => job'[j].done = job[j].done
    BY <1>4
  <2> QED BY <1>1, <1>2, <1>5, <1>8, <1>11, <2>1, TurnStays DEF WorkerSteps
<1>13. Queue'
  <2>1. \A j \in Jobs : job'[j].made = job[j].made /\ job'[j].played = job[j].played
    BY <1>4
  <2>2. /\ \A j \in Jobs : ~Ended(j)' => j \notin {a}
        /\ \A j \in Jobs : Ended(j)' => Ended(j) \/ j \in {a}
    BY <1>5
  <2> QED BY <1>2, <1>5, <1>6, <2>1, <2>2, QueueLess
<1>14. Sound'
  <2>1. DiskOnlyGrows
    BY <1>2, <1>8, <1>11, RecordsStay
  <2>2. \A j \in Jobs : job'[j].played = job[j].played
    BY <1>4
  <2>3. ASSUME player.up PROVE /\ job'[Played].status # "cancelled"
                               /\ job'[Played].status = "completed" => job[Played].status = "completed"
    <3>1. Played \in Jobs /\ job[Played].status # "cancelled"
      BY <2>3, PieceTaken DEF IInv, Sound, PlayerSound
    <3> QED BY <3>1, <1>4
  <2> QED BY <1>2, <1>5, <1>7, <2>1, <2>2, <2>3, PlayerUndisturbed
<1>15. \A j \in Jobs : job'[j].status = "completed" => job[j].status = "completed"
  BY <1>4
<1> QED BY <1>2, <1>8, <1>9, <1>10, <1>11, <1>12, <1>13, <1>14, <1>15, Together

LEMMA EndJobKeeps ==
  ASSUME IInv, EndJob
  PROVE  IInv'
<1> USE JobNumbers
<1>1. PICK a \in Jobs : a = active
  BY TaskInHand DEF EndJob, WorkerSteps
<1>2. /\ step \in WorkerSteps /\ Live /\ Live' /\ active' = NoJob /\ step' = "idle"
      /\ step = "end" \/ Ended(a) \/ mode = "closing"
      /\ UNCHANGED <<kind, pending, playQueue, activePlay, playing, playStep,
                     player, broken, mode, restore, restarts, heard, filtered, kept>>
      /\ Save({a}, job) /\ Prune
  BY <1>1, TaskInHand DEF EndJob, playVars, serviceVars, historyVars, Live, WorkerSteps,
                          Stopping, Closed
<1>3. /\ job \in [Jobs -> MemoryRecord]
      /\ \A j \in Jobs : job[j] \in MemoryRecord /\ RecordOf(j) /\ CountsOf(j)
      /\ job[a].status \notin {"none", "queued"}
  BY <1>1, <1>2, Shape, TaskInHand DEF IInv, Counts, Records
<1>4. /\ job' \in [Jobs -> MemoryRecord] /\ stored' \in [Jobs -> DiskRecord]
      /\ \A j \in Jobs :
           /\ job'[j].status = job[j].status
           /\ job'[j].made = job[j].made /\ job'[j].played = job[j].played
           /\ job'[j].done = job[j].done /\ (job[j].started => job'[j].started)
           /\ j # a => job'[j] = job[j] /\ stored'[j] = stored[j]
      /\ unstored => stored'[a] = stored[a]
      /\ ~unstored => stored'[a].status = job'[a].status /\ stored'[a].started = job'[a].started
  <2>1. /\ job' \in [Jobs -> MemoryRecord] /\ stored' \in [Jobs -> DiskRecord]
        /\ \A j \in Jobs : j # a => job'[j] = job[j] /\ stored'[j] = stored[j]
        /\ job'[a].status = job[a].status
        /\ job'[a].made = job[a].made /\ job'[a].played = job[a].played
        /\ job'[a].done = job[a].done
        /\ job[a].started => job'[a].started
        /\ unstored => stored'[a] = stored[a]
        /\ ~unstored => stored'[a].status = job'[a].status /\ stored'[a].started = job'[a].started
    BY <1>2, <1>3, SavedOne
  <2> QED BY <2>1
<1>5. \A j \in Jobs : (Ended(j)' <=> Ended(j)) /\ (Begun(j)' <=> Begun(j))
  BY <1>4 DEF Ended, Begun
<1>6. /\ unstored => lostStore
      /\ lostStore => lostStore'
      /\ unstored' \in BOOLEAN /\ lostStore' \in BOOLEAN /\ faults' \in 0 .. MaxFaults
      /\ unstored' => lostStore'
  BY <1>2, Pruned
<1>7. TypeOK'
  <2>1. TypedTasks /\ TypedWorker /\ TypedPlayer /\ TypedFaults /\ TypedService
    BY Typed DEF IInv
  <2>2. TypedTasks' /\ TypedWorker' /\ TypedPlayer' /\ TypedFaults' /\ TypedService'
    BY <1>2, <1>4, <1>6, <2>1
       DEF TypedTasks, TypedWorker, TypedPlayer, TypedFaults, TypedService, WorkerSteps
  <2> QED BY <2>2, TypesHold
<1>8. Places'
  BY <1>2, <1>4, <1>6, PieceTaken DEF IInv, Places, Played
<1>9. Counts'
  <2>1. PieceMade'
    BY <1>2 DEF PieceMade
  <2> QED BY <1>2, <1>4, <1>5, <2>1, CountsStay
<1>10. \A j \in Jobs : RecordStep(j)
  <2> SUFFICES ASSUME NEW j \in Jobs PROVE RecordStep(j)
    OBVIOUS
  <2>1. CASE j # a
    BY <1>1, <1>2, <1>4, <1>6, <2>1, RecordStill DEF Played
  <2>2. CASE j = a
    <3>1. RecordOf(a) /\ stored[a] \in DiskRecord
      BY <1>3, Shape
    <3>2. a \in pending => Ended(a) /\ lostStore
      BY <3>1, <1>3 DEF RecordOf
    <3>3. ~lostStore' /\ Ended(a)' => StoredEnded(a)'
      BY <1>4, <1>6 DEF StoredEnded, Ended
    <3> QED BY <1>2, <1>3, <1>4, <1>5, <1>6, <2>2, <3>1, <3>2, <3>3 DEF RecordStep
  <2> QED BY <2>1, <2>2
<1>11. InTurn'
  <2>1. mode = "up" => \A j \in Jobs : Begun(j)' => job'[j].done
    <3> SUFFICES ASSUME mode = "up", NEW j \in Jobs, Begun(j) PROVE job[j].done
      BY <1>4, <1>5
    <3>1. CASE j # a
      BY <3>1, <1>1 DEF IInv, InTurn
    <3>2. CASE j = a
      BY <3>2, <1>2 DEF IInv, InTurn, Begun, Ended, TERMINAL
    <3> QED BY <3>1, <3>2
  <2> QED BY <1>2, <1>5, <1>6, <1>7, <1>10, <2>1, TurnStays DEF WorkerSteps
<1>12. Queue'
  BY <1>2, <1>4, <1>5, NoneLost, QueueLess
<1>13. Sound'
  <2>1. DiskOnlyGrows
    BY <1>2, <1>6, <1>7, <1>10, RecordsStay
  <2> QED BY <1>2, <1>4, <1>5, <2>1, PieceTaken, PlayerUndisturbed
             DEF IInv, Sound, PlayerSound
<1> QED BY <1>2, <1>4, <1>6, <1>7, <1>8, <1>9, <1>10, <1>11, <1>12, <1>13, Together

-----------------------------------------------------------------------------
(***************************************************************************)
(* fatal_error                                                             *)
(***************************************************************************)

\* The tasks fatal_error ends.
Lost(owned) == owned \cup ({active, activePlay} \ {NoJob})
                 \cup {piece[1] : piece \in ToSet(playQueue)}

\* The records as fatal_error finds them: a request may have cancelled its task.
CancelledBefore(mem, owned, store) ==
  \A j \in Jobs :
    \/ mem[j] = job[j]
    \/ /\ store /\ j \in owned /\ ~Ended(j)
       /\ mem[j] = [job[j] EXCEPT !.status = "cancelled"]

\* What waits for playback is of tasks that are begun.
LEMMA WaitingIsBegun ==
  ASSUME IInv, NEW j \in Jobs, NEW p \in PieceNumbers, Waits(j, p)
  PROVE  job[j].status \notin {"none", "queued"} /\ ~Ended(j) /\ Begun(j)
<1>1. ~Ended(j) /\ p <= job[j].made /\ p \in Nat \ {0} /\ CountsOf(j) /\ job[j] \in MemoryRecord
  BY JobNumbers, Shape DEF IInv, Queue, WaitingIsMade, Counts
<1>2. job[j].status \notin {"none", "queued"}
  BY <1>1 DEF CountsOf
<1> QED BY <1>1, <1>2, Shape

\* fatal_error ends what the threads have in hand and whatever waits for playback.
LEMMA LostTasks ==
  ASSUME IInv, NEW owned \in SUBSET Jobs
  PROVE  /\ Lost(owned) \subseteq Jobs
         /\ \A j \in Jobs : j = active \/ j = activePlay => j \in Lost(owned)
         /\ \A j \in Lost(owned) : j \in owned \/ job[j].status \notin {"none", "queued"}
         /\ \A j \in Jobs, p \in PieceNumbers : Waits(j, p) => j \in Lost(owned)
<1> USE JobNumbers
<1>1. \A j : j \in {piece[1] : piece \in ToSet(playQueue)} <=>
             \E i \in 1 .. Len(playQueue) : j = playQueue[i][1]
  <2>1. DOMAIN playQueue = 1 .. Len(playQueue)
    BY DEF IInv, TypeOK
  <2> QED BY <2>1 DEF ToSet
<1>2. ASSUME NEW j \in Jobs, NEW p \in PieceNumbers, Waits(j, p) PROVE j \in Lost(owned)
  <2>1. PICK i \in 1 .. Len(playQueue) : playQueue[i] = <<j, p>>
    BY <1>2 DEF Waits
  <2>2. j \in {piece[1] : piece \in ToSet(playQueue)}
    <3>1. i \in 1 .. Len(playQueue) /\ j = playQueue[i][1]
      BY <2>1
    <3> QED BY <1>1, <3>1
  <2> QED BY <2>2 DEF Lost
<1>3. ASSUME NEW j \in Lost(owned)
      PROVE  j \in Jobs /\ (j \in owned \/ job[j].status \notin {"none", "queued"})
  <2>1. CASE j \in owned
    BY <2>1
  <2>2. CASE j \in {active, activePlay} \ {NoJob}
    BY <2>2, PieceTaken DEF IInv, TypeOK, Places
  <2>3. CASE j \in {piece[1] : piece \in ToSet(playQueue)}
    <3>1. PICK i \in 1 .. Len(playQueue) : j = playQueue[i][1]
      BY <1>1, <2>3
    <3>2. playQueue[i] \in Jobs \X PieceNumbers
      BY PiecesQueued DEF IInv
    <3>3. j \in Jobs /\ playQueue[i][2] \in PieceNumbers /\ playQueue[i] = <<j, playQueue[i][2]>>
      BY <3>1, <3>2
    <3>4. Waits(j, playQueue[i][2])
      BY <3>3 DEF Waits
    <3> QED BY <3>3, <3>4, WaitingIsBegun
  <2> QED BY <2>1, <2>2, <2>3 DEF Lost
<1>4. \A j \in Jobs : j = active \/ j = activePlay => j \in Lost(owned)
  BY DEF Lost
<1> QED BY <1>2, <1>3, <1>4

\* What fatal_error does to the records and the history of faults.
LEMMA FatalEffects ==
  ASSUME IInv, NEW owned \in SUBSET Jobs, NEW store \in BOOLEAN,
         NEW mem \in [Jobs -> MemoryRecord], CancelledBefore(mem, owned, store),
         FatalError(mem, owned, store)
  PROVE  /\ job' \in [Jobs -> MemoryRecord] /\ stored' \in [Jobs -> DiskRecord]
         /\ \A j \in Jobs :
              /\ job'[j].made = job[j].made /\ job'[j].played = job[j].played
              /\ job'[j].done = job[j].done /\ job'[j].started = job[j].started
              /\ j \notin Lost(owned) \/ Ended(j) => job'[j] = job[j]
              /\ j \notin Lost(owned) => stored'[j] = stored[j]
              /\ j \in Lost(owned) => Ended(j)'
              /\ job'[j] # job[j] => job'[j].status \in {"failed", "cancelled"}
              /\ stored'[j] = stored[j] \/ stored'[j] = OnDisk(job'[j])
              /\ j \in Lost(owned) /\ ~lostStore' => stored'[j] = OnDisk(job'[j])
              /\ store => stored'[j] = stored[j]
         /\ store => lostStore'
         /\ lostStore => lostStore'
         /\ broken' \in BOOLEAN /\ unstored' \in BOOLEAN /\ lostStore' \in BOOLEAN
         /\ faults' \in 0 .. MaxFaults /\ (unstored' => lostStore')
         /\ playQueue' = <<>> /\ activePlay' = NoJob /\ player' = NoPlayer
         /\ UNCHANGED <<kind, mode, restore, restarts, heard, filtered, kept>>
<1> DEFINE lost == Lost(owned)
           failed == [j \in Jobs |->
                        IF j \in lost /\ mem[j].status \notin TERMINAL
                        THEN [mem[j] EXCEPT !.status = "failed"] ELSE mem[j]]
<1>1. /\ job' = failed
      /\ \E saved \in SUBSET lost :
           /\ stored' = [j \in Jobs |-> IF j \in saved THEN OnDisk(failed[j]) ELSE stored[j]]
           /\ IF store \/ unstored
              THEN saved = {} /\ unstored' = TRUE /\ Faults(1)
              ELSE /\ unstored' = (saved # lost)
                   /\ Faults(IF saved = lost THEN 1 ELSE 2)
  BY DEF FatalError, Lost
<1>2. /\ broken' = TRUE /\ lostStore' = (lostStore \/ unstored') /\ playQueue' = <<>>
      /\ activePlay' = NoJob /\ player' = NoPlayer
      /\ UNCHANGED <<kind, mode, restore, restarts, heard, filtered, kept>>
  BY DEF FatalError, serviceVars, historyVars
<1> PICK saved \in SUBSET lost :
      /\ stored' = [j \in Jobs |-> IF j \in saved THEN OnDisk(failed[j]) ELSE stored[j]]
      /\ IF store \/ unstored
         THEN saved = {} /\ unstored' = TRUE /\ Faults(1)
         ELSE /\ unstored' = (saved # lost)
              /\ Faults(IF saved = lost THEN 1 ELSE 2)
  BY <1>1
<1>3. faults' \in 0 .. MaxFaults
  <2>1. Faults(1) \/ Faults(2)
    OBVIOUS
  <2> QED BY <2>1, FaultsCounted
<1>4. /\ unstored' \in BOOLEAN /\ lostStore' \in BOOLEAN /\ (unstored' => lostStore')
      /\ lostStore => lostStore'
      /\ store => saved = {} /\ lostStore'
      /\ ~lostStore' => saved = lost
  BY <1>2 DEF IInv, TypeOK
<1>5. ASSUME NEW j \in Jobs
      PROVE  /\ failed[j] \in MemoryRecord /\ OnDisk(failed[j]) \in DiskRecord
             /\ failed[j].made = job[j].made /\ failed[j].played = job[j].played
             /\ failed[j].done = job[j].done /\ failed[j].started = job[j].started
             /\ j \notin lost \/ job[j].status \in TERMINAL => failed[j] = job[j]
             /\ j \in lost => failed[j].status \in TERMINAL
             /\ failed[j] # job[j] => failed[j].status \in {"failed", "cancelled"}
  <2>1. job[j] \in MemoryRecord /\ mem[j] \in MemoryRecord
    BY Shape
  <2>2. failed[j] = IF j \in lost /\ mem[j].status \notin TERMINAL
                    THEN [mem[j] EXCEPT !.status = "failed"] ELSE mem[j]
    OBVIOUS
  <2>3. owned \subseteq lost
    BY DEF Lost
  <2>4. CASE mem[j] = job[j]
    BY <2>1, <2>2, <2>4 DEF MemoryRecord, DiskRecord, OnDisk, Statuses, TERMINAL
  <2>5. CASE j \in owned /\ ~Ended(j) /\ mem[j] = [job[j] EXCEPT !.status = "cancelled"]
    BY <2>1, <2>2, <2>3, <2>5
       DEF MemoryRecord, DiskRecord, OnDisk, Statuses, TERMINAL, Ended
  <2> QED BY <2>4, <2>5 DEF CancelledBefore
<1> HIDE DEF lost, failed
<1>6. job' \in [Jobs -> MemoryRecord]
  <2>1. failed = [j \in Jobs |-> failed[j]]
    BY DEF failed
  <2> QED BY <1>1, <1>5, <2>1
<1>7. stored' \in [Jobs -> DiskRecord]
  BY <1>5, Shape
<1>8. ASSUME NEW j \in Jobs
      PROVE  /\ job'[j].made = job[j].made /\ job'[j].played = job[j].played
             /\ job'[j].done = job[j].done /\ job'[j].started = job[j].started
             /\ j \notin lost \/ Ended(j) => job'[j] = job[j]
             /\ j \notin lost => stored'[j] = stored[j]
             /\ j \in lost => Ended(j)'
             /\ job'[j] # job[j] => job'[j].status \in {"failed", "cancelled"}
             /\ stored'[j] = stored[j] \/ stored'[j] = OnDisk(job'[j])
             /\ j \in lost /\ ~lostStore' => stored'[j] = OnDisk(job'[j])
             /\ store => stored'[j] = stored[j]
  BY <1>1, <1>4, <1>5 DEF Ended
<1> QED BY <1>2, <1>3, <1>4, <1>6, <1>7, <1>8 DEF lost

LEMMA FatalKeeps ==
  ASSUME IInv, Live, NEW owned \in SUBSET Jobs, NEW store \in BOOLEAN,
         NEW mem \in [Jobs -> MemoryRecord], CancelledBefore(mem, owned, store),
         FatalError(mem, owned, store),
         \A j \in owned : job[j].status # "none" /\ (store \/ job[j].status # "queued"),
         pending' \subseteq pending, mode = "closing" => pending' = pending,
         \A j \in pending : ~Ended(j)' => j \in pending',
         active' = active,
         step' = step \/ (step \in WorkerSteps /\ step' = "end") \/ step' = "ended",
         \/ UNCHANGED <<playing, playStep>>
         \/ playStep \in PlaySteps /\ Played \in owned /\ playStep' = "ended" /\ playing' = NoPiece
  PROVE  IInv'
<1> USE JobNumbers
<1> DEFINE lost == Lost(owned)
<1>1. /\ job' \in [Jobs -> MemoryRecord] /\ stored' \in [Jobs -> DiskRecord]
      /\ \A j \in Jobs :
           /\ job'[j].made = job[j].made /\ job'[j].played = job[j].played
           /\ job'[j].done = job[j].done /\ job'[j].started = job[j].started
           /\ j \notin lost \/ Ended(j) => job'[j] = job[j]
           /\ j \notin lost => stored'[j] = stored[j]
           /\ j \in lost => Ended(j)'
           /\ job'[j] # job[j] => job'[j].status \in {"failed", "cancelled"}
           /\ stored'[j] = stored[j] \/ stored'[j] = OnDisk(job'[j])
           /\ j \in lost /\ ~lostStore' => stored'[j] = OnDisk(job'[j])
           /\ store => stored'[j] = stored[j]
      /\ store => lostStore'
      /\ lostStore => lostStore'
      /\ broken' \in BOOLEAN /\ unstored' \in BOOLEAN /\ lostStore' \in BOOLEAN
      /\ faults' \in 0 .. MaxFaults /\ (unstored' => lostStore')
      /\ playQueue' = <<>> /\ activePlay' = NoJob /\ player' = NoPlayer
      /\ UNCHANGED <<kind, mode, restore, restarts, heard, filtered, kept>>
  BY FatalEffects
<1>2. /\ lost \subseteq Jobs
      /\ \A j \in Jobs : j = active \/ j = activePlay => j \in lost
      /\ \A j \in lost : j \in owned \/ job[j].status \notin {"none", "queued"}
      /\ \A j \in Jobs, p \in PieceNumbers : Waits(j, p) => j \in lost
      /\ owned \subseteq lost
  BY LostTasks DEF Lost
<1> HIDE DEF lost
<1>3. /\ Live' /\ ~player'.up
      /\ \A j \in Jobs : job[j] \in MemoryRecord /\ stored[j] \in DiskRecord
      /\ \A j \in Jobs : RecordOf(j)
  BY <1>1, Shape DEF Live, NoPlayer, IInv, Records
<1>4. /\ \A j \in Jobs : (Ended(j) => Ended(j)') /\ (Begun(j)' => Begun(j) /\ j \notin lost)
      /\ \A j \in Jobs : Ended(j)' => Ended(j) \/ j \in lost
      /\ \A j \in Jobs : /\ (job'[j].status \in {"none", "queued"} => job'[j] = job[j])
                         /\ (job'[j].status = "none" <=> job[j].status = "none")
  <2> SUFFICES ASSUME NEW j \in Jobs
               PROVE  /\ (Ended(j) => Ended(j)') /\ (Begun(j)' => Begun(j) /\ j \notin lost)
                      /\ (Ended(j)' => Ended(j) \/ j \in lost)
                      /\ (job'[j].status \in {"none", "queued"} => job'[j] = job[j])
                      /\ (job'[j].status = "none" <=> job[j].status = "none")
    OBVIOUS
  <2>1. CASE job'[j] = job[j]
    BY <2>1, <1>1 DEF Ended, Begun, TERMINAL
  <2>2. CASE job'[j] # job[j]
    <3>1. job'[j].status \in {"failed", "cancelled"} /\ ~Ended(j) /\ j \in lost
      BY <2>2, <1>1
    <3>2. job[j].status # "none"
      BY <3>1, <1>2
    <3> QED BY <3>1, <3>2 DEF Ended, Begun, TERMINAL
  <2> QED BY <2>1, <2>2
<1>5. TypeOK'
  <2>1. TypedTasks /\ TypedWorker /\ TypedPlayer /\ TypedFaults /\ TypedService
    BY Typed DEF IInv
  <2>2. TypedTasks'
    <3>1. <<>> \in Seq(Jobs \X PieceNumbers)
      OBVIOUS
    <3> QED BY <1>1, <2>1, <3>1 DEF TypedTasks
  <2>3. TypedWorker'
    BY <2>1 DEF TypedWorker, WorkerSteps
  <2>4. TypedPlayer'
    <3>1. NoPlayer \in PlayerRecord
      BY DEF NoPlayer, PlayerRecord
    <3> QED BY <1>1, <2>1, <3>1 DEF TypedPlayer, PlaySteps
  <2>5. TypedFaults' /\ TypedService'
    BY <1>1, <2>1 DEF TypedFaults, TypedService
  <2> QED BY <2>2, <2>3, <2>4, <2>5, TypesHold
<1>6. Places'
  <2>1. (unstored => lostStore)' /\ (mode = "up" => restore = {})'
        /\ activePlay' = NoJob /\ player' = NoPlayer
    BY <1>1 DEF IInv, Places
  <2>2. (step = "idle" => active = NoJob)'
    BY DEF IInv, Places
  <2>3. active' # NoJob => job'[active'].status \notin {"none", "queued"}
    BY <1>4 DEF IInv, Places, TypeOK
  <2>4. CASE UNCHANGED <<playing, playStep>>
    <3>1. Played' # NoJob => job'[Played].status \notin {"none", "queued"} /\ kind[Played] # "silent"
      BY <2>4, <1>1, <1>4, PieceTaken DEF IInv, Places, Played
    <3> QED BY <2>1, <2>2, <2>3, <2>4, <3>1, <1>1 DEF IInv, Places, Played
  <2>5. CASE playStep' = "ended" /\ playing' = NoPiece
    <3>1. Played' = NoJob
      BY <2>5 DEF Played, NoPiece
    <3> QED BY <2>1, <2>2, <2>3, <2>5, <3>1 DEF Places
  <2> QED BY <2>4, <2>5
<1>7. PieceMade'
  <2>1. \A j \in Jobs : job'[j].made = job[j].made
    BY <1>1
  <2>2. step' \in {"synth", "join"} => step' = step /\ active' = active /\ active \in Jobs
    BY DEF IInv, TypeOK, WorkerSteps
  <2> QED BY <2>1, <2>2, MadeStays
<1>8. \A j \in Jobs : /\ job'[j].made = job[j].made /\ job'[j].played = job[j].played
                      /\ job'[j].done = job[j].done /\ (Ended(j) => Ended(j)')
                      /\ (job'[j].status \in {"none", "queued"} =>
                            job[j].status \in {"none", "queued"})
  BY <1>1, <1>4
<1>9. \A j \in Jobs : RecordStep(j)
  <2> SUFFICES ASSUME NEW j \in Jobs PROVE RecordStep(j)
    OBVIOUS
  <2>1. /\ \/ stored'[j] = stored[j]
           \/ stored'[j].status = job'[j].status /\ stored'[j].started = job'[j].started
    BY <1>1 DEF OnDisk
  <2>2. j \in pending' => /\ j \in pending
                          /\ job'[j] = job[j] \/ Ended(j)'
                          /\ (job'[j] = job[j] /\ stored'[j] = stored[j]) \/ lostStore'
    <3> SUFFICES ASSUME j \in pending'
                 PROVE  /\ job'[j] = job[j] \/ Ended(j)'
                        /\ (job'[j] = job[j] /\ stored'[j] = stored[j]) \/ lostStore'
      OBVIOUS
    <3>1. job'[j] = job[j] \/ Ended(j)'
      BY <1>1
    <3>2. ASSUME ~lostStore' PROVE job'[j] = job[j] /\ stored'[j] = stored[j]
      <4>1. job[j].status = "queued" /\ stored[j].status = "queued" /\ ~store
        BY <3>2, <1>1, <1>3 DEF RecordOf
      <4>2. j \notin lost
        BY <4>1, <1>2
      <4> QED BY <4>2, <1>1
    <3> QED BY <3>1, <3>2
  <2>3. ~lostStore' /\ Ended(j)' => \/ StoredEnded(j)'
                                    \/ j = active' /\ step' \in WorkerSteps
                                    \/ j = Played' /\ playStep' = "reap"
    <3> SUFFICES ASSUME ~lostStore', Ended(j)'
                 PROVE  StoredEnded(j)' \/ (j = Played' /\ playStep' = "reap")
      OBVIOUS
    <3>1. CASE j \in lost
      BY <3>1, <1>1 DEF StoredEnded, Ended, OnDisk
    <3>2. CASE j \notin lost
      <4>1. Ended(j) /\ job'[j] = job[j]
        BY <3>2, <1>1, <1>4
      <4>2. StoredEnded(j) \/ (j = Played /\ playStep = "reap")
        BY <3>2, <4>1, <1>1, <1>2, <1>3 DEF RecordOf
      <4>3. StoredEnded(j) => StoredEnded(j)'
        BY <4>1, <1>1 DEF StoredEnded, Ended, OnDisk
      <4> QED BY <3>2, <4>2, <4>3, <1>2 DEF Played
    <3> QED BY <3>1, <3>2
  <2>4. job'[j].status = "queued" => job[j].status = "queued" /\ j \in pending'
    <3> SUFFICES ASSUME job'[j].status = "queued" PROVE job[j].status = "queued" /\ j \in pending'
      OBVIOUS
    <3>1. job[j].status = "queued" /\ ~Ended(j)'
      BY <1>4 DEF Ended, TERMINAL
    <3> QED BY <3>1, <1>3 DEF RecordOf
  <2> QED BY <2>1, <2>2, <2>3, <2>4, <1>1, <1>4 DEF RecordStep
<1>10. InTurn'
  <2>1. \A j \in Jobs : job'[j].done = job[j].done /\ (Begun(j)' => j # active)
    BY <1>1, <1>2, <1>4
  <2>2. mode = "up" => \A j \in Jobs : Begun(j)' => job'[j].done
    BY <2>1, <1>4 DEF IInv, InTurn
  <2> QED BY <1>1, <1>3, <1>4, <1>5, <1>9, <2>2, TurnStays DEF WorkerSteps
<1>a. Held'
  <2>1. CASE UNCHANGED <<playing, playStep>>
    BY <2>1, <1>1, <1>2, <1>4 DEF IInv, Held, Played
  <2>2. CASE playStep' = "ended"
    BY <2>2 DEF Held, Sounding, PlaySteps
  <2> QED BY <2>1, <2>2
<1>11. CASE UNCHANGED <<playing, playStep>>
  <2>1. Counts'
    BY <1>1, <1>7, <1>8, <1>11, CountsStay
  <2>2. Queue'
    <3>1. \A j \in Jobs : ~Ended(j)' => \A p \in PieceNumbers : ~Waits(j, p)
      BY <1>1, <1>2
    <3> QED BY <1>1, <1>8, <1>11, <3>1, AllLost, QueueLess
  <2>3. Sound'
    <3>1. DiskOnlyGrows
      BY <1>1, <1>3, <1>5, <1>9, RecordsStay
    <3> QED BY <1>1, <1>3, <1>8, <1>11, <3>1, PlayerUndisturbed
  <2>4. \A j \in Jobs : job'[j].status = "completed" => job[j].status = "completed"
    BY <1>1
  <2> QED BY <1>1, <1>5, <1>6, <1>9, <1>10, <1>a, <2>1, <2>2, <2>3, <2>4, Together
<1>12. CASE playStep \in PlaySteps /\ Played \in owned /\ playStep' = "ended" /\ playing' = NoPiece
  <2>0. playStep' \notin PlaySteps
    BY <1>12 DEF PlaySteps
  <2>1. Counts' /\ \A j \in Jobs : Fetched(j)' = job[j].played
    BY <1>1, <1>7, <1>8, <1>12, <2>0, HandEmptied
  <2>2. Queue'
    <3>1. \A j \in Jobs : ~Ended(j)' => \A p \in PieceNumbers : ~Waits(j, p)
      BY <1>1, <1>2
    <3>2. \A j \in Jobs : j = Played => Ended(j)'
      BY <1>1, <1>2, <1>12
    <3> QED BY <1>1, <1>8, <1>12, <2>0, <2>1, <3>1, <3>2, AllLost, QueueLeft
  <2>3. Sound'
    BY <1>1, <1>3, <1>8, <2>0, SoundWithout
  <2>4. \A j \in Jobs : job'[j].status = "completed" => job[j].status = "completed"
    BY <1>1
  <2> QED BY <1>1, <1>5, <1>6, <1>9, <1>10, <1>a, <2>1, <2>2, <2>3, <2>4, Together
<1> QED BY <1>11, <1>12

LEMMA CancelFailsKeeps ==
  ASSUME IInv, NEW j \in Jobs, CancelFails(j)
  PROVE  IInv'
<1> DEFINE mem == [job EXCEPT ![j].status = "cancelled"]
<1>1. /\ mode = "up" /\ Live /\ j \in Unfinished /\ FatalError(mem, {j}, TRUE)
      /\ pending' = {i \in pending : stored'[i].status \notin TERMINAL}
      /\ UNCHANGED <<active, step, playing, playStep>>
  BY DEF CancelFails, workerVars, Live
<1>2. job \in [Jobs -> MemoryRecord] /\ job[j] \in MemoryRecord
  BY Shape
<1>3. mem \in [Jobs -> MemoryRecord] /\ \A i \in Jobs : i # j => mem[i] = job[i]
  BY <1>2 DEF MemoryRecord, Statuses, TERMINAL
<1>4. mem[j] = [job[j] EXCEPT !.status = "cancelled"]
  BY <1>2
<1>5. ~Ended(j) /\ job[j].status # "none"
  BY <1>1 DEF Unfinished, Ended
<1> HIDE DEF mem
<1>6. CancelledBefore(mem, {j}, TRUE)
  BY <1>3, <1>4, <1>5 DEF CancelledBefore
<1>7. \A i \in pending : ~Ended(i)' => i \in pending'
  <2> SUFFICES ASSUME NEW i \in pending, ~Ended(i)' PROVE stored'[i].status \notin TERMINAL
    BY <1>1
  <2>1. i \in Jobs
    BY DEF IInv, TypeOK
  <2>2. stored'[i] = stored[i] /\ (Ended(i) => job'[i] = job[i])
    BY <1>1, <1>3, <1>6, <2>1, FatalEffects
  <2>3. ~Ended(i)
    BY <2>2 DEF Ended
  <2>4. RecordOf(i)
    BY <1>1, <2>1 DEF IInv, Records
  <2>5. stored[i].status \notin TERMINAL
    BY <2>3, <2>4 DEF RecordOf, StoredEnded
  <2> QED BY <2>2, <2>5
<1>8. /\ TRUE \in BOOLEAN /\ {j} \in SUBSET Jobs
      /\ \A i \in {j} : job[i].status # "none" /\ (TRUE \/ job[i].status # "queued")
      /\ pending' \subseteq pending /\ (mode = "closing" => pending' = pending)
      /\ active' = active /\ step' = step
  BY <1>1, <1>5
<1> QED BY <1>1, <1>3, <1>6, <1>7, <1>8, FatalKeeps

LEMMA WorkerFatalKeeps ==
  ASSUME IInv, WorkerFatal
  PROVE  IInv'
<1>1. PICK store \in BOOLEAN : FatalError(job, {}, store)
  BY DEF WorkerFatal
<1>2. step \in WorkerSteps /\ step' = "end" /\ Live /\ UNCHANGED <<pending, active, playing, playStep>>
  BY TaskInHand DEF WorkerFatal, WorkerSteps
<1>3. job \in [Jobs -> MemoryRecord] /\ CancelledBefore(job, {}, store)
  BY Shape DEF CancelledBefore
<1> QED BY <1>1, <1>2, <1>3, FatalKeeps

LEMMA WorkerDiesKeeps ==
  ASSUME IInv, WorkerDies
  PROVE  IInv'
<1>1. PICK store \in BOOLEAN : store /\ FatalError(job, {}, store)
  BY DEF WorkerDies
<1>2. step' = "ended" /\ Live /\ UNCHANGED <<pending, active, playing, playStep>>
  BY DEF WorkerDies, IInv, Gone
<1>3. job \in [Jobs -> MemoryRecord] /\ CancelledBefore(job, {}, store)
  BY Shape DEF CancelledBefore
<1>4. /\ store \in BOOLEAN /\ {} \in SUBSET Jobs
      /\ \A j \in {} : job[j].status # "none" /\ (store \/ job[j].status # "queued")
  OBVIOUS
<1>5. /\ pending' \subseteq pending /\ (mode = "closing" => pending' = pending)
      /\ \A j \in pending : ~Ended(j)' => j \in pending'
      /\ active' = active
      /\ step' = step \/ (step \in WorkerSteps /\ step' = "end") \/ step' = "ended"
  BY <1>2
<1> QED BY <1>1, <1>2, <1>3, <1>4, <1>5, FatalKeeps

LEMMA PlayerDiesKeeps ==
  ASSUME IInv, PlayerDies
  PROVE  IInv'
<1>1. PICK store \in BOOLEAN : FatalError(job, {Played}, store)
  BY DEF PlayerDies
<1>2. PICK p \in Jobs : p = Played /\ job[p].status \notin {"none", "queued"}
  BY TaskPlayed DEF PlayerDies, PlaySteps
<1>3. /\ playStep \in PlaySteps /\ playStep' = "ended" /\ playing' = NoPiece /\ Live
      /\ UNCHANGED <<pending, active, step>>
  BY TaskPlayed DEF PlayerDies, PlaySteps, workerVars
<1>4. job \in [Jobs -> MemoryRecord] /\ CancelledBefore(job, {p}, store)
  BY Shape DEF CancelledBefore
<1> QED BY <1>1, <1>2, <1>3, <1>4, FatalKeeps

-----------------------------------------------------------------------------
(***************************************************************************)
(* What steps of the playback thread have in common                        *)
(***************************************************************************)

\* Pieces are taken from the queue with their tasks only.
LEMMA QueueFewer ==
  ASSUME IInv, NEW S, QueueLoses(S), UNCHANGED <<kind, playing>>,
         \A j \in Jobs : Fetched(j)' = Fetched(j) \/ (Ended(j)' /\ j \in S),
         \A j \in Jobs : Ended(j) => Ended(j)',
         \A j \in Jobs : ~Ended(j)' => j \notin S \/ \A p \in PieceNumbers : ~Waits(j, p),
         \A j \in Jobs : Ended(j)' => Ended(j) \/ j \in S \/ \A p \in PieceNumbers : ~Waits(j, p),
         \A j \in Jobs : job'[j].made = job[j].made,
         mode' = "up" => mode = "up", StreamIsWhole'
  PROVE  Queue'
<1>1. WaitingIsMade'
  <2> SUFFICES ASSUME NEW j \in Jobs, NEW p \in PieceNumbers, Waits(j, p)'
               PROVE  ~Ended(j)' /\ kind[j] # "silent" /\ Fetched(j)' < p /\ p <= job[j].made
    BY DEF WaitingIsMade
  <2>1. Waits(j, p) /\ j \notin S
    BY DEF QueueLoses
  <2>2. ~Ended(j) /\ kind[j] # "silent" /\ Fetched(j) < p /\ p <= job[j].made
    BY <2>1 DEF IInv, Queue, WaitingIsMade
  <2> QED BY <2>1, <2>2
<1>2. Sorted'
  BY DEF Sorted, Before, QueueLoses
<1>3. NotOvertaken'
  <2> SUFFICES ASSUME NEW j \in Jobs, j = Played, ~Ended(j), NEW i \in 1 .. Len(playQueue')
               PROVE  Before(playing, playQueue'[i])
    BY DEF NotOvertaken, Before, Played
  <2>1. PICK k \in 1 .. Len(playQueue) : playQueue'[i] = playQueue[k]
    BY DEF QueueLoses
  <2> QED BY <2>1 DEF IInv, Queue, NotOvertaken
<1>4. NothingSkipped'
  <2> SUFFICES ASSUME mode' = "up", NEW j \in Jobs, ~Ended(j)', kind[j] # "silent",
                      NEW p \in PieceNumbers, Fetched(j)' < p, p <= job[j].made
               PROVE  Waits(j, p)'
    BY DEF NothingSkipped
  <2>1. Waits(j, p)
    BY DEF IInv, Queue, NothingSkipped
  <2> QED BY <2>1 DEF QueueLoses
<1> QED BY <1>1, <1>2, <1>3, <1>4 DEF Queue

\* A continuous task goes on in the one player.
LEMMA WholeStays ==
  ASSUME IInv, UNCHANGED <<kind, mode, playing>>, playStep' # "open",
         \A j \in Jobs : Ended(j) => Ended(j)',
         \A j \in Jobs : j # Played => job'[j].played = job[j].played,
         playStep' = "reap" => \A j \in Jobs : j = Played => kind[j] = "pieces" \/ Ended(j)'
  PROVE  StreamIsWhole'
BY DEF IInv, Queue, StreamIsWhole, Played

\* A piece is taken or counted, and none is made.
LEMMA CountsFetched ==
  ASSUME IInv, kind' = kind, PieceMade', PieceInHand',
         \A j \in Jobs : /\ job'[j].made = job[j].made /\ job'[j].done = job[j].done
                         /\ (Ended(j) => Ended(j)')
                         /\ job'[j].status \in {"none", "queued"} =>
                              job[j].status \in {"none", "queued"}
                         /\ Fetched(j)' \in Nat /\ Fetched(j)' <= job[j].made
                         /\ job[j].done /\ kind[j] = "pieces" /\ ~Ended(j)' =>
                              job'[j].played < Pieces[j]
  PROVE  Counts'
<1>1. \A j \in Jobs : CountsOf(j)'
  <2> SUFFICES ASSUME NEW j \in Jobs PROVE CountsOf(j)'
    OBVIOUS
  <2>1. CountsOf(j)
    BY DEF IInv, Counts
  <2> QED BY <2>1 DEF CountsOf
<1> QED BY <1>1 DEF Counts

\* The piece in hand goes from one stretch of the playback thread to the next.
LEMMA HandMoves ==
  ASSUME IInv, UNCHANGED <<kind, mode, playing, playQueue, active, step>>,
         playStep \in InHand, playStep' \in InHand \ {"open"},
         \A j \in Jobs : /\ job'[j].made = job[j].made /\ job'[j].played = job[j].played
                         /\ job'[j].done = job[j].done /\ (Ended(j)' <=> Ended(j))
                         /\ job'[j].status \in {"none", "queued"} =>
                              job[j].status \in {"none", "queued"}
  PROVE  Counts' /\ Queue'
<1> USE JobNumbers
<1>1. \A j \in Jobs : /\ Fetched(j)' = Fetched(j) /\ Fetched(j) \in Nat /\ Fetched(j) <= job[j].made
                      /\ CountsOf(j)
  <2>1. \A j \in Jobs : Fetched(j)' = Fetched(j)
    BY DEF Fetched
  <2> QED BY <2>1, FetchedCount
<1>2. PieceMade'
  BY MadeStays DEF IInv, TypeOK, WorkerSteps
<1>3. PieceInHand'
  BY PieceTaken DEF IInv, Counts, PieceInHand, Played, InHand, PlaySteps
<1>4. Counts'
  BY <1>1, <1>2, <1>3, CountsFetched DEF CountsOf
<1>5. StreamIsWhole'
  BY WholeStays DEF InHand
<1> QED BY <1>1, <1>4, <1>5, NoneLost, QueueFewer

\* While a piece is in hand, every earlier task has ended and is on record as ended.
LEMMA EarlierEnded ==
  ASSUME IInv, mode = "up", ~lostStore, playStep \in PlaySteps, ~Ended(Played)
  PROVE  /\ \A k \in Jobs : k < Played => StoredEnded(k)
         /\ \A j \in Jobs, p \in PieceNumbers : <<j, p>> \in heard => j <= Played
<1> USE JobNumbers
<1>1. PICK b \in Jobs : b = Played
  BY TaskPlayed
<1>2. /\ Live /\ ~Ended(b) /\ Begun(b) /\ job[b].status # "none"
      /\ \A j \in Jobs : RecordOf(j) /\ CountsOf(j) /\ job[j] \in MemoryRecord
  BY <1>1, TaskPlayed, Shape DEF IInv, Records, Counts
<1>3. ASSUME NEW k \in Jobs, k < b PROVE StoredEnded(k)
  <2>0. k # b /\ k \in Nat /\ b \in Nat /\ Fetched(k) = job[k].played
        /\ job[k].played \in Nat /\ job[k].made \in Nat
    <3>1. k # b /\ k \in Nat /\ b \in Nat
      BY <1>3
    <3>2. job[k].played \in Nat /\ job[k].made \in Nat
      BY <1>2 DEF MemoryRecord
    <3> QED BY <1>1, <3>1, <3>2 DEF Fetched, Played
  <2>1. job[k].status # "none"
    BY <1>2, <1>3 DEF IInv, InTurn, RecordOf
  <2>2. job[k].status # "queued"
    <3>1. job[k].status = "queued" => b < k
      BY <1>2 DEF IInv, InTurn
    <3> QED BY <3>1, <2>0, <1>3
  <2>3. step \in WorkerSteps => k # active
    <3>1. step \in WorkerSteps => b <= active
      BY <1>2 DEF IInv, InTurn
    <3> QED BY <3>1, <2>0, <1>3
  <2>4. \A p \in PieceNumbers : ~Waits(k, p)
    <3> SUFFICES ASSUME NEW p \in PieceNumbers, Waits(k, p) PROVE FALSE
      OBVIOUS
    <3>1. PICK i \in 1 .. Len(playQueue) : playQueue[i] = <<k, p>>
      BY DEF Waits
    <3>2. Before(playing, <<k, p>>)
      BY <1>1, <1>2, <3>1 DEF IInv, Queue, NotOvertaken
    <3>3. b < k \/ b = k
      BY <1>1, <3>2 DEF Before, Played
    <3> QED BY <3>3, <2>0, <1>3
  <2>5. ~Begun(k)
    <3> SUFFICES ASSUME Begun(k) PROVE FALSE
      OBVIOUS
    <3>1. job[k].done /\ ~Ended(k)
      BY <2>3, Shape DEF IInv, InTurn, WorkerSteps
    <3>2. job[k].made = Pieces[k] /\ kind[k] # "silent" /\ Pieces[k] \in Nat \ {0}
      BY <3>1, <1>2 DEF CountsOf
    <3>3. job[k].played < Pieces[k]
      <4>1. CASE kind[k] = "pieces"
        BY <4>1, <3>1, <1>2 DEF CountsOf
      <4>2. CASE kind[k] = "stream"
        <5>1. job[k].played = 0
          BY <4>2, <3>1, <2>0, <1>1 DEF IInv, Queue, StreamIsWhole
        <5> QED BY <5>1, <3>2
      <4> QED BY <4>1, <4>2, <3>2 DEF IInv, TypeOK, AllKinds
    <3>4. Pieces[k] \in PieceNumbers
      BY <3>2
    <3>5. Fetched(k) < Pieces[k] /\ Pieces[k] <= job[k].made
      BY <3>2, <3>3, <2>0
    <3>6. Waits(k, Pieces[k])
      BY <3>1, <3>2, <3>4, <3>5 DEF IInv, Queue, NothingSkipped
    <3> QED BY <3>4, <3>6, <2>4
  <2>6. Ended(k)
    BY <2>1, <2>2, <2>5, Shape
  <2> QED BY <2>0, <2>3, <2>6, <1>1, <1>2 DEF RecordOf
<1>4. ASSUME NEW j \in Jobs, NEW p \in PieceNumbers, <<j, p>> \in heard PROVE j <= b
  <2>1. ~StoredEnded(b)
    BY <1>2 DEF RecordOf
  <2>2. ~(b < j)
    BY <1>4, <2>1 DEF IInv, Heard
  <2> QED BY <2>2
<1> QED BY <1>1, <1>3, <1>4

\* One more piece of the task in hand is heard; nothing else is recorded.
LEMMA MoreHeard ==
  ASSUME IInv, mode = "up", NEW b \in Jobs, b = Played, NEW n \in PieceNumbers,
         heard' = heard \cup {<<b, n>>},
         UNCHANGED <<job, stored, kind, pending, playQueue, active, step, activePlay, playing,
                     lostStore, mode, restore, filtered, kept>>,
         playStep' \in Sounding => playStep \in Sounding,
         playStep = "reap" => playStep' = "reap",
         stored[b].started \/ StoredEnded(b) \/ b \in filtered \/ lostStore,
         ~lostStore => \A k \in Jobs : k < b => StoredEnded(k),
         TypeOK', Places', Counts', Queue', Sound'
  PROVE  IInv'
<1>1. Gone' /\ Keeping' /\ CloseKeepsTasks'
  BY DEF Gone, Live, Keeping, CloseKeepsTasks
<1>2. Records'
  <2> SUFFICES ASSUME NEW j \in Jobs PROVE RecordOf(j)'
    BY DEF Records
  <2>1. RecordOf(j)
    BY DEF IInv, Records, Live
  <2> QED BY <2>1 DEF RecordOf, Ended, StoredEnded, Played
<1>3. InTurn'
  BY DEF IInv, InTurn, Begun
<1>4. \A j \in Jobs, p \in PieceNumbers : <<j, p>> \in heard' <=> <<j, p>> \in heard \/ (j = b /\ p = n)
  OBVIOUS
<1>5. HeardOnRecord'
  BY <1>4 DEF IInv, RecordIsTrue, HeardOnRecord, StoredEnded
<1>6. CompletedWasHeard'
  BY DEF IInv, RecordIsTrue, CompletedWasHeard
<1>7. Heard'
  <2>1. (\A j \in Jobs : stored[j].status = "completed" /\ kind[j] # "silent" =>
           \A p \in 1 .. Pieces[j] : <<j, p>> \in heard)'
    BY DEF IInv, Heard
  <2>2. (~lostStore =>
           \A j \in Jobs, p \in PieceNumbers : <<j, p>> \in heard =>
             \A k \in Jobs : k < j => StoredEnded(k))'
    BY <1>4 DEF IInv, Heard, StoredEnded
  <2>3. restore' = {}
    BY DEF IInv, Places
  <2>4. (\A j \in Jobs, p \in PieceNumbers : <<j, p>> \in heard => stored[j].status # "none")'
    <3>1. stored[b].status # "none"
      BY JobNumbers DEF IInv, Places, Records, RecordOf, Live
    <3> QED BY <1>4, <3>1 DEF IInv, Heard
  <2> QED BY <2>1, <2>2, <2>3, <2>4 DEF Heard
<1>8. Held'
  BY DEF IInv, Held, Played, Ended
<1> QED BY <1>1, <1>2, <1>3, <1>5, <1>6, <1>7, <1>8 DEF IInv, RecordIsTrue

\* The playback thread takes the piece in front, after counting what it had.
LEMMA TakesHead ==
  ASSUME IInv, mode = "up", playStep \in {"wait", "fed", "next"}, playStep' \in {"open", "begin"},
         playStep' = "open" <=> playStep = "wait",
         playQueue # <<>>, playQueue' = Tail(playQueue), playing' = Head(playQueue),
         NEW b \in Jobs, b = Head(playQueue)[1], Played \in {b, NoJob},
         UNCHANGED <<kind, mode, active, step>>,
         \A j \in Jobs : /\ job'[j].made = job[j].made /\ job'[j].played = Fetched(j)
                         /\ job'[j].done = job[j].done /\ (Ended(j)' <=> Ended(j))
                         /\ job'[j].status \in {"none", "queued"} =>
                              job[j].status \in {"none", "queued"}
  PROVE  /\ Counts' /\ Queue' /\ playQueue' \in Seq(Jobs \X PieceNumbers)
         /\ playing' \in Jobs \X PieceNumbers
         /\ playing'[2] = Fetched(b) + 1 /\ Begun(b) /\ ~Ended(b) /\ kind[b] # "silent"
         /\ Played' = b
<1> USE JobNumbers
<1>1. /\ playQueue' \in Seq(Jobs \X PieceNumbers) /\ playing' \in Jobs \X PieceNumbers
      /\ playing' = <<b, playing'[2]>> /\ playing'[2] \in PieceNumbers
      /\ Waits(b, playing'[2])
      /\ ~Ended(b) /\ kind[b] # "silent" /\ playing'[2] <= job[b].made
      /\ playing'[2] = Fetched(b) + 1
      /\ Sorted' /\ \A i \in 1 .. Len(playQueue') : Before(playing', playQueue'[i])
      /\ \A k \in Jobs, p \in PieceNumbers :
           Waits(k, p)' <=> Waits(k, p) /\ <<k, p>> # playing'
  BY HeadTaken
<1>2. PICK n \in PieceNumbers : n = playing'[2]
  BY <1>1
<1>3. /\ playing' = <<b, n>> /\ Played' = b /\ playStep' \in InHand /\ n = Fetched(b) + 1
      /\ n <= job[b].made /\ n \in Nat
  BY <1>1, <1>2 DEF Played, InHand
<1>4. \A j \in Jobs : /\ job[j].played \in Nat /\ job[j].made \in Nat /\ Fetched(j) \in Nat
                      /\ CountsOf(j)
  BY FetchedCount
<1>5. \A j \in Jobs : /\ j # b => Fetched(j)' = Fetched(j)
                      /\ j = b => Fetched(j)' = n
  BY <1>3, <1>4 DEF Fetched, Played
<1>6. Begun(b)
  BY <1>1, WaitingIsBegun
<1>7. Counts'
  <2>1. PieceMade'
    BY MadeStays DEF IInv, TypeOK, WorkerSteps
  <2>2. PieceInHand'
    BY <1>3 DEF PieceInHand
  <2>3. \A j \in Jobs : Fetched(j)' \in Nat /\ Fetched(j)' <= job[j].made
    BY <1>3, <1>4, <1>5 DEF CountsOf
  <2>4. ASSUME NEW j \in Jobs, job[j].done, kind[j] = "pieces", ~Ended(j)'
        PROVE  job'[j].played < Pieces[j]
    <3>1. ~(j = Played /\ playStep \in InHand)
      BY <2>4 DEF IInv, Places, InHand
    <3>2. Fetched(j) = job[j].played
      BY <3>1, <1>4 DEF Fetched, Played
    <3> QED BY <2>4, <3>2, <1>4 DEF CountsOf
  <2> QED BY <2>1, <2>2, <2>3, <2>4, CountsFetched
<1>8. WaitingIsMade'
  <2> SUFFICES ASSUME NEW j \in Jobs, NEW p \in PieceNumbers, Waits(j, p)'
               PROVE  ~Ended(j)' /\ kind[j] # "silent" /\ Fetched(j)' < p /\ p <= job[j].made
    BY DEF WaitingIsMade
  <2>1. Waits(j, p) /\ <<j, p>> # <<b, n>>
    BY <1>1, <1>3
  <2>2. ~Ended(j) /\ kind[j] # "silent" /\ Fetched(j) < p /\ p <= job[j].made
    BY <2>1 DEF IInv, Queue, WaitingIsMade
  <2>3. Fetched(j)' < p
    <3>1. CASE j # b
      BY <3>1, <2>2, <1>5
    <3>2. CASE j = b
      <4>1. Fetched(b) < p /\ p # n /\ p \in Nat /\ Fetched(b) \in Nat /\ n = Fetched(b) + 1
        BY <3>2, <2>1, <2>2, <1>3, <1>4
      <4>2. n < p
        BY <4>1
      <4> QED BY <4>2, <3>2, <1>5
    <3> QED BY <3>1, <3>2
  <2> QED BY <2>2, <2>3
<1>9. NotOvertaken'
  BY <1>1 DEF NotOvertaken, Before
<1>10. NothingSkipped'
  <2> SUFFICES ASSUME NEW j \in Jobs, ~Ended(j)', kind[j] # "silent",
                      NEW p \in PieceNumbers, Fetched(j)' < p, p <= job[j].made
               PROVE  Waits(j, p)'
    BY DEF NothingSkipped
  <2>1. Fetched(j) < p /\ <<j, p>> # <<b, n>>
    <3>1. CASE j # b
      BY <3>1, <1>5
    <3>2. CASE j = b
      <4>1. n < p /\ p \in Nat /\ Fetched(b) \in Nat /\ n = Fetched(b) + 1
        BY <3>2, <1>3, <1>4, <1>5
      <4>2. Fetched(b) < p /\ p # n
        BY <4>1
      <4> QED BY <3>2, <4>2
    <3> QED BY <3>1, <3>2
  <2>2. Waits(j, p)
    BY <2>1 DEF IInv, Queue, NothingSkipped
  <2> QED BY <1>1, <1>3, <2>1, <2>2
<1>11. StreamIsWhole'
  <2>1. ASSUME NEW j \in Jobs, kind[j] = "stream", ~Ended(j)', Played' # j \/ playStep' = "open"
        PROVE  job'[j].played = 0
    <3>1. Played # j
      BY <2>1, <1>3, PieceTaken DEF IInv, Places, NoPiece, PlaySteps, Played
    <3>2. Fetched(j) = job[j].played
      BY <3>1, <1>4 DEF Fetched, Played
    <3> QED BY <2>1, <3>1, <3>2 DEF IInv, Queue, StreamIsWhole
  <2> QED BY <2>1 DEF StreamIsWhole
<1> QED BY <1>1, <1>2, <1>3, <1>6, <1>7, <1>8, <1>9, <1>10, <1>11 DEF Queue

-----------------------------------------------------------------------------
(***************************************************************************)
(* The playback thread                                                     *)
(***************************************************************************)

LEMMA PlayerReturnsKeeps ==
  ASSUME IInv, PlayerReturns
  PROVE  IInv'
<1> USE JobNumbers
<1>1. /\ playStep = "wait" /\ playStep' = "ended" /\ Live
      /\ UNCHANGED <<job, stored, kind, pending, playQueue, active, step, activePlay, playing,
                     player, broken, unstored, faults, lostStore, mode, restore, restarts,
                     heard, filtered, kept>>
  BY DEF PlayerReturns, workerVars, faultVars, serviceVars, historyVars, IInv, Gone, Live
<1>2. playing = NoPiece /\ player = NoPlayer /\ playStep \notin PlaySteps /\ playStep' \notin PlaySteps
      /\ Played = NoJob
  BY <1>1 DEF IInv, Places, PlaySteps, NoPiece, Played
<1>3. TypeOK'
  <2>1. TypedTasks /\ TypedWorker /\ TypedPlayer /\ TypedFaults /\ TypedService
    BY Typed DEF IInv
  <2>2. TypedTasks' /\ TypedWorker' /\ TypedPlayer' /\ TypedFaults' /\ TypedService'
    BY <1>1, <1>2, <2>1 DEF TypedTasks, TypedWorker, TypedPlayer, TypedFaults, TypedService
  <2> QED BY <2>2, TypesHold
<1>4. Places'
  BY <1>1, <1>2 DEF IInv, Places, Played, PlaySteps
<1>5. Counts' /\ Queue'
  <2>1. \A j \in Jobs : Fetched(j) \in Nat /\ Fetched(j)' = Fetched(j) /\ Fetched(j) = job[j].played
    BY <1>1, <1>2 DEF Fetched, IInv, TypeOK, Played
  <2>2. PieceMade'
    BY <1>1, MadeStays DEF IInv, TypeOK, WorkerSteps
  <2>3. Counts'
    BY <1>1, <1>2, <2>2, HandEmptied DEF Ended
  <2>4. StreamIsWhole'
    BY <1>1, WholeStays DEF Ended
  <2> QED BY <1>1, <2>1, <2>3, <2>4, NoneLost, QueueFewer DEF Ended
<1>6. \A j \in Jobs : RecordStep(j)
  BY <1>1, RecordStill DEF Played
<1>7. InTurn'
  BY <1>1 DEF IInv, InTurn, Begun
<1>8. Sound'
  BY <1>1, <1>2, SoundWithout DEF NoPlayer
<1>9. Held'
  BY <1>1 DEF Held, Sounding, PlaySteps
<1> QED BY <1>1, <1>3, <1>4, <1>5, <1>6, <1>7, <1>8, <1>9, Together

LEMMA TakePieceKeeps ==
  ASSUME IInv, TakePiece
  PROVE  IInv'
<1> USE JobNumbers
<1>1. /\ playStep = "wait" /\ mode = "up" /\ Live /\ playQueue # <<>> /\ playQueue' = Tail(playQueue)
      /\ UNCHANGED <<job, stored, kind, pending, active, step, activePlay,
                     player, broken, unstored, faults, lostStore, mode, restore, restarts,
                     heard, filtered, kept>>
  BY DEF TakePiece, Closed, workerVars, faultVars, serviceVars, historyVars, IInv, Gone,
         Live
<1>2. playing = NoPiece /\ player = NoPlayer /\ activePlay = NoJob /\ Played = NoJob
  BY <1>1 DEF IInv, Places, PlaySteps, NoPiece, Played
<1>3. PICK b \in Jobs : b = Head(playQueue)[1]
  <2>1. playQueue \in Seq(Jobs \X PieceNumbers)
    BY DEF IInv, TypeOK
  <2>2. Head(playQueue) \in Jobs \X PieceNumbers
    BY <1>1, <2>1, HeadTailProperties
  <2> QED BY <2>2
<1>4. ~Ended(b)
  <2>1. playQueue \in Seq(Jobs \X PieceNumbers)
    BY DEF IInv, TypeOK
  <2>2. /\ Head(playQueue) = playQueue[1] /\ 1 \in 1 .. Len(playQueue)
        /\ Head(playQueue) \in Jobs \X PieceNumbers
    BY <1>1, <2>1, HeadTailProperties, LenProperties
  <2>a. \A x \in Jobs \X PieceNumbers : x = <<x[1], x[2]>> /\ x[2] \in PieceNumbers
    OBVIOUS
  <2>3. PICK p \in PieceNumbers : playQueue[1] = <<b, p>>
    <3>1. playQueue[1] = <<b, playQueue[1][2]>> /\ playQueue[1][2] \in PieceNumbers
      BY <2>a, <2>2, <1>3
    <3> QED BY <3>1
  <2>4. Waits(b, p)
    BY <2>2, <2>3 DEF Waits
  <2> QED BY <2>4, WaitingIsBegun
<1>5. playing' = Head(playQueue) /\ playStep' = "open"
  BY <1>3, <1>4 DEF TakePiece
<1>6. \A j \in Jobs : job[j].played = Fetched(j)
  BY <1>2 DEF Fetched, IInv, TypeOK, Played
<1>7. /\ Counts' /\ Queue' /\ playQueue' \in Seq(Jobs \X PieceNumbers)
      /\ playing' \in Jobs \X PieceNumbers
      /\ Begun(b) /\ kind[b] # "silent" /\ Played' = b
  <2>1. Played \in {b, NoJob}
    BY <1>2
  <2>2. \A j \in Jobs : /\ job'[j].made = job[j].made /\ job'[j].played = Fetched(j)
                        /\ job'[j].done = job[j].done /\ (Ended(j)' <=> Ended(j))
                        /\ (job'[j].status \in {"none", "queued"} =>
                              job[j].status \in {"none", "queued"})
    BY <1>1, <1>6 DEF Ended
  <2> QED BY <1>1, <1>3, <1>5, <2>1, <2>2, TakesHead
<1>8. TypeOK'
  <2>1. TypedTasks /\ TypedWorker /\ TypedPlayer /\ TypedFaults /\ TypedService
    BY Typed DEF IInv
  <2>2. TypedPlayer'
    <3>1. playing' # NoPiece
      BY <1>7 DEF Played, NoPiece
    <3> QED BY <1>1, <1>5, <1>7, <2>1, <3>1 DEF TypedPlayer, PlaySteps
  <2>3. TypedTasks' /\ TypedWorker' /\ TypedFaults' /\ TypedService'
    BY <1>1, <1>7, <2>1 DEF TypedTasks, TypedWorker, TypedFaults, TypedService
  <2> QED BY <2>2, <2>3, TypesHold
<1>9. Places'
  BY <1>1, <1>2, <1>5, <1>7 DEF IInv, Places, PlaySteps, Begun
<1>10. \A j \in Jobs : RecordStep(j)
  BY <1>1, RecordStill DEF Played
<1>11. InTurn'
  BY <1>1 DEF IInv, InTurn, Begun
<1>12. Sound'
  BY <1>1, <1>2, <1>5 DEF IInv, Sound, PlayerSound, NoPlayer
<1>13. Held'
  BY <1>5 DEF Held, Sounding
<1> QED BY <1>1, <1>7, <1>8, <1>9, <1>10, <1>11, <1>12, <1>13, Together

LEMMA DroppedKeeps ==
  ASSUME IInv, Dropped
  PROVE  IInv'
<1> USE JobNumbers
<1>1. /\ playStep = "open" /\ playStep' = "wait" /\ playing' = NoPiece /\ playStep \in PlaySteps
      /\ UNCHANGED <<job, stored, kind, pending, playQueue, active, step, activePlay,
                     player, broken, unstored, faults, lostStore, mode, restore, restarts,
                     heard, filtered, kept>>
  BY DEF Dropped, PlaySteps, workerVars, faultVars, serviceVars, historyVars
<1>2. /\ player = NoPlayer /\ activePlay = NoJob /\ playStep' \notin PlaySteps
      /\ Live /\ (mode = "up" => Ended(Played)) /\ Played' = NoJob
  BY <1>1, TaskPlayed
     DEF IInv, Places, PlaySteps, NoPiece, Played, Dropped, Stopping, Closed, Live
<1>3. TypeOK'
  <2>1. TypedTasks /\ TypedWorker /\ TypedPlayer /\ TypedFaults /\ TypedService
    BY Typed DEF IInv
  <2>2. TypedTasks' /\ TypedWorker' /\ TypedPlayer' /\ TypedFaults' /\ TypedService'
    BY <1>1, <1>2, <2>1 DEF TypedTasks, TypedWorker, TypedPlayer, TypedFaults, TypedService
  <2> QED BY <2>2, TypesHold
<1>4. Places'
  BY <1>1, <1>2 DEF IInv, Places, PlaySteps
<1>5. Counts' /\ \A j \in Jobs : Fetched(j)' = job[j].played
  <2>1. PieceMade'
    BY <1>1, MadeStays DEF IInv, TypeOK, WorkerSteps
  <2> QED BY <1>1, <1>2, <2>1, HandEmptied DEF Ended
<1>6. Queue'
  BY <1>1, <1>2, <1>5, NoneLost, QueueLeft DEF Ended
<1>7. \A j \in Jobs : RecordStep(j)
  BY <1>1, RecordStill, <1>2 DEF Played
<1>8. InTurn'
  BY <1>1 DEF IInv, InTurn, Begun
<1>9. Sound'
  BY <1>1, <1>2, SoundWithout DEF NoPlayer
<1>10. Held'
  BY <1>1 DEF Held, Sounding, PlaySteps
<1> QED BY <1>1, <1>2, <1>3, <1>4, <1>5, <1>6, <1>7, <1>8, <1>9, <1>10, Together

LEMMA OpenStreamKeeps ==
  ASSUME IInv, OpenStream
  PROVE  IInv'
<1> USE JobNumbers
<1>1. PICK b \in Jobs : b = Played /\ Live /\ Begun(b) /\ ~Ended(b) /\ kind[b] = "stream" /\ mode = "up"
  BY TaskPlayed DEF OpenStream, PlaySteps, Stopping, Closed, Live
<1>2. PICK n \in PieceNumbers : n = playing[2] /\ playing = <<b, n>> /\ n = job[b].played + 1
                                /\ job[b].played = 0
  <2>1. playStep = "open" /\ playing[2] \in PieceNumbers /\ playing \in Jobs \X PieceNumbers
    BY <1>1, PieceTaken DEF OpenStream, IInv
  <2>2. playing = <<b, playing[2]>>
    BY <1>1, <2>1 DEF Played
  <2>3. job[b].played = 0 /\ playing[2] = job[b].played + 1
    BY <1>1, <2>1 DEF IInv, Queue, StreamIsWhole, Counts, PieceInHand, InHand
  <2> QED BY <2>1, <2>2, <2>3
<1>3. PICK fast \in BOOLEAN :
        /\ player' = [of |-> b, fast |-> fast, up |-> TRUE, fed |-> n - 1, out |-> n - 1]
        /\ filtered' = IF fast THEN filtered \cup {b} ELSE filtered
  BY <1>1, <1>2 DEF OpenStream
<1>4. /\ playStep = "open" /\ playStep' = "begin" /\ activePlay' = b
      /\ UNCHANGED <<job, stored, kind, pending, playQueue, active, step, playing,
                     broken, unstored, faults, lostStore, mode, restore, restarts,
                     heard, kept>>
  BY <1>1 DEF OpenStream, workerVars, faultVars, serviceVars
<1>5. n = 1 /\ player' \in PlayerRecord /\ Played' = b /\ playing # NoPiece
  BY <1>1, <1>2, <1>3, <1>4 DEF PlayerRecord, Played, NoPiece
<1>6. TypeOK'
  <2>1. TypedTasks /\ TypedWorker /\ TypedPlayer /\ TypedFaults /\ TypedService
    BY Typed DEF IInv
  <2>2. TypedPlayer'
    BY <1>4, <1>5, <2>1 DEF TypedPlayer, PlaySteps
  <2>3. TypedTasks' /\ TypedWorker' /\ TypedFaults' /\ TypedService'
    BY <1>3, <1>4, <2>1 DEF TypedTasks, TypedWorker, TypedFaults, TypedService
  <2> QED BY <2>2, <2>3, TypesHold
<1>7. Places'
  BY <1>1, <1>4, <1>5 DEF IInv, Places, PlaySteps, Begun
<1>8. Counts' /\ Queue'
  BY <1>4, HandMoves DEF Ended, InHand
<1>9. \A j \in Jobs : RecordStep(j)
  BY <1>1, <1>4, RecordStill DEF Played
<1>10. InTurn'
  BY <1>4 DEF IInv, InTurn, Begun
<1>11. Sound'
  <2>1. PlayerSound'
    <3>1. /\ player'.out = 0 /\ player'.fed = 0 /\ player'.of = b
          /\ player'.fast => b \in filtered'
      BY <1>3, <1>5
    <3>2. job[b].status \notin {"cancelled", "completed"}
      BY <1>1 DEF Ended, TERMINAL
    <3>3. ~lostStore => /\ \A k \in Jobs : k < b => StoredEnded(k)
                        /\ \A j \in Jobs, p \in PieceNumbers : <<j, p>> \in heard => j <= b
      BY <1>1, <1>4, EarlierEnded DEF PlaySteps
    <3>4. /\ player'.out <= player'.fed /\ player'.fed <= n /\ player'.fed = n - 1
          /\ \A p \in 1 .. player'.out : <<b, p>> \in heard
      BY <3>1, <1>5
    <3> QED BY <1>1, <1>2, <1>4, <1>5, <3>1, <3>2, <3>3, <3>4 DEF PlayerSound, StoredEnded
  <2>2. (\A j \in Jobs : kind[j] = "pieces" =>
           \A p \in 1 .. job[j].played : <<j, p>> \in heard)'
    BY <1>4 DEF IInv, Sound
  <2> QED BY <1>1, <1>4, <1>5, <2>1, <2>2 DEF Sound
<1>12. filtered \subseteq filtered'
  BY <1>3
<1>13. Held'
  BY <1>4, <1>5 DEF Held
<1> QED BY <1>1, <1>4, <1>6, <1>7, <1>8, <1>9, <1>10, <1>11, <1>12, <1>13, Together

\* MarkPlaying on the task in hand.
LEMMA Marked ==
  ASSUME IInv, NEW known \in BOOLEAN, MarkPlaying(known), mode = "up", ~Ended(Played),
         playStep \in {"open", "begin"}, playStep' \in {"begin", "feed"},
         UNCHANGED <<kind, pending, playQueue, active, step, playing, player, broken, unstored,
                     faults, lostStore, mode, restore, restarts, heard, filtered, kept>>
  PROVE  /\ TypeOK' /\ Counts' /\ Queue' /\ InTurn' /\ DiskOnlyGrows
         /\ activePlay' = Played
         /\ \A j \in Jobs :
              /\ RecordStep(j)
              /\ job'[j].played = job[j].played
              /\ (Ended(j)' <=> Ended(j)) /\ (job'[j].status = job[j].status \/ job'[j].status = "playing")
              /\ j = Played /\ known => stored'[j].started \/ lostStore
<1> USE JobNumbers
<1> DEFINE mem == [job EXCEPT ![Played].status = "playing", ![Played].started = @ \/ known]
<1>1. PICK b \in Jobs : b = Played /\ Live /\ Begun(b) /\ ~Ended(b)
  BY TaskPlayed DEF PlaySteps
<1>2. /\ job \in [Jobs -> MemoryRecord] /\ job[b] \in MemoryRecord
      /\ \A j \in Jobs : job[j] \in MemoryRecord /\ RecordOf(j)
  BY <1>1, Shape DEF IInv, Records
<1>3. Save({b}, mem) /\ activePlay' = Played
  BY <1>1 DEF MarkPlaying
<1>4. /\ mem \in [Jobs -> MemoryRecord]
      /\ mem[b].status = "playing" /\ mem[b].started = (job[b].started \/ known)
      /\ mem[b].made = job[b].made /\ mem[b].played = job[b].played /\ mem[b].done = job[b].done
      /\ \A j \in Jobs : j # b => mem[j] = job[j]
  BY <1>1, <1>2 DEF MemoryRecord, Statuses
<1> HIDE DEF mem
<1>5. /\ job' \in [Jobs -> MemoryRecord] /\ stored' \in [Jobs -> DiskRecord]
      /\ \A j \in Jobs :
           /\ job'[j].made = job[j].made /\ job'[j].played = job[j].played
           /\ job'[j].done = job[j].done /\ (job[j].started => job'[j].started)
           /\ j # b => job'[j] = job[j] /\ stored'[j] = stored[j]
      /\ job'[b].status = "playing" /\ (known => job'[b].started)
      /\ unstored => stored'[b] = stored[b]
      /\ ~unstored => stored'[b].status = job'[b].status /\ stored'[b].started = job'[b].started
  <2>1. /\ job' \in [Jobs -> MemoryRecord] /\ stored' \in [Jobs -> DiskRecord]
        /\ \A j \in Jobs : j # b => job'[j] = mem[j] /\ stored'[j] = stored[j]
        /\ job'[b].status = mem[b].status
        /\ job'[b].made = mem[b].made /\ job'[b].played = mem[b].played
        /\ job'[b].done = mem[b].done
        /\ mem[b].started => job'[b].started
        /\ unstored => stored'[b] = stored[b]
        /\ ~unstored => stored'[b].status = job'[b].status /\ stored'[b].started = job'[b].started
    BY <1>3, <1>4, SavedOne
  <2> QED BY <1>4, <2>1
<1>6. \A j \in Jobs : /\ (Ended(j)' <=> Ended(j)) /\ (Begun(j)' <=> Begun(j))
                      /\ job'[j].status = job[j].status \/ job'[j].status = "playing"
                      /\ (job'[j].status \in {"none", "queued"} =>
                            job[j].status \in {"none", "queued"})
  BY <1>1, <1>5 DEF Ended, TERMINAL, Begun
<1>7. TypeOK'
  <2>1. TypedTasks /\ TypedWorker /\ TypedPlayer /\ TypedFaults /\ TypedService
    BY Typed DEF IInv
  <2>2. TypedTasks' /\ TypedWorker' /\ TypedFaults' /\ TypedService'
    BY <1>5, <2>1 DEF TypedTasks, TypedWorker, TypedFaults, TypedService
  <2>3. TypedPlayer'
    <3>1. playing # NoPiece
      BY <1>1 DEF NoPiece, Played
    <3> QED BY <1>1, <1>3, <2>1, <3>1 DEF TypedPlayer, PlaySteps
  <2> QED BY <2>2, <2>3, TypesHold
<1>8. Counts' /\ Queue'
  BY <1>5, <1>6, HandMoves DEF InHand
<1>9. \A j \in Jobs : RecordStep(j)
  <2> SUFFICES ASSUME NEW j \in Jobs PROVE RecordStep(j)
    OBVIOUS
  <2>1. CASE j # b
    BY <1>1, <1>5, <2>1, RecordStill DEF Played
  <2>2. CASE j = b
    <3>1. b \notin pending
      BY <1>1, <1>2 DEF RecordOf, Begun
    <3> QED BY <1>1, <1>5, <1>6, <2>2, <3>1 DEF RecordStep, Begun
  <2> QED BY <2>1, <2>2
<1>10. InTurn'
  <2>1. \A j \in Jobs : Begun(j)' => Begun(j)
    BY <1>6
  <2>2. Live'
    BY DEF Live
  <2> QED BY <1>1, <1>5, <1>7, <1>9, <2>1, <2>2, TurnStays
<1>11. DiskOnlyGrows
  <2>1. Live'
    BY DEF Live
  <2> QED BY <1>1, <1>7, <1>9, <2>1, RecordsStay
<1>12. known => stored'[b].started \/ lostStore
  BY <1>5 DEF IInv, Places
<1> QED BY <1>1, <1>3, <1>5, <1>6, <1>7, <1>8, <1>9, <1>10, <1>11, <1>12

LEMMA BeginStreamPieceKeeps ==
  ASSUME IInv, BeginStreamPiece
  PROVE  IInv'
<1> USE JobNumbers
<1>1. PICK known \in BOOLEAN : known = ~player.fast
  BY DEF IInv, TypeOK
<1>2. /\ mode = "up" /\ Live /\ ~Ended(Played) /\ playStep = "begin" /\ playStep' = "feed"
      /\ MarkPlaying(known) /\ kind[Played] = "stream"
      /\ UNCHANGED <<kind, pending, playQueue, active, step, playing, player, broken, unstored,
                     faults, lostStore, mode, restore, restarts, heard, filtered, kept>>
  BY <1>1, TaskPlayed
     DEF BeginStreamPiece, PlaySteps, Stopping, Closed, Live, workerVars, faultVars,
         serviceVars, historyVars
<1>3. PICK b \in Jobs : b = Played /\ Played' = b /\ kind[b] = "stream" /\ playing # NoPiece
  <2>1. Played \in Jobs
    BY <1>2, TaskPlayed DEF PlaySteps
  <2>2. Played' = Played
    BY <1>2 DEF Played
  <2>3. playing # NoPiece
    BY <2>1 DEF Played, NoPiece
  <2> QED BY <1>2, <2>1, <2>2, <2>3
<1>4. /\ TypeOK' /\ Counts' /\ Queue' /\ InTurn' /\ DiskOnlyGrows
      /\ activePlay' = b
      /\ \A j \in Jobs :
           /\ RecordStep(j)
           /\ job'[j].played = job[j].played
           /\ (Ended(j)' <=> Ended(j)) /\ (job'[j].status = job[j].status \/ job'[j].status = "playing")
           /\ j = b /\ known => stored'[j].started \/ lostStore
  BY <1>2, <1>3, Marked
<1>5. Places'
  BY <1>2, <1>3, <1>4 DEF IInv, Places, PlaySteps, TypeOK
<1>6. PlayerSound'
  <2>1. player.up => /\ job'[b].status \notin {"cancelled", "completed"}
                     /\ activePlay = b
    BY <1>2, <1>3, <1>4 DEF IInv, Sound, PlayerSound
  <2> QED BY <1>2, <1>3, <1>4, <2>1 DEF IInv, Sound, PlayerSound, DiskOnlyGrows
<1>7. Sound'
  BY <1>1, <1>2, <1>3, <1>4, <1>6 DEF IInv, Sound
<1>8. \A j \in Jobs : job'[j].status = "completed" => job[j].status = "completed"
  BY <1>4
<1>9. Held'
  BY <1>3, <1>4 DEF Held
<1> QED BY <1>2, <1>4, <1>5, <1>7, <1>8, <1>9, Together

LEMMA MarkPieceKeeps ==
  ASSUME IInv, MarkPiece
  PROVE  IInv'
<1> USE JobNumbers
<1>1. PICK known \in BOOLEAN : known
  OBVIOUS
<1>2. /\ mode = "up" /\ Live /\ ~Ended(Played) /\ playStep = "open" /\ playStep' = "begin"
      /\ MarkPlaying(known) /\ kind[Played] = "pieces"
      /\ UNCHANGED <<kind, pending, playQueue, active, step, playing, player, broken, unstored,
                     faults, lostStore, mode, restore, restarts, heard, filtered, kept>>
  BY <1>1, TaskPlayed
     DEF MarkPiece, PlaySteps, Stopping, Closed, Live, workerVars, faultVars, serviceVars,
         historyVars
<1>3. PICK b \in Jobs : b = Played /\ Played' = b /\ kind[b] = "pieces" /\ playing # NoPiece
  <2>1. Played \in Jobs
    BY <1>2, TaskPlayed DEF PlaySteps
  <2>2. Played' = Played
    BY <1>2 DEF Played
  <2>3. playing # NoPiece
    BY <2>1 DEF Played, NoPiece
  <2> QED BY <1>2, <2>1, <2>2, <2>3
<1>4. /\ TypeOK' /\ Counts' /\ Queue' /\ InTurn' /\ DiskOnlyGrows
      /\ activePlay' = b
      /\ \A j \in Jobs :
           /\ RecordStep(j)
           /\ job'[j].played = job[j].played
           /\ (Ended(j)' <=> Ended(j)) /\ (job'[j].status = job[j].status \/ job'[j].status = "playing")
           /\ j = b /\ known => stored'[j].started \/ lostStore
  BY <1>2, <1>3, Marked
<1>5. player = NoPlayer
  BY <1>2 DEF IInv, Places, PlaySteps
<1>6. Places'
  BY <1>2, <1>3, <1>4 DEF IInv, Places, PlaySteps, TypeOK
<1>7. Sound'
  BY <1>1, <1>2, <1>3, <1>4, <1>5 DEF IInv, Sound, PlayerSound, NoPlayer
<1>8. \A j \in Jobs : job'[j].status = "completed" => job[j].status = "completed"
  BY <1>4
<1>9. Held'
  BY <1>3, <1>4 DEF Held
<1> QED BY <1>2, <1>4, <1>6, <1>7, <1>8, <1>9, Together

LEMMA FeedPieceKeeps ==
  ASSUME IInv, FeedPiece
  PROVE  IInv'
<1> USE JobNumbers
<1>1. PICK b \in Jobs : /\ b = Played /\ playStep = "feed" /\ playStep' = "fed" /\ player.up
                        /\ mode = "up" /\ Live /\ kind[b] = "stream"
  BY TaskPlayed DEF FeedPiece, PlaySteps, IInv, Places, Sound, PlayerSound
<1>2. PICK n \in PieceNumbers : n = playing[2] /\ playing = <<b, n>> /\ n \in Nat
                                /\ player.fed = n - 1
  <2>1. playing[2] \in PieceNumbers /\ playing \in Jobs \X PieceNumbers
    BY <1>1, PieceTaken DEF IInv
  <2>2. playing = <<b, playing[2]>>
    BY <1>1, <2>1 DEF Played
  <2>3. player.fed = playing[2] - 1
    BY <1>1 DEF IInv, Sound, PlayerSound
  <2> QED BY <2>1, <2>2, <2>3
<1>3. /\ player' = [player EXCEPT !.fed = n, !.out = IF player.fast THEN @ ELSE n]
      /\ heard' = IF player.fast THEN heard ELSE heard \cup {<<b, n>>}
      /\ UNCHANGED <<job, stored, kind, pending, playQueue, active, step, activePlay, playing,
                     broken, unstored, faults, lostStore, mode, restore, restarts,
                     filtered, kept>>
  BY <1>1, <1>2 DEF FeedPiece, workerVars, faultVars, serviceVars
<1>4. /\ player \in PlayerRecord /\ player' \in PlayerRecord
      /\ player'.of = player.of /\ player'.up /\ player'.fast = player.fast /\ player'.fed = n
      /\ player'.out = IF player.fast THEN player.out ELSE n
      /\ player.out \in Nat /\ Played' = b
  <2>1. player \in PlayerRecord
    BY DEF IInv, TypeOK, PlayerRecord
  <2> QED BY <1>1, <1>2, <1>3, <2>1 DEF PlayerRecord, Played
<1>5. TypeOK'
  <2>1. TypedTasks /\ TypedWorker /\ TypedPlayer /\ TypedFaults /\ TypedService
    BY Typed DEF IInv
  <2>2. TypedPlayer'
    BY <1>1, <1>3, <1>4, <2>1 DEF TypedPlayer, PlaySteps
  <2>3. TypedTasks' /\ TypedWorker' /\ TypedFaults'
    BY <1>3, <2>1 DEF TypedTasks, TypedWorker, TypedFaults
  <2>4. TypedService'
    <3>1. heard' \subseteq Jobs \X PieceNumbers
      BY <1>3, <2>1 DEF TypedService
    <3> QED BY <1>3, <2>1, <3>1 DEF TypedService
  <2> QED BY <2>2, <2>3, <2>4, TypesHold
<1>6. Places'
  BY <1>1, <1>3, <1>4 DEF IInv, Places, PlaySteps, Begun
<1>7. Counts' /\ Queue'
  BY <1>1, <1>3, HandMoves DEF Ended, InHand
<1>8. Sound'
  <2>1. heard \subseteq heard' /\ (~player.fast => <<b, n>> \in heard')
    BY <1>3
  <2>2. PlayerSound'
    <3>1. /\ player.of = b /\ activePlay = b /\ player.out <= player.fed
          /\ ~player.fast => player.out = player.fed
          /\ player.fast => b \in filtered
          /\ job[b].status \notin {"cancelled", "completed"}
          /\ \A p \in 1 .. player.out : <<b, p>> \in heard
          /\ ~lostStore => /\ \A k \in Jobs : k < b => StoredEnded(k)
                           /\ \A j \in Jobs, p \in PieceNumbers : <<j, p>> \in heard => j <= b
      BY <1>1 DEF IInv, Sound, PlayerSound
    <3>2. player'.out <= n
      BY <1>2, <1>4, <3>1
    <3>3. \A p \in 1 .. player'.out : <<b, p>> \in heard'
      <4>1. CASE player.fast
        BY <4>1, <1>4, <2>1, <3>1
      <4>2. CASE ~player.fast
        <5>1. \A p \in 1 .. n : p \in 1 .. player.out \/ p = n
          BY <4>2, <1>2, <3>1
        <5> QED BY <4>2, <5>1, <1>4, <2>1, <3>1
      <4> QED BY <4>1, <4>2
    <3>4. ~player.fast => player'.out = player'.fed
      BY <1>4
    <3>5. ~lostStore => \A j \in Jobs, p \in PieceNumbers : <<j, p>> \in heard' => j <= b
      BY <1>3, <3>1
    <3> QED BY <1>1, <1>2, <1>3, <1>4, <3>1, <3>2, <3>3, <3>4, <3>5
               DEF PlayerSound, StoredEnded
  <2>3. (\A j \in Jobs : kind[j] = "pieces" =>
           \A p \in 1 .. job[j].played : <<j, p>> \in heard)'
    BY <1>3, <2>1 DEF IInv, Sound
  <2> QED BY <1>1, <2>2, <2>3 DEF Sound
<1>a. playStep \in Sounding
  BY <1>1 DEF Sounding, PlaySteps
<1>9. CASE player.fast
  <2>1. \A j \in Jobs : RecordStep(j)
    BY <1>1, <1>3, RecordStill DEF Played
  <2>2. InTurn'
    BY <1>3 DEF IInv, InTurn, Begun
  <2> QED BY <1>1, <1>3, <1>5, <1>6, <1>7, <1>8, <1>9, <1>a, <2>1, <2>2, Together
<1>10. CASE ~player.fast
  <2>1. stored[b].started \/ lostStore
    BY <1>1, <1>10 DEF IInv, Sound
  <2>2. ~lostStore => \A k \in Jobs : k < b => StoredEnded(k)
    BY <1>1 DEF IInv, Sound, PlayerSound
  <2> QED BY <1>1, <1>3, <1>5, <1>6, <1>7, <1>8, <1>10, <1>a, <2>1, <2>2, MoreHeard
<1> QED BY <1>9, <1>10

LEMMA FilterForwardsKeeps ==
  ASSUME IInv, FilterForwards
  PROVE  IInv'
<1> USE JobNumbers
<1>1. /\ player.up /\ player.out < player.fed /\ player \in PlayerRecord
      /\ player.out \in Nat /\ player.fed \in Nat
      /\ UNCHANGED <<job, stored, kind, pending, playQueue, active, step, activePlay, playing,
                     playStep, broken, unstored, faults, lostStore, mode, restore, restarts,
                     filtered, kept>>
  BY DEF FilterForwards, workerVars, faultVars, serviceVars, IInv, TypeOK, PlayerRecord
<1>2. PICK b \in Jobs :
        /\ b = Played /\ mode = "up" /\ player.of = b /\ activePlay = b /\ player.fed <= playing[2]
        /\ player.fast /\ b \in filtered /\ kind[b] # "pieces"
        /\ job[b].status \notin {"cancelled", "completed"} /\ playing[2] \in Nat
        /\ \A p \in 1 .. player.out : <<b, p>> \in heard
        /\ ~lostStore => /\ \A k \in Jobs : k < b => StoredEnded(k)
                         /\ \A j \in Jobs, p \in PieceNumbers : <<j, p>> \in heard => j <= b
  <2>1. Played \in Jobs /\ playing[2] \in Nat
    BY <1>1, PieceTaken DEF IInv, Sound, PlayerSound
  <2>2. PICK b \in Jobs : b = Played
    BY <2>1
  <2>3. PlayerSound
    BY DEF IInv, Sound
  <2>4. /\ mode = "up" /\ player.of = b /\ activePlay = b /\ player.fed <= playing[2]
        /\ player.fast /\ b \in filtered /\ kind[b] # "pieces"
        /\ job[b].status \notin {"cancelled", "completed"}
    BY <1>1, <2>2, <2>3 DEF PlayerSound
  <2>5. /\ \A p \in 1 .. player.out : <<b, p>> \in heard
        /\ ~lostStore => /\ \A k \in Jobs : k < b => StoredEnded(k)
                         /\ \A j \in Jobs, p \in PieceNumbers : <<j, p>> \in heard => j <= b
    BY <1>1, <2>2, <2>3 DEF PlayerSound
  <2> QED BY <2>1, <2>2, <2>4, <2>5
<1>3. PICK n \in PieceNumbers : n = player.out + 1
  <2>1. playing[2] <= job[b].made /\ job[b].made <= Pieces[b] /\ job[b].made \in Nat /\ Pieces[b] \in Nat
    BY <1>2 DEF IInv, TypeOK, Counts, CountsOf, PieceInHand
  <2>2. player.out + 1 \in 1 .. Pieces[b]
    BY <1>1, <1>2, <2>1
  <2> QED BY <2>2
<1>4. player' = [player EXCEPT !.out = n] /\ heard' = heard \cup {<<b, n>>}
  BY <1>1, <1>2, <1>3 DEF FilterForwards
<1>5. /\ player' \in PlayerRecord /\ player'.of = b /\ player'.up /\ player'.fast
      /\ player'.fed = player.fed /\ player'.out = n /\ n \in Nat /\ n <= player.fed
  BY <1>1, <1>2, <1>3, <1>4 DEF PlayerRecord
<1>6. TypeOK'
  <2>1. TypedTasks /\ TypedWorker /\ TypedPlayer /\ TypedFaults /\ TypedService
    BY Typed DEF IInv
  <2>2. TypedTasks' /\ TypedWorker' /\ TypedPlayer' /\ TypedFaults' /\ TypedService'
    BY <1>1, <1>4, <1>5, <2>1
       DEF TypedTasks, TypedWorker, TypedPlayer, TypedFaults, TypedService
  <2> QED BY <2>2, TypesHold
<1>7. Places'
  BY <1>1, <1>2 DEF IInv, Places, Played, PlaySteps
<1>8. \A j \in Jobs : Fetched(j)' = Fetched(j) /\ (Ended(j)' <=> Ended(j))
  BY <1>1 DEF Fetched, Ended
<1>9. Counts'
  <2>1. PieceMade'
    BY <1>1, MadeStays DEF IInv, TypeOK, WorkerSteps
  <2> QED BY <1>1, <1>8, <2>1, CountsStay
<1>10. Queue'
  BY <1>1, <1>8, NoneLost, QueueLess
<1>11. Sound'
  <2>1. PlayerSound'
    <3>1. \A p \in 1 .. n : <<b, p>> \in heard'
      <4>1. \A p \in 1 .. n : p \in 1 .. player.out \/ p = n
        BY <1>1, <1>3, <1>5
      <4> QED BY <4>1, <1>2, <1>4
    <3>2. ~lostStore => \A j \in Jobs, p \in PieceNumbers : <<j, p>> \in heard' => j <= b
      BY <1>2, <1>4
    <3>3. PlayerSound /\ Played' = b
      BY <1>1, <1>2 DEF IInv, Sound, Played
    <3> QED BY <1>1, <1>2, <1>5, <3>1, <3>2, <3>3 DEF PlayerSound, StoredEnded
  <2>2. (\A j \in Jobs : kind[j] = "pieces" =>
           \A p \in 1 .. job[j].played : <<j, p>> \in heard)'
    BY <1>1, <1>4 DEF IInv, Sound
  <2> QED BY <1>1, <1>4, <1>5, <2>1, <2>2 DEF IInv, Sound, Played, Ended
<1> QED BY <1>1, <1>2, <1>4, <1>6, <1>7, <1>9, <1>10, <1>11, MoreHeard

LEMMA OpenPieceKeeps ==
  ASSUME IInv, OpenPiece
  PROVE  IInv'
<1> USE JobNumbers
<1>1. PICK b \in Jobs : b = Played /\ Live /\ Begun(b) /\ ~Ended(b) /\ kind[b] = "pieces" /\ mode = "up"
  BY TaskPlayed DEF OpenPiece, PlaySteps, Stopping, Closed, Live
<1>2. PICK n \in PieceNumbers : n = playing[2] /\ playing = <<b, n>> /\ n = job[b].played + 1
                                /\ job[b].played \in Nat /\ n \in Nat
  <2>1. playStep = "begin" /\ playing[2] \in PieceNumbers /\ playing \in Jobs \X PieceNumbers
    BY <1>1, PieceTaken DEF OpenPiece, IInv
  <2>2. playing = <<b, playing[2]>>
    BY <1>1, <2>1 DEF Played
  <2>3. playing[2] = job[b].played + 1 /\ job[b].played \in Nat
    BY <1>1, <2>1 DEF IInv, TypeOK, Counts, PieceInHand, InHand
  <2> QED BY <2>1, <2>2, <2>3
<1>3. /\ player' = [of |-> b, fast |-> FALSE, up |-> TRUE, fed |-> n, out |-> n]
      /\ heard' = heard \cup {<<b, n>>}
      /\ playStep = "begin" /\ playStep' = "sound"
      /\ UNCHANGED <<job, stored, kind, pending, playQueue, active, step, activePlay, playing,
                     broken, unstored, faults, lostStore, mode, restore, restarts,
                     filtered, kept>>
  BY <1>1, <1>2 DEF OpenPiece, workerVars, faultVars, serviceVars
<1>4. player' \in PlayerRecord /\ Played' = b
  BY <1>1, <1>2, <1>3 DEF PlayerRecord, Played
<1>5. TypeOK'
  <2>1. TypedTasks /\ TypedWorker /\ TypedPlayer /\ TypedFaults /\ TypedService
    BY Typed DEF IInv
  <2>2. TypedPlayer'
    BY <1>1, <1>3, <1>4, <2>1 DEF TypedPlayer, PlaySteps
  <2>3. TypedTasks' /\ TypedWorker' /\ TypedFaults' /\ TypedService'
    BY <1>3, <2>1 DEF TypedTasks, TypedWorker, TypedFaults, TypedService
  <2> QED BY <2>2, <2>3, TypesHold
<1>6. activePlay = b /\ playStep \in Sounding
  BY <1>1, <1>3 DEF IInv, Held, Sounding, PlaySteps
<1>7. Places'
  BY <1>1, <1>3, <1>4 DEF IInv, Places, PlaySteps, Begun
<1>8. Counts' /\ Queue'
  BY <1>1, <1>3, HandMoves DEF Ended, InHand
<1>9. ~lostStore => /\ \A k \in Jobs : k < b => StoredEnded(k)
                    /\ \A j \in Jobs, p \in PieceNumbers : <<j, p>> \in heard => j <= b
  BY <1>1, <1>3, EarlierEnded DEF PlaySteps
<1>10. Sound'
  <2>1. PlayerSound'
    <3>1. player'.out = n /\ player'.fed = n /\ player'.of = b /\ ~player'.fast
      BY <1>3
    <3>2. job[b].status \notin {"cancelled", "completed"}
      BY <1>1 DEF Ended, TERMINAL
    <3>3. \A p \in 1 .. n : <<b, p>> \in heard'
      <4>1. \A p \in 1 .. n : p \in 1 .. job[b].played \/ p = n
        BY <1>2
      <4>2. \A p \in 1 .. job[b].played : <<b, p>> \in heard
        BY <1>1 DEF IInv, Sound
      <4> QED BY <4>1, <4>2, <1>3
    <3>4. ~lostStore => \A j \in Jobs, p \in PieceNumbers : <<j, p>> \in heard' => j <= b
      BY <1>3, <1>9
    <3>5. n <= n
      BY <1>2
    <3> QED BY <1>1, <1>2, <1>3, <1>4, <1>6, <1>9, <3>1, <3>2, <3>3, <3>4, <3>5
               DEF PlayerSound, StoredEnded
  <2>2. (\A j \in Jobs : kind[j] = "pieces" =>
           \A p \in 1 .. job[j].played : <<j, p>> \in heard)'
    BY <1>3 DEF IInv, Sound
  <2>3. playing' \in heard'
    BY <1>2, <1>3
  <2> QED BY <1>3, <2>1, <2>2, <2>3 DEF Sound
<1>11. stored[b].started \/ lostStore
  BY <1>1, <1>3 DEF IInv, Sound
<1> QED BY <1>1, <1>3, <1>5, <1>6, <1>7, <1>8, <1>9, <1>10, <1>11, MoreHeard

LEMMA NextPieceKeeps ==
  ASSUME IInv, NextPiece
  PROVE  IInv'
<1> USE JobNumbers
<1>1. PICK b \in Jobs : /\ b = Played /\ playStep = "next" /\ playStep' = "begin" /\ mode = "up"
                        /\ Live /\ playQueue # <<>> /\ b = Head(playQueue)[1] /\ kind[b] = "stream"
  BY TaskPlayed DEF NextPiece, NextIsPlayed, PlaySteps, Stopping, Closed, Live, IInv, Places
<1>2. /\ playing' = Head(playQueue) /\ playQueue' = Tail(playQueue)
      /\ UNCHANGED <<job, stored, kind, pending, active, step, activePlay,
                     player, broken, unstored, faults, lostStore, mode, restore, restarts,
                     heard, filtered, kept>>
  BY DEF NextPiece, workerVars, faultVars, serviceVars, historyVars
<1>3. \A j \in Jobs : job[j].played = Fetched(j)
  BY <1>1, FetchedCount DEF InHand
<1>4. /\ Counts' /\ Queue' /\ playQueue' \in Seq(Jobs \X PieceNumbers)
      /\ playing' \in Jobs \X PieceNumbers
      /\ playing'[2] = Fetched(b) + 1 /\ Begun(b) /\ Played' = b
  <2>1. \A j \in Jobs : /\ job'[j].made = job[j].made /\ job'[j].played = Fetched(j)
                        /\ job'[j].done = job[j].done /\ (Ended(j)' <=> Ended(j))
                        /\ (job'[j].status \in {"none", "queued"} =>
                              job[j].status \in {"none", "queued"})
    BY <1>2, <1>3 DEF Ended
  <2> QED BY <1>1, <1>2, <2>1, TakesHead
<1>5. TypeOK'
  <2>1. TypedTasks /\ TypedWorker /\ TypedPlayer /\ TypedFaults /\ TypedService
    BY Typed DEF IInv
  <2>2. TypedPlayer'
    <3>1. playing' # NoPiece
      BY <1>4 DEF Played, NoPiece
    <3> QED BY <1>1, <1>2, <1>4, <2>1, <3>1 DEF TypedPlayer, PlaySteps
  <2>3. TypedTasks' /\ TypedWorker' /\ TypedFaults' /\ TypedService'
    BY <1>2, <1>4, <2>1 DEF TypedTasks, TypedWorker, TypedFaults, TypedService
  <2> QED BY <2>2, <2>3, TypesHold
<1>6. Places'
  BY <1>1, <1>2, <1>4 DEF IInv, Places, PlaySteps, Begun
<1>7. \A j \in Jobs : RecordStep(j)
  BY <1>1, <1>2, RecordStill DEF Played
<1>8. InTurn'
  BY <1>2 DEF IInv, InTurn, Begun
<1>9. Sound'
  <2>1. playing[2] = job[b].played /\ job[b].played \in Nat
    BY <1>1, FetchedCount DEF IInv, Counts, PieceInHand
  <2>2. playing'[2] = playing[2] + 1 /\ playing[2] \in Nat
    BY <1>1, <1>3, <1>4, <2>1
  <2>3. PlayerSound'
    <3>1. PlayerSound
      BY DEF IInv, Sound
    <3>2. player.up => /\ player.fed = playing[2] /\ player.fed <= playing'[2]
                       /\ player.fed = playing'[2] - 1
      BY <1>1, <2>2, <3>1 DEF PlayerSound
    <3> QED BY <1>1, <1>2, <1>4, <3>1, <3>2 DEF PlayerSound, StoredEnded
  <2>4. (\A j \in Jobs : kind[j] = "pieces" =>
           \A p \in 1 .. job[j].played : <<j, p>> \in heard)'
    BY <1>2 DEF IInv, Sound
  <2> QED BY <1>1, <1>2, <1>4, <2>3, <2>4 DEF Sound
<1>10. playStep \in Sounding
  BY <1>1 DEF Sounding, PlaySteps
<1>11. playing'[1] = playing[1]
  BY <1>1, <1>4 DEF Played
<1> QED BY <1>1, <1>2, <1>4, <1>5, <1>6, <1>7, <1>8, <1>9, <1>10, <1>11, Together

LEMMA PieceDoneKeeps ==
  ASSUME IInv, PieceDone
  PROVE  IInv'
<1> USE JobNumbers
<1> DEFINE counted == [job EXCEPT ![Played].played = @ + 1]
<1>1. PICK b \in Jobs : /\ b = Played /\ playStep = "fed" /\ mode = "up" /\ ~Ended(b) /\ Begun(b)
                        /\ Live /\ kind[b] = "stream"
  BY TaskPlayed DEF PieceDone, PlaySteps, Stopping, Closed, Live, IInv, Places
<1>2. /\ UNCHANGED <<kind, pending, active, step, activePlay,
                     player, broken, unstored, faults, lostStore, mode, restore, restarts,
                     heard, filtered, kept>>
  BY DEF PieceDone, workerVars, faultVars, serviceVars, historyVars
<1>3. /\ job \in [Jobs -> MemoryRecord] /\ job[b] \in MemoryRecord
      /\ \A j \in Jobs : RecordOf(j) /\ job[j] \in MemoryRecord
      /\ job[b].played \in Nat /\ b \notin pending
  <2>1. \A j \in Jobs : RecordOf(j)
    BY <1>1 DEF IInv, Records
  <2> QED BY <1>1, <2>1, Shape, FetchedCount DEF RecordOf, Begun
<1>4. /\ counted \in [Jobs -> MemoryRecord]
      /\ counted[b].status = job[b].status /\ counted[b].started = job[b].started
      /\ counted[b].made = job[b].made /\ counted[b].played = job[b].played + 1
      /\ counted[b].done = job[b].done
      /\ \A j \in Jobs : j # b => counted[j] = job[j]
  BY <1>1, <1>3 DEF MemoryRecord
<1> HIDE DEF counted
<1>5. \A j \in Jobs : counted[j].played = Fetched(j)
  BY <1>1, <1>4, FetchedCount DEF InHand
<1>6. playing[2] = job[b].played + 1 /\ playing[2] \in Nat /\ playing \in Jobs \X PieceNumbers
      /\ playStep \in Sounding
  BY <1>1, PieceTaken DEF IInv, Counts, PieceInHand, InHand, Sounding, PlaySteps
<1>7. CASE NextIsPlayed
  <2>1. /\ job' = counted /\ playing' = Head(playQueue) /\ playQueue' = Tail(playQueue)
        /\ playStep' = "begin" /\ stored' = stored /\ playQueue # <<>> /\ b = Head(playQueue)[1]
    BY <1>1, <1>7 DEF PieceDone, NextIsPlayed, counted
  <2>2. \A j \in Jobs : /\ job'[j].status = job[j].status
                        /\ job'[j].made = job[j].made /\ job'[j].played = Fetched(j)
                        /\ job'[j].done = job[j].done /\ job'[j].started = job[j].started
                        /\ (Ended(j)' <=> Ended(j)) /\ (Begun(j)' <=> Begun(j))
                        /\ j # b => job'[j] = job[j]
    BY <2>1, <1>4, <1>5 DEF Ended, Begun
  <2>3. /\ Counts' /\ Queue' /\ playQueue' \in Seq(Jobs \X PieceNumbers)
        /\ playing' \in Jobs \X PieceNumbers
        /\ playing'[2] = Fetched(b) + 1 /\ Played' = b
    BY <1>1, <1>2, <2>1, <2>2, TakesHead
  <2>4. TypeOK'
    <3>1. TypedTasks /\ TypedWorker /\ TypedPlayer /\ TypedFaults /\ TypedService
      BY Typed DEF IInv
    <3>2. TypedPlayer'
      <4>1. playing' # NoPiece
        BY <2>3 DEF Played, NoPiece
      <4> QED BY <1>2, <2>1, <2>3, <3>1, <4>1 DEF TypedPlayer, PlaySteps
    <3>3. TypedTasks' /\ TypedWorker' /\ TypedFaults' /\ TypedService'
      BY <1>2, <1>4, <2>1, <2>3, <3>1 DEF TypedTasks, TypedWorker, TypedFaults, TypedService
    <3> QED BY <3>2, <3>3, TypesHold
  <2>5. Places'
    BY <1>1, <1>2, <2>1, <2>2, <2>3 DEF IInv, Places, PlaySteps, Begun, TypeOK
  <2>6. \A j \in Jobs : RecordStep(j)
    <3> SUFFICES ASSUME NEW j \in Jobs PROVE RecordStep(j)
      OBVIOUS
    <3>1. CASE j # b
      BY <1>1, <1>2, <2>1, <2>2, <3>1, RecordStill DEF Played
    <3>2. CASE j = b
      BY <1>1, <1>2, <1>3, <2>1, <2>2, <3>2 DEF RecordStep, Begun
    <3> QED BY <3>1, <3>2
  <2>7. InTurn'
    <3>1. Live'
      BY <1>1, <1>2 DEF Live
    <3> QED BY <1>1, <1>2, <2>2, <2>4, <2>6, <3>1, TurnStays
  <2>8. Sound'
    <3>1. playing'[2] = playing[2] + 1
      BY <1>1, <1>6, <2>3, FetchedCount DEF InHand
    <3>2. PlayerSound'
      <4>1. PlayerSound
        BY DEF IInv, Sound
      <4>2. player.up => /\ player.fed = playing[2] /\ player.fed <= playing'[2]
                         /\ player.fed = playing'[2] - 1
        BY <1>1, <1>6, <3>1, <4>1 DEF PlayerSound
      <4>3. UNCHANGED <<player, mode, activePlay, heard, stored, lostStore, filtered, kind>>
        BY <1>2, <2>1
      <4>4. Played' = Played /\ job'[Played].status = job[Played].status
        BY <1>1, <2>2, <2>3
      <4>5. playStep' = "begin" /\ kind[Played] = "stream"
        BY <1>1, <2>1
      <4> SUFFICES ASSUME player.up PROVE PlayerSound'
        BY <4>3 DEF PlayerSound
      <4>6. /\ mode' = "up" /\ Played # NoJob /\ player.of = Played /\ activePlay' = Played
            /\ player.out <= player.fed /\ (~player.fast => player.out = player.fed)
            /\ (player.fast => Played \in filtered') /\ job'[Played].status # "cancelled"
            /\ job'[Played].status # "completed" /\ kind'[Played] # "pieces"
        BY <4>1, <4>3, <4>4, <4>5, <1>1 DEF PlayerSound
      <4>7. /\ \A p \in 1 .. player.out : <<Played, p>> \in heard'
            /\ ~lostStore' =>
                 /\ \A k \in Jobs : k < Played => StoredEnded(k)'
                 /\ \A j \in Jobs, p \in PieceNumbers : <<j, p>> \in heard' => j <= Played
        BY <4>1, <4>3 DEF PlayerSound, StoredEnded
      <4> QED BY <4>2, <4>3, <4>4, <4>5, <4>6, <4>7 DEF PlayerSound
    <3>3. (\A j \in Jobs : kind[j] = "pieces" =>
             \A p \in 1 .. job[j].played : <<j, p>> \in heard)'
      <4>1. \A j \in Jobs : kind[j] = "pieces" => job'[j] = job[j]
        BY <1>1, <2>2
      <4> QED BY <1>2, <4>1 DEF IInv, Sound
    <3> QED BY <1>1, <1>2, <2>1, <2>3, <3>2, <3>3 DEF Sound
  <2>9. \A j \in Jobs : job'[j].status = "completed" => job[j].status = "completed"
    BY <2>2
  <2>10. playing'[1] = playing[1]
    BY <1>1, <2>3 DEF Played
  <2> QED BY <1>1, <1>2, <1>6, <2>1, <2>3, <2>4, <2>5, <2>6, <2>7, <2>8, <2>9, <2>10,
             Together
<1>8. CASE ~NextIsPlayed
  <2>1. /\ Save({b}, counted) /\ playStep' = "next" /\ UNCHANGED <<playing, playQueue>>
    BY <1>1, <1>8 DEF PieceDone, counted
  <2>a. /\ job' \in [Jobs -> MemoryRecord] /\ stored' \in [Jobs -> DiskRecord]
        /\ \A j \in Jobs : j # b => job'[j] = counted[j] /\ stored'[j] = stored[j]
        /\ job'[b].status = counted[b].status
        /\ job'[b].made = counted[b].made /\ job'[b].played = counted[b].played
        /\ job'[b].done = counted[b].done
        /\ counted[b].started => job'[b].started
        /\ unstored => stored'[b] = stored[b]
        /\ ~unstored => stored'[b].status = job'[b].status /\ stored'[b].started = job'[b].started
    BY <1>4, <2>1, SavedOne
  <2>2. \A j \in Jobs : /\ job'[j].status = job[j].status
                        /\ job'[j].made = job[j].made /\ job'[j].played = Fetched(j)
                        /\ job'[j].done = job[j].done /\ (job[j].started => job'[j].started)
                        /\ (Ended(j)' <=> Ended(j)) /\ (Begun(j)' <=> Begun(j))
                        /\ j # b => job'[j] = job[j] /\ stored'[j] = stored[j]
    BY <2>a, <1>4, <1>5 DEF Ended, Begun
  <2>3. \A j \in Jobs : Fetched(j)' = Fetched(j)
    <3>1. playStep' \notin InHand
      BY <2>1 DEF InHand
    <3> QED BY <2>2, <3>1, FetchedCount DEF Fetched
  <2>4. TypeOK'
    <3>1. TypedTasks /\ TypedWorker /\ TypedPlayer /\ TypedFaults /\ TypedService
      BY Typed DEF IInv
    <3>2. TypedPlayer'
      <4>1. playing # NoPiece
        BY <1>1 DEF Played, NoPiece
      <4> QED BY <1>2, <2>1, <3>1, <4>1 DEF TypedPlayer, PlaySteps
    <3>3. TypedTasks' /\ TypedWorker' /\ TypedFaults' /\ TypedService'
      BY <1>2, <2>1, <2>a, <3>1 DEF TypedTasks, TypedWorker, TypedFaults, TypedService
    <3> QED BY <3>2, <3>3, TypesHold
  <2>5. Played' = b
    BY <1>1, <2>1 DEF Played
  <2>6. Places'
    BY <1>1, <1>2, <2>1, <2>2, <2>5 DEF IInv, Places, PlaySteps, Begun, TypeOK
  <2>7. Counts'
    <3>1. PieceMade'
      BY <1>2, <2>2, MadeStays DEF IInv, TypeOK, WorkerSteps
    <3>2. PieceInHand'
      <4>1. playing[2] = Fetched(b) /\ playing[2] <= job[b].made
        BY <1>1, <1>6, FetchedCount DEF InHand
      <4>2. playStep' \notin InHand
        BY <2>1 DEF InHand
      <4> QED BY <2>1, <2>2, <2>5, <4>1, <4>2 DEF PieceInHand
    <3>3. \A j \in Jobs : job[j].done /\ kind[j] = "pieces" /\ ~Ended(j)' => job'[j].played < Pieces[j]
      <4>1. \A j \in Jobs : kind[j] = "pieces" => job'[j] = job[j]
        BY <1>1, <2>2
      <4> QED BY <2>2, <4>1, FetchedCount DEF CountsOf
    <3>4. \A j \in Jobs : /\ job'[j].made = job[j].made /\ job'[j].done = job[j].done
                          /\ (Ended(j) => Ended(j)')
                          /\ (job'[j].status \in {"none", "queued"} =>
                                job[j].status \in {"none", "queued"})
                          /\ Fetched(j)' \in Nat /\ Fetched(j)' <= job[j].made
      BY <2>2, <2>3, FetchedCount
    <3> QED BY <1>2, <3>1, <3>2, <3>3, <3>4, CountsFetched
  <2>8. Queue'
    <3>1. StreamIsWhole'
      <4>1. \A j \in Jobs : j # Played => job'[j].played = job[j].played
        BY <1>1, <2>2
      <4> QED BY <1>2, <2>1, <2>2, <4>1, WholeStays
    <3> QED BY <1>2, <2>1, <2>2, <2>3, <3>1, NoneLost, QueueFewer
  <2>9. \A j \in Jobs : RecordStep(j)
    <3> SUFFICES ASSUME NEW j \in Jobs PROVE RecordStep(j)
      OBVIOUS
    <3>1. CASE j # b
      BY <1>1, <1>2, <2>1, <2>2, <3>1, RecordStill DEF Played
    <3>2. CASE j = b
      BY <1>1, <1>2, <1>3, <2>1, <2>a, <2>2, <3>2 DEF RecordStep, Begun
    <3> QED BY <3>1, <3>2
  <2>10. InTurn' /\ DiskOnlyGrows
    <3>1. Live'
      BY <1>1, <1>2 DEF Live
    <3> QED BY <1>1, <1>2, <2>2, <2>4, <2>9, <3>1, TurnStays, RecordsStay
  <2>11. Sound'
    <3>1. PlayerSound'
      <4>1. PlayerSound
        BY DEF IInv, Sound
      <4>2. player.up => player.fed = playing[2]
        BY <1>1, <4>1 DEF PlayerSound
      <4> QED BY <1>1, <1>2, <2>1, <2>2, <2>5, <2>10, <4>1, <4>2
                 DEF PlayerSound, DiskOnlyGrows
    <3>2. (\A j \in Jobs : kind[j] = "pieces" =>
             \A p \in 1 .. job[j].played : <<j, p>> \in heard)'
      <4>1. \A j \in Jobs : kind[j] = "pieces" => job'[j] = job[j]
        BY <1>1, <2>2
      <4> QED BY <1>2, <4>1 DEF IInv, Sound
    <3> QED BY <2>1, <3>1, <3>2 DEF Sound
  <2>12. \A j \in Jobs : job'[j].status = "completed" => job[j].status = "completed"
    BY <2>2
  <2> QED BY <1>1, <1>2, <1>6, <2>1, <2>4, <2>6, <2>7, <2>8, <2>9, <2>10, <2>11, <2>12,
             Together
<1> QED BY <1>7, <1>8

\* The next piece waiting is another task's, or none: nothing of the task waits.
LEMMA NothingWaits ==
  ASSUME IInv, NEW b \in Jobs, b = Played, ~Ended(b), ~NextIsPlayed
  PROVE  \A p \in PieceNumbers : ~Waits(b, p)
<1> USE JobNumbers
<1> SUFFICES ASSUME NEW p \in PieceNumbers, NEW i \in 1 .. Len(playQueue), playQueue[i] = <<b, p>>
             PROVE  FALSE
  BY DEF Waits
<1>1. Len(playQueue) \in Nat /\ playQueue[1] \in Jobs \X PieceNumbers /\ 1 \in 1 .. Len(playQueue)
  BY PiecesQueued DEF IInv
<1>2. playQueue # <<>> /\ Head(playQueue) = playQueue[1]
  BY <1>1
<1>3. PICK h \in Jobs : h = playQueue[1][1] /\ h \in Nat /\ b \in Nat
  BY <1>1
<1>4. h # b
  BY <1>2, <1>3 DEF NextIsPlayed
<1>5. b <= h
  <2>1. Before(playing, playQueue[1])
    BY <1>1 DEF IInv, Queue, NotOvertaken
  <2> QED BY <2>1, <1>3 DEF Before, Played
<1>6. i # 1
  BY <1>3, <1>4
<1>7. Before(playQueue[1], <<b, p>>)
  <2>1. 1 < i
    BY <1>6
  <2> QED BY <2>1, <1>1 DEF IInv, Queue, Sorted
<1>8. h <= b
  BY <1>3, <1>7 DEF Before
<1> QED BY <1>3, <1>4, <1>5, <1>8

LEMMA DrainedKeeps ==
  ASSUME IInv, Drained
  PROVE  IInv'
<1> USE JobNumbers
<1>1. PICK b \in Jobs : /\ b = Played /\ playStep = "next" /\ playStep' = "reap" /\ mode = "up"
                        /\ ~Ended(b) /\ Begun(b) /\ Live /\ Live' /\ kind[b] = "stream"
  BY TaskPlayed DEF Drained, PlaySteps, Stopping, Closed, Live, IInv, Places, serviceVars
<1>2. /\ UNCHANGED <<stored, kind, pending, playQueue, active, step, activePlay, playing,
                     player, broken, unstored, faults, lostStore, mode, restore, restarts,
                     heard, filtered, kept>>
      /\ job' = [job EXCEPT ![b].status = "completed"]
      /\ job[b].done /\ ~NextIsPlayed /\ player.up /\ player.out = player.fed
  BY <1>1 DEF Drained, workerVars, faultVars, serviceVars, historyVars
<1>3. /\ job \in [Jobs -> MemoryRecord]
      /\ \A j \in Jobs : job[j] \in MemoryRecord
      /\ b \notin pending
  BY <1>1, Shape DEF IInv, Records, RecordOf, Begun
<1>4. /\ job' \in [Jobs -> MemoryRecord]
      /\ job'[b].status = "completed"
      /\ \A j \in Jobs : job'[j].made = job[j].made /\ job'[j].played = job[j].played
                         /\ job'[j].done = job[j].done /\ job'[j].started = job[j].started
      /\ \A j \in Jobs : j # b => job'[j] = job[j]
  BY <1>2, <1>3 DEF MemoryRecord, Statuses, TERMINAL
<1>5. /\ \A j \in Jobs : (Ended(j) => Ended(j)') /\ (j # b => (Ended(j)' <=> Ended(j)))
      /\ \A j \in Jobs : Begun(j)' => Begun(j) /\ j # b
      /\ Ended(b)' /\ Played' = b
  BY <1>1, <1>2, <1>4 DEF Ended, TERMINAL, Begun, Played
<1>6. \A p \in PieceNumbers : ~Waits(b, p)
  BY <1>1, <1>2, NothingWaits
<1>7. \A p \in 1 .. Pieces[b] : <<b, p>> \in heard
  <2>1. /\ job[b].made = Pieces[b] /\ Fetched(b) = job[b].played /\ job[b].played \in Nat
        /\ job[b].played <= job[b].made /\ Pieces[b] \in PieceNumbers
    <3>1. Pieces[b] \in Nat \ {0} /\ Pieces[b] \in 1 .. Pieces[b]
      OBVIOUS
    <3> QED BY <1>1, <1>2, <3>1, FetchedCount DEF CountsOf, InHand
  <2>2. job[b].played = Pieces[b]
    <3>1. ~(Fetched(b) < Pieces[b])
      <4>1. \A p \in PieceNumbers : Fetched(b) < p /\ p <= job[b].made => Waits(b, p)
        BY <1>1 DEF IInv, Queue, NothingSkipped
      <4>2. Pieces[b] <= job[b].made
        BY <2>1
      <4> QED BY <1>6, <2>1, <4>1, <4>2
    <3> QED BY <2>1, <3>1
  <2>3. playing[2] = Pieces[b]
    BY <1>1, <2>2 DEF IInv, Counts, PieceInHand
  <2>4. player.out = Pieces[b] /\ \A p \in 1 .. player.out : <<b, p>> \in heard
    BY <1>1, <1>2, <2>3 DEF IInv, Sound, PlayerSound
  <2> QED BY <2>4
<1>8. TypeOK'
  <2>1. TypedTasks /\ TypedWorker /\ TypedPlayer /\ TypedFaults /\ TypedService
    BY Typed DEF IInv
  <2>2. TypedTasks' /\ TypedWorker' /\ TypedFaults' /\ TypedService'
    BY <1>2, <1>4, <2>1 DEF TypedTasks, TypedWorker, TypedFaults, TypedService
  <2>3. TypedPlayer'
    BY <1>1, <1>2, <2>1 DEF TypedPlayer, PlaySteps
  <2> QED BY <2>2, <2>3, TypesHold
<1>9. Places'
  BY <1>1, <1>2, <1>4, <1>5, PieceTaken DEF IInv, Places, PlaySteps
<1>10. \A j \in Jobs : Fetched(j)' = Fetched(j)
  <2>1. playStep' \notin InHand
    BY <1>1 DEF InHand
  <2> QED BY <1>1, <1>4, <2>1, FetchedCount DEF Fetched, InHand
<1>11. Counts'
  <2>1. PieceMade'
    BY <1>2, <1>4, MadeStays DEF IInv, TypeOK, WorkerSteps
  <2>2. PieceInHand'
    <3>1. playStep' \notin InHand
      BY <1>1 DEF InHand
    <3>2. playing[2] <= job[b].made
      BY <1>1 DEF IInv, Counts, PieceInHand
    <3> QED BY <1>1, <1>2, <1>4, <1>5, <3>1, <3>2 DEF PieceInHand
  <2>3. \A j \in Jobs : job[j].done /\ kind[j] = "pieces" /\ ~Ended(j)' => job'[j].played < Pieces[j]
    BY <1>1, <1>4, <1>5, FetchedCount DEF CountsOf
  <2>4. \A j \in Jobs : job'[j].status \in {"none", "queued"} => job[j].status \in {"none", "queued"}
    BY <1>4
  <2> QED BY <1>2, <1>4, <1>5, <1>10, <2>1, <2>2, <2>3, <2>4, CountsFetched, FetchedCount
<1>12. Queue'
  <2>1. StreamIsWhole'
    BY <1>1, <1>2, <1>4, <1>5, WholeStays
  <2>2. \A j \in Jobs : Ended(j)' => Ended(j) \/ \A p \in PieceNumbers : ~Waits(j, p)
    BY <1>5, <1>6
  <2> QED BY <1>2, <1>4, <1>5, <1>10, <2>1, <2>2, NoneLost, QueueFewer
<1>13. \A j \in Jobs : RecordStep(j)
  <2> SUFFICES ASSUME NEW j \in Jobs PROVE RecordStep(j)
    OBVIOUS
  <2>1. CASE j # b
    BY <1>1, <1>2, <1>4, <2>1, RecordStill DEF Played
  <2>2. CASE j = b
    BY <1>1, <1>2, <1>3, <1>4, <1>5, <2>2 DEF RecordStep, Begun
  <2> QED BY <2>1, <2>2
<1>14. InTurn'
  BY <1>1, <1>2, <1>4, <1>5, <1>8, <1>13, TurnStays
<1>15. Sound'
  <2>1. PlayerSound'
    BY <1>1, <1>2, <1>4, <1>5 DEF IInv, Sound, PlayerSound, StoredEnded
  <2>2. (\A j \in Jobs : kind[j] = "pieces" =>
           \A p \in 1 .. job[j].played : <<j, p>> \in heard)'
    BY <1>2, <1>4 DEF IInv, Sound
  <2> QED BY <1>1, <2>1, <2>2 DEF Sound
<1>16. \A j \in Jobs : job'[j].status = "completed" =>
         job[j].status = "completed" \/ \A p \in 1 .. Pieces[j] : <<j, p>> \in heard
  BY <1>4, <1>7
<1>17. playStep \in Sounding
  BY <1>1 DEF Sounding, PlaySteps
<1> QED BY <1>1, <1>2, <1>8, <1>9, <1>11, <1>12, <1>13, <1>14, <1>15, <1>16, <1>17, Together

LEMMA PieceSoundedKeeps ==
  ASSUME IInv, PieceSounded
  PROVE  IInv'
<1> USE JobNumbers
<1>1. PICK b \in Jobs : /\ b = Played /\ playStep = "sound" /\ playStep' = "reap" /\ mode = "up"
                        /\ ~Ended(b) /\ Begun(b) /\ Live /\ Live' /\ kind[b] = "pieces"
  BY TaskPlayed
     DEF PieceSounded, PlaySteps, Stopping, Closed, Live, IInv, Places, serviceVars
<1>2. PICK n \in Nat : n = job[b].played + 1 /\ playing = <<b, n>> /\ playing # NoPiece
                       /\ job[b].played \in Nat /\ n = Fetched(b)
  <2>1. playing[2] = job[b].played + 1 /\ job[b].played \in Nat /\ Fetched(b) = job[b].played + 1
    BY <1>1, FetchedCount DEF IInv, Counts, PieceInHand, InHand
  <2>2. playing = <<playing[1], playing[2]>> /\ playing # NoPiece
    BY <1>1, PieceTaken DEF IInv, NoPiece, Played
  <2> QED BY <1>1, <2>1, <2>2 DEF Played
<1>3. /\ UNCHANGED <<stored, kind, pending, playQueue, active, step, activePlay, playing,
                     player, broken, unstored, faults, lostStore, mode, restore, restarts,
                     heard, filtered, kept>>
      /\ job' = [job EXCEPT ![b].played = n,
                            ![b].status = IF job[b].done /\ n = Pieces[b] THEN "completed" ELSE @]
  BY <1>1, <1>2 DEF PieceSounded, workerVars, faultVars, serviceVars, historyVars
<1>4. /\ job \in [Jobs -> MemoryRecord]
      /\ \A j \in Jobs : job[j] \in MemoryRecord
      /\ b \notin pending
  BY <1>1, Shape DEF IInv, Records, RecordOf, Begun
<1>5. /\ job' \in [Jobs -> MemoryRecord]
      /\ job'[b].status = (IF job[b].done /\ n = Pieces[b] THEN "completed" ELSE job[b].status)
      /\ job'[b].played = n
      /\ \A j \in Jobs : job'[j].made = job[j].made
                         /\ job'[j].done = job[j].done /\ job'[j].started = job[j].started
      /\ \A j \in Jobs : j # b => job'[j] = job[j]
  <2> DEFINE s == IF job[b].done /\ n = Pieces[b] THEN "completed" ELSE job[b].status
  <2>1. s \in Statuses
    BY <1>4 DEF MemoryRecord, Statuses, TERMINAL
  <2> HIDE DEF s
  <2>2. job' = [job EXCEPT ![b].played = n, ![b].status = s]
    BY <1>3 DEF s
  <2>3. /\ job' \in [Jobs -> MemoryRecord] /\ job'[b].status = s /\ job'[b].played = n
        /\ \A j \in Jobs : job'[j].made = job[j].made
                           /\ job'[j].done = job[j].done /\ job'[j].started = job[j].started
        /\ \A j \in Jobs : j # b => job'[j] = job[j]
    BY <1>2, <1>4, <2>1, <2>2 DEF MemoryRecord
  <2> QED BY <2>3 DEF s
<1>6. /\ \A j \in Jobs : (Ended(j) => Ended(j)') /\ (j # b => (Ended(j)' <=> Ended(j)))
      /\ \A j \in Jobs : Begun(j)' => Begun(j)
      /\ Ended(b)' <=> job[b].done /\ n = Pieces[b]
      /\ Played' = b
  BY <1>1, <1>3, <1>5 DEF Ended, TERMINAL, Begun, Played
<1>7. \A p \in 1 .. n : <<b, p>> \in heard
  <2>1. \A p \in 1 .. n : p \in 1 .. job[b].played \/ p = n
    BY <1>2
  <2>2. <<b, n>> \in heard
    BY <1>1, <1>2 DEF IInv, Sound
  <2> QED BY <1>1, <2>1, <2>2 DEF IInv, Sound
<1>8. TypeOK'
  <2>1. TypedTasks /\ TypedWorker /\ TypedPlayer /\ TypedFaults /\ TypedService
    BY Typed DEF IInv
  <2>2. TypedTasks' /\ TypedWorker' /\ TypedFaults' /\ TypedService'
    BY <1>3, <1>5, <2>1 DEF TypedTasks, TypedWorker, TypedFaults, TypedService
  <2>3. TypedPlayer'
    BY <1>1, <1>2, <1>3, <2>1 DEF TypedPlayer, PlaySteps
  <2> QED BY <2>2, <2>3, TypesHold
<1>9. Places'
  <2>1. \A j \in Jobs : job[j].status \notin {"none", "queued"} =>
          job'[j].status \notin {"none", "queued"}
    BY <1>5
  <2>2. Played \in Jobs /\ Played' = Played /\ active \in Jobs \cup {NoJob}
    BY <1>1, <1>6 DEF IInv, TypeOK
  <2> QED BY <1>1, <1>3, <2>1, <2>2 DEF IInv, Places, PlaySteps
<1>10. \A j \in Jobs : Fetched(j)' = Fetched(j)
  <2>1. playStep' \notin InHand
    BY <1>1 DEF InHand
  <2> QED BY <1>1, <1>2, <1>5, <2>1, FetchedCount DEF Fetched
<1>11. Counts'
  <2>1. PieceMade'
    BY <1>3, <1>5, MadeStays DEF IInv, TypeOK, WorkerSteps
  <2>2. PieceInHand'
    <3>1. playStep' \notin InHand
      BY <1>1 DEF InHand
    <3>2. playing[2] <= job[b].made
      BY <1>1 DEF IInv, Counts, PieceInHand
    <3> QED BY <1>1, <1>3, <1>5, <1>6, <3>1, <3>2 DEF PieceInHand
  <2>3. \A j \in Jobs : job[j].done /\ kind[j] = "pieces" /\ ~Ended(j)' => job'[j].played < Pieces[j]
    <3>1. ASSUME job[b].done, n # Pieces[b] PROVE n < Pieces[b]
      <4>1. n <= job[b].made /\ job[b].made = Pieces[b]
        BY <1>2, <3>1, FetchedCount DEF CountsOf
      <4> QED BY <3>1, <4>1
    <3> QED BY <1>5, <1>6, <3>1, FetchedCount DEF CountsOf
  <2>4. \A j \in Jobs : job'[j].status \in {"none", "queued"} => job[j].status \in {"none", "queued"}
    BY <1>5
  <2> QED BY <1>3, <1>5, <1>6, <1>10, <2>1, <2>2, <2>3, <2>4, CountsFetched, FetchedCount
<1>12. Queue'
  <2>1. StreamIsWhole'
    BY <1>1, <1>3, <1>5, <1>6, WholeStays
  <2>2. ASSUME Ended(b)', NEW p \in PieceNumbers, Waits(b, p) PROVE FALSE
    <3>1. n < p /\ p <= job[b].made
      BY <1>2, <2>2 DEF IInv, Queue, WaitingIsMade
    <3>2. n = Pieces[b] /\ job[b].made <= Pieces[b] /\ job[b].made \in Nat
      BY <1>6, <2>2, FetchedCount DEF CountsOf
    <3> QED BY <3>1, <3>2
  <2>3. \A j \in Jobs : Ended(j)' => Ended(j) \/ \A p \in PieceNumbers : ~Waits(j, p)
    BY <1>6, <2>2
  <2> QED BY <1>3, <1>5, <1>6, <1>10, <2>1, <2>3, NoneLost, QueueFewer
<1>13. \A j \in Jobs : RecordStep(j)
  <2> SUFFICES ASSUME NEW j \in Jobs PROVE RecordStep(j)
    OBVIOUS
  <2>1. CASE j # b
    BY <1>1, <1>3, <1>5, <2>1, RecordStill DEF Played
  <2>2. CASE j = b
    BY <1>1, <1>3, <1>4, <1>5, <1>6, <2>2 DEF RecordStep, Begun
  <2> QED BY <2>1, <2>2
<1>14. InTurn'
  BY <1>1, <1>3, <1>5, <1>6, <1>8, <1>13, TurnStays
<1>15. Sound'
  <2>1. PlayerSound'
    BY <1>1, <1>3, <1>5, <1>6 DEF IInv, Sound, PlayerSound, StoredEnded, Ended, TERMINAL
  <2>2. (\A j \in Jobs : kind[j] = "pieces" =>
           \A p \in 1 .. job[j].played : <<j, p>> \in heard)'
    BY <1>3, <1>5, <1>7 DEF IInv, Sound
  <2> QED BY <1>1, <2>1, <2>2 DEF Sound
<1>16. \A j \in Jobs : job'[j].status = "completed" =>
         job[j].status = "completed" \/ \A p \in 1 .. Pieces[j] : <<j, p>> \in heard
  BY <1>5, <1>7
<1>17. playStep \in Sounding
  BY <1>1 DEF Sounding, PlaySteps
<1> QED BY <1>1, <1>3, <1>8, <1>9, <1>11, <1>12, <1>13, <1>14, <1>15, <1>16, <1>17, Together

LEMMA PlayerFailsKeeps ==
  ASSUME IInv, PlayerFails
  PROVE  IInv'
<1> USE JobNumbers
<1>1. PICK b \in Jobs : /\ b = Played /\ playStep \in {"feed", "next", "sound"} /\ playStep' = "reap"
                        /\ mode = "up" /\ ~Ended(b) /\ Begun(b) /\ Live /\ Live'
  BY TaskPlayed
     DEF PlayerFails, PlaySteps, Stopping, Closed, Live, IInv, Places, serviceVars
<1>2. /\ UNCHANGED <<stored, kind, pending, active, step, activePlay, playing,
                     broken, unstored, faults, lostStore, mode, restore, restarts,
                     heard, filtered, kept>>
      /\ job' = [job EXCEPT ![b].status = "failed"]
      /\ playQueue' = Without({b})
      /\ player' = Killed \/ (player' = player /\ kind[b] # "pieces")
  BY <1>1 DEF PlayerFails, workerVars, faultVars, serviceVars, historyVars
<1>3. /\ job \in [Jobs -> MemoryRecord]
      /\ \A j \in Jobs : job[j] \in MemoryRecord
      /\ b \notin pending
  BY <1>1, Shape DEF IInv, Records, RecordOf, Begun
<1>4. /\ job' \in [Jobs -> MemoryRecord]
      /\ job'[b].status = "failed"
      /\ \A j \in Jobs : job'[j].made = job[j].made /\ job'[j].played = job[j].played
                         /\ job'[j].done = job[j].done /\ job'[j].started = job[j].started
      /\ \A j \in Jobs : j # b => job'[j] = job[j]
  BY <1>2, <1>3 DEF MemoryRecord, Statuses, TERMINAL
<1>5. /\ \A j \in Jobs : (Ended(j) => Ended(j)') /\ (j # b => (Ended(j)' <=> Ended(j)))
      /\ \A j \in Jobs : Begun(j)' => Begun(j) /\ j # b
      /\ Ended(b)' /\ Played' = b
  BY <1>1, <1>2, <1>4 DEF Ended, TERMINAL, Begun, Played
<1>6. QueueLoses({b}) /\ playQueue' \in Seq(Jobs \X PieceNumbers)
  BY <1>2, SomeLost
<1>7. player' \in PlayerRecord /\ ((player' = player /\ kind[b] # "pieces") \/ ~player'.up)
  <2>1. player \in PlayerRecord
    BY DEF IInv, TypeOK, PlayerRecord
  <2> QED BY <1>2, <2>1 DEF Killed, PlayerRecord
<1>8. TypeOK'
  <2>1. TypedTasks /\ TypedWorker /\ TypedPlayer /\ TypedFaults /\ TypedService
    BY Typed DEF IInv
  <2>2. TypedTasks' /\ TypedWorker' /\ TypedFaults' /\ TypedService'
    BY <1>2, <1>4, <1>6, <2>1 DEF TypedTasks, TypedWorker, TypedFaults, TypedService
  <2>3. playing # NoPiece
    BY <1>1 DEF NoPiece, Played
  <2>4. TypedPlayer'
    BY <1>1, <1>2, <1>7, <2>1, <2>3 DEF TypedPlayer, PlaySteps
  <2> QED BY <2>2, <2>4, TypesHold
<1>9. Places'
  <2>1. \A j \in Jobs : job[j].status \notin {"none", "queued"} =>
          job'[j].status \notin {"none", "queued"}
    BY <1>4
  <2>2. Played \in Jobs /\ Played' = Played /\ active \in Jobs \cup {NoJob}
    BY <1>1, <1>5 DEF IInv, TypeOK
  <2> QED BY <1>1, <1>2, <2>1, <2>2 DEF IInv, Places, PlaySteps
<1>10. \A j \in Jobs : /\ Fetched(j)' \in Nat /\ Fetched(j)' <= job[j].made
                       /\ Fetched(j)' = Fetched(j) \/ (Ended(j)' /\ j \in {b})
  <2>1. playStep' \notin InHand
    BY <1>1 DEF InHand
  <2>2. \A j \in Jobs : Fetched(j)' = job[j].played
    BY <1>4, <2>1, FetchedCount DEF Fetched
  <2> QED BY <1>1, <1>5, <2>2, FetchedCount
<1>11. Counts'
  <2>1. PieceMade'
    BY <1>2, <1>4, MadeStays DEF IInv, TypeOK, WorkerSteps
  <2>2. PieceInHand'
    <3>1. playStep' \notin InHand
      BY <1>1 DEF InHand
    <3>2. playing[2] <= job[b].made
      BY <1>1 DEF IInv, Counts, PieceInHand
    <3> QED BY <1>1, <1>2, <1>4, <1>5, <3>1, <3>2 DEF PieceInHand
  <2>3. \A j \in Jobs : job[j].done /\ kind[j] = "pieces" /\ ~Ended(j)' => job'[j].played < Pieces[j]
    BY <1>4, <1>5, FetchedCount DEF CountsOf
  <2>4. \A j \in Jobs : job'[j].status \in {"none", "queued"} => job[j].status \in {"none", "queued"}
    BY <1>4
  <2> QED BY <1>2, <1>4, <1>5, <1>10, <2>1, <2>2, <2>3, <2>4, CountsFetched, FetchedCount
<1>12. Queue'
  <2>1. StreamIsWhole'
    BY <1>1, <1>2, <1>4, <1>5, WholeStays
  <2>2. /\ \A j \in Jobs : ~Ended(j)' => j \notin {b}
        /\ \A j \in Jobs : Ended(j)' => Ended(j) \/ j \in {b}
    BY <1>5
  <2> QED BY <1>2, <1>4, <1>5, <1>6, <1>10, <2>1, <2>2, QueueFewer
<1>13. \A j \in Jobs : RecordStep(j)
  <2> SUFFICES ASSUME NEW j \in Jobs PROVE RecordStep(j)
    OBVIOUS
  <2>1. CASE j # b
    BY <1>1, <1>2, <1>4, <2>1, RecordStill DEF Played
  <2>2. CASE j = b
    BY <1>1, <1>2, <1>3, <1>4, <1>5, <2>2 DEF RecordStep, Begun
  <2> QED BY <2>1, <2>2
<1>14. InTurn'
  BY <1>1, <1>2, <1>4, <1>5, <1>8, <1>13, TurnStays
<1>15. Sound'
  <2>1. PlayerSound'
    <3>1. CASE ~player'.up
      BY <3>1 DEF PlayerSound
    <3>2. CASE player' = player /\ kind[b] # "pieces"
      BY <1>1, <1>2, <1>4, <1>5, <3>2 DEF IInv, Sound, PlayerSound, StoredEnded
    <3> QED BY <1>7, <3>1, <3>2
  <2>2. (\A j \in Jobs : kind[j] = "pieces" =>
           \A p \in 1 .. job[j].played : <<j, p>> \in heard)'
    BY <1>2, <1>4 DEF IInv, Sound
  <2> QED BY <1>1, <2>1, <2>2 DEF Sound
<1>16. \A j \in Jobs : job'[j].status = "completed" => job[j].status = "completed"
  BY <1>4
<1>17. playStep \in Sounding
  BY <1>1 DEF Sounding, PlaySteps
<1> QED BY <1>1, <1>2, <1>8, <1>9, <1>11, <1>12, <1>13, <1>14, <1>15, <1>16, <1>17, Together

LEMMA ReapKeeps ==
  ASSUME IInv, Reap
  PROVE  IInv'
<1> USE JobNumbers
<1>1. PICK b \in Jobs : /\ b = Played /\ playStep \in PlaySteps /\ Live /\ Live'
                        /\ job[b].status \notin {"none", "queued"}
                        /\ playStep = "reap" \/ Ended(b) \/ mode = "closing"
  <2>1. playStep \in PlaySteps
    BY DEF Reap, PlaySteps
  <2> QED BY <2>1, TaskPlayed DEF Reap, Stopping, Closed, Live, serviceVars
<1>2. /\ playing' = NoPiece /\ playStep' = "wait" /\ activePlay' = NoJob /\ player' = NoPlayer
      /\ UNCHANGED <<kind, pending, playQueue, active, step, broken, mode, restore, restarts,
                     heard, filtered, kept>>
      /\ Save({b}, job) /\ Prune
  BY <1>1 DEF Reap, workerVars, serviceVars, historyVars
<1>3. /\ job \in [Jobs -> MemoryRecord]
      /\ \A j \in Jobs : job[j] \in MemoryRecord
  BY Shape
<1>4. /\ job' \in [Jobs -> MemoryRecord] /\ stored' \in [Jobs -> DiskRecord]
      /\ \A j \in Jobs :
           /\ job'[j].status = job[j].status
           /\ job'[j].made = job[j].made /\ job'[j].played = job[j].played
           /\ job'[j].done = job[j].done /\ (job[j].started => job'[j].started)
           /\ j # b => job'[j] = job[j] /\ stored'[j] = stored[j]
      /\ unstored => stored'[b] = stored[b]
      /\ ~unstored => stored'[b].status = job'[b].status /\ stored'[b].started = job'[b].started
  <2>1. /\ job' \in [Jobs -> MemoryRecord] /\ stored' \in [Jobs -> DiskRecord]
        /\ \A j \in Jobs : j # b => job'[j] = job[j] /\ stored'[j] = stored[j]
        /\ job'[b].status = job[b].status
        /\ job'[b].made = job[b].made /\ job'[b].played = job[b].played
        /\ job'[b].done = job[b].done
        /\ job[b].started => job'[b].started
        /\ unstored => stored'[b] = stored[b]
        /\ ~unstored => stored'[b].status = job'[b].status /\ stored'[b].started = job'[b].started
    BY <1>2, <1>3, SavedOne
  <2> QED BY <2>1
<1>5. \A j \in Jobs : (Ended(j)' <=> Ended(j)) /\ (Begun(j)' <=> Begun(j))
  BY <1>4 DEF Ended, Begun
<1>6. /\ unstored => lostStore
      /\ lostStore => lostStore'
      /\ unstored' \in BOOLEAN /\ lostStore' \in BOOLEAN /\ faults' \in 0 .. MaxFaults
      /\ unstored' => lostStore'
  BY <1>2, Pruned
<1>7. TypeOK'
  <2>1. TypedTasks /\ TypedWorker /\ TypedPlayer /\ TypedFaults /\ TypedService
    BY Typed DEF IInv
  <2>2. NoPlayer \in PlayerRecord
    BY DEF NoPlayer, PlayerRecord
  <2>3. TypedTasks' /\ TypedWorker' /\ TypedPlayer' /\ TypedFaults' /\ TypedService'
    BY <1>2, <1>4, <1>6, <2>1, <2>2
       DEF TypedTasks, TypedWorker, TypedPlayer, TypedFaults, TypedService, PlaySteps
  <2> QED BY <2>3, TypesHold
<1>8. Played' = NoJob /\ Played' \notin Jobs
  BY <1>2 DEF Played, NoPiece
<1>9. Places'
  BY <1>2, <1>4, <1>6, <1>8 DEF IInv, TypeOK, Places, PlaySteps
<1>10. playStep' \notin PlaySteps /\ Held'
  BY <1>2 DEF Held, Sounding, PlaySteps
<1>11. Counts' /\ \A j \in Jobs : Fetched(j)' = job[j].played
  <2>1. PieceMade'
    BY <1>2, <1>4, MadeStays DEF IInv, TypeOK, WorkerSteps
  <2> QED BY <1>2, <1>4, <1>5, <1>10, <2>1, HandEmptied
<1>12. \A j \in Jobs : RecordStep(j)
  <2> SUFFICES ASSUME NEW j \in Jobs PROVE RecordStep(j)
    OBVIOUS
  <2>0. RecordOf(j) /\ stored[j] \in DiskRecord
    BY <1>1, Shape DEF IInv, Records
  <2>1. CASE j # b
    BY <1>1, <1>2, <1>4, <1>6, <2>1, RecordStill DEF Played
  <2>2. CASE j = b
    <3>1. b \in pending => Ended(b) /\ lostStore
      BY <1>1, <2>0, <2>2 DEF RecordOf
    <3>2. ~lostStore' /\ Ended(b)' => StoredEnded(b)'
      BY <1>4, <1>6 DEF StoredEnded, Ended
    <3> QED BY <1>1, <1>2, <1>4, <1>5, <1>6, <2>0, <2>2, <3>1, <3>2 DEF RecordStep
  <2> QED BY <2>1, <2>2
<1>13. InTurn'
  BY <1>1, <1>2, <1>4, <1>5, <1>6, <1>7, <1>12, TurnStays DEF IInv, InTurn
<1>14. Queue'
  <2>1. mode' = "up" => mode = "up" /\ \A j \in Jobs : j = Played => playStep = "reap" \/ Ended(j)'
    BY <1>1, <1>2, <1>5
  <2> QED BY <1>1, <1>2, <1>4, <1>5, <1>10, <1>11, <2>1, NoneLost, QueueLeft
<1>15. Sound'
  <2>1. ~player'.up
    BY <1>2 DEF NoPlayer
  <2> QED BY <1>2, <1>4, <1>10, <2>1, SoundWithout
<1>16. \A j \in Jobs : job'[j].status = "completed" => job[j].status = "completed"
  BY <1>4
<1> QED BY <1>1, <1>2, <1>6, <1>7, <1>9, <1>10, <1>11, <1>12, <1>13, <1>14, <1>15, <1>16,
           Together

-----------------------------------------------------------------------------
(***************************************************************************)
(* Requests                                                                *)
(***************************************************************************)

\* A task that a request ends: on disk too, or not because a store has failed.
CancelledOnDisk(j) ==
  /\ stored'[j].status = "cancelled" /\ stored'[j].started = job'[j].started
  /\ j \notin pending'
Withdrawn(j) ==
  /\ job'[j].status = "cancelled" /\ (job[j].started => job'[j].started)
  /\ job'[j].made = job[j].made /\ job'[j].played = job[j].played
  /\ job'[j].done = job[j].done
  /\ \/ CancelledOnDisk(j)
     \/ stored'[j] = stored[j] /\ (j \in pending' <=> j \in pending) /\ lostStore'

\* Cancelling tasks, by a request or by close.
LEMMA TasksWithdrawn ==
  ASSUME IInv, mode = "up", Live', NEW S \in SUBSET Unfinished,
         job' \in [Jobs -> MemoryRecord], stored' \in [Jobs -> DiskRecord], pending' \subseteq Jobs,
         \A j \in Jobs : j \notin S => /\ job'[j] = job[j] /\ stored'[j] = stored[j]
                                       /\ j \in pending' <=> j \in pending,
         \A j \in S : Withdrawn(j),
         TypedFaults', lostStore => lostStore', unstored' => lostStore',
         QueueLoses(S), playQueue' \in Seq(Jobs \X PieceNumbers),
         player' = player \/ player' = Killed,
         player'.up => mode' = "up" /\ activePlay \notin S,
         TypedService', mode' = "up" => restore' = {},
         UNCHANGED <<kind, active, step, activePlay, playing, playStep, broken, heard, filtered>>
  PROVE  /\ TypeOK' /\ Places' /\ Held' /\ Counts' /\ InTurn' /\ Queue' /\ Sound'
         /\ \A j \in Jobs : RecordStep(j)
         /\ \A j \in Jobs : job'[j].status = "completed" => job[j].status = "completed"
         /\ \A j \in Jobs : Ended(j)' <=> Ended(j) \/ j \in S
<1> USE JobNumbers
<1>1. Live /\ \A j \in S : j \in Jobs /\ ~Ended(j) /\ job[j].status # "none"
  BY DEF Live, Unfinished, Ended
<1>2. \A j \in Jobs : job[j] \in MemoryRecord /\ RecordOf(j)
  BY <1>1, Shape DEF IInv, Records
<1>3. \A j \in Jobs : job'[j].made = job[j].made /\ job'[j].played = job[j].played
                      /\ job'[j].done = job[j].done
  BY DEF Withdrawn
<1>4. /\ \A j \in Jobs : Ended(j)' <=> Ended(j) \/ j \in S
      /\ \A j \in Jobs : Begun(j)' => Begun(j)
      /\ \A j \in Jobs : job'[j].status \in {"none", "queued"} => job[j].status = job'[j].status
      /\ \A j \in Jobs : job'[j].status = "completed" => job[j].status = "completed"
      /\ \A j \in Jobs : job[j].status \notin {"none", "queued"} =>
           job'[j].status \notin {"none", "queued"}
  BY <1>1 DEF Withdrawn, Ended, TERMINAL, Begun
<1>6. player' \in PlayerRecord /\ (player' = player \/ ~player'.up)
  <2>1. player \in PlayerRecord
    BY DEF IInv, TypeOK, PlayerRecord
  <2> QED BY <2>1 DEF Killed, PlayerRecord
<1>7. TypeOK'
  <2>1. TypedTasks /\ TypedWorker /\ TypedPlayer /\ TypedFaults /\ TypedService
    BY Typed DEF IInv
  <2>2. TypedTasks' /\ TypedWorker' /\ TypedPlayer'
    BY <1>6, <2>1 DEF TypedTasks, TypedWorker, TypedPlayer
  <2> QED BY <2>2, TypesHold
<1>8. Places'
  <2>1. Played \in Jobs \cup {NoJob} /\ active \in Jobs \cup {NoJob} /\ Played' = Played
    BY PieceTaken DEF IInv, TypeOK, Played
  <2>2. player = NoPlayer => player' = NoPlayer
    BY DEF Killed, NoPlayer
  <2> QED BY <1>4, <2>1, <2>2 DEF IInv, Places
<1>9. Held'
  BY <1>4 DEF IInv, Held, Played
<1>10. Counts'
  <2>1. PieceMade'
    BY <1>3, MadeStays DEF IInv, TypeOK, WorkerSteps
  <2>2. \A j \in Jobs : (Ended(j) => Ended(j)')
                        /\ (job'[j].status \in {"none", "queued"} =>
                              job[j].status \in {"none", "queued"})
    BY <1>4
  <2> QED BY <1>3, <2>1, <2>2, CountsStay
<1>11. \A j \in Jobs : RecordStep(j)
  <2> SUFFICES ASSUME NEW j \in Jobs PROVE RecordStep(j)
    OBVIOUS
  <2>1. CASE j \notin S
    BY <1>1, <2>1, RecordStill DEF Played
  <2>2. CASE j \in S
    <3>1. Ended(j)' /\ ~Ended(j) /\ job[j].status # "none"
      BY <1>1, <1>4, <2>2
    <3>2. Withdrawn(j)
      BY <2>2
    <3>3. CASE CancelledOnDisk(j)
      <4>1. StoredEnded(j)'
        BY <3>3 DEF CancelledOnDisk, StoredEnded, TERMINAL
      <4> QED BY <3>1, <3>2, <3>3, <4>1 DEF RecordStep, Withdrawn, CancelledOnDisk
    <3>4. CASE stored'[j] = stored[j] /\ (j \in pending' <=> j \in pending) /\ lostStore'
      BY <3>1, <3>2, <3>4 DEF RecordStep, Withdrawn
    <3> QED BY <3>2, <3>3, <3>4 DEF Withdrawn
  <2> QED BY <2>1, <2>2
<1>12. InTurn'
  BY <1>1, <1>3, <1>4, <1>7, <1>11, TurnStays DEF IInv, InTurn
<1>13. Queue'
  <2>1. /\ \A j \in Jobs : ~Ended(j)' => j \notin S
        /\ \A j \in Jobs : Ended(j)' => Ended(j) \/ j \in S
        /\ \A j \in Jobs : Ended(j) => Ended(j)'
    BY <1>4
  <2> QED BY <1>3, <2>1, QueueLess
<1>14. Sound'
  <2>1. DiskOnlyGrows
    BY <1>1, <1>7, <1>11, RecordsStay
  <2>2. ASSUME player'.up PROVE /\ job'[Played].status # "cancelled"
                                /\ job'[Played].status = "completed" => job[Played].status = "completed"
    <3>1. player.up
      BY <1>6, <2>2
    <3>2. Played \in Jobs /\ job[Played].status # "cancelled" /\ activePlay = Played
      BY <3>1, PieceTaken DEF IInv, Sound, PlayerSound
    <3> QED BY <2>2, <3>2
  <2> QED BY <1>3, <1>4, <1>6, <2>1, <2>2, PlayerUndisturbed
<1> QED BY <1>4, <1>7, <1>8, <1>9, <1>10, <1>11, <1>12, <1>13, <1>14

\* What cancelling tasks writes.
LEMMA Cancelling ==
  ASSUME IInv, NEW S \in SUBSET Unfinished
  PROVE  /\ Cancelled(S) \in [Jobs -> MemoryRecord]
         /\ \A j \in Jobs : j \notin S => Cancelled(S)[j] = job[j]
         /\ \A j \in S : /\ Cancelled(S)[j].status = "cancelled"
                         /\ Cancelled(S)[j].made = job[j].made
                         /\ Cancelled(S)[j].played = job[j].played
                         /\ Cancelled(S)[j].done = job[j].done
                         /\ Cancelled(S)[j].started = job[j].started
         /\ S \subseteq Jobs
<1>1. \A j \in Jobs : job[j] \in MemoryRecord
  BY Shape
<1>2. \A j \in S : j \in Jobs /\ ~Ended(j)
  BY DEF Unfinished, Ended
<1> QED BY <1>1, <1>2 DEF Cancelled, MemoryRecord, Statuses, TERMINAL

\* What a cancellation writes: the tasks named end, and no other changes.
LEMMA CancelsJobs ==
  ASSUME IInv, NEW S \in SUBSET Unfinished, CancelJobs(S)
  PROVE  /\ job' \in [Jobs -> MemoryRecord] /\ stored' \in [Jobs -> DiskRecord]
         /\ pending' \subseteq Jobs
         /\ QueueLoses(S) /\ playQueue' \in Seq(Jobs \X PieceNumbers)
         /\ \A j \in Jobs : j \notin S => /\ job'[j] = job[j] /\ stored'[j] = stored[j]
                                          /\ j \in pending' <=> j \in pending
         /\ lostStore' \/ ~unstored => \A j \in S : Withdrawn(j)
<1>1. /\ Cancelled(S) \in [Jobs -> MemoryRecord]
      /\ \A j \in Jobs : j \notin S => Cancelled(S)[j] = job[j]
      /\ \A j \in S : /\ Cancelled(S)[j].status = "cancelled"
                      /\ Cancelled(S)[j].made = job[j].made
                      /\ Cancelled(S)[j].played = job[j].played
                      /\ Cancelled(S)[j].done = job[j].done
                      /\ Cancelled(S)[j].started = job[j].started
      /\ S \subseteq Jobs
  BY Cancelling
<1>2. TypeOK /\ Save(S, Cancelled(S))
  BY DEF IInv, CancelJobs
<1>3. PICK mem \in [Jobs -> MemoryRecord] : mem = Cancelled(S) /\ Save(S, mem)
  BY <1>1, <1>2
<1>4. /\ job' \in [Jobs -> MemoryRecord] /\ stored' \in [Jobs -> DiskRecord]
      /\ \A j \in Jobs :
           /\ job'[j].status = mem[j].status
           /\ job'[j].made = mem[j].made /\ job'[j].played = mem[j].played
           /\ job'[j].done = mem[j].done
           /\ mem[j].started => job'[j].started
           /\ j \notin S => job'[j] = mem[j] /\ stored'[j] = stored[j]
           /\ unstored => stored'[j] = stored[j]
           /\ j \in S /\ ~unstored => /\ stored'[j].status = job'[j].status
                                      /\ stored'[j].started = job'[j].started
  BY <1>2, <1>3, Saved
<1>5. /\ pending' = IF unstored THEN pending ELSE pending \ S
      /\ playQueue' = Without(S) /\ pending \subseteq Jobs /\ unstored \in BOOLEAN
  BY <1>2 DEF CancelJobs, TypeOK
<1>6. ASSUME lostStore' \/ ~unstored, NEW j \in S PROVE Withdrawn(j)
  <2>1. CASE unstored
    BY <1>1, <1>3, <1>4, <1>5, <1>6, <2>1 DEF Withdrawn
  <2>2. CASE ~unstored
    BY <1>1, <1>3, <1>4, <1>5, <1>6, <2>2 DEF Withdrawn, CancelledOnDisk
  <2> QED BY <2>1, <2>2
<1>7. QueueLoses(S) /\ playQueue' \in Seq(Jobs \X PieceNumbers)
  BY <1>5, SomeLost
<1> QED BY <1>1, <1>3, <1>4, <1>5, <1>6, <1>7

\* A request that cancels tasks and does not stop the service.
LEMMA WithdrawKeeps ==
  ASSUME IInv, NEW S \in SUBSET Unfinished, Withdraw(S),
         UNCHANGED <<unstored, faults, lostStore>> \/ Prune
  PROVE  IInv'
<1>1. /\ mode = "up" /\ CancelJobs(S) /\ player' = PlayerWithout(S)
      /\ UNCHANGED <<kind, active, step, activePlay, playing, playStep, broken,
                     mode, restore, restarts, heard, filtered, kept>>
  BY DEF Withdraw, workerVars, serviceVars, historyVars
<1>2. Live /\ Live' /\ restore = {}
  BY <1>1 DEF Live, IInv, Places
<1>3. Prune
  BY DEF Prune
<1>4. /\ unstored => lostStore
      /\ lostStore => lostStore'
      /\ unstored' \in BOOLEAN /\ lostStore' \in BOOLEAN /\ faults' \in 0 .. MaxFaults
      /\ unstored' => lostStore'
  BY <1>3, Pruned
<1>5. lostStore' \/ ~unstored
  BY <1>4
<1>6. /\ job' \in [Jobs -> MemoryRecord] /\ stored' \in [Jobs -> DiskRecord]
      /\ pending' \subseteq Jobs
      /\ QueueLoses(S) /\ playQueue' \in Seq(Jobs \X PieceNumbers)
      /\ \A j \in Jobs : j \notin S => /\ job'[j] = job[j] /\ stored'[j] = stored[j]
                                       /\ j \in pending' <=> j \in pending
      /\ \A j \in S : Withdrawn(j)
  BY <1>1, <1>5, CancelsJobs
<1>7. TypedFaults' /\ TypedService'
  <2>1. TypedFaults /\ TypedService
    BY Typed DEF IInv
  <2> QED BY <1>1, <1>4, <2>1 DEF TypedFaults, TypedService
<1>8. /\ player' = player \/ player' = Killed
      /\ player'.up => mode' = "up" /\ activePlay \notin S
  <2>1. player \in PlayerRecord
    BY DEF IInv, TypeOK, PlayerRecord
  <2> QED BY <1>1, <2>1 DEF PlayerWithout, Killed, PlayerRecord
<1>9. /\ TypeOK' /\ Places' /\ Held' /\ Counts' /\ InTurn' /\ Queue' /\ Sound'
      /\ \A j \in Jobs : RecordStep(j)
      /\ \A j \in Jobs : job'[j].status = "completed" => job[j].status = "completed"
  BY <1>1, <1>2, <1>4, <1>6, <1>7, <1>8, TasksWithdrawn
<1> QED BY <1>1, <1>2, <1>4, <1>9, Together

LEMMA StopFailsKeeps ==
  ASSUME IInv, StopFails
  PROVE  IInv'
<1>1. PICK S \in SUBSET Unfinished : job' = Cancelled(S) /\ playQueue' = Without(S)
                                     /\ player' = PlayerWithout(S)
  BY DEF StopFails
<1>2. /\ mode = "up" /\ lostStore' = TRUE /\ unstored' = TRUE /\ Faults(1)
      /\ UNCHANGED <<stored, kind, pending, active, step, activePlay, playing, playStep, broken,
                     mode, restore, restarts, heard, filtered, kept>>
  BY DEF StopFails, workerVars, serviceVars, historyVars
<1>3. Live /\ Live' /\ restore = {}
  BY <1>2 DEF Live, IInv, Places
<1>4. /\ Cancelled(S) \in [Jobs -> MemoryRecord]
      /\ \A j \in Jobs : j \notin S => Cancelled(S)[j] = job[j]
      /\ \A j \in S : /\ Cancelled(S)[j].status = "cancelled"
                      /\ Cancelled(S)[j].made = job[j].made
                      /\ Cancelled(S)[j].played = job[j].played
                      /\ Cancelled(S)[j].done = job[j].done
                      /\ Cancelled(S)[j].started = job[j].started
  BY Cancelling
<1>5. /\ job' \in [Jobs -> MemoryRecord] /\ stored' \in [Jobs -> DiskRecord]
      /\ pending' \subseteq Jobs
      /\ QueueLoses(S) /\ playQueue' \in Seq(Jobs \X PieceNumbers)
      /\ \A j \in Jobs : j \notin S => /\ job'[j] = job[j] /\ stored'[j] = stored[j]
                                       /\ j \in pending' <=> j \in pending
      /\ \A j \in S : Withdrawn(j)
  BY <1>1, <1>2, <1>4, Shape, SomeLost DEF Withdrawn, IInv, TypeOK
<1>6. TypedFaults' /\ TypedService'
  <2>1. TypedFaults /\ TypedService
    BY Typed DEF IInv
  <2>2. faults' \in 0 .. MaxFaults
    BY <1>2, FaultsCounted
  <2> QED BY <1>2, <2>1, <2>2 DEF TypedFaults, TypedService
<1>7. /\ player' = player \/ player' = Killed
      /\ player'.up => mode' = "up" /\ activePlay \notin S
  <2>1. player \in PlayerRecord
    BY DEF IInv, TypeOK, PlayerRecord
  <2> QED BY <1>1, <1>2, <2>1 DEF PlayerWithout, Killed, PlayerRecord
<1>8. /\ TypeOK' /\ Places' /\ Held' /\ Counts' /\ InTurn' /\ Queue' /\ Sound'
      /\ \A j \in Jobs : RecordStep(j)
      /\ \A j \in Jobs : job'[j].status = "completed" => job[j].status = "completed"
  BY <1>1, <1>2, <1>3, <1>5, <1>6, <1>7, TasksWithdrawn
<1> QED BY <1>2, <1>3, <1>8, Together

LEMMA SubmitKeeps ==
  ASSUME IInv, NEW a \in Jobs, Submit(a)
  PROVE  IInv'
<1> USE JobNumbers
<1> DEFINE new == [job EXCEPT ![a] = Waiting]
<1>1. /\ mode = "up" /\ Live /\ Live' /\ ~unstored
      /\ job[a].status = "none" /\ \A i \in 1 .. a - 1 : job[i].status # "none"
      /\ Save({a}, new) /\ pending' = pending \cup {a} /\ Prune
      /\ UNCHANGED <<kind, playQueue, active, step, activePlay, playing, playStep, player,
                     broken, mode, restore, restarts, heard, filtered, kept>>
  BY DEF Submit, Live, workerVars, playVars, threadVars, serviceVars, historyVars
<1>2. /\ job \in [Jobs -> MemoryRecord]
      /\ \A j \in Jobs : job[j] \in MemoryRecord /\ RecordOf(j) /\ CountsOf(j)
      /\ restore = {} /\ Waiting \in MemoryRecord
  BY <1>1, Shape DEF IInv, Records, Counts, Places, Waiting, MemoryRecord, Statuses
<1>3. /\ new \in [Jobs -> MemoryRecord]
      /\ new[a].status = "queued" /\ new[a].made = 0 /\ new[a].played = 0 /\ new[a].done = FALSE
      /\ \A j \in Jobs : j # a => new[j] = job[j]
  BY <1>2 DEF Waiting
<1> HIDE DEF new
<1>4. /\ job' \in [Jobs -> MemoryRecord] /\ stored' \in [Jobs -> DiskRecord]
      /\ \A j \in Jobs : j # a => job'[j] = job[j] /\ stored'[j] = stored[j]
      /\ job'[a].status = "queued" /\ job'[a].made = 0 /\ job'[a].played = 0
      /\ job'[a].done = FALSE
      /\ stored'[a].status = "queued" /\ stored'[a].started = job'[a].started
  <2>1. /\ job' \in [Jobs -> MemoryRecord] /\ stored' \in [Jobs -> DiskRecord]
        /\ \A j \in Jobs : j # a => job'[j] = new[j] /\ stored'[j] = stored[j]
        /\ job'[a].status = new[a].status
        /\ job'[a].made = new[a].made /\ job'[a].played = new[a].played
        /\ job'[a].done = new[a].done
        /\ ~unstored => stored'[a].status = job'[a].status /\ stored'[a].started = job'[a].started
    BY <1>1, <1>3, SavedOne
  <2> QED BY <1>1, <1>3, <2>1
<1>5. /\ unstored => lostStore
      /\ lostStore => lostStore'
      /\ unstored' \in BOOLEAN /\ lostStore' \in BOOLEAN /\ faults' \in 0 .. MaxFaults
      /\ unstored' => lostStore'
  BY <1>1, Pruned
<1>6. /\ job[a].made = 0 /\ job[a].played = 0 /\ job[a].done = FALSE
      /\ stored[a].status = "none"
  <2>1. job[a].made = 0 /\ job[a].played \in Nat /\ job[a].played <= job[a].made
    BY <1>1, <1>2, FetchedCount DEF CountsOf
  <2>2. job[a].done = FALSE
    BY <1>2, <2>1 DEF CountsOf, MemoryRecord
  <2> QED BY <1>1, <1>2, <2>1, <2>2 DEF RecordOf
<1>7. /\ \A j \in Jobs : job'[j].made = job[j].made /\ job'[j].played = job[j].played
                         /\ job'[j].done = job[j].done
      /\ \A j \in Jobs : (Ended(j)' <=> Ended(j)) /\ (Begun(j)' <=> Begun(j))
      /\ \A j \in Jobs : job'[j].status \in {"none", "queued"} =>
           job[j].status \in {"none", "queued"}
      /\ ~Begun(a) /\ ~StoredEnded(a) /\ ~Ended(a) /\ ~StoredEnded(a)'
  BY <1>1, <1>4, <1>6 DEF Ended, Begun, StoredEnded, TERMINAL
<1>8. a # active /\ a # Played /\ Played' = Played /\ Played \in Jobs \cup {NoJob}
      /\ (playStep \in PlaySteps => Played \in Jobs)
  BY <1>1, PieceTaken DEF IInv, Places, Played
<1>9. TypeOK'
  <2>1. TypedTasks /\ TypedWorker /\ TypedPlayer /\ TypedFaults /\ TypedService
    BY Typed DEF IInv
  <2>2. TypedTasks' /\ TypedWorker' /\ TypedPlayer' /\ TypedFaults' /\ TypedService'
    BY <1>1, <1>4, <1>5, <2>1
       DEF TypedTasks, TypedWorker, TypedPlayer, TypedFaults, TypedService
  <2> QED BY <2>2, TypesHold
<1>10. Places'
  <2>1. active \in Jobs \cup {NoJob}
    BY DEF IInv, TypeOK
  <2> QED BY <1>1, <1>4, <1>5, <1>8, <2>1 DEF IInv, Places
<1>11. Held'
  BY <1>1, <1>7, <1>8 DEF IInv, Held
<1>12. Counts'
  <2>1. PieceMade'
    BY <1>1, <1>7, MadeStays DEF IInv, TypeOK, WorkerSteps
  <2> QED BY <1>1, <1>7, <2>1, CountsStay
<1>13. Queue'
  BY <1>1, <1>7, NoneLost, QueueLess
<1>14. Sound'
  <2>1. PlayerSound'
    <3>1. ASSUME player.up PROVE Played \in Jobs /\ job'[Played] = job[Played]
      BY <1>4, <1>8, <3>1 DEF IInv, Sound, PlayerSound
    <3> QED BY <1>1, <1>4, <1>5, <1>7, <1>8, <3>1 DEF IInv, Sound, PlayerSound, StoredEnded
  <2>2. (\A j \in Jobs : kind[j] = "pieces" =>
           \A p \in 1 .. job[j].played : <<j, p>> \in heard)'
    BY <1>1, <1>7 DEF IInv, Sound
  <2> QED BY <1>1, <1>4, <1>5, <1>7, <1>8, <2>1, <2>2 DEF IInv, Sound, PlaySteps
<1>15. Records'
  <2> SUFFICES ASSUME NEW j \in Jobs PROVE RecordOf(j)'
    BY DEF Records
  <2>1. CASE j = a
    BY <1>1, <1>4, <1>7, <2>1 DEF RecordOf
  <2>2. CASE j # a
    BY <1>1, <1>2, <1>4, <1>5, <1>7, <1>8, <2>2 DEF RecordOf, StoredEnded
  <2> QED BY <2>1, <2>2
<1>16. InTurn'
  <2>1. ASSUME NEW k \in Jobs, NEW j \in Jobs, k < j, stored'[k].status = "none"
        PROVE  stored'[j].status = "none"
    <3>1. k # a /\ stored[k].status = "none" /\ job[k].status = "none"
      BY <1>2, <1>4, <2>1 DEF RecordOf
    <3>2. a < k
      BY <1>1, <3>1 DEF Jobs
    <3>3. j # a
      BY <2>1, <3>2
    <3>4. stored[j].status = "none"
      BY <2>1, <3>1 DEF IInv, InTurn
    <3> QED BY <1>4, <3>3, <3>4
  <2>2. ASSUME NEW k \in Jobs, NEW j \in Jobs, Begun(k)', job'[j].status = "queued"
        PROVE  k < j
    <3>1. CASE j # a
      BY <1>4, <1>7, <2>2, <3>1 DEF IInv, InTurn
    <3>2. CASE j = a
      <4>1. Begun(k) /\ k # a
        BY <1>7, <2>2
      <4>2. ~(a < k)
        <5>1. stored[k].status # "none"
          BY <1>2, <4>1 DEF RecordOf, Begun
        <5> QED BY <1>6, <5>1 DEF IInv, InTurn
      <4> QED BY <3>2, <4>1, <4>2
    <3> QED BY <3>1, <3>2
  <2>3. /\ step' \in WorkerSteps => \A k \in Jobs : Begun(k)' => k <= active'
        /\ mode' = "up" => \A j \in Jobs : Begun(j)' =>
             job'[j].done \/ (j = active' /\ step' \in {"synth", "join"})
    BY <1>1, <1>7 DEF IInv, InTurn
  <2> QED BY <2>1, <2>2, <2>3 DEF InTurn
<1>17. \A j \in Jobs, p \in PieceNumbers : <<j, p>> \in heard => j # a
  BY <1>6 DEF IInv, Heard
<1>18. Heard'
  <2>1. (\A j \in Jobs : stored[j].status = "completed" /\ kind[j] # "silent" =>
           \A p \in 1 .. Pieces[j] : <<j, p>> \in heard)'
    BY <1>1, <1>4 DEF IInv, Heard
  <2>2. (~lostStore =>
           \A j \in Jobs, p \in PieceNumbers : <<j, p>> \in heard =>
             \A k \in Jobs : k < j => StoredEnded(k))'
    BY <1>1, <1>4, <1>5, <1>7 DEF IInv, Heard, StoredEnded
  <2>3. restore' = {}
    BY <1>1, <1>2
  <2>4. (\A j \in Jobs, p \in PieceNumbers : <<j, p>> \in heard => stored[j].status # "none")'
    BY <1>1, <1>4, <1>17 DEF IInv, Heard
  <2> QED BY <2>1, <2>2, <2>3, <2>4 DEF Heard
<1>19. RecordIsTrue'
  <2>1. HeardOnRecord'
    BY <1>1, <1>4, <1>5, <1>17 DEF IInv, RecordIsTrue, HeardOnRecord
  <2>2. CompletedWasHeard'
    BY <1>1, <1>4 DEF IInv, RecordIsTrue, CompletedWasHeard
  <2> QED BY <2>1, <2>2 DEF RecordIsTrue
<1>20. Gone' /\ Keeping' /\ CloseKeepsTasks'
  BY <1>1 DEF Gone, Keeping, CloseKeepsTasks
<1> QED BY <1>9, <1>10, <1>11, <1>12, <1>13, <1>14, <1>15, <1>16, <1>18, <1>19, <1>20
           DEF IInv

-----------------------------------------------------------------------------
(***************************************************************************)
(* Close, crash, restart                                                   *)
(***************************************************************************)

\* What close wants to keep is not among what was heard, but for a task whose
\* start only the tempo filter knew.
LEMMA UnstartedUnheard ==
  ASSUME IInv, Live, ~lostStore, NEW k \in Unfinished, ~job[k].started,
         NEW j \in Jobs, NEW p \in PieceNumbers, <<j, p>> \in heard
  PROVE  j <= k /\ (j = k => k \in filtered)
<1>1. k \in Jobs /\ ~Ended(k) /\ RecordOf(k)
  BY DEF IInv, Records, Unfinished, Ended
<1>2. ~StoredEnded(k) /\ ~stored[k].started
  BY <1>1 DEF RecordOf
<1>3. ~(k < j)
  BY <1>1, <1>2 DEF IInv, Heard
<1>4. j = k => k \in filtered
  BY <1>2 DEF IInv, RecordIsTrue, HeardOnRecord, StoredEnded
<1> QED BY <1>1, <1>3, <1>4, JobNumbers

LEMMA CloseKeeps ==
  ASSUME IInv, Close
  PROVE  IInv'
<1> USE JobNumbers
<1> DEFINE taken == {j \in Unfinished \ pending : stored[j].status \notin TERMINAL}
<1>1. /\ mode = "up" /\ mode' = "closing" /\ Live /\ Live' /\ restore = {}
      /\ player' = Killed /\ kept' = {j \in Unfinished : ~job[j].started}
      /\ UNCHANGED <<kind, active, step, activePlay, playing, playStep, broken,
                     restarts, heard, filtered>>
  BY DEF Close, Live, IInv, Places, workerVars
<1>2. \/ /\ CancelJobs(taken)
         /\ restore' = {j \in taken : ~job[j].started}
         /\ UNCHANGED <<unstored, faults, lostStore>>
      \/ /\ lostStore' = TRUE /\ unstored' = TRUE /\ Faults(1)
         /\ UNCHANGED <<job, stored, pending, playQueue, restore>>
  BY DEF Close, Restorable
<1>3. taken \subseteq Unfinished /\ Unfinished \subseteq Jobs
  BY DEF Unfinished
<1>4. ~player'.up
  <2>1. player \in PlayerRecord
    BY DEF IInv, TypeOK, PlayerRecord
  <2> QED BY <1>1, <2>1 DEF Killed, PlayerRecord
<1>5. PICK S \in SUBSET Unfinished :
        /\ job' \in [Jobs -> MemoryRecord] /\ stored' \in [Jobs -> DiskRecord]
        /\ pending' \subseteq Jobs
        /\ QueueLoses(S) /\ playQueue' \in Seq(Jobs \X PieceNumbers)
        /\ \A j \in Jobs : j \notin S => /\ job'[j] = job[j] /\ stored'[j] = stored[j]
                                         /\ j \in pending' <=> j \in pending
        /\ \A j \in S : Withdrawn(j)
        /\ TypedFaults' /\ (lostStore => lostStore') /\ (unstored' => lostStore')
        /\ restore' \subseteq {j \in S : ~job[j].started}
        /\ ~lostStore' => S = taken /\ restore' = {j \in taken : ~job[j].started} /\ ~lostStore
  <2>1. TypedFaults /\ (unstored => lostStore) /\ unstored \in BOOLEAN
    BY Typed DEF IInv, Places, TypedFaults
  <2>2. CASE /\ CancelJobs(taken)
             /\ restore' = {j \in taken : ~job[j].started}
             /\ UNCHANGED <<unstored, faults, lostStore>>
    <3>1. lostStore' \/ ~unstored
      BY <2>1, <2>2
    <3>2. /\ job' \in [Jobs -> MemoryRecord] /\ stored' \in [Jobs -> DiskRecord]
          /\ pending' \subseteq Jobs
          /\ QueueLoses(taken) /\ playQueue' \in Seq(Jobs \X PieceNumbers)
          /\ \A j \in Jobs : j \notin taken => /\ job'[j] = job[j] /\ stored'[j] = stored[j]
                                               /\ j \in pending' <=> j \in pending
          /\ \A j \in taken : Withdrawn(j)
      BY <1>3, <2>2, <3>1, CancelsJobs
    <3>3. TypedFaults' /\ (unstored' => lostStore') /\ (lostStore => lostStore')
          /\ (~lostStore' => ~lostStore)
      BY <1>1, <2>1, <2>2 DEF TypedFaults
    <3> HIDE DEF taken
    <3> QED BY <1>3, <2>2, <3>2, <3>3
  <2>3. CASE /\ lostStore' = TRUE /\ unstored' = TRUE /\ Faults(1)
             /\ UNCHANGED <<job, stored, pending, playQueue, restore>>
    <3>1. QueueLoses({})
      BY <2>3, NoneLost
    <3>2. TypedFaults'
      <4>1. faults' \in 0 .. MaxFaults
        BY <2>3, FaultsCounted
      <4> QED BY <1>1, <2>1, <2>3, <4>1 DEF TypedFaults
    <3>3. /\ job' \in [Jobs -> MemoryRecord] /\ stored' \in [Jobs -> DiskRecord]
          /\ pending' \subseteq Jobs /\ playQueue' \in Seq(Jobs \X PieceNumbers)
      BY <2>3, Shape DEF IInv, TypeOK
    <3> QED BY <1>1, <2>3, <3>1, <3>2, <3>3
  <2> QED BY <1>2, <2>2, <2>3
<1>6. TypedService'
  <2>1. TypedService
    BY Typed DEF IInv
  <2>2. kept' \subseteq Jobs /\ restore' \subseteq Jobs
    BY <1>1, <1>3, <1>5
  <2> QED BY <1>1, <2>1, <2>2 DEF TypedService
<1>7. /\ TypeOK' /\ Places' /\ Held' /\ Counts' /\ InTurn' /\ Queue' /\ Sound'
      /\ \A j \in Jobs : RecordStep(j)
      /\ \A j \in Jobs : job'[j].status = "completed" => job[j].status = "completed"
      /\ \A j \in Jobs : Ended(j)' <=> Ended(j) \/ j \in S
  <2>1. mode' # "up"
    BY <1>1
  <2> HIDE DEF taken
  <2> QED BY <1>1, <1>4, <1>5, <1>6, <2>1, TasksWithdrawn
<1>8. /\ Records' /\ DiskOnlyGrows
      /\ \A j \in Jobs : stored'[j].status = "completed" =>
           stored[j].status = "completed" \/ job'[j].status = "completed"
  BY <1>1, <1>5, <1>7, RecordsStay
<1>9. RecordIsTrue'
  <2>1. HeardOnRecord'
    BY <1>1, <1>8 DEF IInv, RecordIsTrue, HeardOnRecord, DiskOnlyGrows, StoredEnded
  <2>2. CompletedWasHeard'
    BY <1>1, <1>7 DEF IInv, RecordIsTrue, CompletedWasHeard
  <2> QED BY <2>1, <2>2 DEF RecordIsTrue
<1>10. Heard'
  <2>1. (\A j \in Jobs : stored[j].status = "completed" /\ kind[j] # "silent" =>
           \A p \in 1 .. Pieces[j] : <<j, p>> \in heard)'
    BY <1>1, <1>8, <1>9 DEF IInv, Heard, RecordIsTrue, CompletedWasHeard
  <2>2. (~lostStore =>
           \A j \in Jobs, p \in PieceNumbers : <<j, p>> \in heard =>
             \A k \in Jobs : k < j => StoredEnded(k))'
    BY <1>1, <1>8 DEF IInv, Heard, DiskOnlyGrows
  <2>3. (~lostStore =>
           \A k \in restore, j \in Jobs, p \in PieceNumbers :
             <<j, p>> \in heard => j <= k /\ (j = k => k \in filtered))'
    <3>1. ASSUME ~lostStore', NEW k \in restore', NEW j \in Jobs, NEW p \in PieceNumbers,
                 <<j, p>> \in heard
          PROVE  j <= k /\ (j = k => k \in filtered)
      <4>1. k \in Unfinished /\ ~job[k].started /\ ~lostStore
        BY <1>5, <3>1
      <4> QED BY <1>1, <3>1, <4>1, UnstartedUnheard
    <3> QED BY <1>1, <3>1
  <2>4. (\A j \in Jobs, p \in PieceNumbers : <<j, p>> \in heard => stored[j].status # "none")'
    BY <1>1, <1>8 DEF IInv, Heard, DiskOnlyGrows
  <2> QED BY <2>1, <2>2, <2>3, <2>4 DEF Heard
<1>11. Keeping'
  <2>1. restore' \subseteq kept' /\ \A j \in restore' : Ended(j)'
    <3>1. \A j \in restore' : j \in S /\ j \in Jobs /\ ~job[j].started
      BY <1>3, <1>5
    <3> QED BY <1>1, <1>7, <3>1
  <2>2. ASSUME ~lostStore', NEW j \in kept', j \notin restore'
        PROVE  j \in pending' /\ stored'[j].status = "queued"
    <3>1. j \in Unfinished /\ ~job[j].started /\ j \in Jobs /\ ~Ended(j) /\ RecordOf(j)
      BY <1>1, <1>3, <2>2 DEF IInv, Records, Unfinished, Ended
    <3>2. ~lostStore /\ S = taken /\ j \notin taken
      BY <1>5, <2>2, <3>1
    <3>3. j \in pending
      BY <3>1, <3>2 DEF RecordOf, StoredEnded
    <3> QED BY <1>5, <3>1, <3>2, <3>3 DEF RecordOf
  <2> QED BY <2>1, <2>2 DEF Keeping
<1>12. Gone' /\ CloseKeepsTasks'
  BY <1>1 DEF Gone, CloseKeepsTasks
<1> QED BY <1>7, <1>8, <1>9, <1>10, <1>11, <1>12 DEF IInv

\* Nothing of the process is left in memory.
LEMMA ProcessGone ==
  ASSUME IInv, ProcessEnds, ~Live', kind' = kind, (unstored' => lostStore'),
         \A i, j \in Jobs : i < j /\ stored'[i].status = "none" => stored'[j].status = "none"
  PROVE  /\ TypedWorker' /\ TypedPlayer' /\ job' \in [Jobs -> MemoryRecord]
         /\ playQueue' \in Seq(Jobs \X PieceNumbers)
         /\ Gone' /\ Places' /\ Held' /\ Counts' /\ Records' /\ InTurn' /\ Queue' /\ Sound'
         /\ CompletedWasHeard'
<1> USE JobNumbers
<1>1. /\ job' = [j \in Jobs |-> Absent] /\ playQueue' = <<>>
      /\ active' = NoJob /\ step' = "ended"
      /\ activePlay' = NoJob /\ playing' = NoPiece /\ playStep' = "ended"
      /\ player' = NoPlayer /\ broken' = FALSE /\ unstored' = FALSE /\ restore' = {}
  BY DEF ProcessEnds
<1>2. mode' # "up" /\ Played' = NoJob
  BY <1>1 DEF Live, Played, NoPiece
<1>3. /\ Absent \in MemoryRecord /\ Absent.status = "none" /\ Absent.made = 0
      /\ Absent.played = 0 /\ Absent.done = FALSE
  BY DEF Absent, Waiting, MemoryRecord, Statuses
<1>4. /\ job' \in [Jobs -> MemoryRecord]
      /\ \A j \in Jobs : job'[j].status = "none" /\ job'[j].made = 0 /\ job'[j].played = 0
                         /\ job'[j].done = FALSE
  BY <1>1, <1>3
<1>5. TypedWorker' /\ TypedPlayer'
  BY <1>1 DEF TypedWorker, TypedPlayer, WorkerSteps, PlaySteps, NoPlayer, PlayerRecord
<1>6. Gone' /\ Held'
  BY <1>1 DEF Gone, Held, Sounding, PlaySteps
<1>7. Places'
  BY <1>1, <1>2 DEF Places, PlaySteps
<1>8. \A j \in Jobs : Fetched(j)' = 0 /\ ~Ended(j)' /\ ~Begun(j)'
  <2>1. playStep' \notin InHand
    BY <1>1 DEF InHand
  <2>2. \A j \in Jobs : Fetched(j)' = 0
    BY <1>4, <2>1 DEF Fetched
  <2> QED BY <1>4, <2>2 DEF Ended, Begun, TERMINAL
<1>9. Counts'
  <2>1. ASSUME NEW j \in Jobs PROVE CountsOf(j)'
    <3>1. Pieces[j] \in Nat /\ 0 <= Pieces[j]
      OBVIOUS
    <3> QED BY <1>4, <1>8, <3>1 DEF CountsOf
  <2>2. PieceMade' /\ PieceInHand'
    BY <1>1, <1>2 DEF PieceMade, PieceInHand, InHand
  <2> QED BY <2>1, <2>2 DEF Counts
<1>10. Records'
  BY DEF Records
<1>11. InTurn'
  BY <1>1, <1>2, <1>4, <1>8 DEF InTurn, WorkerSteps
<1>12. Queue'
  <2>1. WaitingIsMade' /\ Sorted'
    BY <1>1 DEF WaitingIsMade, Waits, Sorted
  <2>2. NotOvertaken' /\ NothingSkipped' /\ StreamIsWhole'
    BY <1>2 DEF NotOvertaken, NothingSkipped, StreamIsWhole
  <2> QED BY <2>1, <2>2 DEF Queue
<1>13. Sound'
  <2>1. \A j \in Jobs : \A p \in 1 .. job'[j].played : FALSE
    BY <1>4
  <2> QED BY <1>1, <2>1 DEF Sound, PlayerSound, NoPlayer
<1>14. CompletedWasHeard'
  BY <1>4 DEF CompletedWasHeard
<1>15. playQueue' \in Seq(Jobs \X PieceNumbers)
  BY <1>1
<1> QED BY <1>4, <1>5, <1>6, <1>7, <1>9, <1>10, <1>11, <1>12, <1>13, <1>14, <1>15

LEMMA CrashKeeps ==
  ASSUME IInv, Crash
  PROVE  IInv'
<1>1. /\ mode' = "down" /\ ProcessEnds /\ kept' = {} /\ ~Live' /\ restore' = {}
      /\ broken' = FALSE /\ unstored' = FALSE
      /\ UNCHANGED <<stored, kind, pending, restarts, faults, heard, filtered, lostStore>>
  BY DEF Crash, ProcessEnds, Live
<1>2. /\ TypedWorker' /\ TypedPlayer' /\ job' \in [Jobs -> MemoryRecord]
      /\ playQueue' \in Seq(Jobs \X PieceNumbers)
      /\ Gone' /\ Places' /\ Held' /\ Counts' /\ Records' /\ InTurn' /\ Queue' /\ Sound'
      /\ CompletedWasHeard'
  <2>1. \A i, j \in Jobs : i < j /\ stored'[i].status = "none" => stored'[j].status = "none"
    BY <1>1 DEF IInv, InTurn
  <2> QED BY <1>1, <2>1, ProcessGone
<1>3. TypeOK'
  <2>1. TypedTasks /\ TypedFaults /\ TypedService
    BY Typed DEF IInv
  <2>2. TypedTasks' /\ TypedFaults' /\ TypedService'
    BY <1>1, <1>2, <2>1 DEF TypedTasks, TypedFaults, TypedService
  <2> QED BY <1>2, <2>2, TypesHold
<1>4. Heard'
  BY <1>1 DEF IInv, Heard, StoredEnded
<1>5. RecordIsTrue'
  BY <1>1, <1>2 DEF IInv, RecordIsTrue, HeardOnRecord
<1>6. Keeping' /\ CloseKeepsTasks'
  BY <1>1 DEF Keeping, CloseKeepsTasks
<1> QED BY <1>2, <1>3, <1>4, <1>5, <1>6 DEF IInv

LEMMA CloseEndsKeeps ==
  ASSUME IInv, CloseEnds
  PROVE  IInv'
<1>1. /\ mode = "closing" /\ mode' = "closed" /\ ProcessEnds /\ Live /\ ~Live' /\ restore' = {}
      /\ broken' = FALSE /\ unstored' = FALSE
      /\ UNCHANGED <<kind, restarts, heard, filtered, kept>>
  BY DEF CloseEnds, ProcessEnds, Live, historyVars
<1>2. PICK saved \in SUBSET restore :
        /\ unstored => saved = {}
        /\ IF unstored \/ saved = restore THEN UNCHANGED <<faults, lostStore>>
           ELSE Faults(1) /\ lostStore' = TRUE
        /\ stored' = [j \in Jobs |-> IF j \in saved THEN OnDisk(Waiting) ELSE stored[j]]
        /\ pending' = pending \cup saved
  BY DEF CloseEnds
<1>3. /\ lostStore => lostStore'
      /\ ~lostStore' => saved = restore /\ ~lostStore
      /\ lostStore' \in BOOLEAN /\ faults' \in 0 .. MaxFaults
  <2>1. (unstored => lostStore) /\ lostStore \in BOOLEAN /\ faults \in 0 .. MaxFaults
    BY DEF IInv, Places, TypeOK
  <2>2. CASE unstored \/ saved = restore
    BY <1>2, <2>1, <2>2
  <2>3. CASE ~(unstored \/ saved = restore)
    <3>1. Faults(1) /\ lostStore' = TRUE
      BY <1>2, <2>3
    <3> QED BY <2>1, <3>1, FaultsCounted
  <2> QED BY <2>2, <2>3
<1>4. /\ OnDisk(Waiting).status = "queued" /\ OnDisk(Waiting) \in DiskRecord
      /\ saved \subseteq Jobs /\ restore \subseteq Jobs /\ stored \in [Jobs -> DiskRecord]
  BY Shape DEF OnDisk, Waiting, DiskRecord, Statuses, IInv, TypeOK
<1>5. /\ stored' \in [Jobs -> DiskRecord]
      /\ \A j \in Jobs : stored'[j] = IF j \in saved THEN OnDisk(Waiting) ELSE stored[j]
  BY <1>2, <1>4
<1>6. \A j \in restore : stored[j].status # "none"
  BY <1>1, <1>4 DEF IInv, Keeping, Records, RecordOf, Ended, TERMINAL
<1>7. \A j \in Jobs : stored'[j].status = "none" <=> stored[j].status = "none"
  BY <1>4, <1>5, <1>6
<1>8. /\ TypedWorker' /\ TypedPlayer' /\ job' \in [Jobs -> MemoryRecord]
      /\ playQueue' \in Seq(Jobs \X PieceNumbers)
      /\ Gone' /\ Places' /\ Held' /\ Counts' /\ Records' /\ InTurn' /\ Queue' /\ Sound'
      /\ CompletedWasHeard'
  <2>1. \A i, j \in Jobs : i < j /\ stored'[i].status = "none" => stored'[j].status = "none"
    BY <1>7 DEF IInv, InTurn
  <2> QED BY <1>1, <2>1, ProcessGone
<1>9. TypeOK'
  <2>1. TypedTasks /\ TypedFaults /\ TypedService
    BY Typed DEF IInv
  <2>2. TypedTasks' /\ TypedFaults' /\ TypedService'
    BY <1>1, <1>2, <1>3, <1>4, <1>5, <1>8, <2>1 DEF TypedTasks, TypedFaults, TypedService
  <2> QED BY <1>8, <2>2, TypesHold
<1>10. ~lostStore => \A k \in saved, j \in Jobs, p \in PieceNumbers :
          <<j, p>> \in heard => j <= k /\ (j = k => k \in filtered)
  BY <1>2 DEF IInv, Heard
<1>11. Heard'
  <2>1. (\A j \in Jobs : stored[j].status = "completed" /\ kind[j] # "silent" =>
           \A p \in 1 .. Pieces[j] : <<j, p>> \in heard)'
    BY <1>1, <1>4, <1>5 DEF IInv, Heard
  <2>2. ASSUME ~lostStore', NEW j \in Jobs, NEW p \in PieceNumbers, <<j, p>> \in heard,
               NEW k \in Jobs, k < j
        PROVE  StoredEnded(k)'
    <3>1. StoredEnded(k) /\ ~lostStore
      BY <1>3, <2>2 DEF IInv, Heard
    <3>2. k \notin saved
      BY <1>10, <2>2, <3>1, JobNumbers
    <3> QED BY <1>5, <3>1, <3>2 DEF StoredEnded
  <2>3. (\A j \in Jobs, p \in PieceNumbers : <<j, p>> \in heard => stored[j].status # "none")'
    BY <1>1, <1>7 DEF IInv, Heard
  <2> QED BY <1>1, <2>1, <2>2, <2>3 DEF Heard
<1>12. HeardOnRecord'
  <2> SUFFICES ASSUME NEW j \in Jobs, NEW p \in PieceNumbers, <<j, p>> \in heard, ~lostStore',
                      j \notin filtered
               PROVE  stored'[j].started \/ stored'[j].status \in TERMINAL
    BY <1>1 DEF HeardOnRecord
  <2>1. ~lostStore
    BY <1>3
  <2>2. j \notin saved
    BY <1>10, <2>1
  <2> QED BY <1>5, <2>1, <2>2 DEF IInv, RecordIsTrue, HeardOnRecord
<1>13. CloseKeepsTasks'
  <2> SUFFICES ASSUME ~lostStore', NEW j \in kept
               PROVE  stored'[j].status = "queued" /\ j \in pending'
    BY <1>1 DEF CloseKeepsTasks
  <2>1. saved = restore /\ ~lostStore /\ j \in Jobs
    BY <1>3 DEF IInv, TypeOK
  <2>2. j \in restore \/ (j \in pending /\ stored[j].status = "queued")
    BY <1>1, <2>1 DEF IInv, Keeping
  <2> QED BY <1>2, <1>4, <1>5, <2>1, <2>2
<1>14. Keeping'
  BY <1>1 DEF Keeping
<1> QED BY <1>8, <1>9, <1>11, <1>12, <1>13, <1>14 DEF IInv, RecordIsTrue

\* What a new process reads from the disk.
LEMMA RecoveredRecord ==
  ASSUME NEW r \in DiskRecord
  PROVE  /\ Recovered(r) \in MemoryRecord /\ OnDisk(Recovered(r)) \in DiskRecord
         /\ Recovered(r).made = 0 /\ Recovered(r).played = 0 /\ Recovered(r).done = FALSE
         /\ Recovered(r).started = r.started
         /\ Recovered(r).status \in TERMINAL \cup {"none", "queued"}
         /\ Recovered(r).status = "none" <=> r.status = "none"
         /\ Recovered(r).status = "completed" <=> r.status = "completed"
         /\ r.status \in TERMINAL => Recovered(r).status = r.status
         /\ OnDisk(Recovered(r)).status = Recovered(r).status
         /\ OnDisk(Recovered(r)).started = Recovered(r).started
<1> DEFINE old == [Waiting EXCEPT !.status = r.status, !.started = r.started]
<1>1. /\ old \in MemoryRecord /\ old.status = r.status /\ old.started = r.started
      /\ old.made = 0 /\ old.played = 0 /\ old.done = FALSE
  BY DEF Waiting, MemoryRecord, DiskRecord
<1>2. Recovered(r) = IF r.status \in TERMINAL \cup {"none"} THEN old
                     ELSE [old EXCEPT !.status = IF r.started THEN "failed" ELSE "queued"]
  BY DEF Recovered
<1> HIDE DEF old
<1>3. CASE r.status \in TERMINAL \cup {"none"}
  BY <1>1, <1>2, <1>3 DEF OnDisk, MemoryRecord, DiskRecord, TERMINAL
<1>4. CASE r.status \notin TERMINAL \cup {"none"}
  BY <1>1, <1>2, <1>4 DEF OnDisk, MemoryRecord, DiskRecord, TERMINAL, Statuses
<1> QED BY <1>3, <1>4

LEMMA RestartKeeps ==
  ASSUME IInv, Restart
  PROVE  IInv'
<1> USE JobNumbers
<1>1. /\ mode \in {"closed", "down"} /\ mode' = "up" /\ Live' /\ restarts' \in 0 .. MaxRestarts
      /\ step' = "idle" /\ playStep' = "wait" /\ kept' = {}
      /\ job' = [j \in Jobs |-> Recovered(stored[j])]
      /\ stored' = [j \in Jobs |-> OnDisk(job'[j])]
      /\ pending' = {j \in Jobs : job'[j].status = "queued"}
      /\ UNCHANGED <<kind, playQueue, active, activePlay, playing, player, broken, unstored,
                     faults, lostStore, restore, heard, filtered>>
  BY SpeechWorkersAssumption DEF Restart, Live, IInv, TypeOK, faultVars
<1>2. /\ playQueue = <<>> /\ active = NoJob /\ activePlay = NoJob /\ playing = NoPiece
      /\ player = NoPlayer /\ ~broken /\ ~unstored /\ restore = {}
  BY <1>1 DEF IInv, Gone, Live
<1>3. \A j \in Jobs : stored[j] \in DiskRecord
  BY Shape
<1>4. /\ job' \in [Jobs -> MemoryRecord] /\ stored' \in [Jobs -> DiskRecord]
      /\ \A j \in Jobs :
           /\ job'[j].made = 0 /\ job'[j].played = 0 /\ job'[j].done = FALSE
           /\ job'[j].started = stored[j].started
           /\ job'[j].status \in TERMINAL \cup {"none", "queued"}
           /\ job'[j].status = "none" <=> stored[j].status = "none"
           /\ job'[j].status = "completed" <=> stored[j].status = "completed"
           /\ stored[j].status \in TERMINAL => job'[j].status = stored[j].status
           /\ stored'[j].status = job'[j].status /\ stored'[j].started = job'[j].started
  <2>1. \A j \in Jobs : job'[j] = Recovered(stored[j]) /\ stored'[j] = OnDisk(Recovered(stored[j]))
    BY <1>1
  <2>2. job' \in [Jobs -> MemoryRecord] /\ stored' \in [Jobs -> DiskRecord]
    BY <1>1, <1>3, <2>1, RecoveredRecord
  <2>3. ASSUME NEW j \in Jobs
        PROVE  /\ job'[j].made = 0 /\ job'[j].played = 0 /\ job'[j].done = FALSE
               /\ job'[j].started = stored[j].started
               /\ job'[j].status \in TERMINAL \cup {"none", "queued"}
               /\ job'[j].status = "none" <=> stored[j].status = "none"
               /\ job'[j].status = "completed" <=> stored[j].status = "completed"
               /\ stored[j].status \in TERMINAL => job'[j].status = stored[j].status
               /\ stored'[j].status = job'[j].status /\ stored'[j].started = job'[j].started
    <3>1. PICK r \in DiskRecord : r = stored[j] /\ job'[j] = Recovered(r)
                                   /\ stored'[j] = OnDisk(Recovered(r))
      BY <1>3, <2>1
    <3>2. /\ Recovered(r).made = 0 /\ Recovered(r).played = 0 /\ Recovered(r).done = FALSE
          /\ Recovered(r).started = r.started
          /\ Recovered(r).status \in TERMINAL \cup {"none", "queued"}
          /\ Recovered(r).status = "none" <=> r.status = "none"
          /\ Recovered(r).status = "completed" <=> r.status = "completed"
          /\ r.status \in TERMINAL => Recovered(r).status = r.status
          /\ OnDisk(Recovered(r)).status = Recovered(r).status
          /\ OnDisk(Recovered(r)).started = Recovered(r).started
      BY RecoveredRecord
    <3> QED BY <3>1, <3>2
  <2> QED BY <2>2, <2>3
<1>5. Played' = NoJob /\ playStep' \notin InHand /\ playStep' \notin PlaySteps
  BY <1>1, <1>2 DEF Played, NoPiece, InHand, PlaySteps
<1>6. /\ \A j \in Jobs : Fetched(j)' = 0
      /\ \A j \in Jobs : /\ ~Begun(j)' /\ (StoredEnded(j) => StoredEnded(j)')
                          /\ (Ended(j)' <=> StoredEnded(j)')
  <2>1. \A j \in Jobs : Fetched(j)' = 0
    BY <1>4, <1>5 DEF Fetched
  <2> QED BY <1>4, <2>1 DEF Begun, StoredEnded, Ended, TERMINAL
<1>7. TypeOK'
  <2>1. TypedTasks /\ TypedWorker /\ TypedPlayer /\ TypedFaults /\ TypedService
    BY Typed DEF IInv
  <2>2. pending' \subseteq Jobs
    BY <1>1
  <2>3. TypedTasks' /\ TypedWorker' /\ TypedPlayer' /\ TypedFaults' /\ TypedService'
    BY <1>1, <1>2, <1>4, <2>1, <2>2
       DEF TypedTasks, TypedWorker, TypedPlayer, TypedFaults, TypedService, PlaySteps,
           WorkerSteps
  <2> QED BY <2>3, TypesHold
<1>8. Gone' /\ Held' /\ Keeping' /\ CloseKeepsTasks'
  BY <1>1 DEF Gone, Held, Sounding, PlaySteps, Keeping, CloseKeepsTasks
<1>9. Places'
  BY <1>1, <1>2, <1>5 DEF Places, PlaySteps
<1>10. Counts'
  <2>1. ASSUME NEW j \in Jobs PROVE CountsOf(j)'
    <3>1. Pieces[j] \in Nat /\ 0 <= Pieces[j]
      OBVIOUS
    <3> QED BY <1>4, <1>6, <3>1 DEF CountsOf
  <2>2. PieceMade' /\ PieceInHand'
    BY <1>1, <1>5 DEF PieceMade, PieceInHand, InHand
  <2> QED BY <2>1, <2>2 DEF Counts
<1>11. Records'
  <2> SUFFICES ASSUME NEW j \in Jobs PROVE RecordOf(j)'
    BY DEF Records
  <2>1. j \in pending' <=> job'[j].status = "queued"
    BY <1>1
  <2> QED BY <1>4, <1>6, <2>1 DEF RecordOf
<1>12. InTurn'
  <2>1. \A i, j \in Jobs : i < j /\ stored'[i].status = "none" => stored'[j].status = "none"
    BY <1>4 DEF IInv, InTurn
  <2> QED BY <1>1, <1>6, <2>1 DEF InTurn, WorkerSteps
<1>13. Queue'
  <2>1. WaitingIsMade' /\ Sorted'
    BY <1>1, <1>2 DEF WaitingIsMade, Waits, Sorted
  <2>2. NotOvertaken' /\ StreamIsWhole'
    BY <1>4, <1>5 DEF NotOvertaken, StreamIsWhole
  <2>3. NothingSkipped'
    <3>1. \A p \in PieceNumbers : ~(p <= 0)
      OBVIOUS
    <3> QED BY <1>4, <3>1 DEF NothingSkipped
  <2> QED BY <2>1, <2>2, <2>3 DEF Queue
<1>14. Sound'
  <2>1. \A j \in Jobs : \A p \in 1 .. job'[j].played : FALSE
    BY <1>4
  <2>2. ~player'.up
    BY <1>1, <1>2 DEF NoPlayer
  <2> QED BY <1>1, <2>1, <2>2 DEF Sound, PlayerSound
<1>15. Heard'
  <2>1. (\A j \in Jobs : stored[j].status = "completed" /\ kind[j] # "silent" =>
           \A p \in 1 .. Pieces[j] : <<j, p>> \in heard)'
    BY <1>1, <1>4 DEF IInv, Heard
  <2>2. (~lostStore =>
           \A j \in Jobs, p \in PieceNumbers : <<j, p>> \in heard =>
             \A k \in Jobs : k < j => StoredEnded(k))'
    BY <1>1, <1>6 DEF IInv, Heard
  <2>3. (\A j \in Jobs, p \in PieceNumbers : <<j, p>> \in heard => stored[j].status # "none")'
    <3>1. \A j \in Jobs, p \in PieceNumbers : <<j, p>> \in heard => stored[j].status # "none"
      BY DEF IInv, Heard
    <3> QED BY <3>1, <1>1, <1>4
  <2> QED BY <1>1, <1>2, <2>1, <2>2, <2>3 DEF Heard
<1>16. RecordIsTrue'
  <2>1. HeardOnRecord'
    BY <1>1, <1>4 DEF IInv, RecordIsTrue, HeardOnRecord
  <2>2. CompletedWasHeard'
    BY <1>1, <1>4 DEF IInv, Heard, CompletedWasHeard
  <2> QED BY <2>1, <2>2 DEF RecordIsTrue
<1> QED BY <1>7, <1>8, <1>9, <1>10, <1>11, <1>12, <1>13, <1>14, <1>15, <1>16 DEF IInv

LEMMA InitKeeps == Init => IInv
<1> USE JobNumbers
<1> SUFFICES ASSUME Init PROVE IInv
  OBVIOUS
<1>1. /\ job = [j \in Jobs |-> Absent] /\ stored = [j \in Jobs |-> OnDisk(Absent)]
      /\ kind \in Kinds /\ pending = {} /\ playQueue = <<>>
      /\ active = NoJob /\ step = "idle"
      /\ activePlay = NoJob /\ playing = NoPiece /\ playStep = "wait"
      /\ player = NoPlayer /\ broken = FALSE /\ unstored = FALSE
      /\ mode = "up" /\ restore = {} /\ restarts = 0 /\ faults = 0
      /\ heard = {} /\ filtered = {} /\ kept = {} /\ lostStore = FALSE
  BY DEF Init
<1>2. /\ Absent \in MemoryRecord /\ Absent.status = "none" /\ Absent.made = 0
      /\ Absent.played = 0 /\ Absent.done = FALSE /\ Absent.started = FALSE
      /\ OnDisk(Absent) \in DiskRecord /\ OnDisk(Absent).status = "none"
      /\ OnDisk(Absent).started = FALSE
  BY DEF Absent, Waiting, MemoryRecord, DiskRecord, Statuses, OnDisk
<1>3. /\ job \in [Jobs -> MemoryRecord] /\ stored \in [Jobs -> DiskRecord]
      /\ \A j \in Jobs : /\ job[j].status = "none" /\ job[j].made = 0 /\ job[j].played = 0
                         /\ job[j].done = FALSE /\ job[j].started = FALSE
                         /\ stored[j].status = "none" /\ stored[j].started = FALSE
                         /\ ~Ended(j) /\ ~Begun(j) /\ ~StoredEnded(j)
  BY <1>1, <1>2 DEF Ended, Begun, StoredEnded, TERMINAL
<1>4. Played = NoJob /\ playStep \notin InHand /\ playStep \notin PlaySteps
  BY <1>1 DEF Played, NoPiece, InHand, PlaySteps
<1>5. TypeOK
  <2>1. kind \in [Jobs -> AllKinds] /\ restarts \in 0 .. MaxRestarts /\ faults \in 0 .. MaxFaults
    BY <1>1, SpeechWorkersAssumption
  <2>2. player \in [of : Jobs \cup {NoJob}, fast : BOOLEAN, up : BOOLEAN, fed : Nat, out : Nat]
    BY <1>1 DEF NoPlayer
  <2>3. playQueue \in Seq(Jobs \X PieceNumbers)
    BY <1>1
  <2>4. /\ job \in [Jobs -> [status : Statuses, made : Nat, played : Nat,
                             done : BOOLEAN, started : BOOLEAN]]
        /\ stored \in [Jobs -> [status : Statuses, started : BOOLEAN]]
    BY <1>3 DEF MemoryRecord, DiskRecord
  <2> QED BY <1>1, <1>4, <2>1, <2>2, <2>3, <2>4 DEF TypeOK, WorkerSteps, PlaySteps
<1>6. Gone /\ Held /\ Keeping /\ CloseKeepsTasks
  BY <1>1, <1>4 DEF Gone, Live, Held, Sounding, Keeping, CloseKeepsTasks
<1>7. Places
  BY <1>1, <1>4 DEF Places, PlaySteps
<1>8. Counts
  <2>1. ASSUME NEW j \in Jobs PROVE CountsOf(j)
    <3>1. Pieces[j] \in Nat /\ 0 <= Pieces[j] /\ Fetched(j) = 0
      BY <1>3, <1>4 DEF Fetched
    <3> QED BY <1>3, <3>1 DEF CountsOf
  <2>2. PieceMade /\ PieceInHand
    BY <1>1, <1>4 DEF PieceMade, PieceInHand, InHand
  <2> QED BY <2>1, <2>2 DEF Counts
<1>9. Records
  BY <1>1, <1>3 DEF Records, RecordOf
<1>10. InTurn
  BY <1>1, <1>3 DEF InTurn, WorkerSteps
<1>11. Queue
  <2>1. WaitingIsMade /\ Sorted
    BY <1>1 DEF WaitingIsMade, Waits, Sorted
  <2>2. NotOvertaken /\ StreamIsWhole
    BY <1>3, <1>4 DEF NotOvertaken, StreamIsWhole
  <2>3. NothingSkipped
    <3>1. \A p \in PieceNumbers : ~(p <= 0)
      OBVIOUS
    <3> QED BY <1>3, <3>1 DEF NothingSkipped
  <2> QED BY <2>1, <2>2, <2>3 DEF Queue
<1>12. Sound
  <2>1. \A j \in Jobs : \A p \in 1 .. job[j].played : FALSE
    BY <1>3
  <2> QED BY <1>1, <2>1 DEF Sound, PlayerSound, NoPlayer
<1>13. Heard
  BY <1>1, <1>3 DEF Heard
<1>14. RecordIsTrue
  BY <1>1, <1>3 DEF RecordIsTrue, HeardOnRecord, CompletedWasHeard
<1> QED BY <1>5, <1>6, <1>7, <1>8, <1>9, <1>10, <1>11, <1>12, <1>13, <1>14 DEF IInv

-----------------------------------------------------------------------------
(***************************************************************************)
(* The theorems                                                            *)
(***************************************************************************)

LEMMA RequestsKeep ==
  ASSUME IInv, Requests
  PROVE  IInv'
<1>1. ASSUME NEW j \in Jobs, Submit(j) PROVE IInv'
  BY <1>1, SubmitKeeps
<1>2. ASSUME NEW j \in Jobs, Cancel(j) PROVE IInv'
  <2>1. {j} \in SUBSET Unfinished /\ Withdraw({j}) /\ UNCHANGED <<unstored, faults, lostStore>>
    BY <1>2 DEF Cancel
  <2> QED BY <2>1, WithdrawKeeps
<1>3. ASSUME NEW j \in Jobs, CancelFails(j) PROVE IInv'
  BY <1>3, CancelFailsKeeps
<1>4. CASE Stop
  <2>1. Unfinished \in SUBSET Unfinished /\ Withdraw(Unfinished) /\ Prune
    BY <1>4 DEF Stop
  <2> QED BY <2>1, WithdrawKeeps
<1>5. CASE Close
  BY <1>5, CloseKeeps
<1> QED BY <1>1, <1>2, <1>3, <1>4, <1>5 DEF Requests

LEMMA FailuresKeep ==
  ASSUME IInv, Failures
  PROVE  IInv'
BY StopFailsKeeps, WorkerFailsKeeps, WorkerFatalKeeps, WorkerDiesKeeps, PlayerFailsKeeps,
   PlayerDiesKeeps, CrashKeeps DEF Failures

LEMMA ThreadsKeep ==
  ASSUME IInv, SynthesisThread \/ PlaybackThread \/ FilterForwards
  PROVE  IInv'
<1>1. CASE SynthesisThread
  BY <1>1, TakeJobKeeps, QueuePieceKeeps, WaitForRoomKeeps, GeneratedKeeps, EndJobKeeps,
     WorkerReturnsKeeps DEF SynthesisThread
<1>2. CASE PlaybackThread
  BY <1>2, TakePieceKeeps, DroppedKeeps, OpenStreamKeeps, BeginStreamPieceKeeps,
     FeedPieceKeeps, PieceDoneKeeps, NextPieceKeeps, DrainedKeeps, MarkPieceKeeps,
     OpenPieceKeeps, PieceSoundedKeeps, ReapKeeps, PlayerReturnsKeeps
     DEF PlaybackThread
<1>3. CASE FilterForwards
  BY <1>3, FilterForwardsKeeps
<1> QED BY <1>1, <1>2, <1>3

LEMMA StutterKeeps ==
  ASSUME IInv, UNCHANGED vars
  PROVE  IInv'
<1>1. UNCHANGED <<job, stored, kind, pending, playQueue, active, step, activePlay, playing,
                  playStep, player, broken, unstored, mode, restore, restarts, faults, heard,
                  filtered, kept, lostStore>>
  BY DEF vars, threadVars, workerVars, playVars, faultVars, serviceVars, historyVars
<1>2. TypeOK'
  <2>1. TypedTasks' /\ TypedWorker' /\ TypedPlayer' /\ TypedFaults' /\ TypedService'
    BY <1>1, Typed DEF IInv, TypedTasks, TypedWorker, TypedPlayer, TypedFaults, TypedService
  <2> QED BY <2>1, TypesHold
<1>3. Gone' /\ Keeping' /\ CloseKeepsTasks'
  BY <1>1 DEF IInv, Gone, Live, Keeping, Ended, CloseKeepsTasks
<1>4. Places' /\ Held'
  BY <1>1 DEF IInv, Places, Held, Played, Ended
<1>5. \A j \in Jobs : /\ (Ended(j)' <=> Ended(j)) /\ (Begun(j)' <=> Begun(j))
                      /\ (StoredEnded(j)' <=> StoredEnded(j)) /\ Fetched(j)' = Fetched(j)
  BY <1>1 DEF Ended, Begun, StoredEnded, Fetched
<1>6. Counts'
  BY <1>1, <1>5 DEF IInv, Counts, CountsOf, PieceMade, PieceInHand, Played
<1>7. Records' /\ InTurn'
  BY <1>1, <1>5 DEF IInv, Records, RecordOf, InTurn, Live, Played
<1>8. Queue'
  <2>1. \A j \in Jobs, p \in PieceNumbers : Waits(j, p)' <=> Waits(j, p)
    BY <1>1 DEF Waits
  <2> QED BY <1>1, <1>5, <2>1
             DEF IInv, Queue, WaitingIsMade, Sorted, NotOvertaken, NothingSkipped,
                 StreamIsWhole, Played
<1>9. Sound'
  BY <1>1, <1>5 DEF IInv, Sound, PlayerSound, Played, Ended, StoredEnded
<1>10. Heard' /\ RecordIsTrue'
  BY <1>1, <1>5 DEF IInv, Heard, RecordIsTrue, HeardOnRecord, CompletedWasHeard
<1> QED BY <1>2, <1>3, <1>4, <1>6, <1>7, <1>8, <1>9, <1>10 DEF IInv

\* The inductive invariant holds of every behaviour of the service.
THEOREM InvariantHolds == Spec => []IInv
<1>1. Init => IInv
  BY InitKeeps
<1>2. IInv /\ [Next]_vars => IInv'
  BY RequestsKeep, FailuresKeep, ThreadsKeep, CloseEndsKeeps, RestartKeeps, StutterKeeps
     DEF Next
<1> QED BY <1>1, <1>2, PTL DEF Spec

\* The state of the service keeps its types.
THEOREM TypesHoldAlways == Spec => []TypeOK
<1>1. IInv => TypeOK
  BY DEF IInv
<1> QED BY <1>1, InvariantHolds, PTL

\* What may have been heard of a task is on record, and a task shown as completed was
\* heard to its end.
THEOREM RecordsAreTrue == Spec => []RecordIsTrue
<1>1. IInv => RecordIsTrue
  BY DEF IInv
<1> QED BY <1>1, InvariantHolds, PTL

\* An orderly shutdown keeps every task that was not started.
THEOREM ClosingKeepsTasks == Spec => []CloseKeepsTasks
<1>1. IInv => CloseKeepsTasks
  BY DEF IInv
<1> QED BY <1>1, InvariantHolds, PTL

-----------------------------------------------------------------------------
(***************************************************************************)
(* What ended stays ended                                                  *)
(***************************************************************************)

EndsStay(j) == stored[j].status \in TERMINAL => stored'[j].status \in TERMINAL

\* A save of tasks that have not ended leaves those alone that have.
LEMMA SavedUnended ==
  ASSUME IInv, Live, NEW S, NEW mem, Save(S, mem), \A k \in Jobs : k \in S => ~Ended(k),
         NEW j \in Jobs
  PROVE  EndsStay(j)
<1>1. RecordOf(j)
  BY DEF IInv, Records
<1>2. j \notin S => stored'[j] = stored[j]
  BY DEF Save
<1> QED BY <1>1, <1>2 DEF EndsStay, RecordOf, StoredEnded

\* What is saved of a task as it is says that it has ended, if it has.
LEMMA SavedAsIs ==
  ASSUME IInv, Live, NEW a \in Jobs, Save({a}, job), NEW j \in Jobs
  PROVE  EndsStay(j)
<1>1. job \in [Jobs -> MemoryRecord] /\ RecordOf(j)
  BY Shape DEF IInv, Records
<1>2. PICK mem \in [Jobs -> MemoryRecord] : mem = job /\ Save({a}, mem)
  BY <1>1
<1>3. /\ j # a => stored'[j] = stored[j]
      /\ job'[a].status = job[a].status
      /\ unstored => stored'[a] = stored[a]
      /\ ~unstored => stored'[a].status = job'[a].status
  BY <1>2, SavedOne
<1> QED BY <1>1, <1>3 DEF EndsStay, RecordOf, StoredEnded, Ended

\* No request revives a task that ended,
LEMMA RequestEnds ==
  ASSUME IInv, Requests, NEW j \in Jobs
  PROVE  EndsStay(j)
<1>1. ASSUME NEW a \in Jobs, Submit(a) PROVE EndsStay(j)
  <2>1. Save({a}, [job EXCEPT ![a] = Waiting]) /\ Live /\ ~Ended(a)
    BY <1>1 DEF Submit, Live, Ended, TERMINAL
  <2> QED BY <2>1, SavedUnended
<1>2. ASSUME NEW S \in SUBSET Unfinished, CancelJobs(S), Live PROVE EndsStay(j)
  <2>1. Save(S, Cancelled(S)) /\ \A k \in Jobs : k \in S => ~Ended(k)
    BY <1>2 DEF CancelJobs, Unfinished, Ended
  <2> QED BY <1>2, <2>1, SavedUnended
<1>3. ASSUME NEW a \in Jobs, Cancel(a) PROVE EndsStay(j)
  BY <1>2, <1>3 DEF Cancel, Withdraw, Live
<1>4. CASE Stop
  BY <1>2, <1>4 DEF Stop, Withdraw, Live
<1>5. ASSUME NEW a \in Jobs, CancelFails(a) PROVE EndsStay(j)
  <2>1. stored' = stored
    <3>1. FatalError([job EXCEPT ![a].status = "cancelled"], {a}, TRUE) /\ stored \in [Jobs -> DiskRecord]
      BY <1>5, Shape DEF CancelFails
    <3> QED BY <3>1 DEF FatalError
  <2> QED BY <2>1 DEF EndsStay
<1>6. CASE Close
  <2>1. \/ \E S \in SUBSET Unfinished : CancelJobs(S)
        \/ stored' = stored
    <3>1. {k \in Unfinished \ pending : stored[k].status \notin TERMINAL} \in SUBSET Unfinished
      OBVIOUS
    <3> QED BY <1>6, <3>1 DEF Close
  <2>2. Live
    BY <1>6 DEF Close, Live
  <2> QED BY <1>2, <2>1, <2>2 DEF EndsStay
<1> QED BY <1>1, <1>3, <1>4, <1>5, <1>6 DEF Requests

\* fatal_error ends tasks and revives none.
LEMMA FatalEnds ==
  ASSUME IInv, Live, NEW owned \in SUBSET Jobs, NEW store \in BOOLEAN, FatalError(job, owned, store),
         NEW j \in Jobs
  PROVE  EndsStay(j)
<1>1. job \in [Jobs -> MemoryRecord] /\ CancelledBefore(job, owned, store) /\ RecordOf(j)
  BY Shape DEF CancelledBefore, IInv, Records
<1>2. PICK mem \in [Jobs -> MemoryRecord] :
        mem = job /\ CancelledBefore(mem, owned, store) /\ FatalError(mem, owned, store)
  BY <1>1
<1>3. /\ j \notin Lost(owned) => stored'[j] = stored[j]
      /\ j \in Lost(owned) => Ended(j)'
      /\ stored'[j] = stored[j] \/ stored'[j] = OnDisk(job'[j])
  BY <1>2, FatalEffects
<1> QED BY <1>3 DEF EndsStay, Ended, OnDisk

\* no failure does,
LEMMA FailureEnds ==
  ASSUME IInv, Failures, NEW j \in Jobs
  PROVE  EndsStay(j)
<1>1. CASE StopFails \/ WorkerFails \/ PlayerFails \/ Crash
  BY <1>1 DEF StopFails, WorkerFails, PlayerFails, Crash, EndsStay
<1>2. CASE WorkerFatal \/ WorkerDies
  <2>1. Live
    BY <1>2, TaskInHand DEF WorkerFatal, WorkerDies, WorkerSteps, IInv, Gone
  <2>2. {} \in SUBSET Jobs /\ \E store \in BOOLEAN : FatalError(job, {}, store)
    BY <1>2 DEF WorkerFatal, WorkerDies
  <2> QED BY <2>1, <2>2, FatalEnds
<1>3. CASE PlayerDies
  <2>1. Live /\ {Played} \in SUBSET Jobs /\ \E store \in BOOLEAN : FatalError(job, {Played}, store)
    BY <1>3, TaskPlayed DEF PlayerDies, PlaySteps
  <2> QED BY <2>1, FatalEnds
<1> QED BY <1>1, <1>2, <1>3 DEF Failures

\* and no thread.
LEMMA ThreadEnds ==
  ASSUME IInv, SynthesisThread \/ PlaybackThread \/ FilterForwards, NEW j \in Jobs
  PROVE  EndsStay(j)
<1>1. job \in [Jobs -> MemoryRecord] /\ \A k \in Jobs : job[k] \in MemoryRecord
  BY Shape
<1>2. CASE TakeJob \/ WaitForRoom \/ Generated \/ WorkerReturns
  BY <1>2 DEF TakeJob, WaitForRoom, Generated, WorkerReturns, EndsStay
<1>3. CASE \/ TakePiece \/ Dropped \/ OpenStream \/ FeedPiece \/ NextPiece \/ Drained
           \/ OpenPiece \/ PieceSounded \/ PlayerReturns \/ FilterForwards
  BY <1>3 DEF TakePiece, Dropped, OpenStream, FeedPiece, NextPiece, Drained, OpenPiece,
              PieceSounded, PlayerReturns, FilterForwards, EndsStay
<1>4. CASE QueuePiece
  <2>1. Live /\ ~Ended(active) /\ \E mem : Save({active}, mem)
    BY <1>4, TaskInHand DEF QueuePiece, WorkerSteps, Stopping
  <2> QED BY <2>1, SavedUnended
<1>5. CASE EndJob
  <2>1. Live /\ active \in Jobs /\ Save({active}, job)
    BY <1>5, TaskInHand DEF EndJob, WorkerSteps
  <2> QED BY <2>1, SavedAsIs
<1>6. CASE Reap
  <2>1. Live /\ Played \in Jobs /\ Save({Played}, job)
    BY <1>6, TaskPlayed DEF Reap, PlaySteps
  <2> QED BY <2>1, SavedAsIs
<1>7. CASE BeginStreamPiece \/ MarkPiece
  <2>1. Live /\ ~Ended(Played) /\ \E mem : Save({Played}, mem)
    BY <1>7, TaskPlayed DEF BeginStreamPiece, MarkPiece, MarkPlaying, PlaySteps, Stopping
  <2> QED BY <2>1, SavedUnended
<1>8. CASE PieceDone
  <2>1. Live /\ ~Ended(Played)
    BY <1>8, TaskPlayed DEF PieceDone, PlaySteps, Stopping
  <2>2. stored' = stored \/ \E mem : Save({Played}, mem)
    BY <1>8 DEF PieceDone
  <2> QED BY <2>1, <2>2, SavedUnended DEF EndsStay
<1> QED BY <1>2, <1>3, <1>4, <1>5, <1>6, <1>7, <1>8 DEF SynthesisThread, PlaybackThread

\* What ended on disk stays ended, but for a task that close has to keep.
LEMMA EndStep ==
  ASSUME IInv, Next, NEW j \in Jobs, stored[j].status \in TERMINAL
  PROVE  stored'[j].status \in TERMINAL \/ (mode = "closing" /\ j \in kept)
<1>1. CASE Requests \/ Failures \/ SynthesisThread \/ PlaybackThread \/ FilterForwards
  BY <1>1, RequestEnds, FailureEnds, ThreadEnds DEF EndsStay
<1>2. CASE CloseEnds
  <2>1. PICK saved \in SUBSET restore :
          stored' = [k \in Jobs |-> IF k \in saved THEN OnDisk(Waiting) ELSE stored[k]]
    BY <1>2 DEF CloseEnds
  <2>2. mode = "closing" /\ restore \subseteq kept
    BY <1>2 DEF CloseEnds, IInv, Keeping
  <2> QED BY <2>1, <2>2
<1>3. CASE Restart
  <2>1. PICK r \in DiskRecord : r = stored[j] /\ stored'[j] = OnDisk(Recovered(r))
    BY <1>3, Shape DEF Restart
  <2>2. OnDisk(Recovered(r)).status = Recovered(r).status
        /\ (r.status \in TERMINAL => Recovered(r).status = r.status)
    BY RecoveredRecord
  <2> QED BY <2>1, <2>2
<1> QED BY <1>1, <1>2, <1>3 DEF Next

-----------------------------------------------------------------------------
(***************************************************************************)
(* What is heard                                                           *)
(***************************************************************************)

\* Only three steps let something reach the device, and each one piece.
LEMMA OneStepIsHeard ==
  ASSUME IInv, Next, heard' # heard
  PROVE  FeedPiece \/ FilterForwards \/ OpenPiece
<1>1. CASE Requests
  BY <1>1
     DEF Requests, Submit, Cancel, Stop, Withdraw, CancelFails, FatalError, Close,
         historyVars
<1>2. CASE Failures
  BY <1>2
     DEF Failures, StopFails, WorkerFails, WorkerFatal, WorkerDies, PlayerFails,
         PlayerDies, Crash, FatalError, historyVars
<1>3. CASE SynthesisThread
  BY <1>3
     DEF SynthesisThread, TakeJob, QueuePiece, WaitForRoom, Generated, EndJob,
         WorkerReturns, historyVars
<1>4. CASE PlaybackThread
  BY <1>4 DEF PlaybackThread, TakePiece, Dropped, OpenStream, BeginStreamPiece, PieceDone,
              NextPiece, Drained, MarkPiece, PieceSounded, Reap, PlayerReturns, historyVars
<1>5. CASE CloseEnds \/ Restart
  BY <1>5 DEF CloseEnds, Restart, historyVars
<1> QED BY <1>1, <1>2, <1>3, <1>4, <1>5 DEF Next

\* The piece that reaches the device: what came before it did, nothing later, and its
\* task has neither ended that way nor is the service closing.
LEMMA NextHeard ==
  ASSUME IInv, Next, heard' # heard
  PROVE  \E b \in Jobs, n \in PieceNumbers :
           /\ heard' \subseteq heard \cup {<<b, n>>}
           /\ mode = "up" /\ job[b].status \notin {"cancelled", "completed"}
           /\ \A p \in 1 .. n - 1 : <<b, p>> \in heard
           /\ ~lostStore => \A j \in Jobs, p \in PieceNumbers : <<j, p>> \in heard => j <= b
<1> USE JobNumbers
<1>1. CASE FeedPiece
  <2>1. /\ playStep = "feed" /\ player.up /\ ~player.fast
        /\ heard' = heard \cup {playing}
    BY <1>1 DEF FeedPiece
  <2>2. PICK b \in Jobs : b = Played
    BY <2>1, TaskPlayed DEF PlaySteps
  <2>3. PICK n \in PieceNumbers : playing = <<b, n>> /\ n = playing[2] /\ n \in Nat
    <3>1. playing \in Jobs \X PieceNumbers
      BY <2>2, PieceTaken DEF IInv
    <3>2. playing = <<playing[1], playing[2]>> /\ playing[2] \in PieceNumbers
      BY <3>1
    <3> QED BY <2>2, <3>2 DEF Played
  <2>4. /\ mode = "up" /\ job[b].status \notin {"cancelled", "completed"}
        /\ player.out = n - 1 /\ \A p \in 1 .. player.out : <<b, p>> \in heard
        /\ ~lostStore => \A j \in Jobs, p \in PieceNumbers : <<j, p>> \in heard => j <= b
    BY <2>1, <2>2, <2>3 DEF IInv, Sound, PlayerSound
  <2> QED BY <2>1, <2>3, <2>4
<1>2. CASE FilterForwards
  <2>1. /\ player.up /\ player.out < player.fed
        /\ heard' = heard \cup {<<player.of, player.out + 1>>}
    BY <1>2 DEF FilterForwards
  <2>2. PICK b \in Jobs : b = Played /\ b = player.of
    BY <2>1, PieceTaken DEF IInv, Sound, PlayerSound
  <2>3. player.out \in Nat /\ player.fed \in Nat
    BY DEF IInv, TypeOK
  <2>4. PICK n \in PieceNumbers : n = player.out + 1 /\ n \in Nat
    <3>1. /\ player.fed <= playing[2] /\ playing[2] <= job[b].made /\ playing[2] \in PieceNumbers
          /\ job[b].made <= Pieces[b] /\ job[b].made \in Nat
      BY <2>1, <2>2, PieceTaken, FetchedCount
         DEF IInv, Sound, PlayerSound, Counts, PieceInHand, CountsOf
    <3>2. Pieces[b] \in Nat /\ playing[2] \in Nat
      BY <3>1
    <3>3. player.out + 1 \in 1 .. Pieces[b]
      BY <2>1, <2>3, <3>1, <3>2
    <3> QED BY <3>3
  <2>5. /\ mode = "up" /\ job[b].status \notin {"cancelled", "completed"}
        /\ \A p \in 1 .. player.out : <<b, p>> \in heard
        /\ ~lostStore => \A j \in Jobs, p \in PieceNumbers : <<j, p>> \in heard => j <= b
    BY <2>1, <2>2, <2>3 DEF IInv, Sound, PlayerSound
  <2>6. n - 1 = player.out
    BY <2>3, <2>4
  <2> QED BY <2>1, <2>2, <2>4, <2>5, <2>6
<1>3. CASE OpenPiece
  <2>1. /\ playStep = "begin" /\ ~Ended(Played) /\ mode # "closing" /\ kind[Played] = "pieces"
        /\ heard' = heard \cup {playing}
    BY <1>3 DEF OpenPiece, Stopping, Closed
  <2>2. PICK b \in Jobs : b = Played /\ mode = "up" /\ ~Ended(b) /\ kind[b] = "pieces"
    BY <2>1, TaskPlayed DEF PlaySteps, Live
  <2>3. PICK n \in PieceNumbers : playing = <<b, n>> /\ n = playing[2] /\ n \in Nat
    <3>1. playing \in Jobs \X PieceNumbers
      BY <2>2, PieceTaken DEF IInv
    <3>2. playing = <<playing[1], playing[2]>> /\ playing[2] \in PieceNumbers
      BY <3>1
    <3> QED BY <2>2, <3>2 DEF Played
  <2>4. \A p \in 1 .. n - 1 : <<b, p>> \in heard
    <3>1. n = job[b].played + 1 /\ job[b].played \in Nat
      BY <2>1, <2>2, <2>3, FetchedCount DEF IInv, Counts, PieceInHand, InHand
    <3>2. n - 1 = job[b].played
      BY <3>1
    <3> QED BY <2>2, <3>2 DEF IInv, Sound
  <2>5. ~lostStore => \A j \in Jobs, p \in PieceNumbers : <<j, p>> \in heard => j <= b
    BY <2>1, <2>2, EarlierEnded DEF PlaySteps
  <2>6. job[b].status \notin {"cancelled", "completed"}
    BY <2>2 DEF Ended, TERMINAL
  <2> QED BY <2>1, <2>2, <2>3, <2>4, <2>5, <2>6
<1> QED BY <1>1, <1>2, <1>3, OneStepIsHeard

\* While the playback thread waits for more of a task, all that is queued is its.
LEMMA OneBlock ==
  ASSUME IInv
  PROVE  BlocksStayTogether
<1> USE JobNumbers
<1> SUFFICES ASSUME playStep = "next", ~Stopping(Played), ~job[Played].done,
                    NEW i \in 1 .. Len(playQueue)
             PROVE  playQueue[i][1] = Played
  BY DEF BlocksStayTogether
<1>1. PICK b \in Jobs : b = Played /\ mode = "up" /\ ~Ended(b) /\ Begun(b) /\ ~job[b].done
  BY TaskPlayed DEF PlaySteps, Stopping, Closed, Live
<1>2. b = active /\ step \in WorkerSteps
  BY <1>1 DEF IInv, InTurn, WorkerSteps
<1>3. PICK h \in Jobs : h = playQueue[i][1] /\ h \in Nat /\ b \in Nat
  BY PiecesQueued DEF IInv
<1>4. b <= h
  <2>1. Before(playing, playQueue[i])
    BY <1>1 DEF IInv, Queue, NotOvertaken
  <2> QED BY <1>1, <1>3, <2>1 DEF Before, Played
<1>5. h <= b
  <2>1. playQueue[i] = <<h, playQueue[i][2]>> /\ playQueue[i][2] \in PieceNumbers
    BY <1>3, PiecesQueued DEF IInv
  <2>2. Waits(h, playQueue[i][2])
    BY <2>1 DEF Waits
  <2>3. Begun(h)
    BY <2>1, <2>2, WaitingIsBegun
  <2> QED BY <1>2, <2>3 DEF IInv, InTurn
<1> QED BY <1>1, <1>3, <1>4, <1>5

\* A task that ended stays ended on disk, whatever is saved afterwards.
THEOREM EndsAreKept == Spec => EndedStaysEnded
<1>1. IInv /\ [Next]_vars =>
        [\A j \in Jobs : stored[j].status \in TERMINAL =>
           \/ stored'[j].status \in TERMINAL
           \/ mode = "closing" /\ j \in kept]_vars
  BY EndStep
<1> QED BY <1>1, InvariantHolds, PTL DEF Spec, EndedStaysEnded

\* Nothing more of a task is heard once it is cancelled or completed.
THEOREM CancellingSilences == Spec => CancelledIsSilent
<1>1. IInv /\ [Next]_vars =>
        [\A piece \in heard' \ heard :
           job[piece[1]].status \notin {"cancelled", "completed"} /\ ~Closed]_vars
  <2> SUFFICES ASSUME IInv, Next, NEW piece \in heard' \ heard
               PROVE  job[piece[1]].status \notin {"cancelled", "completed"} /\ ~Closed
    BY Zenon
  <2>1. PICK b \in Jobs, n \in PieceNumbers :
          /\ heard' \subseteq heard \cup {<<b, n>>}
          /\ mode = "up" /\ job[b].status \notin {"cancelled", "completed"}
    BY NextHeard
  <2>2. piece = <<b, n>>
    BY <2>1
  <2> QED BY <2>1, <2>2 DEF Closed
<1> QED BY <1>1, InvariantHolds, PTL DEF Spec, CancelledIsSilent

\* What ended is neither heard nor revived.
THEOREM EndsAreFinal == Spec => EndIsFinal
BY EndsAreKept, CancellingSilences, PTL DEF EndIsFinal

\* Pieces are heard in the order of the tasks and of their pieces.
THEOREM PiecesComeInOrder == Spec => PiecesInOrder
<1>1. IInv /\ [Next]_vars =>
        [~lostStore => \A piece \in heard' \ heard :
           /\ \A p \in 1 .. piece[2] - 1 : <<piece[1], p>> \in heard
           /\ \A j \in piece[1] + 1 .. NJobs, p \in PieceNumbers : <<j, p>> \notin heard]_vars
  <2> SUFFICES ASSUME IInv, Next, ~lostStore, NEW piece \in heard' \ heard
               PROVE  /\ \A p \in 1 .. piece[2] - 1 : <<piece[1], p>> \in heard
                      /\ \A j \in piece[1] + 1 .. NJobs, p \in PieceNumbers : <<j, p>> \notin heard
    BY Zenon
  <2>1. PICK b \in Jobs, n \in PieceNumbers :
          /\ heard' \subseteq heard \cup {<<b, n>>}
          /\ \A p \in 1 .. n - 1 : <<b, p>> \in heard
          /\ \A j \in Jobs, p \in PieceNumbers : <<j, p>> \in heard => j <= b
    BY NextHeard
  <2>2. piece[1] = b /\ piece[2] = n
    BY <2>1
  <2>3. \A j \in b + 1 .. NJobs : j \in Jobs /\ ~(j <= b)
    BY SpeechWorkersAssumption DEF Jobs
  <2> QED BY <2>1, <2>2, <2>3
<1> QED BY <1>1, InvariantHolds, PTL DEF Spec, PiecesInOrder

\* One player serves the pieces of one task, and what was said first is heard first.
THEOREM SpeechIsHeardInOrder == Spec => HeardInOrder
<1>1. IInv => BlocksStayTogether
  BY OneBlock
<1> QED BY <1>1, InvariantHolds, PiecesComeInOrder, PTL DEF HeardInOrder

=============================================================================
