------------------------------ MODULE AudioProofs ------------------------------
(***************************************************************************)
(* The invariants of the audio path's components, for any sizes, lengths   *)
(* and thresholds: the jitter buffer and the playout controller around it, *)
(* the reassembler of numbered chunks, the voice activity detector, the    *)
(* circular buffer, the chunker, and the conversion of formats.            *)
(***************************************************************************)
EXTENDS AudioFormat, Playout, Reassembler, VoiceActivity, CircularBuffer, Chunker, Induction,
        SequenceTheorems

--------------------------------------------------------------------------------
(* The jitter buffer: a reader goes to sleep only over an empty buffer,    *)
(* and what fills it leaves a token.                                       *)

JitterInv == JitterTypeOK /\ NoLostWakeup

LEMMA JitterInitInv == JitterInit => JitterInv
<1>1. 0 \in 0..MaxSize
  BY JitterAssumption
<1> QED
  BY <1>1 DEF JitterInit, JitterInv, JitterTypeOK, NoLostWakeup

LEMMA WriteInv ==
  ASSUME JitterInv, Write
  PROVE  JitterInv'
BY JitterAssumption DEF JitterInv, JitterTypeOK, NoLostWakeup, Write

LEMMA ReadInv ==
  ASSUME JitterInv,
         \/ EnterRead \/ ReadTakes \/ ReadFindsClosed \/ ReadSleeps \/ ReadWakes
         \/ ReadCancelled \/ TryRead
  PROVE  JitterInv'
<1> USE DEF JitterInv, JitterTypeOK, NoLostWakeup
<1>1. CASE EnterRead \/ ReadFindsClosed \/ ReadCancelled
  BY <1>1 DEF EnterRead, ReadFindsClosed, ReadCancelled
<1>2. CASE ReadTakes \/ TryRead
  BY <1>2, JitterAssumption DEF ReadTakes, TryRead
<1>3. CASE ReadSleeps
  BY <1>3 DEF ReadSleeps
<1>4. CASE ReadWakes
  BY <1>4 DEF ReadWakes
<1> QED
  BY <1>1, <1>2, <1>3, <1>4

LEMMA OtherBufferStepInv ==
  ASSUME JitterInv, Clear \/ CloseBuffer \/ CancelRead \/ UNCHANGED jitterVars
  PROVE  JitterInv'
<1> USE DEF JitterInv, JitterTypeOK, NoLostWakeup
<1>1. CASE Clear
  BY <1>1, JitterAssumption DEF Clear
<1>2. CASE CloseBuffer
  BY <1>2 DEF CloseBuffer
<1>3. CASE CancelRead
  BY <1>3 DEF CancelRead
<1>4. CASE UNCHANGED jitterVars
  BY <1>4 DEF jitterVars
<1> QED
  BY <1>1, <1>2, <1>3, <1>4

\* A reader asleep over a frame, or over a closed buffer, will be woken, by
\* itself and inside the playout controller (buffer.go:59-93).
THEOREM ReaderIsWoken == JitterSpec => [](NoLostWakeup /\ JitterTypeOK)
<1>1. JitterInv /\ [JitterNext]_jitterVars => JitterInv'
  BY WriteInv, ReadInv, OtherBufferStepInv DEF JitterNext
<1>2. JitterInv => NoLostWakeup /\ JitterTypeOK
  BY DEF JitterInv
<1> QED
  BY <1>1, <1>2, JitterInitInv, PTL DEF JitterSpec

--------------------------------------------------------------------------------
(* The playout controller: but for the frame whose read is under way, the  *)
(* tracker counts the frames taken; a Reset in the middle of a read makes  *)
(* it count one that was taken before.                                     *)

Reading == IF advancing THEN 1 ELSE 0
TrackerFollows ==
  /\ sent + Reading <= heard + 1
  /\ ~wasPaused => sent + Reading >= heard
  /\ paused => wasPaused
  /\ completed => total > 0 /\ sent >= total
PlayoutInv == JitterInv /\ PlayoutTypeOK /\ TrackerFollows

LEMMA PlayoutInitInv == PlayoutInit => PlayoutInv
<1> SUFFICES ASSUME PlayoutInit
             PROVE  PlayoutInv
  OBVIOUS
<1>1. JitterInv
  BY JitterInitInv DEF PlayoutInit
<1>2. 0 \in 0..MaxHeard /\ 0 \in 0..MaxHeard + 1
  BY PlayoutAssumption
<1>3. PlayoutTypeOK
  BY <1>1, <1>2 DEF PlayoutInit, PlayoutTypeOK, JitterInv
<1>4. TrackerFollows
  BY DEF PlayoutInit, TrackerFollows, Reading
<1> QED
  BY <1>1, <1>3, <1>4 DEF PlayoutInv

\* The position stays in its range because it follows the frames heard.
LEMMA TrackerStep ==
  ASSUME PlayoutInv, JitterInv', TrackerFollows',
         heard' \in 0..MaxHeard, total' \in 0..MaxHeard, sent' \in Nat,
         {advancing, paused, stopping, wasPaused, completed}' \subseteq BOOLEAN
  PROVE  PlayoutInv'
<1>1. sent' \in 0..MaxHeard + 1
  <2>1. sent' <= heard' + 1
    <3>1. heard' \in Nat
      BY PlayoutAssumption
    <3>2. sent' + 1 <= heard' + 1 \/ sent' + 0 <= heard' + 1
      BY DEF TrackerFollows, Reading
    <3>3. sent' \in Nat
      OBVIOUS
    <3>4. \A s \in Nat, h \in Nat : s + 1 <= h + 1 \/ s + 0 <= h + 1 => s <= h + 1
      OBVIOUS
    <3> QED
      BY <3>1, <3>2, <3>3, <3>4, Zenon
  <2>2. \A h \in 0..MaxHeard, n \in Nat : n <= h + 1 => n \in 0..MaxHeard + 1
    BY PlayoutAssumption
  <2> QED
    BY <2>1, <2>2
<1> QED
  BY <1>1 DEF PlayoutInv, PlayoutTypeOK, JitterInv

LEMMA PlayoutNextInv == PlayoutInv /\ [PlayoutNext]_playoutVars => PlayoutInv'
<1> SUFFICES ASSUME PlayoutInv, [PlayoutNext]_playoutVars
             PROVE  PlayoutInv'
  OBVIOUS
<1>0. /\ heard \in 0..MaxHeard /\ heard \in Nat /\ total \in 0..MaxHeard /\ total \in Nat
      /\ sent \in Nat /\ {advancing, paused, stopping, wasPaused, completed} \subseteq BOOLEAN
  BY PlayoutAssumption DEF PlayoutInv, PlayoutTypeOK
<1> USE DEF PlayoutInv
<1>1. CASE BufferStep \/ UNCHANGED playoutVars
  <2>1. UNCHANGED <<trackerVars, advancing, stopping, heard>>
    BY <1>1 DEF BufferStep, playoutVars
  <2>2. JitterInv'
    BY <1>1, WriteInv, ReadInv, OtherBufferStepInv DEF BufferStep, playoutVars
  <2>3. TrackerFollows'
    BY <2>1 DEF TrackerFollows, Reading, trackerVars
  <2> QED
    BY <1>0, <2>1, <2>2, <2>3, TrackerStep DEF trackerVars
<1>2. CASE TakeFrameToPlay
  <2>1. JitterInv'
    BY <1>2, ReadInv DEF TakeFrameToPlay
  <2>2. /\ ~advancing /\ advancing' = TRUE /\ heard < MaxHeard /\ heard' = heard + 1
        /\ UNCHANGED <<trackerVars, stopping>>
    BY <1>2 DEF TakeFrameToPlay
  <2>3. TrackerFollows'
    BY <1>0, <2>2 DEF TrackerFollows, Reading, trackerVars
  <2>4. heard' \in 0..MaxHeard
    BY <1>0, <2>2, PlayoutAssumption
  <2> QED
    BY <1>0, <2>1, <2>2, <2>3, <2>4, TrackerStep DEF trackerVars
<1>3. CASE Advance
  <2>1. JitterInv'
    BY <1>3, OtherBufferStepInv DEF Advance
  <2>2. /\ advancing /\ advancing' = FALSE /\ UNCHANGED <<total, paused, wasPaused, stopping, heard>>
    BY <1>3 DEF Advance
  <2>3. TrackerFollows' /\ sent' \in Nat /\ completed' \in BOOLEAN
    <3>1. CASE paused
      <4>1. UNCHANGED <<sent, completed>>
        BY <1>3, <3>1 DEF Advance
      <4> QED
        BY <1>0, <2>2, <3>1, <4>1 DEF TrackerFollows, Reading
    <3>2. CASE ~paused
      <4>1. sent' = sent + 1 /\ completed' = (completed \/ (total > 0 /\ sent + 1 >= total))
        BY <1>3, <3>2 DEF Advance
      <4>2. sent' + Reading' = sent + Reading
        BY <1>0, <2>2, <4>1 DEF Reading
      <4>3. completed' => total > 0 /\ sent' >= total
        BY <1>0, <4>1 DEF TrackerFollows
      <4> QED
        BY <1>0, <2>2, <4>1, <4>2, <4>3 DEF TrackerFollows
    <3> QED
      BY <3>1, <3>2
  <2> QED
    BY <1>0, <2>1, <2>2, <2>3, TrackerStep
<1>4. CASE Reset
  <2>1. JitterInv'
    BY <1>4, OtherBufferStepInv DEF Reset
  <2>2. TrackerFollows'
    BY <1>0, <1>4 DEF Reset, TrackerFollows, Reading
  <2>3. /\ heard' \in 0..MaxHeard /\ total' \in 0..MaxHeard /\ sent' \in Nat
    BY <1>0, <1>4, PlayoutAssumption DEF Reset
  <2>4. {advancing, paused, stopping, wasPaused, completed}' \subseteq BOOLEAN
    BY <1>0, <1>4 DEF Reset
  <2> QED
    BY <2>1, <2>2, <2>3, <2>4, TrackerStep
<1>5. CASE ClearBuffer
  <2>1. JitterInv'
    BY <1>5, OtherBufferStepInv DEF ClearBuffer
  <2>2. TrackerFollows'
    BY <1>5 DEF ClearBuffer, TrackerFollows, Reading, trackerVars
  <2> QED
    BY <1>0, <1>5, <2>1, <2>2, TrackerStep DEF ClearBuffer, trackerVars
<1>6. CASE Pause \/ Resume
  <2>1. JitterInv'
    BY <1>6, OtherBufferStepInv DEF Pause, Resume
  <2>2. TrackerFollows'
    BY <1>6 DEF Pause, Resume, TrackerFollows, Reading
  <2> QED
    BY <1>0, <1>6, <2>1, <2>2, TrackerStep DEF Pause, Resume
<1>7. CASE SetTotalBytes
  <2>1. JitterInv'
    BY <1>7, OtherBufferStepInv DEF SetTotalBytes
  <2>2. TrackerFollows'
    BY <1>0, <1>7 DEF SetTotalBytes, TrackerFollows, Reading
  <2> QED
    BY <1>0, <1>7, <2>1, <2>2, TrackerStep DEF SetTotalBytes
<1> QED
  BY <1>1, <1>2, <1>3, <1>4, <1>5, <1>6, <1>7 DEF PlayoutNext

\* What an interruption reports as played is what the client was given since the
\* last Stop, give or take the one frame whose read the Stop cut in two, for any
\* number of frames, pauses and stops (playout.go:43-75, 141-162, 326-378).
THEOREM PositionFollowsPlayout == PlayoutSpec => [](PositionWithinOneFrame /\ PlayoutTypeOK)
<1>1. PlayoutInv => PositionWithinOneFrame /\ PlayoutTypeOK
  BY PlayoutAssumption
  DEF PlayoutInv, PlayoutTypeOK, TrackerFollows, Reading, PositionWithinOneFrame
<1> QED
  BY <1>1, PlayoutInitInv, PlayoutNextInv, PTL DEF PlayoutSpec

--------------------------------------------------------------------------------
(* The reassembler: what has been emitted lies below the expected number;  *)
(* and until a number is skipped it is every number below it.              *)

EmittedBelowExpected == \A i \in 1..Len(emitted) : emitted[i] < expectedSeq
ReassemblerInv == ReassemblerTypeOK /\ EmittedBelowExpected /\ ReassembledInOrder

\* The numbers from a to b, b not included.
LEMMA RunProperties ==
  ASSUME NEW a \in 0..LastSeq + 1, NEW b \in a..LastSeq + 1
  PROVE  /\ Run(a, b) \in Seq(Seqs) /\ Len(Run(a, b)) = b - a
         /\ \A i \in 1..b - a : Run(a, b)[i] = a + i - 1
<1>1. a \in Nat /\ b \in Nat /\ LastSeq \in Nat /\ b - a \in Nat /\ a <= b /\ b <= LastSeq + 1
  BY ReassemblerAssumption
<1>2. \A i \in 1..b - a : a + i - 1 \in Seqs
  BY <1>1 DEF Seqs
<1>3. Run(a, b) \in [1..b - a -> Seqs]
  BY <1>2 DEF Run
<1>4. Run(a, b) \in Seq(Seqs)
  BY <1>1, <1>3, SeqDef
<1>5. DOMAIN Run(a, b) = 1..b - a
  BY DEF Run
<1>6. Len(Run(a, b)) = b - a
  BY <1>1, <1>4, <1>5, LenProperties
<1> QED
  BY <1>4, <1>6 DEF Run

\* One run after another.
LEMMA RunConcat ==
  ASSUME NEW b \in 0..LastSeq + 1, NEW c \in b..LastSeq + 1
  PROVE  Run(0, b) \o Run(b, c) = Run(0, c)
<1>1. /\ b \in Nat /\ c \in Nat /\ LastSeq \in Nat /\ b <= c /\ c <= LastSeq + 1
      /\ 0 \in 0..LastSeq + 1 /\ b \in 0..LastSeq + 1 /\ c \in 0..LastSeq + 1
  BY ReassemblerAssumption
<1> DEFINE s == Run(0, b)
           t == Run(b, c)
           u == Run(0, c)
<1>2. /\ s \in Seq(Seqs) /\ Len(s) = b /\ \A i \in 1..b : s[i] = i - 1
  BY <1>1, RunProperties
<1>3. /\ t \in Seq(Seqs) /\ Len(t) = c - b /\ \A i \in 1..c - b : t[i] = b + i - 1
  BY <1>1, RunProperties
<1>4. /\ u \in Seq(Seqs) /\ Len(u) = c /\ \A i \in 1..c : u[i] = i - 1
  BY <1>1, RunProperties
<1> HIDE DEF s, t, u
<1>5. /\ s \o t \in Seq(Seqs) /\ Len(s \o t) = b + (c - b)
      /\ \A i \in 1..b + (c - b) : (s \o t)[i] = IF i <= b THEN s[i] ELSE t[i - b]
  <2>1. /\ s \o t \in Seq(Seqs) /\ Len(s \o t) = Len(s) + Len(t)
        /\ \A i \in 1..Len(s) + Len(t) :
             (s \o t)[i] = IF i <= Len(s) THEN s[i] ELSE t[i - Len(s)]
    BY <1>2, <1>3, ConcatProperties
  <2> QED
    BY <2>1, <1>2, <1>3
<1>6. b + (c - b) = c
  BY <1>1
<1>7. ASSUME NEW i \in 1..c
      PROVE  (s \o t)[i] = u[i]
  <2>1. (s \o t)[i] = IF i <= b THEN s[i] ELSE t[i - b]
    BY <1>5, <1>6
  <2>2. CASE i <= b
    <3>1. i \in 1..b
      BY <1>1, <2>2
    <3> QED
      BY <2>1, <2>2, <3>1, <1>2, <1>4
  <2>3. CASE ~(i <= b)
    <3>1. i - b \in 1..c - b /\ b + (i - b) - 1 = i - 1
      BY <1>1, <2>3
    <3> QED
      BY <2>1, <2>3, <3>1, <1>3, <1>4
  <2> QED
    BY <2>2, <2>3
<1>8. s \o t = u
  BY <1>4, <1>5, <1>6, <1>7, SeqEqual
<1> QED
  BY <1>8 DEF s, t, u

\* What a sequence extended by another consists of.
LEMMA ConcatAt ==
  ASSUME NEW S, NEW s \in Seq(S), NEW t \in Seq(S), NEW u, u = s \o t
  PROVE  /\ u \in Seq(S) /\ Len(u) = Len(s) + Len(t)
         /\ \A i \in 1..Len(s) : u[i] = s[i]
         /\ \A i \in 1..Len(t) : u[Len(s) + i] = t[i]
<1>1. Len(s) \in Nat /\ Len(t) \in Nat
  BY LenProperties
<1>2. /\ u \in Seq(S) /\ Len(u) = Len(s) + Len(t)
      /\ \A i \in 1..Len(s) + Len(t) : u[i] = IF i <= Len(s) THEN s[i] ELSE t[i - Len(s)]
  BY ConcatProperties
<1>3. ASSUME NEW i \in 1..Len(s)
      PROVE  u[i] = s[i]
  BY <1>1, <1>2
<1>4. ASSUME NEW i \in 1..Len(t)
      PROVE  u[Len(s) + i] = t[i]
  <2>1. ASSUME NEW k, k = Len(s) + i
        PROVE  u[k] = t[i]
    <3>1. k \in 1..Len(s) + Len(t) /\ ~(k <= Len(s)) /\ k - Len(s) = i
      BY <1>1, <2>1
    <3> QED
      BY <1>2, <3>1
  <2> QED
    BY <2>1
<1> QED
  BY <1>2, <1>3, <1>4

\* A run that starts at the expected number continues what has been emitted.
LEMMA EmittedWithRun ==
  ASSUME ReassemblerTypeOK, EmittedBelowExpected,
         \A i \in 1..Len(emitted) - 1 : emitted[i] < emitted[i + 1],
         NEW gap \in expectedSeq + 1..LastSeq + 1,
         NEW longer, longer = emitted \o Run(expectedSeq, gap)
  PROVE  /\ longer \in Seq(Seqs)
         /\ \A i \in 1..Len(longer) : longer[i] < gap
         /\ \A i \in 1..Len(longer) - 1 : longer[i] < longer[i + 1]
<1>1. /\ expectedSeq \in 0..LastSeq + 1 /\ expectedSeq \in Nat /\ gap \in Nat /\ LastSeq \in Nat
      /\ expectedSeq < gap /\ gap \in expectedSeq..LastSeq + 1
      /\ emitted \in Seq(Seqs) /\ Len(emitted) \in Nat
      /\ \A i \in 1..Len(emitted) : emitted[i] \in Nat
  <2>1. \A i \in 1..Len(emitted) : emitted[i] \in Seqs
    BY ElementOfSeq DEF ReassemblerTypeOK
  <2>2. LastSeq \in Nat /\ expectedSeq \in 0..LastSeq + 1
    BY ReassemblerAssumption DEF ReassemblerTypeOK
  <2>3. emitted \in Seq(Seqs) /\ Len(emitted) \in Nat
    BY LenProperties DEF ReassemblerTypeOK
  <2> QED
    BY <2>1, <2>2, <2>3 DEF Seqs
<1> DEFINE run == Run(expectedSeq, gap)
           n == Len(emitted)
           m == gap - expectedSeq
<1>2. /\ run \in Seq(Seqs) /\ Len(run) = m
      /\ \A i \in 1..m : run[i] = expectedSeq + i - 1
  BY <1>1, RunProperties
<1> HIDE DEF run
<1>3. longer = emitted \o run
  BY DEF run
<1>4. /\ longer \in Seq(Seqs) /\ Len(longer) = n + Len(run)
      /\ \A i \in 1..n : longer[i] = emitted[i]
      /\ \A i \in 1..Len(run) : longer[n + i] = run[i]
  <2>1. emitted \in Seq(Seqs) /\ run \in Seq(Seqs) /\ longer = emitted \o run
    BY <1>1, <1>2, <1>3
  <2> QED
    BY <2>1, ConcatAt
<1>5. n \in Nat /\ m \in Nat /\ m >= 1 /\ gap = expectedSeq + m
  BY <1>1
<1>6. /\ Len(longer) = n + m
      /\ \A i \in 1..n : longer[i] = emitted[i]
      /\ \A i \in 1..m : longer[n + i] = expectedSeq + i - 1
  BY <1>2, <1>4
<1> HIDE DEF n, m
\* An index is one of the old ones or one of the run's.
<1>7. \A i \in 1..n + m : i \in 1..n \/ \E j \in 1..m : i = n + j
  <2> SUFFICES ASSUME NEW i \in 1..n + m, i \notin 1..n
               PROVE  \E j \in 1..m : i = n + j
    OBVIOUS
  <2>1. i - n \in 1..m /\ i = n + (i - n)
    BY <1>5
  <2> QED
    BY <2>1
<1>8. ASSUME NEW i \in 1..Len(longer)
      PROVE  longer[i] < gap
  <2>1. CASE i \in 1..n
    <3>1. emitted[i] < expectedSeq /\ emitted[i] \in Nat
      BY <1>1, <2>1 DEF EmittedBelowExpected, n
    <3> QED
      BY <1>1, <1>6, <2>1, <3>1
  <2>2. ASSUME NEW j \in 1..m, i = n + j
        PROVE  longer[i] < gap
    <3>1. longer[i] = expectedSeq + j - 1
      BY <1>6, <2>2
    <3> QED
      BY <1>1, <1>5, <3>1
  <2> QED
    BY <1>6, <1>7, <2>1, <2>2
<1>9. ASSUME NEW i \in 1..Len(longer) - 1
      PROVE  longer[i] < longer[i + 1]
  <2>1. i \in 1..n + m /\ i + 1 \in 1..n + m /\ i \in Nat
    BY <1>5, <1>6
  <2>2. CASE i + 1 \in 1..n
    <3>1. i \in 1..n - 1 /\ i \in 1..n
      BY <1>5, <2>1, <2>2
    <3>2. emitted[i] < emitted[i + 1]
      BY <3>1 DEF n
    <3> QED
      BY <1>6, <2>2, <3>1, <3>2
  <2>3. CASE i \in 1..n /\ i + 1 \notin 1..n
    <3>1. i + 1 = n + 1 /\ 1 \in 1..m
      BY <1>5, <2>1, <2>3
    <3>2. longer[i + 1] = expectedSeq
      <4>1. longer[n + 1] = expectedSeq + 1 - 1
        BY <1>6, <3>1
      <4>2. expectedSeq + 1 - 1 = expectedSeq
        BY <1>1
      <4>3. longer[i + 1] = longer[n + 1]
        BY <3>1
      <4> QED
        BY <4>1, <4>2, <4>3
    <3>3. emitted[i] < expectedSeq
      BY <2>3 DEF EmittedBelowExpected, n
    <3> QED
      BY <1>6, <2>3, <3>2, <3>3
  <2>4. CASE i \notin 1..n
    <3>1. PICK j \in 1..m : i = n + j
      BY <1>7, <2>1, <2>4
    <3>2. j + 1 \in 1..m /\ i + 1 = n + (j + 1)
      BY <1>5, <2>1, <3>1
    <3>3. longer[i] = expectedSeq + j - 1 /\ longer[i + 1] = expectedSeq + (j + 1) - 1
      BY <1>6, <3>1, <3>2
    <3> QED
      BY <1>1, <3>3
  <2> QED
    BY <2>2, <2>3, <2>4
<1> QED
  BY <1>4, <1>8, <1>9

LEMMA ReassemblerInitInv == ReassemblerInit => ReassemblerInv
<1> SUFFICES ASSUME ReassemblerInit
             PROVE  ReassemblerInv
  OBVIOUS
<1>1. 0 \in 0..LastSeq + 1 /\ 0 \in 0..LastSeq + 1 /\ 0..0 - 1 = {}
  BY ReassemblerAssumption
<1>2. <<>> \in Seq(Seqs) /\ Len(<<>>) = 0
  BY EmptySeq
<1>3. ReassemblerTypeOK
  BY <1>1, <1>2 DEF ReassemblerInit, ReassemblerTypeOK
<1>4. 1..0 = {} /\ 1..0 - 1 = {}
  OBVIOUS
<1>5. EmittedBelowExpected
  BY <1>2, <1>4 DEF ReassemblerInit, EmittedBelowExpected
<1>6. \A i \in 1..Len(emitted) - 1 : emitted[i] < emitted[i + 1]
  BY <1>2, <1>4 DEF ReassemblerInit
<1>7. emitted = Run(0, expectedSeq)
  <2>1. Run(0, 0) \in Seq(Seqs) /\ Len(Run(0, 0)) = 0
    BY <1>1, RunProperties
  <2>2. Run(0, 0) = <<>>
    BY <2>1, EmptySeq
  <2> QED
    BY <2>2 DEF ReassemblerInit
<1>8. received = early \cup (0..expectedSeq - 1) /\ \A s \in early : s > expectedSeq
  BY <1>1 DEF ReassemblerInit
<1> QED
  BY <1>3, <1>5, <1>6, <1>7, <1>8 DEF ReassemblerInv, ReassembledInOrder

LEMMA AddExpectedInv ==
  ASSUME ReassemblerInv, NEW seq \in Seqs, AddExpected(seq)
  PROVE  ReassemblerInv'
<1>1. /\ ReassemblerTypeOK /\ EmittedBelowExpected /\ ReassembledInOrder
      /\ seq = expectedSeq /\ seq \in Nat /\ LastSeq \in Nat
  BY ReassemblerAssumption DEF ReassemblerInv, AddExpected, Seqs
<1>2. PICK gap \in seq + 1..LastSeq + 1 :
        /\ Sequential(seq + 1, gap)
        /\ expectedSeq' = gap
        /\ emitted' = emitted \o Run(seq, gap)
        /\ early' = early \ (seq + 1..gap - 1)
  BY DEF AddExpected
<1>3. gap \in Nat /\ seq < gap /\ gap \in 0..LastSeq + 1 /\ gap \in seq..LastSeq + 1
  BY <1>1
<1>4. /\ emitted' \in Seq(Seqs)
      /\ \A i \in 1..Len(emitted') : emitted'[i] < gap
      /\ \A i \in 1..Len(emitted') - 1 : emitted'[i] < emitted'[i + 1]
  <2>1. emitted' = emitted \o Run(expectedSeq, gap) /\ gap \in expectedSeq + 1..LastSeq + 1
    BY <1>1, <1>2
  <2>2. \A i \in 1..Len(emitted) - 1 : emitted[i] < emitted[i + 1]
    BY <1>1 DEF ReassembledInOrder
  <2> QED
    BY <1>1, <2>1, <2>2, EmittedWithRun
<1>5. ReassemblerTypeOK'
  BY <1>1, <1>2, <1>3, <1>4 DEF AddExpected, ReassemblerTypeOK
<1>6. EmittedBelowExpected'
  BY <1>2, <1>4 DEF EmittedBelowExpected
<1>7. ASSUME skipped' = {}
      PROVE  /\ emitted' = Run(0, expectedSeq')
             /\ received' = early' \cup (0..expectedSeq' - 1)
             /\ \A s \in early' : s > expectedSeq'
  <2>1. /\ emitted = Run(0, expectedSeq) /\ received = early \cup (0..expectedSeq - 1)
        /\ \A s \in early : s > expectedSeq
    BY <1>1, <1>7 DEF ReassembledInOrder, AddExpected
  <2>2. emitted' = Run(0, expectedSeq')
    <3>1. Run(0, seq) \o Run(seq, gap) = Run(0, gap)
      BY <1>1, <1>3, RunConcat DEF ReassemblerTypeOK
    <3> QED
      BY <1>1, <1>2, <2>1, <3>1
  \* The chunks from the expected one up to the gap are all there.
  <2>3. received' = early' \cup (0..expectedSeq' - 1)
    <3>1. received' = early \cup (0..seq - 1) \cup {seq}
      BY <1>1, <2>1 DEF AddExpected
    <3>2. (0..seq - 1) \cup {seq} \cup (seq + 1..gap - 1) = 0..gap - 1
      BY <1>1, <1>3
    <3>3. seq + 1..gap - 1 \subseteq early
      BY <1>2 DEF Sequential
    <3> QED
      BY <1>2, <3>1, <3>2, <3>3
  <2>4. ASSUME NEW s \in early'
        PROVE  s > expectedSeq'
    <3>1. s \in early /\ s \notin seq + 1..gap - 1 /\ s # gap
      BY <1>2 DEF Sequential
    <3>2. s \in Nat /\ s > seq
      BY <1>1, <2>1, <3>1 DEF ReassemblerTypeOK, Seqs
    <3> QED
      BY <1>1, <1>2, <1>3, <3>1, <3>2
  <2> QED
    BY <2>2, <2>3, <2>4
<1> QED
  BY <1>4, <1>5, <1>6, <1>7 DEF ReassemblerInv, ReassembledInOrder

LEMMA BufferedInv ==
  ASSUME ReassemblerInv, NEW seq \in Seqs,
         AddOld(seq) \/ AddEarly(seq) \/ AddWhenFull(seq)
  PROVE  ReassemblerInv'
<1>1. /\ ReassemblerTypeOK /\ EmittedBelowExpected /\ ReassembledInOrder
      /\ seq \in Nat /\ seq <= LastSeq /\ LastSeq \in Nat
      /\ expectedSeq \in Nat /\ expectedSeq <= LastSeq + 1
  BY ReassemblerAssumption DEF ReassemblerInv, ReassemblerTypeOK, Seqs
<1>2. CASE AddOld(seq)
  BY <1>1, <1>2
  DEF AddOld, reassemblerVars, ReassemblerInv, ReassemblerTypeOK, EmittedBelowExpected,
      ReassembledInOrder
<1>3. CASE AddEarly(seq)
  <2>1. ReassemblerTypeOK' /\ EmittedBelowExpected'
    BY <1>1, <1>3 DEF AddEarly, ReassemblerTypeOK, EmittedBelowExpected
  <2>2. ReassembledInOrder'
    BY <1>1, <1>3 DEF AddEarly, ReassembledInOrder
  <2> QED
    BY <2>1, <2>2 DEF ReassemblerInv
<1>4. CASE AddWhenFull(seq)
  <2>1. expectedSeq < seq /\ expectedSeq \in Seqs /\ expectedSeq + 1 \in 0..LastSeq + 1
    BY <1>1, <1>4 DEF AddWhenFull, Seqs
  <2>2. ReassemblerTypeOK'
    BY <1>1, <1>4, <2>1 DEF AddWhenFull, ReassemblerTypeOK, Seqs
  <2>3. EmittedBelowExpected'
    <3> SUFFICES ASSUME NEW i \in 1..Len(emitted)
                 PROVE  emitted[i] < expectedSeq + 1
      BY <1>4 DEF AddWhenFull, EmittedBelowExpected
    <3>1. emitted[i] \in Nat
      BY <1>1, ElementOfSeq DEF ReassemblerTypeOK, Seqs
    <3>2. emitted[i] < expectedSeq
      BY <1>1 DEF EmittedBelowExpected
    <3> QED
      BY <1>1, <3>1, <3>2
  <2>4. ReassembledInOrder'
    BY <1>1, <1>4 DEF AddWhenFull, ReassembledInOrder
  <2> QED
    BY <2>2, <2>3, <2>4 DEF ReassemblerInv
<1> QED
  BY <1>2, <1>3, <1>4

LEMMA ReassemblerNextInv == ReassemblerInv /\ [ReassemblerNext]_reassemblerVars => ReassemblerInv'
<1> SUFFICES ASSUME ReassemblerInv, [ReassemblerNext]_reassemblerVars
             PROVE  ReassemblerInv'
  OBVIOUS
<1>1. CASE \E seq \in Seqs : AddExpected(seq)
  BY <1>1, AddExpectedInv
<1>2. CASE \E seq \in Seqs : AddOld(seq) \/ AddEarly(seq) \/ AddWhenFull(seq)
  BY <1>2, BufferedInv
<1>3. CASE ResetReassembler
  <2>1. ReassemblerInit'
    BY <1>3 DEF ResetReassembler, ReassemblerInit
  <2>2. ReassemblerInit' => ReassemblerInv'
    BY ReassemblerInitInv, PTL
  <2> QED
    BY <2>1, <2>2
<1>4. CASE UNCHANGED reassemblerVars
  BY <1>4
  DEF reassemblerVars, ReassemblerInv, ReassemblerTypeOK, EmittedBelowExpected, ReassembledInOrder
<1> QED
  BY <1>1, <1>2, <1>3, <1>4 DEF ReassemblerNext

\* Chunks leave the reassembler in order and once, whatever the network does to
\* them, and until the buffer overflows none that came is lost, for any number of
\* chunks and any buffer (chunk.go:125-167).
THEOREM ChunksLeaveInOrder == ReassemblerSpec => [](ReassembledInOrder /\ ReassemblerTypeOK)
<1>1. ReassemblerInv => ReassembledInOrder /\ ReassemblerTypeOK
  BY DEF ReassemblerInv
<1> QED
  BY <1>1, ReassemblerInitInv, ReassemblerNextInv, PTL DEF ReassemblerSpec

--------------------------------------------------------------------------------
(* The voice activity detector: its counters are the runs of frames they   *)
(* stand for, in the states that use them.                                 *)

CountersAreRuns ==
  /\ vad = "silence" => speechFrames = voiced
  /\ vad = "speech_start" => hangoverCount = 0 /\ silent = 0
  /\ vad = "speech" => silenceFrames = silent /\ hangoverCount = silent
  /\ vad = "speech_end" => voiced = 0
VadInv == VadTypeOK /\ CountersAreRuns /\ SpeechIsBoundedBySilence

LEMMA ConfigTypes ==
  ASSUME VadTypeOK
  PROVE  /\ config.minSpeech \in Nat /\ config.minSilence \in Nat /\ config.hangover \in Nat
         /\ config.minSpeech \div 2 \in Nat /\ config.hangover < Horizon
         /\ Horizon \in Nat /\ Horizon >= 1
<1>1. /\ config.minSpeech \in MinSpeech /\ config.minSilence \in MinSilence
      /\ config.hangover \in Hangover
  BY DEF VadTypeOK, VadConfig
<1>2. /\ config.minSpeech \in Nat /\ config.minSilence \in Nat /\ config.hangover \in Nat
      /\ Horizon \in Nat
  BY <1>1, VadAssumption
<1>3. config.hangover < Horizon
  BY <1>1, VadAssumption
<1>4. \A n \in Nat : n \div 2 \in Nat
  OBVIOUS
<1>5. config.minSpeech \div 2 \in Nat
  BY <1>2, <1>4
<1>6. Horizon >= 1
  BY <1>2, <1>3
<1> QED
  BY <1>2, <1>3, <1>5, <1>6

\* One frame more, up to the bound, passes every threshold it would pass without it.
LEMMA MoreProperties ==
  ASSUME VadTypeOK, NEW n \in 0..Horizon
  PROVE  More(n) \in 0..Horizon /\ (More(n) = n + 1 \/ More(n) = Horizon) /\ More(n) >= 1
BY ConfigTypes DEF More

LEMMA VadInitInv == VadInit => VadInv
<1> SUFFICES ASSUME VadInit
             PROVE  VadInv
  OBVIOUS
<1>1. 0 \in 0..Horizon
  BY VadAssumption
<1> QED
  BY <1>1
  DEF VadInit, VadInv, VadTypeOK, VadState, CountersAreRuns, SpeechIsBoundedBySilence

LEMMA FrameInv ==
  ASSUME VadInv, NEW speech \in BOOLEAN,
         SilenceFrame(speech) \/ StartFrame(speech) \/ SpeechFrame(speech) \/ EndFrame(speech)
  PROVE  VadInv'
<1>1. VadTypeOK /\ CountersAreRuns /\ SpeechIsBoundedBySilence
  BY DEF VadInv
<1>2. /\ More(speechFrames) \in 0..Horizon /\ More(silenceFrames) \in 0..Horizon
      /\ More(hangoverCount) \in 0..Horizon /\ More(voiced) \in 0..Horizon
      /\ More(silent) \in 0..Horizon /\ 0 \in 0..Horizon /\ 1 \in 0..Horizon
      /\ More(voiced) >= 1 /\ More(silent) >= 1 /\ More(0) = 1
  BY <1>1, ConfigTypes, MoreProperties DEF VadTypeOK, More
<1>3. CASE SilenceFrame(speech)
  <2>1. VadTypeOK'
    BY <1>1, <1>2, <1>3 DEF VadTypeOK, VadState, SilenceFrame, Frame
  <2>2. CountersAreRuns'
    BY <1>1, <1>2, <1>3 DEF CountersAreRuns, SilenceFrame, Frame
  <2>3. SpeechIsBoundedBySilence'
    BY <1>1, <1>2, <1>3, ConfigTypes
    DEF CountersAreRuns, SpeechIsBoundedBySilence, SilenceFrame, Frame
  <2> QED
    BY <2>1, <2>2, <2>3 DEF VadInv
<1>4. CASE StartFrame(speech)
  <2>1. VadTypeOK'
    BY <1>1, <1>2, <1>4 DEF VadTypeOK, VadState, StartFrame, Frame
  <2>2. CountersAreRuns'
    BY <1>1, <1>2, <1>4 DEF CountersAreRuns, StartFrame, Frame
  <2>3. SpeechIsBoundedBySilence'
    BY <1>1, <1>2, <1>4, ConfigTypes
    DEF CountersAreRuns, SpeechIsBoundedBySilence, LongSilence, StartFrame, Frame
  <2> QED
    BY <2>1, <2>2, <2>3 DEF VadInv
<1>5. CASE SpeechFrame(speech)
  <2>1. VadTypeOK'
    BY <1>1, <1>2, <1>5 DEF VadTypeOK, VadState, SpeechFrame, Frame
  <2>2. CountersAreRuns'
    BY <1>1, <1>2, <1>5 DEF CountersAreRuns, SpeechFrame, Frame
  <2>3. SpeechIsBoundedBySilence'
    BY <1>1, <1>2, <1>5, ConfigTypes
    DEF CountersAreRuns, SpeechIsBoundedBySilence, LongSilence, SpeechFrame, Frame
  <2> QED
    BY <2>1, <2>2, <2>3 DEF VadInv
<1>6. CASE EndFrame(speech)
  <2>1. VadTypeOK'
    BY <1>1, <1>2, <1>6 DEF VadTypeOK, VadState, EndFrame, Frame
  <2>2. CountersAreRuns'
    BY <1>1, <1>2, <1>6 DEF CountersAreRuns, EndFrame, Frame
  <2>3. SpeechIsBoundedBySilence'
    BY <1>1, <1>2, <1>6, ConfigTypes
    DEF CountersAreRuns, SpeechIsBoundedBySilence, EndFrame, Frame
  <2> QED
    BY <2>1, <2>2, <2>3 DEF VadInv
<1> QED
  BY <1>3, <1>4, <1>5, <1>6

LEMMA VadNextInv == VadInv /\ [VadNext]_vadVars => VadInv'
<1> SUFFICES ASSUME VadInv, [VadNext]_vadVars
             PROVE  VadInv'
  OBVIOUS
<1>1. CASE \E speech \in BOOLEAN :
             SilenceFrame(speech) \/ StartFrame(speech) \/ SpeechFrame(speech) \/ EndFrame(speech)
  BY <1>1, FrameInv
<1>2. CASE Deliver
  BY <1>2
  DEF Deliver, counters, VadInv, VadTypeOK, CountersAreRuns, SpeechIsBoundedBySilence, LongSilence
<1>3. CASE ResetVad
  <2>1. 0 \in 0..Horizon
    BY VadAssumption
  <2>2. VadTypeOK'
    BY <1>3, <2>1 DEF ResetVad, VadInv, VadTypeOK, VadState
  <2> QED
    BY <1>3, <2>2 DEF ResetVad, VadInv, CountersAreRuns, SpeechIsBoundedBySilence
<1>4. CASE UpdateVadConfig
  BY <1>4
  DEF UpdateVadConfig, counters, VadInv, VadTypeOK, CountersAreRuns, SpeechIsBoundedBySilence
<1>5. CASE UNCHANGED vadVars
  BY <1>5
  DEF vadVars, counters, VadInv, VadTypeOK, CountersAreRuns, SpeechIsBoundedBySilence, LongSilence
<1> QED
  BY <1>1, <1>2, <1>3, <1>4, <1>5 DEF VadNext

\* Speech is reported from when the frames in a row justify it until the silence
\* has outlasted both the hangover and the minimum, and no longer, for any
\* thresholds, changed at any moment (vad.go:126-194).
THEOREM SpeechFollowsFrames == VadSpec => [](SpeechIsBoundedBySilence /\ VadTypeOK)
<1>1. VadInv => SpeechIsBoundedBySilence /\ VadTypeOK
  BY DEF VadInv
<1> QED
  BY <1>1, VadInitInv, VadNextInv, PTL DEF VadSpec

--------------------------------------------------------------------------------
(* The circular buffer: after a write its contents are the newest bytes of *)
(* what it held and what was written.                                      *)

\* Adding up to twice around the array and coming back into it.
LEMMA AroundOnce ==
  ASSUME NEW n \in Nat \ {0}, NEW a \in Nat, a < 2 * n
  PROVE  a % n = IF a < n THEN a ELSE a - n
OBVIOUS

Around(a) == IF a < Size THEN a ELSE a - Size

BufferStates == [d : [0 .. Size - 1 -> Byte], r : 0 .. Size - 1, w : 0 .. Size - 1, n : 0 .. Size]

\* The positions enclose the bytes that are counted.
Enclosing(st) == st.w = (st.r + st.n) % Size

ByteAt(st, i) == st.d[(st.r + i - 1) % Size]

LEMMA PutByteTypes ==
  ASSUME NEW st \in BufferStates, NEW b \in Byte
  PROVE  PutByte(st, b) \in BufferStates
<1> DEFINE after == PutByte(st, b)
<1>1. /\ st.d \in [0 .. Size - 1 -> Byte] /\ st.r \in 0 .. Size - 1
      /\ st.w \in 0 .. Size - 1 /\ st.n \in 0 .. Size
  BY DEF BufferStates
<1>2. \A pos \in 0 .. Size - 1 : Step(pos) \in 0 .. Size - 1
  BY CircularAssumption DEF Step
<1>3. /\ after.d \in [0 .. Size - 1 -> Byte] /\ after.r \in 0 .. Size - 1
      /\ after.w \in 0 .. Size - 1 /\ after.n \in 0 .. Size
  <2>1. /\ after.d = [st.d EXCEPT ![st.w] = b]
        /\ after.r = IF st.n >= Size THEN Step(st.r) ELSE st.r
        /\ after.w = Step(st.w)
        /\ after.n = IF st.n >= Size THEN st.n ELSE st.n + 1
    BY DEF PutByte
  <2> HIDE DEF after
  <2>2. after.d \in [0 .. Size - 1 -> Byte]
    BY <1>1, <2>1
  <2>3. after.r \in 0 .. Size - 1 /\ after.w \in 0 .. Size - 1
    BY <1>1, <1>2, <2>1
  <2>4. after.n \in 0 .. Size
    BY <1>1, <2>1, CircularAssumption
  <2> QED
    BY <2>2, <2>3, <2>4
<1>4. after = [d |-> after.d, r |-> after.r, w |-> after.w, n |-> after.n]
  BY DEF PutByte
<1> HIDE DEF after
<1>5. after \in BufferStates
  BY <1>3, <1>4 DEF BufferStates
<1> QED
  BY <1>5 DEF after

\* One turn of the loop appends its byte, and drops the oldest of a full buffer.
LEMMA PutByteAppends ==
  ASSUME NEW st \in BufferStates, Enclosing(st), NEW b \in Byte
  PROVE  LET after == PutByte(st, b) IN
         /\ after \in BufferStates /\ Enclosing(after)
         /\ st.n < Size => /\ after.n = st.n + 1 /\ ByteAt(after, st.n + 1) = b
                           /\ \A i \in 1 .. st.n : ByteAt(after, i) = ByteAt(st, i)
         /\ st.n = Size => /\ after.n = Size /\ ByteAt(after, Size) = b
                           /\ \A i \in 1 .. Size - 1 : ByteAt(after, i) = ByteAt(st, i + 1)
<1> DEFINE after == PutByte(st, b)
<1> USE CircularAssumption
<1>1. /\ st.d \in [0 .. Size - 1 -> Byte] /\ st.r \in 0 .. Size - 1
      /\ st.w \in 0 .. Size - 1 /\ st.n \in 0 .. Size
  BY DEF BufferStates
<1>a. \A a \in 0 .. 2 * Size - 1 : a % Size = Around(a)
  <2> TAKE a \in 0 .. 2 * Size - 1
  <2>1. a \in Nat /\ a < 2 * Size /\ Size \in Nat \ {0}
    OBVIOUS
  <2> QED
    BY <2>1, AroundOnce DEF Around
<1>2. \A pos \in 0 .. Size - 1 : Step(pos) = IF pos = Size - 1 THEN 0 ELSE pos + 1
  BY AroundOnce DEF Step
<1>3. st.w = Around(st.r + st.n)
  <2>1. st.r + st.n \in 0 .. 2 * Size - 1
    BY <1>1
  <2> QED
    BY <2>1, <1>a DEF Enclosing
<1>4. /\ after.d = [st.d EXCEPT ![st.w] = b]
      /\ after.r = IF st.n >= Size THEN Step(st.r) ELSE st.r
      /\ after.w = Step(st.w)
      /\ after.n = IF st.n >= Size THEN st.n ELSE st.n + 1
  BY DEF PutByte
<1>5. after \in BufferStates
  BY PutByteTypes
<1>6. /\ after.r \in 0 .. Size - 1 /\ after.n \in 0 .. Size
  BY <1>5 DEF BufferStates
<1>7. \A i \in 1 .. Size : (st.r + i - 1) % Size = Around(st.r + i - 1)
  <2>1. \A i \in 1 .. Size : st.r + i - 1 \in 0 .. 2 * Size - 1
    BY <1>1
  <2> QED
    BY <2>1, <1>a
<1>8. \A i \in 1 .. Size : (after.r + i - 1) % Size = Around(after.r + i - 1)
  <2>1. \A i \in 1 .. Size : after.r + i - 1 \in 0 .. 2 * Size - 1
    BY <1>6
  <2> QED
    BY <2>1, <1>a
<1>9. (after.r + after.n) % Size = Around(after.r + after.n)
  <2>1. after.r + after.n \in 0 .. 2 * Size - 1
    BY <1>6
  <2> QED
    BY <2>1, <1>a
<1> HIDE DEF after
<1>10. Enclosing(after)
  <2>1. after.w = Around(after.r + after.n)
    BY <1>1, <1>2, <1>3, <1>4 DEF Around
  <2> QED
    BY <2>1, <1>9 DEF Enclosing
<1>11. ASSUME st.n < Size
       PROVE  /\ after.n = st.n + 1 /\ ByteAt(after, st.n + 1) = b
              /\ \A i \in 1 .. st.n : ByteAt(after, i) = ByteAt(st, i)
  <2>1. after.n = st.n + 1 /\ after.r = st.r
    BY <1>1, <1>4, <1>11
  <2>2. (after.r + (st.n + 1) - 1) % Size = st.w
    <3>1. st.n + 1 \in 1 .. Size /\ st.r + (st.n + 1) - 1 = st.r + st.n
      BY <1>1, <1>11
    <3> QED
      BY <3>1, <2>1, <1>3, <1>8
  <2>3. \A i \in 1 .. st.n : /\ (after.r + i - 1) % Size = (st.r + i - 1) % Size
                             /\ (st.r + i - 1) % Size \in (0 .. Size - 1) \ {st.w}
    <3> SUFFICES ASSUME NEW i \in 1 .. st.n
                 PROVE  /\ (after.r + i - 1) % Size = (st.r + i - 1) % Size
                        /\ (st.r + i - 1) % Size \in (0 .. Size - 1) \ {st.w}
      OBVIOUS
    <3>1. (st.r + i - 1) % Size = Around(st.r + i - 1)
      <4>1. i \in 1 .. Size
        BY <1>1
      <4> QED
        BY <4>1, <1>7
    <3>2. Around(st.r + i - 1) \in (0 .. Size - 1) \ {st.w}
      BY <1>1, <1>3, <1>11 DEF Around
    <3>3. (after.r + i - 1) % Size = (st.r + i - 1) % Size
      BY <2>1, Zenon
    <3> QED
      BY <3>1, <3>2, <3>3
  <2> QED
    BY <2>1, <2>2, <2>3, <1>1, <1>4 DEF ByteAt
<1>12. ASSUME st.n = Size
       PROVE  /\ after.n = Size /\ ByteAt(after, Size) = b
              /\ \A i \in 1 .. Size - 1 : ByteAt(after, i) = ByteAt(st, i + 1)
  <2>1. after.n = Size /\ after.r = Step(st.r) /\ st.w = st.r
    BY <1>1, <1>3, <1>4, <1>12 DEF Around
  <2>2. (after.r + Size - 1) % Size = st.w
    <3>1. Around(after.r + Size - 1) = st.w
      BY <2>1, <1>1, <1>2 DEF Around
    <3>2. Size \in 1 .. Size
      OBVIOUS
    <3> QED
      BY <3>1, <3>2, <1>8
  <2>3. \A i \in 1 .. Size - 1 : /\ (after.r + i - 1) % Size = (st.r + (i + 1) - 1) % Size
                                 /\ (st.r + (i + 1) - 1) % Size \in (0 .. Size - 1) \ {st.w}
    <3> SUFFICES ASSUME NEW i \in 1 .. Size - 1
                 PROVE  /\ (after.r + i - 1) % Size = (st.r + (i + 1) - 1) % Size
                        /\ (st.r + (i + 1) - 1) % Size \in (0 .. Size - 1) \ {st.w}
      OBVIOUS
    <3>1. i + 1 \in 1 .. Size /\ i \in 1 .. Size
      OBVIOUS
    <3>2. (st.r + (i + 1) - 1) % Size = Around(st.r + (i + 1) - 1)
      BY <3>1, <1>7
    <3>3. (after.r + i - 1) % Size = Around(after.r + i - 1)
      BY <3>1, <1>8
    <3>4. /\ Around(after.r + i - 1) = Around(st.r + (i + 1) - 1)
          /\ Around(st.r + (i + 1) - 1) \in (0 .. Size - 1) \ {st.w}
      <4>1. /\ after.r = IF st.r = Size - 1 THEN 0 ELSE st.r + 1
            /\ st.r \in 0 .. Size - 1 /\ st.w = st.r
        BY <2>1, <1>1, <1>2
      <4>2. CASE st.r = Size - 1
        BY <4>1, <4>2 DEF Around
      <4>3. CASE st.r < Size - 1
        BY <4>1, <4>3 DEF Around
      <4> QED
        BY <4>1, <4>2, <4>3
    <3> QED
      BY <3>2, <3>3, <3>4
  <2>4. ByteAt(after, Size) = b
    BY <2>2, <1>1, <1>4 DEF ByteAt
  <2>5. \A i \in 1 .. Size - 1 : ByteAt(after, i) = ByteAt(st, i + 1)
    BY <2>3, <1>1, <1>4 DEF ByteAt
  <2> QED
    BY <2>1, <2>4, <2>5
<1> QED
  BY <1>5, <1>10, <1>11, <1>12 DEF after

\* The first i bytes of p written one after the other: the newest of what was
\* held and of these.
Holds(after, st, p, i) ==
  LET dropped == st.n + i - after.n
  IN /\ after \in BufferStates /\ Enclosing(after)
     /\ after.n = IF st.n + i <= Size THEN st.n + i ELSE Size
     /\ \A k \in 1 .. after.n :
          ByteAt(after, k) = IF dropped + k <= st.n THEN ByteAt(st, dropped + k)
                                                   ELSE p[dropped + k - st.n]

\* The count after one more byte.
LEMMA OneMore ==
  ASSUME NEW n \in 0 .. Size, NEW i \in Nat, NEW had \in 0 .. Size,
         had = IF n + i <= Size THEN n + i ELSE Size
  PROVE  (IF had < Size THEN had + 1 ELSE Size) = IF n + (i + 1) <= Size THEN n + (i + 1) ELSE Size
BY CircularAssumption

LEMMA PutByteHolds ==
  ASSUME NEW st \in BufferStates, NEW m \in Nat, NEW p \in [1 .. m -> Byte],
         NEW i \in 0 .. m - 1, NEW before, Holds(before, st, p, i)
  PROVE  Holds(PutByte(before, p[i + 1]), st, p, i + 1)
<1> DEFINE after == PutByte(before, p[i + 1])
           dropped == st.n + i - before.n
<1> USE CircularAssumption
<1>1. i + 1 \in 1 .. m /\ p[i + 1] \in Byte /\ st.n \in 0 .. Size
  BY DEF BufferStates
<1>2. before \in BufferStates /\ Enclosing(before) /\ before.n \in 0 .. Size
  BY DEF Holds, BufferStates
<1>3. before.n = IF st.n + i <= Size THEN st.n + i ELSE Size
  BY DEF Holds
<1>4. \A k \in 1 .. before.n :
        ByteAt(before, k) = IF dropped + k <= st.n THEN ByteAt(st, dropped + k)
                                                  ELSE p[dropped + k - st.n]
  BY DEF Holds
<1>5. /\ after \in BufferStates /\ Enclosing(after)
      /\ before.n < Size => /\ after.n = before.n + 1 /\ ByteAt(after, before.n + 1) = p[i + 1]
                            /\ \A k \in 1 .. before.n : ByteAt(after, k) = ByteAt(before, k)
      /\ before.n = Size => /\ after.n = Size /\ ByteAt(after, Size) = p[i + 1]
                            /\ \A k \in 1 .. Size - 1 : ByteAt(after, k) = ByteAt(before, k + 1)
  BY <1>1, <1>2, PutByteAppends
<1> HIDE DEF after
<1>a. after.n = IF before.n < Size THEN before.n + 1 ELSE Size
  BY <1>2, <1>5
<1>6. after.n = IF st.n + (i + 1) <= Size THEN st.n + (i + 1) ELSE Size
  <2>1. i \in Nat
    OBVIOUS
  <2> QED
    BY <2>1, <1>1, <1>2, <1>3, <1>a, OneMore
<1>7. ASSUME NEW k \in 1 .. after.n
      PROVE  LET now == st.n + (i + 1) - after.n
             IN ByteAt(after, k) = IF now + k <= st.n THEN ByteAt(st, now + k)
                                                     ELSE p[now + k - st.n]
  <2>1. CASE before.n < Size
    <3>1. st.n + (i + 1) - after.n = dropped /\ dropped = 0 /\ after.n = before.n + 1
      BY <2>1, <1>1, <1>2, <1>3, <1>5
    <3>2. CASE k = before.n + 1
      <4>1. ByteAt(after, k) = p[i + 1]
        BY <3>2, <2>1, <1>5
      <4>2. dropped + k - st.n = i + 1 /\ ~(dropped + k <= st.n)
        <5>1. dropped = 0 /\ before.n = st.n + i
          BY <3>1, <2>1, <1>1, <1>2, <1>3
        <5>2. k = st.n + i + 1
          BY <3>2, <5>1
        <5> QED
          BY <5>1, <5>2, <1>1
      <4> QED
        BY <4>1, <4>2, <3>1
    <3>3. CASE k \in 1 .. before.n
      <4>1. ByteAt(after, k) = ByteAt(before, k)
        BY <3>3, <2>1, <1>5
      <4> QED
        BY <4>1, <3>1, <3>3, <1>4
    <3> QED
      BY <3>1, <3>2, <3>3, <1>2
  <2>2. CASE before.n = Size
    <3>1. st.n + (i + 1) - after.n = dropped + 1 /\ after.n = Size /\ dropped = st.n + i - Size
      BY <2>2, <1>1, <1>2, <1>a
    <3>2. CASE k = Size
      <4>1. (dropped + 1) + k - st.n = i + 1 /\ ~((dropped + 1) + k <= st.n)
        BY <3>1, <3>2, <1>1
      <4>2. ByteAt(after, k) = p[i + 1]
        BY <3>2, <2>2, <1>5
      <4> QED
        BY <4>1, <4>2, <3>1
    <3>3. CASE k \in 1 .. Size - 1
      <4>1. k + 1 \in 1 .. before.n /\ dropped + (k + 1) = (dropped + 1) + k
        BY <3>3, <3>1, <2>2, <1>1
      <4>2. ByteAt(after, k) = ByteAt(before, k + 1)
        BY <3>3, <2>2, <1>5
      <4>3. ByteAt(before, k + 1) = IF dropped + (k + 1) <= st.n THEN ByteAt(st, dropped + (k + 1))
                                                              ELSE p[dropped + (k + 1) - st.n]
        BY <4>1, <1>4
      <4>4. ByteAt(after, k) = IF (dropped + 1) + k <= st.n
                                 THEN ByteAt(st, (dropped + 1) + k)
                                 ELSE p[(dropped + 1) + k - st.n]
        <5>0. dropped \in Int /\ st.n \in Int /\ k \in Int
          BY <1>1, <1>2, <3>3
        <5> HIDE DEF dropped
        <5>1. /\ dropped + (k + 1) = (dropped + 1) + k
              /\ dropped + (k + 1) - st.n = (dropped + 1) + k - st.n
          BY <5>0
        <5> QED
          BY <5>1, <4>2, <4>3
      <4> QED
        BY <4>4, <3>1
    <3> QED
      BY <3>1, <3>2, <3>3
  <2> QED
    BY <2>1, <2>2, <1>2
<1> QED
  BY <1>5, <1>6, <1>7 DEF Holds, after

LEMMA PutBytesHolds ==
  ASSUME NEW st \in BufferStates, Enclosing(st), NEW m \in Nat, NEW p \in [1 .. m -> Byte]
  PROVE  Holds(PutBytes(st, p), st, p, m)
<1> USE CircularAssumption
<1> DEFINE step == [pair \in (1 .. m) \X BufferStates |-> PutByte(pair[2], p[pair[1]])]
           Loop(f) == f = [i \in 0 .. m |-> IF i = 0 THEN st ELSE PutByte(f[i - 1], p[i])]
<1>1. Len(p) = m
  OBVIOUS
<1>2. \A i \in 0 .. m - 1 : \A before :
        Holds(before, st, p, i) => Holds(PutByte(before, p[i + 1]), st, p, i + 1)
  BY PutByteHolds
<1>3. ASSUME NEW f, Loop(f)
      PROVE  Holds(f[m], st, p, m)
  <2> DEFINE T == {i \in 0 .. m : Holds(f[i], st, p, i)}
  <2>1. 0 \in T
    <3>1. f[0] = st /\ st.n \in 0 .. Size
      BY <1>3 DEF BufferStates
    <3>2. Holds(st, st, p, 0)
      BY <3>1 DEF Holds
    <3> QED
      BY <3>1, <3>2
  <2>2. \A i \in 0 .. m - 1 : i \in T => i + 1 \in T
    <3> TAKE i \in 0 .. m - 1
    <3>1. f[i + 1] = PutByte(f[i], p[i + 1])
      BY <1>3
    <3> QED
      BY <3>1, <1>2
  <2> HIDE DEF T
  <2>3. 0 .. m \subseteq T
    BY <2>1, <2>2, BoundedInduction
  <2> QED
    BY <2>3 DEF T
<1>4. \E f : Loop(f)
  <2>1. step \in [(1 .. m) \X BufferStates -> BufferStates]
    <3> SUFFICES ASSUME NEW i \in 1 .. m, NEW s \in BufferStates
                 PROVE  PutByte(s, p[i]) \in BufferStates
      OBVIOUS
    <3>1. p[i] \in Byte
      OBVIOUS
    <3> QED
      BY <3>1, PutByteTypes
  <2> HIDE DEF step
  <2>4. step \in Steps(m, BufferStates)
    BY <2>1 DEF Steps
  <2>2. PICK f : Recursive(f, m, BufferStates, st, step)
    BY <2>4, RecursionExists
  <2>3. \A i \in 1 .. m : step[<<i, f[i - 1]>>] = PutByte(f[i - 1], p[i])
    BY <2>2 DEF step, Recursive
  <2>5. \A i \in 0 .. m : f[i] = IF i = 0 THEN st ELSE PutByte(f[i - 1], p[i])
    <3> TAKE i \in 0 .. m
    <3>1. CASE i = 0
      BY <3>1, <2>2 DEF Recursive
    <3>2. CASE i \in 1 .. m
      <4>1. f[i] = step[<<i, f[i - 1]>>]
        BY <3>2, <2>2 DEF Recursive
      <4> QED
        BY <3>2, <4>1, <2>3
    <3> QED
      BY <3>1, <3>2
  <2>6. f \in [0 .. m -> BufferStates]
    BY <2>2 DEF Recursive
  <2>7. Loop(f)
    BY <2>5, <2>6
  <2> HIDE DEF Loop
  <2> QED
    BY <2>7
<1>5. PutBytes(st, p) = (CHOOSE f : Loop(f))[m]
  BY <1>1 DEF PutBytes
<1>6. Loop(CHOOSE f : Loop(f))
  BY <1>4
<1> HIDE DEF Loop
<1> QED
  BY <1>3, <1>5, <1>6

CircularInv == CircularTypeOK /\ writePos = (readPos + count) % Size

Buffer == [d |-> data, r |-> readPos, w |-> writePos, n |-> count]

LEMMA BufferIsState ==
  ASSUME CircularInv
  PROVE  /\ Buffer \in BufferStates /\ Enclosing(Buffer) /\ Buffer.n = count
         /\ \A i \in 1 .. count : Contents[i] = ByteAt(Buffer, i)
BY DEF CircularInv, CircularTypeOK, Buffer, BufferStates, Enclosing, Contents, ByteAt

LEMMA ContentsAreBytes ==
  ASSUME CircularInv
  PROVE  Contents \in Seq(Byte) /\ Len(Contents) = count
<1>1. count \in Nat
  BY CircularAssumption DEF CircularInv, CircularTypeOK
<1>2. \A i \in 1 .. count : (readPos + i - 1) % Size \in 0 .. Size - 1
  BY CircularAssumption DEF CircularInv, CircularTypeOK
<1>3. Contents \in [1 .. count -> Byte]
  BY <1>2 DEF Contents, CircularInv, CircularTypeOK
<1>4. Contents \in Seq(Byte)
  BY <1>1, <1>3, SeqDef
<1> QED
  BY <1>1, <1>3, <1>4, LenProperties

LEMMA WriteKeepsNewest ==
  ASSUME CircularInv, NEW m \in Nat, NEW p \in [1 .. m -> Byte], WriteBytes(p)
  PROVE  /\ CircularInv'
         /\ Contents' = SampleQueue!Newest(Contents \o p)
<1> DEFINE after == PutBytes(Buffer, p)
<1> USE CircularAssumption
<1>1. Holds(after, Buffer, p, m)
  BY BufferIsState, PutBytesHolds
<1> HIDE DEF after
<1>2. /\ after \in BufferStates /\ Enclosing(after)
      /\ after.n = IF count + m <= Size THEN count + m ELSE Size
      /\ \A k \in 1 .. after.n :
           ByteAt(after, k) = IF count + m - after.n + k <= count
                                THEN ByteAt(Buffer, count + m - after.n + k)
                                ELSE p[count + m - after.n + k - count]
  BY <1>1, BufferIsState DEF Holds
<1>3. data' = after.d /\ readPos' = after.r /\ writePos' = after.w /\ count' = after.n
  BY DEF WriteBytes, after, Buffer
<1>4. CircularInv'
  BY <1>2, <1>3 DEF CircularInv, CircularTypeOK, BufferStates, Enclosing
<1>5. count \in 0 .. Size /\ count' \in 0 .. Size
  BY <1>4 DEF CircularInv, CircularTypeOK
<1>6. Contents' = [k \in 1 .. count' |-> ByteAt(after, k)]
  BY <1>3 DEF Contents, ByteAt
<1> DEFINE both == Contents \o p
<1>8. /\ both \in Seq(Byte) /\ Len(both) = count + m
      /\ \A i \in 1 .. count + m : both[i] = IF i <= count THEN Contents[i] ELSE p[i - count]
  <2>1. Contents \in Seq(Byte) /\ Len(Contents) = count
    BY ContentsAreBytes
  <2>2. p \in Seq(Byte) /\ Len(p) = m
    BY SeqDef
  <2> QED
    BY <2>1, <2>2, ConcatProperties
<1> HIDE DEF both
<1>9. /\ SampleQueue!Newest(both) \in Seq(Byte) /\ Len(SampleQueue!Newest(both)) = count'
      /\ \A k \in 1 .. count' : SampleQueue!Newest(both)[k] = both[count + m - count' + k]
  <2>1. CASE count + m <= Size
    <3>1. count' = count + m
      BY <2>1, <1>2, <1>3
    <3>2. SampleQueue!Newest(both) = both
      BY <2>1, <1>8 DEF SampleQueue!Newest
    <3>3. \A k \in 1 .. count' : count + m - count' + k = k
      BY <3>1, <1>5
    <3> QED
      BY <3>1, <3>2, <3>3, <1>8
  <2>2. CASE count + m > Size
    <3>1. count' = Size
      BY <2>2, <1>2, <1>3, <1>5
    <3> DEFINE first == Len(both) - Size + 1
               last == Len(both)
    <3>2. SampleQueue!Newest(both) = SubSeq(both, first, last)
      <4>1. ~(Len(both) <= Size)
        BY <2>2, <1>5, <1>8
      <4> QED
        BY <4>1 DEF SampleQueue!Newest
    <3>3. first \in 1 .. Len(both) + 1 /\ last \in 0 .. Len(both) /\ last - first + 1 = Size
          /\ first <= last
      BY <2>2, <1>5, <1>8
    <3>4. \A k \in 1 .. Size : first + k - 1 = count + m - Size + k
      BY <1>5, <1>8
    <3> HIDE DEF first, last
    <3>5. /\ SubSeq(both, first, last) \in Seq(Byte) /\ Len(SubSeq(both, first, last)) = Size
          /\ \A k \in 1 .. Size : SubSeq(both, first, last)[k] = both[first + k - 1]
      BY <3>3, <1>8, SubSeqProperties
    <3> QED
      BY <3>1, <3>2, <3>4, <3>5 DEF first, last
  <2> QED
    BY <2>1, <2>2, <1>5
<1>10. \A k \in 1 .. count' : Contents'[k] = both[count + m - count' + k]
  <2> SUFFICES ASSUME NEW k \in 1 .. count', NEW idx, idx = count + m - count' + k
               PROVE  ByteAt(after, k) = both[idx]
    BY <1>6
  <2>1. idx \in 1 .. count + m
    BY <1>2, <1>3, <1>5
  <2>2. both[idx] = IF idx <= count THEN Contents[idx] ELSE p[idx - count]
    BY <2>1, <1>8
  <2>3. ByteAt(after, k) = IF idx <= count THEN ByteAt(Buffer, idx) ELSE p[idx - count]
    <3>1. k \in 1 .. after.n /\ count + m - after.n + k = idx
      BY <1>3
    <3>2. ByteAt(after, k) = IF count + m - after.n + k <= count
                               THEN ByteAt(Buffer, count + m - after.n + k)
                               ELSE p[count + m - after.n + k - count]
      BY <1>2, <3>1
    <3>3. count + m - after.n + k - count = idx - count
      BY <3>1, <1>3, <1>5
    <3> QED
      BY <3>1, <3>2, <3>3
  <2>4. idx <= count => Contents[idx] = ByteAt(Buffer, idx)
    BY <2>1, BufferIsState
  <2> QED
    BY <2>2, <2>3, <2>4
<1>11. Contents' \in Seq(Byte) /\ Len(Contents') = count'
  <2>1. \A k \in 1 .. count' : (after.r + k - 1) % Size \in 0 .. Size - 1
    BY <1>2, <1>5 DEF BufferStates
  <2>2. Contents' \in [1 .. count' -> Byte]
    BY <1>2, <1>6, <2>1 DEF ByteAt, BufferStates
  <2>3. count' \in Nat
    BY <1>5
  <2> DEFINE now == Contents'
             n == count'
  <2>4. now \in [1 .. n -> Byte] /\ n \in Nat
    BY <2>2, <2>3
  <2> HIDE DEF now, n
  <2>5. now \in Seq(Byte) /\ Len(now) = n
    BY <2>4, SeqDef, LenProperties
  <2> QED
    BY <2>5 DEF now, n
<1>12. Contents' = SampleQueue!Newest(both)
  <2> DEFINE now == Contents'
             newest == SampleQueue!Newest(both)
  <2>1. /\ now \in Seq(Byte) /\ newest \in Seq(Byte) /\ Len(now) = Len(newest)
        /\ \A k \in 1 .. Len(now) : now[k] = newest[k]
    BY <1>9, <1>10, <1>11
  <2> HIDE DEF now, newest
  <2>2. now = newest
    BY <2>1, SeqEqual
  <2> QED
    BY <2>2 DEF now, newest
<1> QED
  BY <1>4, <1>12 DEF both

LEMMA ReadTakesOldest ==
  ASSUME CircularInv, NEW n \in 0 .. count,
         readPos' = (readPos + n) % Size, count' = count - n, data' = data, writePos' = writePos
  PROVE  CircularInv' /\ Contents' = SubSeq(Contents, n + 1, count)
<1> USE CircularAssumption
<1>1. /\ data \in [0 .. Size - 1 -> Byte] /\ count \in 0 .. Size
      /\ readPos \in 0 .. Size - 1 /\ writePos \in 0 .. Size - 1
      /\ writePos = (readPos + count) % Size
  BY DEF CircularInv, CircularTypeOK
<1>2. ASSUME NEW a \in 0 .. 2 * Size - 1
      PROVE  a % Size = Around(a)
  <2>1. a \in Nat /\ a < 2 * Size /\ Size \in Nat \ {0}
    OBVIOUS
  <2> QED
    BY <2>1, AroundOnce DEF Around
<1>3. readPos' = Around(readPos + n) /\ writePos = Around(readPos + count)
  <2>1. readPos + n \in 0 .. 2 * Size - 1 /\ readPos + count \in 0 .. 2 * Size - 1
    BY <1>1
  <2> QED
    BY <2>1, <1>1, <1>2
<1>4. readPos' \in 0 .. Size - 1 /\ count' \in 0 .. Size /\ count' \in Nat
  BY <1>1, <1>3 DEF Around
<1>5. writePos' = (readPos' + count') % Size
  <2>1. readPos' + count' \in 0 .. 2 * Size - 1
    BY <1>4
  <2>2. Around(readPos' + count') = Around(readPos + count)
    BY <1>1, <1>3 DEF Around
  <2> QED
    BY <2>1, <2>2, <1>2, <1>3
<1>6. CircularInv'
  BY <1>1, <1>4, <1>5 DEF CircularInv, CircularTypeOK
<1>7. \A i \in 1 .. count' : (readPos' + i - 1) % Size = (readPos + (n + i) - 1) % Size
  <2> TAKE i \in 1 .. count'
  <2>1. /\ readPos' + i - 1 \in 0 .. 2 * Size - 1
        /\ readPos + (n + i) - 1 \in 0 .. 2 * Size - 1
    BY <1>1, <1>4
  <2>2. Around(readPos' + i - 1) = Around(readPos + (n + i) - 1)
    BY <1>1, <1>3 DEF Around
  <2>3. /\ (readPos' + i - 1) % Size = Around(readPos' + i - 1)
        /\ (readPos + (n + i) - 1) % Size = Around(readPos + (n + i) - 1)
    BY <2>1, <1>2
  <2> QED
    BY <2>2, <2>3
<1> DEFINE k == count'
           now == Contents'
           rest == SubSeq(Contents, n + 1, count)
<1>8. Contents \in Seq(Byte) /\ Len(Contents) = count
  BY ContentsAreBytes
<1>9. /\ k \in Nat /\ k = count - n
      /\ now = [i \in 1 .. k |-> data[(readPos + (n + i) - 1) % Size]]
  BY <1>4, <1>7 DEF Contents
<1>10. /\ rest \in Seq(Byte) /\ Len(rest) = k
       /\ \A i \in 1 .. k : rest[i] = Contents[n + i]
  <2>1. \A i \in n + 1 .. count : Contents[i] \in Byte
    <3>1. \A i \in n + 1 .. count : i \in 1 .. Len(Contents)
      BY <1>8
    <3> QED
      BY <1>8, <3>1, ElementOfSeq
  <2>2. n + 1 \in Int /\ count \in Int
    BY <1>1
  <2>3. /\ rest \in Seq(Byte) /\ Len(rest) = IF n + 1 <= count THEN count - (n + 1) + 1 ELSE 0
        /\ \A i \in 1 .. count - (n + 1) + 1 : rest[i] = Contents[(n + 1) + i - 1]
    BY <2>1, <2>2, SubSeqProperties
  <2>4. /\ count - (n + 1) + 1 = k
        /\ (IF n + 1 <= count THEN count - (n + 1) + 1 ELSE 0) = k
        /\ \A i \in 1 .. k : (n + 1) + i - 1 = n + i
    BY <1>1, <1>9
  <2> HIDE DEF rest, k
  <2> QED
    BY <2>3, <2>4
<1>11. \A i \in 1 .. k : Contents[n + i] = data[(readPos + (n + i) - 1) % Size]
  <2>1. \A i \in 1 .. k : n + i \in 1 .. count
    BY <1>1
  <2> QED
    BY <2>1 DEF Contents
<1> HIDE DEF k, now, rest
<1>12. \A i \in 1 .. k : now[i] = rest[i]
  BY <1>9, <1>10, <1>11
<1>13. now \in Seq(Byte) /\ Len(now) = k
  <2>1. \A i \in 1 .. k : rest[i] \in Byte
    BY <1>10, ElementOfSeq
  <2>2. now \in [1 .. k -> Byte]
    BY <1>9, <1>12, <2>1
  <2>3. k \in Nat
    BY <1>9
  <2>4. now \in Seq(Byte)
    BY <2>2, <2>3, SeqDef
  <2>5. DOMAIN now = 1 .. k
    BY <2>2
  <2> QED
    BY <2>3, <2>4, <2>5, LenProperties
<1>14. now = rest
  BY <1>10, <1>12, <1>13, SeqEqual
<1> QED
  BY <1>6, <1>14 DEF now, rest

\* Through every wrap-around, and a write longer than the whole array, the
\* buffer is a queue that keeps the newest bytes (buffer.go:272-310).
THEOREM BufferImplementsDropOldest == CircularSpec => KeepsNewestBytes
<1>1. CircularInit => CircularInv /\ SampleQueue!DropOldestInit
  <2> SUFFICES ASSUME CircularInit PROVE CircularInv /\ SampleQueue!DropOldestInit
    OBVIOUS
  <2>1. data \in [0 .. Size - 1 -> Byte]
    <3>1. (CHOOSE b \in Byte : TRUE) \in Byte
      BY CircularAssumption
    <3> QED
      BY <3>1 DEF CircularInit
  <2>2. 0 \in 0 .. Size - 1 /\ 0 \in 0 .. Size /\ 0 = (0 + 0) % Size
    BY CircularAssumption, AroundOnce
  <2>3. CircularInv
    BY <2>1, <2>2 DEF CircularInit, CircularInv, CircularTypeOK
  <2>4. Contents = << >>
    BY <2>3, ContentsAreBytes, EmptySeq DEF CircularInit
  <2> QED
    BY <2>3, <2>4 DEF SampleQueue!DropOldestInit
<1>2. CircularInv /\ [CircularNext]_circularVars
        => CircularInv' /\ [SampleQueue!DropOldestNext]_<<Contents, FALSE>>
  <2> SUFFICES ASSUME CircularInv, [CircularNext]_circularVars
               PROVE  CircularInv' /\ [SampleQueue!DropOldestNext]_<<Contents, FALSE>>
    OBVIOUS
  <2> USE CircularAssumption
  <2>0. count \in 0 .. Size /\ Contents \in Seq(Byte) /\ Len(Contents) = count
    BY ContentsAreBytes DEF CircularInv, CircularTypeOK
  <2>1. ASSUME NEW n \in 0 .. count, Contents' = SubSeq(Contents, n + 1, count)
        PROVE  [SampleQueue!DropOldestNext]_<<Contents, FALSE>>
    <3>1. CASE n = 0
      <4>1. SubSeq(Contents, 1, Len(Contents)) = Contents
        BY <2>0, SubSeqFull
      <4> QED
        BY <2>0, <2>1, <3>1, <4>1
    <3>2. CASE n \in 1 .. count
      <4>1. SampleQueue!Get
        BY <2>0, <2>1, <3>2 DEF SampleQueue!Get
      <4> QED
        BY <4>1 DEF SampleQueue!DropOldestNext
    <3> QED
      BY <2>0, <3>1, <3>2
  <2>2. CASE WriteSome
    <3>0. PICK n \in 0 .. Size + 1 : \E p \in [1 .. n -> Byte] : WriteBytes(p)
      BY <2>2 DEF WriteSome
    <3>1. PICK p \in [1 .. n -> Byte] : WriteBytes(p)
      BY <3>0
    <3>2. CircularInv' /\ Contents' = SampleQueue!Newest(Contents \o p)
      BY <3>1, WriteKeepsNewest
    <3>3. CASE n = 0
      <4>1. p = << >>
        BY <3>3, EmptySeq
      <4>2. Contents \o p = Contents
        BY <2>0, <4>1, ConcatEmptySeq
      <4>3. SampleQueue!Newest(Contents) = Contents
        BY <2>0 DEF SampleQueue!Newest
      <4> QED
        BY <3>2, <4>2, <4>3
    <3>4. CASE n \in 1 .. Size + 1
      <4>1. SampleQueue!PutMany
        BY <3>2, <3>4 DEF SampleQueue!PutMany
      <4> QED
        BY <3>2, <4>1 DEF SampleQueue!DropOldestNext
    <3> QED
      BY <3>3, <3>4
  <2>3. CASE ReadSome
    <3>1. PICK len \in 1 .. Size + 1 : ReadBytes(len)
      BY <2>3 DEF ReadSome
    <3> DEFINE n == IF len > count THEN count ELSE len
    <3>2. n \in 0 .. count
      BY <2>0
    <3>3. /\ readPos' = (readPos + n) % Size /\ count' = count - n
          /\ data' = data /\ writePos' = writePos
      BY <3>1 DEF ReadBytes
    <3> HIDE DEF n
    <3> QED
      BY <3>2, <3>3, <2>1, ReadTakesOldest
  <2>4. CASE ResetCircular
    <3>1. CircularInv'
      <4>1. 0 \in 0 .. Size - 1 /\ 0 \in 0 .. Size /\ 0 = (0 + 0) % Size
        BY AroundOnce
      <4> QED
        BY <2>4, <4>1 DEF ResetCircular, CircularInv, CircularTypeOK
    <3>2. Contents' = << >>
      BY <2>4, EmptySeq DEF ResetCircular, Contents
    <3>3. SubSeq(Contents, count + 1, count) = << >>
      BY <2>0, SubSeqEmpty
    <3>4. count \in 0 .. count
      BY <2>0
    <3> QED
      BY <3>1, <3>2, <3>3, <3>4, <2>1
  <2>5. CASE UNCHANGED circularVars
    BY <2>5 DEF circularVars, CircularInv, CircularTypeOK, Contents
  <2> QED
    BY <2>2, <2>3, <2>4, <2>5 DEF CircularNext
<1> QED
  BY <1>1, <1>2, PTL DEF CircularSpec, KeepsNewestBytes, SampleQueue!DropOldestSpec

--------------------------------------------------------------------------------
(* The chunker: what has been cut off and what is pending is the whole     *)
(* audio, cut into frames from its start.                                  *)

LEMMA SubSeqIn ==
  ASSUME NEW S, NEW s \in Seq(S), NEW m \in Nat, 1 <= m, NEW n \in Nat,
         m <= n + 1, n <= Len(s)
  PROVE  /\ SubSeq(s, m, n) \in Seq(S) /\ Len(SubSeq(s, m, n)) = n - m + 1
         /\ \A i \in 1 .. n - m + 1 : SubSeq(s, m, n)[i] = s[m + i - 1]
<1>1. \A i \in m .. n : s[i] \in S
  <2>1. Len(s) \in Nat
    BY LenProperties
  <2>2. \A i \in m .. n : i \in 1 .. Len(s)
    BY <2>1
  <2> QED
    BY <2>2, ElementOfSeq
<1>2. /\ SubSeq(s, m, n) \in Seq(S) /\ Len(SubSeq(s, m, n)) = IF m <= n THEN n - m + 1 ELSE 0
      /\ \A i \in 1 .. n - m + 1 : SubSeq(s, m, n)[i] = s[m + i - 1]
  BY <1>1, SubSeqProperties
<1> QED
  BY <1>2

\* A part of a suffix is a part of the whole.
LEMMA PartOfSuffix ==
  ASSUME NEW S, NEW s \in Seq(S), NEW a \in Nat, a <= Len(s), NEW m \in Nat, 1 <= m,
         NEW n \in Nat, m <= n + 1, n <= Len(s) - a
  PROVE  SubSeq(SubSeq(s, a + 1, Len(s)), m, n) = SubSeq(s, a + m, a + n)
<1> DEFINE suffix == SubSeq(s, a + 1, Len(s))
           part   == SubSeq(suffix, m, n)
           direct == SubSeq(s, a + m, a + n)
<1>0. Len(s) \in Nat
  BY LenProperties
<1>1. /\ suffix \in Seq(S) /\ Len(suffix) = Len(s) - a
      /\ \A i \in 1 .. Len(s) - a : suffix[i] = s[a + i]
  <2>1. /\ suffix \in Seq(S) /\ Len(suffix) = Len(s) - (a + 1) + 1
        /\ \A i \in 1 .. Len(s) - (a + 1) + 1 : suffix[i] = s[(a + 1) + i - 1]
    BY <1>0, SubSeqIn
  <2>2. Len(s) - (a + 1) + 1 = Len(s) - a /\ \A i \in 1 .. Len(s) - a : (a + 1) + i - 1 = a + i
    BY <1>0
  <2> HIDE DEF suffix
  <2> QED
    BY <2>1, <2>2
<1> HIDE DEF suffix
<1>2. /\ part \in Seq(S) /\ Len(part) = n - m + 1
      /\ \A i \in 1 .. n - m + 1 : part[i] = suffix[m + i - 1]
  BY <1>1, SubSeqIn
<1>3. /\ direct \in Seq(S) /\ Len(direct) = (a + n) - (a + m) + 1
      /\ \A i \in 1 .. (a + n) - (a + m) + 1 : direct[i] = s[(a + m) + i - 1]
  <2>1. a + m \in Nat /\ a + n \in Nat /\ 1 <= a + m /\ a + m <= a + n + 1 /\ a + n <= Len(s)
    BY <1>0
  <2> QED
    BY <2>1, SubSeqIn
<1>4. \A i \in 1 .. n - m + 1 : part[i] = direct[i]
  <2> TAKE i \in 1 .. n - m + 1
  <2>1. m + i - 1 \in 1 .. Len(s) - a /\ a + (m + i - 1) = (a + m) + i - 1
    BY <1>0
  <2>2. i \in 1 .. (a + n) - (a + m) + 1
    OBVIOUS
  <2> HIDE DEF part, direct
  <2>3. part[i] = s[a + (m + i - 1)]
    BY <1>1, <1>2, <2>1
  <2> QED
    BY <1>3, <2>1, <2>2, <2>3
<1>5. Len(part) = Len(direct)
  BY <1>2, <1>3
<1> HIDE DEF part, direct
<1>6. part = direct
  BY <1>2, <1>3, <1>4, <1>5, SeqEqual
<1> QED
  BY <1>6 DEF part, direct, suffix

\* What is appended to a sequence continues each of its suffixes.
LEMMA SuffixGrows ==
  ASSUME NEW S, NEW s \in Seq(S), NEW t \in Seq(S), NEW a \in Nat, a <= Len(s)
  PROVE  SubSeq(s, a + 1, Len(s)) \o t = SubSeq(s \o t, a + 1, Len(s \o t))
<1> DEFINE suffix == SubSeq(s, a + 1, Len(s))
           u      == s \o t
           left   == suffix \o t
           right  == SubSeq(u, a + 1, Len(u))
<1>0. Len(s) \in Nat /\ Len(t) \in Nat
  BY LenProperties
<1>1. /\ suffix \in Seq(S) /\ Len(suffix) = Len(s) - a
      /\ \A i \in 1 .. Len(s) - a : suffix[i] = s[a + i]
  <2>1. /\ suffix \in Seq(S) /\ Len(suffix) = Len(s) - (a + 1) + 1
        /\ \A i \in 1 .. Len(s) - (a + 1) + 1 : suffix[i] = s[(a + 1) + i - 1]
    BY <1>0, SubSeqIn
  <2>2. Len(s) - (a + 1) + 1 = Len(s) - a /\ \A i \in 1 .. Len(s) - a : (a + 1) + i - 1 = a + i
    BY <1>0
  <2> HIDE DEF suffix
  <2> QED
    BY <2>1, <2>2
<1>2. /\ u \in Seq(S) /\ Len(u) = Len(s) + Len(t)
      /\ \A i \in 1 .. Len(s) + Len(t) : u[i] = IF i <= Len(s) THEN s[i] ELSE t[i - Len(s)]
  BY ConcatProperties
<1> HIDE DEF suffix, u
<1>3. /\ left \in Seq(S) /\ Len(left) = Len(suffix) + Len(t)
      /\ \A i \in 1 .. Len(suffix) + Len(t) :
           left[i] = IF i <= Len(suffix) THEN suffix[i] ELSE t[i - Len(suffix)]
  BY <1>1, ConcatProperties
<1>4. /\ right \in Seq(S) /\ Len(right) = Len(u) - (a + 1) + 1
      /\ \A i \in 1 .. Len(u) - (a + 1) + 1 : right[i] = u[(a + 1) + i - 1]
  <2>1. a + 1 \in Nat /\ Len(u) \in Nat /\ 1 <= a + 1 /\ a + 1 <= Len(u) + 1
    BY <1>0, <1>2
  <2> QED
    BY <1>2, <2>1, SubSeqIn
<1> HIDE DEF left, right
<1>5. \A i \in 1 .. Len(left) : left[i] = right[i]
  <2> SUFFICES ASSUME NEW i \in 1 .. Len(left), NEW k, k = a + i
               PROVE  left[i] = right[i]
    OBVIOUS
  <2>1. k \in 1 .. Len(s) + Len(t) /\ i \in 1 .. Len(u) - (a + 1) + 1 /\ (a + 1) + i - 1 = k
    BY <1>0, <1>1, <1>2, <1>3
  <2>2. right[i] = IF k <= Len(s) THEN s[k] ELSE t[k - Len(s)]
    BY <1>2, <1>4, <2>1
  <2>3. CASE i <= Len(s) - a
    <3>1. i \in 1 .. Len(s) - a /\ k <= Len(s)
      BY <1>0, <1>3, <2>3
    <3> QED
      BY <1>0, <1>1, <1>3, <2>2, <2>3, <3>1
  <2>4. CASE ~(i <= Len(s) - a)
    <3>1. ~(k <= Len(s)) /\ k - Len(s) = i - Len(suffix) /\ ~(i <= Len(suffix))
      BY <1>0, <1>1, <1>3, <2>4
    <3>2. i \in 1 .. Len(suffix) + Len(t)
      BY <1>3
    <3> QED
      BY <1>3, <2>2, <3>1, <3>2
  <2> QED
    BY <2>3, <2>4
<1>6. Len(left) = Len(right)
  BY <1>0, <1>1, <1>2, <1>3, <1>4
<1>7. left = right
  BY <1>3, <1>4, <1>5, <1>6, SeqEqual
<1> QED
  BY <1>7 DEF left, right, suffix, u

\* Nor does it change a part of it.
LEMMA PartStays ==
  ASSUME NEW S, NEW s \in Seq(S), NEW t \in Seq(S), NEW m \in Nat, 1 <= m, NEW n \in Nat,
         m <= n + 1, n <= Len(s)
  PROVE  SubSeq(s \o t, m, n) = SubSeq(s, m, n)
<1> DEFINE u    == s \o t
           part == SubSeq(s, m, n)
           same == SubSeq(u, m, n)
<1>0. Len(s) \in Nat /\ Len(t) \in Nat
  BY LenProperties
<1>1. /\ u \in Seq(S) /\ Len(u) = Len(s) + Len(t)
      /\ \A i \in 1 .. Len(s) + Len(t) : u[i] = IF i <= Len(s) THEN s[i] ELSE t[i - Len(s)]
  BY ConcatProperties
<1> HIDE DEF u
<1>2. /\ part \in Seq(S) /\ Len(part) = n - m + 1
      /\ \A i \in 1 .. n - m + 1 : part[i] = s[m + i - 1]
  BY SubSeqIn
<1>3. /\ same \in Seq(S) /\ Len(same) = n - m + 1
      /\ \A i \in 1 .. n - m + 1 : same[i] = u[m + i - 1]
  BY <1>0, <1>1, SubSeqIn
<1>4. \A i \in 1 .. n - m + 1 : m + i - 1 \in 1 .. Len(s) + Len(t) /\ m + i - 1 <= Len(s)
  BY <1>0
<1> HIDE DEF part, same
<1>5. \A i \in 1 .. n - m + 1 : part[i] = same[i]
  BY <1>1, <1>2, <1>3, <1>4
<1>6. part = same
  BY <1>2, <1>3, <1>5, SeqEqual
<1> QED
  BY <1>6 DEF part, same, u

LEMMA QuotientIs ==
  ASSUME NEW a \in Nat, NEW d \in Nat \ {0}, NEW q \in Nat, NEW r \in 0 .. d - 1,
         a = q * d + r
  PROVE  a \div d = q
OBVIOUS

Bytes      == 1 .. MaxBytes
Frames     == [1 .. FrameSize -> Bytes]
LoopStates == [cut : Seq(Frames), rest : Seq(Bytes)]

\* The i-th frame of the whole.
FrameOf(whole, i) == SubSeq(whole, (i - 1) * FrameSize + 1, i * FrameSize)

\* After n frames of the whole, st has cut off the next ones and has the rest.
Cuts(st, whole, n) ==
  /\ st \in LoopStates
  /\ (n + Len(st.cut)) * FrameSize <= Len(whole)
  /\ \A i \in 1 .. Len(st.cut) : st.cut[i] = FrameOf(whole, n + i)
  /\ st.rest = SubSeq(whole, (n + Len(st.cut)) * FrameSize + 1, Len(whole))

LEMMA FrameTypes ==
  ASSUME NEW whole \in Seq(Bytes), NEW i \in Nat, 1 <= i, i * FrameSize <= Len(whole)
  PROVE  FrameOf(whole, i) \in Frames
<1> USE ChunkerAssumption
<1> DEFINE first == (i - 1) * FrameSize + 1
           last  == i * FrameSize
           part  == SubSeq(whole, first, last)
<1>1. /\ first \in Nat /\ 1 <= first /\ last \in Nat /\ last - first + 1 = FrameSize
      /\ first <= last + 1 /\ last <= Len(whole)
  <2>1. i - 1 \in Nat /\ FrameSize \in Nat
    OBVIOUS
  <2>2. (i - 1) * FrameSize \in Nat /\ i * FrameSize = (i - 1) * FrameSize + FrameSize
    BY <2>1
  <2> QED
    BY <2>1, <2>2
<1> HIDE DEF first, last
<1>2. part \in Seq(Bytes) /\ Len(part) = FrameSize
  BY <1>1, SubSeqIn
<1> HIDE DEF part
<1>3. part \in [1 .. FrameSize -> Bytes]
  BY <1>2, LenProperties
<1> QED
  BY <1>3 DEF FrameOf, Frames, part, first, last

LEMMA CutOneTypes ==
  ASSUME NEW st \in LoopStates
  PROVE  CutOne(st) \in LoopStates
<1> USE ChunkerAssumption
<1>1. st.cut \in Seq(Frames) /\ st.rest \in Seq(Bytes) /\ Len(st.rest) \in Nat
  BY LenProperties DEF LoopStates
<1>2. CASE Len(st.rest) < FrameSize
  BY <1>2 DEF CutOne
<1>3. CASE ~(Len(st.rest) < FrameSize)
  <2>1. SubSeq(st.rest, 1, FrameSize) \in Frames
    <3>1. FrameOf(st.rest, 1) \in Frames
      BY <1>1, <1>3, FrameTypes
    <3>2. (1 - 1) * FrameSize + 1 = 1 /\ 1 * FrameSize = FrameSize
      OBVIOUS
    <3> QED
      BY <3>1, <3>2 DEF FrameOf
  <2>2. SubSeq(st.rest, FrameSize + 1, Len(st.rest)) \in Seq(Bytes)
    BY <1>1, <1>3, SubSeqIn
  <2>3. Append(st.cut, SubSeq(st.rest, 1, FrameSize)) \in Seq(Frames)
    BY <1>1, <2>1, AppendProperties
  <2>4. CutOne(st) = [cut  |-> Append(st.cut, SubSeq(st.rest, 1, FrameSize)),
                      rest |-> SubSeq(st.rest, FrameSize + 1, Len(st.rest))]
    BY <1>3 DEF CutOne
  <2> QED
    BY <2>2, <2>3, <2>4 DEF LoopStates
<1> QED
  BY <1>2, <1>3

\* A turn of the loop cuts off the next frame, if there is one.
LEMMA CutOneCuts ==
  ASSUME NEW whole \in Seq(Bytes), NEW n \in Nat, NEW st, Cuts(st, whole, n)
  PROVE  /\ Cuts(CutOne(st), whole, n)
         /\ IF Len(st.rest) < FrameSize
              THEN CutOne(st) = st
              ELSE Len(CutOne(st).cut) = Len(st.cut) + 1
<1> USE ChunkerAssumption
<1> DEFINE c == Len(st.cut)
           a == (n + c) * FrameSize
           next == CutOne(st)
<1>1. /\ st \in LoopStates /\ a <= Len(whole) /\ st.rest = SubSeq(whole, a + 1, Len(whole))
      /\ \A i \in 1 .. c : st.cut[i] = FrameOf(whole, n + i)
  BY DEF Cuts
<1>2. st.cut \in Seq(Frames) /\ c \in Nat /\ Len(whole) \in Nat
  BY <1>1, LenProperties DEF LoopStates
<1>3. a \in Nat /\ (n + (c + 1)) * FrameSize = a + FrameSize /\ (n + (c + 1) - 1) * FrameSize = a
  <2>1. n + c \in Nat /\ FrameSize \in Nat /\ n + (c + 1) - 1 = n + c
    BY <1>2
  <2>2. (n + c) * FrameSize \in Nat
    BY <2>1
  <2>3. (n + c + 1) * FrameSize = (n + c) * FrameSize + FrameSize
    BY <2>1
  <2>4. n + (c + 1) = n + c + 1
    BY <1>2
  <2> QED
    BY <2>1, <2>2, <2>3, <2>4
<1>a. ASSUME NEW i, i = n + (c + 1)
      PROVE  i * FrameSize = a + FrameSize /\ (i - 1) * FrameSize = a
  <2>1. i - 1 = n + c
    BY <1>2, <1>a
  <2>2. (i - 1) * FrameSize = a
    BY <2>1
  <2>3. i * FrameSize = a + FrameSize
    BY <1>3, <1>a
  <2> QED
    BY <2>2, <2>3
<1>4. next \in LoopStates
  BY <1>1, CutOneTypes
<1>5. CASE Len(st.rest) < FrameSize
  <2>1. CutOne(st) = st
    BY <1>5 DEF CutOne
  <2> QED
    BY <1>5, <2>1
<1>6. CASE ~(Len(st.rest) < FrameSize)
  <2>1. next = [cut  |-> Append(st.cut, SubSeq(st.rest, 1, FrameSize)),
                rest |-> SubSeq(st.rest, FrameSize + 1, Len(st.rest))]
    BY <1>6 DEF CutOne
  <2>2. Len(st.rest) = Len(whole) - a
    <3> HIDE DEF a
    <3>0. a + 1 \in Nat /\ 1 <= a + 1 /\ a + 1 <= Len(whole) + 1
      BY <1>1, <1>2, <1>3
    <3>1. Len(SubSeq(whole, a + 1, Len(whole))) = Len(whole) - (a + 1) + 1
      BY <1>2, <3>0, SubSeqIn
    <3> QED
      BY <1>1, <1>2, <1>3, <3>1
  <2> HIDE DEF a, c, next
  <2>3. SubSeq(st.rest, 1, FrameSize) = SubSeq(whole, a + 1, a + FrameSize)
    BY <1>1, <1>2, <1>3, <1>6, <2>2, PartOfSuffix
  <2>4. SubSeq(st.rest, FrameSize + 1, Len(st.rest))
          = SubSeq(whole, a + FrameSize + 1, Len(whole))
    <3>1. SubSeq(SubSeq(whole, a + 1, Len(whole)), FrameSize + 1, Len(whole) - a)
            = SubSeq(whole, a + (FrameSize + 1), a + (Len(whole) - a))
      BY <1>1, <1>2, <1>3, <1>6, <2>2, PartOfSuffix
    <3>2. a + (FrameSize + 1) = a + FrameSize + 1 /\ a + (Len(whole) - a) = Len(whole)
      BY <1>2, <1>3
    <3> QED
      BY <3>1, <3>2, <1>1, <2>2
  <2>5. SubSeq(whole, a + 1, a + FrameSize) = FrameOf(whole, n + (c + 1))
    <3> DEFINE i == n + (c + 1)
    <3>1. i * FrameSize = a + FrameSize /\ (i - 1) * FrameSize = a
      BY <1>a
    <3> HIDE DEF i
    <3>2. SubSeq(whole, a + 1, a + FrameSize) = FrameOf(whole, i)
      BY <3>1 DEF FrameOf
    <3> QED
      BY <3>2 DEF i
  <2>6. SubSeq(st.rest, 1, FrameSize) \in Frames
    <3>1. n + (c + 1) \in Nat /\ 1 <= n + (c + 1) /\ (n + (c + 1)) * FrameSize <= Len(whole)
      BY <1>2, <1>3, <1>6, <2>2
    <3> QED
      BY <3>1, <2>3, <2>5, FrameTypes
  <2>7. /\ Len(next.cut) = c + 1 /\ next.cut[c + 1] = FrameOf(whole, n + (c + 1))
        /\ \A i \in 1 .. c : next.cut[i] = st.cut[i]
    <3>1. next.cut = Append(st.cut, SubSeq(st.rest, 1, FrameSize))
      BY <2>1
    <3>2. /\ Len(next.cut) = Len(st.cut) + 1
          /\ next.cut[Len(st.cut) + 1] = SubSeq(st.rest, 1, FrameSize)
          /\ \A i \in 1 .. Len(st.cut) : next.cut[i] = st.cut[i]
      BY <3>1, <1>2, <2>6, AppendProperties
    <3> QED
      BY <3>2, <2>3, <2>5 DEF c
  <2>8. next.rest = SubSeq(whole, (n + (c + 1)) * FrameSize + 1, Len(whole))
    BY <2>1, <2>4, <1>3
  <2>9. (n + (c + 1)) * FrameSize <= Len(whole)
    BY <1>2, <1>3, <1>6, <2>2
  <2>10. \A i \in 1 .. c + 1 : next.cut[i] = FrameOf(whole, n + i)
    <3> TAKE i \in 1 .. c + 1
    <3>1. CASE i = c + 1
      BY <3>1, <2>7
    <3>2. CASE i \in 1 .. c
      BY <3>2, <2>7, <1>1
    <3> QED
      BY <3>1, <3>2, <1>2
  <2>11. Cuts(next, whole, n)
    BY <1>4, <2>7, <2>8, <2>9, <2>10 DEF Cuts
  <2> QED
    BY <1>6, <2>7, <2>11 DEF next, c
<1> QED
  BY <1>5, <1>6

\* With a turn for each byte that was written, nothing is left to cut.
LEMMA LoopCutsAll ==
  ASSUME NEW whole \in Seq(Bytes), NEW n \in Nat, n * FrameSize <= Len(whole),
         NEW buffer, buffer = SubSeq(whole, n * FrameSize + 1, Len(whole)),
         NEW turns \in Nat, Len(buffer) < FrameSize + turns
  PROVE  /\ Cuts(CutLoop(buffer, turns), whole, n)
         /\ Len(CutLoop(buffer, turns).rest) < FrameSize
<1> USE ChunkerAssumption
<1> DEFINE start   == [cut |-> << >>, rest |-> buffer]
           Loop(f) == f = [i \in 0 .. turns |-> IF i = 0 THEN start ELSE CutOne(f[i - 1])]
           Good(st, i) == /\ Cuts(st, whole, n)
                          /\ Len(st.rest) < FrameSize \/ Len(st.cut) = i
<1>0. n * FrameSize \in Nat /\ Len(whole) \in Nat
  BY LenProperties
<1>1. Good(start, 0)
  <2>1. buffer \in Seq(Bytes)
    <3> DEFINE a == n * FrameSize
    <3>1. a \in Nat /\ a <= Len(whole) /\ buffer = SubSeq(whole, a + 1, Len(whole))
      BY <1>0
    <3> HIDE DEF a
    <3>2. a + 1 \in Nat /\ 1 <= a + 1 /\ a + 1 <= Len(whole) + 1
      BY <1>0, <3>1
    <3> QED
      BY <1>0, <3>1, <3>2, SubSeqIn
  <2>2. start \in LoopStates
    BY <2>1, EmptySeq DEF LoopStates
  <2>3. start.cut = << >> /\ start.rest = buffer /\ Len(start.cut) = 0 /\ n + 0 = n
    BY EmptySeq
  <2> HIDE DEF start
  <2>4. n + Len(start.cut) = n
    BY <2>3
  <2>5. \A i \in 1 .. Len(start.cut) : start.cut[i] = FrameOf(whole, n + i)
    BY <2>3
  <2>6. /\ (n + Len(start.cut)) * FrameSize <= Len(whole)
        /\ start.rest = SubSeq(whole, (n + Len(start.cut)) * FrameSize + 1, Len(whole))
    BY <2>3, <2>4, Zenon
  <2>7. Cuts(start, whole, n)
    BY <2>2, <2>5, <2>6 DEF Cuts
  <2> QED
    BY <2>3, <2>7
<1>2. ASSUME NEW i \in 0 .. turns - 1, NEW st, Good(st, i)
      PROVE  Good(CutOne(st), i + 1)
  <2>1. /\ Cuts(CutOne(st), whole, n)
        /\ IF Len(st.rest) < FrameSize
             THEN CutOne(st) = st
             ELSE Len(CutOne(st).cut) = Len(st.cut) + 1
    BY <1>2, CutOneCuts
  <2>2. CASE Len(st.rest) < FrameSize
    BY <2>1, <2>2
  <2>3. CASE ~(Len(st.rest) < FrameSize)
    <3>1. Len(CutOne(st).cut) = i + 1
      BY <1>2, <2>1, <2>3
    <3> QED
      BY <2>1, <3>1
  <2> QED
    BY <2>2, <2>3
<1> HIDE DEF Good
<1>3. ASSUME NEW f, Loop(f)
      PROVE  Good(f[turns], turns)
  <2> DEFINE T == {i \in 0 .. turns : Good(f[i], i)}
  <2>1. 0 \in T
    <3>1. f[0] = start
      BY <1>3
    <3> QED
      BY <3>1, <1>1
  <2>2. \A i \in 0 .. turns - 1 : i \in T => i + 1 \in T
    <3> TAKE i \in 0 .. turns - 1
    <3>1. f[i + 1] = CutOne(f[i])
      <4>1. i + 1 \in 0 .. turns /\ i + 1 # 0 /\ (i + 1) - 1 = i
        OBVIOUS
      <4> HIDE DEF start
      <4> QED
        BY <1>3, <4>1
    <3> QED
      BY <3>1, <1>2
  <2> HIDE DEF T
  <2>3. 0 .. turns \subseteq T
    BY <2>1, <2>2, BoundedInduction
  <2> QED
    BY <2>3 DEF T
<1>4. \E f : Loop(f)
  <2> DEFINE step == [pair \in (1 .. turns) \X LoopStates |-> CutOne(pair[2])]
  <2>1. step \in Steps(turns, LoopStates)
    BY CutOneTypes DEF Steps
  <2>2. start \in LoopStates
    BY <1>1 DEF Good, Cuts
  <2> HIDE DEF step, start
  <2>3. PICK f : Recursive(f, turns, LoopStates, start, step)
    BY <2>1, <2>2, RecursionExists
  <2>4. \A i \in 0 .. turns : f[i] = IF i = 0 THEN start ELSE CutOne(f[i - 1])
    <3> TAKE i \in 0 .. turns
    <3>1. CASE i = 0
      BY <3>1, <2>3 DEF Recursive
    <3>2. CASE i \in 1 .. turns
      <4>1. f[i] = step[<<i, f[i - 1]>>] /\ f[i - 1] \in LoopStates
        BY <3>2, <2>3 DEF Recursive
      <4>2. step[<<i, f[i - 1]>>] = CutOne(f[i - 1])
        BY <3>2, <4>1 DEF step
      <4> QED
        BY <3>2, <4>1, <4>2
    <3> QED
      BY <3>1, <3>2
  <2>5. f \in [0 .. turns -> LoopStates]
    BY <2>3 DEF Recursive
  <2>6. Loop(f)
    BY <2>4, <2>5
  <2> HIDE DEF Loop
  <2> QED
    BY <2>6
<1>5. CutLoop(buffer, turns) = (CHOOSE f : Loop(f))[turns]
  BY DEF CutLoop
<1>6. Loop(CHOOSE f : Loop(f))
  BY <1>4
<1> HIDE DEF Loop
<1> DEFINE st == CutLoop(buffer, turns)
<1>7. Good(st, turns)
  BY <1>3, <1>5, <1>6
<1> HIDE DEF st
<1>8. Cuts(st, whole, n) /\ (Len(st.rest) < FrameSize \/ Len(st.cut) = turns)
  BY <1>7 DEF Good
<1>9. ASSUME Len(st.cut) = turns
      PROVE  Len(st.rest) < FrameSize
  <2> DEFINE a == n * FrameSize
             b == (n + turns) * FrameSize
  <2>1. a \in Nat /\ b \in Nat /\ b = a + turns * FrameSize /\ turns <= turns * FrameSize
        /\ turns * FrameSize \in Nat
    BY <1>0
  <2>2. /\ a <= Len(whole) /\ buffer = SubSeq(whole, a + 1, Len(whole))
        /\ b <= Len(whole) /\ st.rest = SubSeq(whole, b + 1, Len(whole))
    BY <1>8, <1>9 DEF Cuts
  <2>3. turns <= b - a
    BY <2>1
  <2> HIDE DEF a, b
  <2>4. /\ a + 1 \in Nat /\ 1 <= a + 1 /\ a + 1 <= Len(whole) + 1
        /\ b + 1 \in Nat /\ 1 <= b + 1 /\ b + 1 <= Len(whole) + 1
    BY <1>0, <2>1, <2>2
  <2>5. Len(buffer) = Len(whole) - (a + 1) + 1
    BY <1>0, <2>2, <2>4, SubSeqIn
  <2>6. Len(st.rest) = Len(whole) - (b + 1) + 1
    BY <1>0, <2>2, <2>4, SubSeqIn
  <2>7. a \in Nat /\ b \in Nat
    BY <2>1
  <2>8. Len(buffer) = Len(whole) - a /\ Len(st.rest) = Len(whole) - b
    BY <1>0, <2>5, <2>6, <2>7
  <2>9. Len(buffer) < FrameSize + turns
    OBVIOUS
  <2> QED
    BY <1>0, <2>3, <2>7, <2>8, <2>9
<1> QED
  BY <1>8, <1>9 DEF st

--------------------------------------------------------------------------------

ChunkerInv == ChunkerTypeOK /\ FramesAreTheStream

\* What FramesAreTheStream says of the parts.
LEMMA StreamParts ==
  ASSUME NEW whole \in Seq(Bytes), NEW cut \in Seq(Frames), NEW rest, Len(rest) < FrameSize
  PROVE  ([cut |-> cut, rest |-> rest] = ChunkStatic(whole))
           <=> /\ Len(cut) * FrameSize <= Len(whole)
               /\ \A i \in 1 .. Len(cut) : cut[i] = FrameOf(whole, i)
               /\ rest = SubSeq(whole, Len(cut) * FrameSize + 1, Len(whole))
<1> USE ChunkerAssumption
<1> DEFINE c == Len(cut)
           L == Len(whole)
           n == L \div FrameSize
<1>0. c \in Nat /\ L \in Nat /\ DOMAIN cut = 1 .. c
  BY LenProperties
<1>1. n \in Nat /\ n * FrameSize <= L
  BY <1>0
<1>2. ([cut |-> cut, rest |-> rest] = ChunkStatic(whole))
        <=> /\ cut = [i \in 1 .. n |-> FrameOf(whole, i)]
            /\ rest = SubSeq(whole, n * FrameSize + 1, L)
  BY DEF ChunkStatic, FrameOf
<1>3. ASSUME cut = [i \in 1 .. n |-> FrameOf(whole, i)]
      PROVE  c = n
  <2>1. DOMAIN cut = 1 .. n
    BY <1>3
  <2> HIDE DEF n, c
  <2> QED
    BY <1>0, <1>1, <2>1
<1>4. ASSUME c * FrameSize <= L, rest = SubSeq(whole, c * FrameSize + 1, L)
      PROVE  c = n
  <2> DEFINE a == c * FrameSize
  <2>1. a \in Nat
    BY <1>0
  <2>2. Len(rest) = L - a
    <3>1. a <= L /\ rest = SubSeq(whole, a + 1, L)
      BY <1>4
    <3> HIDE DEF a
    <3>2. a + 1 \in Nat /\ 1 <= a + 1 /\ a + 1 <= L + 1
      BY <1>0, <2>1, <3>1
    <3>3. Len(rest) = L - (a + 1) + 1
      BY <1>0, <3>1, <3>2, SubSeqIn
    <3> QED
      BY <1>0, <2>1, <3>3
  <2> DEFINE r == L - a
  <2>3. r \in 0 .. FrameSize - 1
    BY <1>0, <1>4, <2>1, <2>2
  <2>4. L = c * FrameSize + r
    BY <1>0, <2>1
  <2> HIDE DEF r, c, L
  <2>5. L \div FrameSize = c
    BY <1>0, <2>3, <2>4, QuotientIs
  <2> QED
    BY <2>5
<1> HIDE DEF n, c, L
<1>5. (\A i \in 1 .. c : cut[i] = FrameOf(whole, i)) <=> cut = [i \in 1 .. c |-> FrameOf(whole, i)]
  BY <1>0
<1> QED
  BY <1>1, <1>2, <1>3, <1>4, <1>5 DEF c, L

LEMMA WriteDataInv ==
  ASSUME ChunkerInv, NEW m \in 0 .. MaxBytes - Len(arrived),
         NEW bytes, bytes = [i \in 1 .. m |-> Len(arrived) + i], WriteData(bytes)
  PROVE  ChunkerInv'
<1> USE ChunkerAssumption
<1> DEFINE whole == arrived \o bytes
           n     == Len(cutOff)
           loop  == CutLoop(pending \o bytes, Len(bytes))
           cuts  == cutOff \o loop.cut
<1>1. /\ pending \in Seq(Bytes) /\ Len(pending) < FrameSize
      /\ cutOff \in Seq(Frames) /\ arrived \in Seq(Bytes)
  BY DEF ChunkerInv, ChunkerTypeOK, Bytes, Frames
<1>2. Len(arrived) \in Nat /\ Len(pending) \in Nat /\ n \in Nat
  BY <1>1, LenProperties
<1>3. bytes \in Seq(Bytes) /\ Len(bytes) = m /\ m \in Nat
  <2>1. m \in Nat
    BY <1>2
  <2>2. bytes \in [1 .. m -> Bytes]
    BY <1>2 DEF Bytes
  <2>3. bytes \in Seq(Bytes)
    BY <2>1, <2>2, SeqDef
  <2>4. DOMAIN bytes = 1 .. m
    BY <2>2
  <2> QED
    BY <2>1, <2>3, <2>4, LenProperties
<1>4. /\ n * FrameSize <= Len(arrived)
      /\ \A i \in 1 .. n : cutOff[i] = FrameOf(arrived, i)
      /\ pending = SubSeq(arrived, n * FrameSize + 1, Len(arrived))
  BY <1>1, StreamParts DEF ChunkerInv, FramesAreTheStream
<1>5. whole \in Seq(Bytes) /\ Len(whole) = Len(arrived) + m
  BY <1>1, <1>3, ConcatProperties
<1>6. /\ pending \o bytes = SubSeq(whole, n * FrameSize + 1, Len(whole))
      /\ Len(pending \o bytes) = Len(pending) + m
  <2> DEFINE a == n * FrameSize
  <2>1. a \in Nat
    BY <1>2
  <2>2. a <= Len(arrived) /\ pending = SubSeq(arrived, a + 1, Len(arrived))
    BY <1>4
  <2> HIDE DEF a
  <2>3. pending \o bytes = SubSeq(whole, a + 1, Len(whole))
    BY <1>1, <1>3, <2>1, <2>2, SuffixGrows
  <2>4. Len(pending \o bytes) = Len(pending) + m
    BY <1>1, <1>3, ConcatProperties
  <2> QED
    BY <2>3, <2>4 DEF a
<1>7. Cuts(loop, whole, n) /\ Len(loop.rest) < FrameSize
  <2> DEFINE buffer == pending \o bytes
  <2>1. buffer = SubSeq(whole, n * FrameSize + 1, Len(whole)) /\ Len(buffer) < FrameSize + m
    <3>1. buffer = SubSeq(whole, n * FrameSize + 1, Len(whole))
      BY <1>6
    <3>2. Len(buffer) = Len(pending) + m
      BY <1>6
    <3> HIDE DEF buffer, whole, n
    <3>3. Len(buffer) < FrameSize + m
      BY <1>1, <1>2, <1>3, <3>2
    <3> QED
      BY <3>1, <3>3
  <2>2. n * FrameSize <= Len(whole)
    <3> DEFINE a == n * FrameSize
    <3>1. a \in Nat /\ a <= Len(arrived)
      BY <1>2, <1>4
    <3> HIDE DEF a
    <3>2. a <= Len(whole)
      BY <1>2, <1>3, <1>5, <3>1
    <3> QED
      BY <3>2 DEF a
  <2> HIDE DEF buffer, whole, n
  <2>3. Cuts(CutLoop(buffer, m), whole, n) /\ Len(CutLoop(buffer, m).rest) < FrameSize
    BY <1>2, <1>3, <1>5, <2>1, <2>2, LoopCutsAll
  <2> QED
    BY <1>3, <2>3 DEF buffer
<1>8. cutOff' = cuts /\ pending' = loop.rest /\ arrived' = whole
  BY DEF WriteData
<1> HIDE DEF loop
<1>9. /\ loop.cut \in Seq(Frames) /\ loop.rest \in Seq(Bytes) /\ Len(loop.cut) \in Nat
      /\ \A i \in 1 .. Len(loop.cut) : loop.cut[i] = FrameOf(whole, n + i)
      /\ (n + Len(loop.cut)) * FrameSize <= Len(whole)
      /\ loop.rest = SubSeq(whole, (n + Len(loop.cut)) * FrameSize + 1, Len(whole))
  BY <1>7, LenProperties DEF Cuts, LoopStates
<1>10. /\ cuts \in Seq(Frames) /\ Len(cuts) = n + Len(loop.cut)
       /\ \A i \in 1 .. n + Len(loop.cut) :
            cuts[i] = IF i <= n THEN cutOff[i] ELSE loop.cut[i - n]
  BY <1>1, <1>9, ConcatProperties
<1> HIDE DEF cuts
<1>11. \A i \in 1 .. Len(cuts) : cuts[i] = FrameOf(whole, i)
  <2> SUFFICES ASSUME NEW i \in 1 .. n + Len(loop.cut)
               PROVE  cuts[i] = FrameOf(whole, i)
    BY <1>10
  <2>1. CASE i <= n
    <3>1. i \in 1 .. n
      BY <1>2, <2>1
    <3> DEFINE first == (i - 1) * FrameSize + 1
               last  == i * FrameSize
    <3>2. first \in Nat /\ 1 <= first /\ first <= last + 1 /\ last \in Nat /\ last <= n * FrameSize
      <4>1. i - 1 \in Nat /\ n - i \in Nat /\ i \in Nat
        BY <1>2, <3>1
      <4>2. (i - 1) * FrameSize \in Nat /\ (n - i) * FrameSize \in Nat
        BY <4>1
      <4>3. /\ i * FrameSize = (i - 1) * FrameSize + FrameSize
            /\ n * FrameSize = i * FrameSize + (n - i) * FrameSize
        BY <1>2, <4>1
      <4> HIDE DEF first, last
      <4>4. first = (i - 1) * FrameSize + 1 /\ last = i * FrameSize
        BY DEF first, last
      <4> DEFINE before == (i - 1) * FrameSize
                 after  == (n - i) * FrameSize
      <4>5. /\ first = before + 1 /\ last = before + FrameSize
            /\ n * FrameSize = last + after
        BY <4>3, <4>4
      <4>6. before \in Nat /\ after \in Nat /\ FrameSize \in Nat
        BY <4>2, <1>2
      <4> HIDE DEF before, after
      <4> QED
        BY <4>5, <4>6
    <3>3. last <= Len(arrived)
      <4> DEFINE a == n * FrameSize
      <4>1. a \in Nat /\ a <= Len(arrived) /\ last <= a /\ last \in Nat
        BY <1>2, <1>4, <3>2
      <4> HIDE DEF a, last
      <4> QED
        BY <1>2, <4>1
    <3> HIDE DEF first, last
    <3>4. SubSeq(whole, first, last) = SubSeq(arrived, first, last)
      BY <1>1, <1>3, <3>2, <3>3, PartStays
    <3>5. FrameOf(whole, i) = FrameOf(arrived, i)
      BY <3>4 DEF FrameOf, first, last
    <3> QED
      BY <1>4, <1>10, <2>1, <3>1, <3>5
  <2>2. CASE ~(i <= n)
    <3>1. i - n \in 1 .. Len(loop.cut) /\ n + (i - n) = i
      BY <1>2, <1>9, <2>2
    <3> QED
      BY <1>9, <1>10, <2>2, <3>1
  <2> QED
    BY <2>1, <2>2
<1>12. [cut |-> cuts, rest |-> loop.rest] = ChunkStatic(whole)
  <2>1. Len(cuts) * FrameSize <= Len(whole)
    BY <1>9, <1>10
  <2>2. loop.rest = SubSeq(whole, Len(cuts) * FrameSize + 1, Len(whole))
    BY <1>9, <1>10
  <2> HIDE DEF whole
  <2> QED
    BY <1>5, <1>7, <1>10, <1>11, <2>1, <2>2, StreamParts
<1>13. FramesAreTheStream'
  BY <1>8, <1>12 DEF FramesAreTheStream
<1>14. ChunkerTypeOK'
  BY <1>5, <1>7, <1>8, <1>9, <1>10 DEF ChunkerTypeOK, Bytes, Frames
<1> QED
  BY <1>13, <1>14 DEF ChunkerInv

LEMMA NothingArrivedInv ==
  /\ ChunkerInit => ChunkerInv
  /\ Forget => ChunkerInv'
<1> USE ChunkerAssumption
<1>1. << >> \in Seq(Bytes) /\ << >> \in Seq(Frames) /\ Len(<< >>) = 0
  BY EmptySeq
<1>2. [cut |-> << >>, rest |-> << >>] = ChunkStatic(<< >>)
  <2>1. 0 * FrameSize = 0
    OBVIOUS
  <2>2. SubSeq(<< >>, 1, 0) = << >>
    BY SubSeqEmpty
  <2>3. << >> = SubSeq(<< >>, Len(<< >>) * FrameSize + 1, Len(<< >>))
    BY <1>1, <2>1, <2>2
  <2>4. \A i \in 1 .. Len(<< >>) : << >>[i] = FrameOf(<< >>, i)
    BY <1>1
  <2>5. Len(<< >>) < FrameSize /\ Len(<< >>) * FrameSize <= Len(<< >>)
    BY <1>1, <2>1
  <2> QED
    BY <1>1, <2>3, <2>4, <2>5, StreamParts
<1>3. ChunkerInit => ChunkerInv
  BY <1>1, <1>2 DEF ChunkerInit, ChunkerInv, ChunkerTypeOK, FramesAreTheStream, Bytes, Frames
<1>4. Forget => ChunkerInv'
  BY <1>1, <1>2 DEF Forget, ChunkerInv, ChunkerTypeOK, FramesAreTheStream, Bytes, Frames
<1> QED
  BY <1>3, <1>4

\* However the audio comes in, the frames handed on and the rest are those of
\* the whole audio cut at once (chunk.go:24-40, 77-101).
THEOREM ChunkerCutsTheStream == ChunkerSpec => [](FramesAreTheStream /\ ChunkerTypeOK)
<1>1. ChunkerInit => ChunkerInv
  BY NothingArrivedInv
<1>2. ChunkerInv /\ [ChunkerNext]_chunkerVars => ChunkerInv'
  <2> SUFFICES ASSUME ChunkerInv, [ChunkerNext]_chunkerVars
               PROVE  ChunkerInv'
    OBVIOUS
  <2>1. CASE WriteChunk
    BY <2>1, WriteDataInv DEF WriteChunk
  <2>2. CASE FlushChunker \/ ResetChunker
    BY <2>2, NothingArrivedInv DEF FlushChunker, ResetChunker
  <2>3. CASE UNCHANGED chunkerVars
    BY <2>3 DEF chunkerVars, ChunkerInv, ChunkerTypeOK, FramesAreTheStream
  <2> QED
    BY <2>1, <2>2, <2>3 DEF ChunkerNext
<1>3. ChunkerInv => FramesAreTheStream /\ ChunkerTypeOK
  BY DEF ChunkerInv
<1> QED
  BY <1>1, <1>2, <1>3, PTL DEF ChunkerSpec

--------------------------------------------------------------------------------
(* Audio made canonical.  The proof follows the steps of Normalize: a code *)
(* is a sample, further out the louder it is; a mix lies between what is   *)
(* mixed; a resampled value on the line between its neighbours.            *)

LEMMA WordMembers ==
  \A n \in Int : n \in Word <=> -32768 <= n /\ n <= 32767
<1>1. MaxInt16 \in Int
  BY DEF MaxInt16
<1>2. \A n \in Int : n \in Word <=> -MaxInt16 - 1 <= n /\ n <= MaxInt16
  BY <1>1 DEF Word
<1> QED
  BY <1>2 DEF MaxInt16

LEMMA WordIsInt == Word \subseteq Int
<1>1. MaxInt16 \in Int
  BY DEF MaxInt16
<1> QED
  BY <1>1 DEF Word

LEMMA OctetMembers ==
  \A c \in Octet : c \in Int /\ 0 <= c /\ c <= 255
BY DEF Octet

LEMMA WrapsNothing ==
  ASSUME NEW n \in Int, -32768 <= n, n <= 32767
  PROVE  Wrap16(n) = n
BY DEF Wrap16

\* A quotient rounded towards zero stays between whole bounds.
LEMMA HalfBetween ==
  ASSUME NEW a \in Int, NEW low \in Int, NEW high \in Int, low * 2 <= a, a <= high * 2
  PROVE  Quotient(a, 2) \in Int /\ low <= Quotient(a, 2) /\ Quotient(a, 2) <= high
BY DEF Quotient

LEMMA InternalBetween ==
  ASSUME NEW a \in Int, NEW low \in Int, NEW high \in Int,
         low * InternalRate <= a, a <= high * InternalRate
  PROVE  LET q == Quotient(a, InternalRate) IN q \in Int /\ low <= q /\ q <= high
BY DEF Quotient, InternalRate

\* What the bits of a code stand for.
LEMMA BitsOfCode ==
  ASSUME NEW c \in Int, 0 <= c, c <= 255
  PROVE  /\ Segment(c) \in 0 .. 7 /\ Quant(c) \in 0 .. 15
         /\ c = 16 * Segment(c) + Quant(c) + IF Negative(c) THEN 128 ELSE 0
BY DEF Segment, Quant, Negative

LEMMA InvertedIsCode ==
  ASSUME NEW c \in Int, 0 <= c, c <= 255
  PROVE  /\ 255 - c \in Int /\ 0 <= 255 - c /\ 255 - c <= 255
         /\ EveryOtherBit(c) \in Int /\ 0 <= EveryOtherBit(c) /\ EveryOtherBit(c) <= 255
BY DEF EveryOtherBit

LEMMA UlawPowers ==
  ASSUME NEW s
  PROVE  /\ s = 1 => 2 ^ (s + 2) = 8
         /\ s = 2 => 2 ^ (s + 2) = 16
         /\ s = 3 => 2 ^ (s + 2) = 32
         /\ s = 4 => 2 ^ (s + 2) = 64
         /\ s = 5 => 2 ^ (s + 2) = 128
         /\ s = 6 => 2 ^ (s + 2) = 256
         /\ s = 7 => 2 ^ (s + 2) = 512
<1>1. s = 1 => 2 ^ (s + 2) = 8
  OBVIOUS
<1>2. s = 2 => 2 ^ (s + 2) = 16
  OBVIOUS
<1>3. s = 3 => 2 ^ (s + 2) = 32
  OBVIOUS
<1>4. s = 4 => 2 ^ (s + 2) = 64
  OBVIOUS
<1>5. s = 5 => 2 ^ (s + 2) = 128
  OBVIOUS
<1>6. s = 6 => 2 ^ (s + 2) = 256
  OBVIOUS
<1>7. s = 7 => 2 ^ (s + 2) = 512
  OBVIOUS
<1> QED
  BY <1>1, <1>2, <1>3, <1>4, <1>5, <1>6, <1>7

LEMMA AlawPowers ==
  ASSUME NEW s
  PROVE  /\ s = 1 => 2 ^ (s + 3) = 16
         /\ s = 2 => 2 ^ (s + 3) = 32
         /\ s = 3 => 2 ^ (s + 3) = 64
         /\ s = 4 => 2 ^ (s + 3) = 128
         /\ s = 5 => 2 ^ (s + 3) = 256
         /\ s = 6 => 2 ^ (s + 3) = 512
         /\ s = 7 => 2 ^ (s + 3) = 1024
<1>1. s = 1 => 2 ^ (s + 3) = 16
  OBVIOUS
<1>2. s = 2 => 2 ^ (s + 3) = 32
  OBVIOUS
<1>3. s = 3 => 2 ^ (s + 3) = 64
  OBVIOUS
<1>4. s = 4 => 2 ^ (s + 3) = 128
  OBVIOUS
<1>5. s = 5 => 2 ^ (s + 3) = 256
  OBVIOUS
<1>6. s = 6 => 2 ^ (s + 3) = 512
  OBVIOUS
<1>7. s = 7 => 2 ^ (s + 3) = 1024
  OBVIOUS
<1> QED
  BY <1>1, <1>2, <1>3, <1>4, <1>5, <1>6, <1>7

\* How far from zero a mu-law code is, segment by segment.
UlawFar(s, q, far) ==
  \/ s = 0 /\ far = 2 * q + 1
  \/ s = 1 /\ far = (33 + q) * 8
  \/ s = 2 /\ far = (33 + q) * 16
  \/ s = 3 /\ far = (33 + q) * 32
  \/ s = 4 /\ far = (33 + q) * 64
  \/ s = 5 /\ far = (33 + q) * 128
  \/ s = 6 /\ far = (33 + q) * 256
  \/ s = 7 /\ far = (33 + q) * 512

LEMMA UlawIsFar ==
  ASSUME NEW s \in 0 .. 7, NEW q \in 0 .. 15, NEW far,
         far = IF s = 0 THEN 2 * q + 1 ELSE (33 + q) * 2 ^ (s + 2)
  PROVE  UlawFar(s, q, far)
BY UlawPowers DEF UlawFar

LEMMA UlawBounds ==
  ASSUME NEW s \in 0 .. 7, NEW q \in 0 .. 15, NEW far, UlawFar(s, q, far)
  PROVE  far \in Int /\ 0 <= far /\ far <= 32767
BY DEF UlawFar

\* A code further out in its segment, or in a segment further out, is further from zero.
LEMMA UlawGrows ==
  ASSUME NEW s \in 0 .. 7, NEW q \in 0 .. 15, NEW far, UlawFar(s, q, far),
         NEW t \in 0 .. 7, NEW r \in 0 .. 15, NEW near, UlawFar(t, r, near),
         16 * s + q > 16 * t + r
  PROVE  far > near
<1>1. far \in Int /\ near \in Int
  BY UlawBounds
<1>2. (s = t /\ q > r) \/ s > t
  OBVIOUS
<1>3. CASE s = t /\ q > r
  BY <1>1, <1>3 DEF UlawFar
<1>4. CASE s > t
  <2>1. /\ s = 1 => far >= 33 * 8
        /\ s = 2 => far >= 33 * 16
        /\ s = 3 => far >= 33 * 32
        /\ s = 4 => far >= 33 * 64
        /\ s = 5 => far >= 33 * 128
        /\ s = 6 => far >= 33 * 256
        /\ s = 7 => far >= 33 * 512
    BY <1>1 DEF UlawFar
  <2>2. /\ t = 0 => near <= 31
        /\ t = 1 => near <= 48 * 8
        /\ t = 2 => near <= 48 * 16
        /\ t = 3 => near <= 48 * 32
        /\ t = 4 => near <= 48 * 64
        /\ t = 5 => near <= 48 * 128
        /\ t = 6 => near <= 48 * 256
    BY <1>1 DEF UlawFar
  <2> QED
    BY <1>1, <1>4, <2>1, <2>2
<1> QED
  BY <1>2, <1>3, <1>4

LEMMA UlawMagnitude ==
  ASSUME NEW u \in Int, 0 <= u, u <= 255
  PROVE  \E far \in Int : /\ UlawFar(Segment(255 - u), Quant(255 - u), far)
                          /\ ulawDecode(u) = IF Negative(255 - u) THEN -far ELSE far
<1> DEFINE c == 255 - u
           s == Segment(c)
           q == Quant(c)
           d == IF s = 0 THEN 2 * q + 1 ELSE (33 + q) * 2 ^ (s + 2)
<1>1. s \in 0 .. 7 /\ q \in 0 .. 15
  BY BitsOfCode, InvertedIsCode
<1>2. ulawDecode(u) = LET n == IF s = 0 THEN 2 * q + 1 ELSE Wrap16((33 + q) * 2 ^ (s + 2))
                      IN IF Negative(c) THEN Wrap16(-n) ELSE n
  BY DEF ulawDecode
<1> HIDE DEF c, s, q
<1>3. UlawFar(s, q, d)
  BY <1>1, UlawIsFar
<1> HIDE DEF d
<1>4. d \in Int /\ 0 <= d /\ d <= 32767
  BY <1>1, <1>3, UlawBounds
<1>5. -d \in Int /\ -32768 <= d /\ -32768 <= -d /\ -d <= 32767
  BY <1>4
<1>6. Wrap16(d) = d /\ Wrap16(-d) = -d
  BY <1>4, <1>5, WrapsNothing
<1>7. ulawDecode(u) = IF Negative(c) THEN -d ELSE d
  <2>1. CASE s = 0
    BY <2>1, <1>2, <1>6 DEF d
  <2>2. CASE s # 0
    BY <2>2, <1>2, <1>6 DEF d
  <2> QED
    BY <2>1, <2>2
<1> QED
  BY <1>3, <1>4, <1>7 DEF c, s, q

\* The same of A-law, whose samples are 8 further out on both sides.
AlawFar(s, q, far) ==
  \/ s = 0 /\ far = 16 * q + 16
  \/ s = 1 /\ far = (16 + q) * 16 + 8
  \/ s = 2 /\ far = (16 + q) * 32 + 8
  \/ s = 3 /\ far = (16 + q) * 64 + 8
  \/ s = 4 /\ far = (16 + q) * 128 + 8
  \/ s = 5 /\ far = (16 + q) * 256 + 8
  \/ s = 6 /\ far = (16 + q) * 512 + 8
  \/ s = 7 /\ far = (16 + q) * 1024 + 8

LEMMA AlawIsFar ==
  ASSUME NEW s \in 0 .. 7, NEW q \in 0 .. 15, NEW n,
         n = IF s = 0 THEN 16 * q + 8 ELSE (16 + q) * 2 ^ (s + 3)
  PROVE  n \in Int /\ AlawFar(s, q, n + 8)
BY AlawPowers DEF AlawFar

LEMMA AlawBounds ==
  ASSUME NEW s \in 0 .. 7, NEW q \in 0 .. 15, NEW far, AlawFar(s, q, far)
  PROVE  far \in Int /\ 16 <= far /\ far <= 32767
BY DEF AlawFar

LEMMA AlawGrows ==
  ASSUME NEW s \in 0 .. 7, NEW q \in 0 .. 15, NEW far, AlawFar(s, q, far),
         NEW t \in 0 .. 7, NEW r \in 0 .. 15, NEW near, AlawFar(t, r, near),
         16 * s + q > 16 * t + r
  PROVE  far > near
<1>1. far \in Int /\ near \in Int
  BY AlawBounds
<1>2. (s = t /\ q > r) \/ s > t
  OBVIOUS
<1>3. CASE s = t /\ q > r
  BY <1>1, <1>3 DEF AlawFar
<1>4. CASE s > t
  <2>1. /\ s = 1 => far >= 264
        /\ s = 2 => far >= 520
        /\ s = 3 => far >= 1032
        /\ s = 4 => far >= 2056
        /\ s = 5 => far >= 4104
        /\ s = 6 => far >= 8200
        /\ s = 7 => far >= 16392
    BY <1>1 DEF AlawFar
  <2>2. /\ t = 0 => near <= 256
        /\ t = 1 => near <= 504
        /\ t = 2 => near <= 1000
        /\ t = 3 => near <= 1992
        /\ t = 4 => near <= 3976
        /\ t = 5 => near <= 7944
        /\ t = 6 => near <= 15880
    BY <1>1 DEF AlawFar
  <2> QED
    BY <1>1, <1>4, <2>1, <2>2
<1> QED
  BY <1>2, <1>3, <1>4

LEMMA AlawMagnitude ==
  ASSUME NEW a \in Int, 0 <= a, a <= 255
  PROVE  \E far \in Int :
           /\ AlawFar(Segment(EveryOtherBit(a)), Quant(EveryOtherBit(a)), far)
           /\ alawDecode(a) = IF Negative(EveryOtherBit(a)) THEN -far ELSE far
<1> DEFINE c == EveryOtherBit(a)
           s == Segment(c)
           q == Quant(c)
           n == IF s = 0 THEN 16 * q + 8 ELSE (16 + q) * 2 ^ (s + 3)
           d == n + 8
<1>1. s \in 0 .. 7 /\ q \in 0 .. 15
  BY BitsOfCode, InvertedIsCode
<1>2. alawDecode(a) = LET m == IF s = 0 THEN 16 * q + 8 ELSE Wrap16((16 + q) * 2 ^ (s + 3))
                      IN Wrap16(IF Negative(c) THEN -m - 8 ELSE m + 8)
  BY DEF alawDecode
<1> HIDE DEF c, s, q
<1>3. n \in Int /\ AlawFar(s, q, d)
  BY <1>1, AlawIsFar
<1> HIDE DEF n
<1>4. d \in Int /\ 16 <= d /\ d <= 32767
  BY <1>1, <1>3, AlawBounds
<1>5. /\ -32768 <= n /\ n <= 32767 /\ -d \in Int /\ -32768 <= -d /\ -d <= 32767
      /\ -n - 8 = -d
  BY <1>3, <1>4
<1>6. Wrap16(n) = n /\ Wrap16(d) = d /\ Wrap16(-d) = -d
  BY <1>3, <1>4, <1>5, WrapsNothing
<1>7. alawDecode(a) = IF Negative(c) THEN -d ELSE d
  <2>1. (IF s = 0 THEN 16 * q + 8 ELSE Wrap16((16 + q) * 2 ^ (s + 3))) = n
    <3>1. CASE s = 0
      BY <3>1 DEF n
    <3>2. CASE s # 0
      BY <3>2, <1>6 DEF n
    <3> QED
      BY <3>1, <3>2
  <2>2. alawDecode(a) = Wrap16(IF Negative(c) THEN -n - 8 ELSE n + 8)
    BY <1>2, <2>1
  <2> QED
    BY <2>2, <1>5, <1>6
<1> QED
  BY <1>3, <1>4, <1>7 DEF c, s, q

\* A decoded code is a sample of 16 bits, and of two codes with the same sign the louder
\* is further out.
LEMMA DecodedIsWord ==
  ASSUME NEW c \in Int, 0 <= c, c <= 255
  PROVE  ulawDecode(c) \in Word /\ alawDecode(c) \in Word
<1>1. /\ Segment(255 - c) \in 0 .. 7 /\ Quant(255 - c) \in 0 .. 15
      /\ Segment(EveryOtherBit(c)) \in 0 .. 7 /\ Quant(EveryOtherBit(c)) \in 0 .. 15
  BY InvertedIsCode, BitsOfCode
<1>2. \A n \in Int : 0 <= n /\ n <= 32767 => n \in Word /\ -n \in Word
  BY WordMembers
<1>3. ulawDecode(c) \in Word
  BY <1>1, <1>2, UlawMagnitude, UlawBounds
<1>4. alawDecode(c) \in Word
  BY <1>1, <1>2, AlawMagnitude, AlawBounds
<1> QED
  BY <1>3, <1>4

LEMMA UlawInOrder ==
  ASSUME NEW c \in Int, 0 <= c, c <= 255, NEW d \in Int, 0 <= d, d <= 255,
         Negative(255 - c) = Negative(255 - d), 255 - c > 255 - d
  PROVE  IF Negative(255 - c) THEN ulawDecode(c) < ulawDecode(d)
                              ELSE ulawDecode(c) > ulawDecode(d)
<1> DEFINE x == 255 - c
           y == 255 - d
<1>1. /\ x = 16 * Segment(x) + Quant(x) + IF Negative(x) THEN 128 ELSE 0
      /\ y = 16 * Segment(y) + Quant(y) + IF Negative(y) THEN 128 ELSE 0
      /\ Segment(x) \in 0 .. 7 /\ Quant(x) \in 0 .. 15
      /\ Segment(y) \in 0 .. 7 /\ Quant(y) \in 0 .. 15
  BY InvertedIsCode, BitsOfCode
<1>2. PICK far \in Int : /\ UlawFar(Segment(x), Quant(x), far)
                         /\ ulawDecode(c) = IF Negative(x) THEN -far ELSE far
  BY UlawMagnitude
<1>3. PICK near \in Int : /\ UlawFar(Segment(y), Quant(y), near)
                          /\ ulawDecode(d) = IF Negative(y) THEN -near ELSE near
  BY UlawMagnitude
<1>4. x > y /\ Negative(x) = Negative(y)
  OBVIOUS
<1> HIDE DEF x, y
<1>5. 16 * Segment(x) + Quant(x) > 16 * Segment(y) + Quant(y)
  BY <1>1, <1>4
<1>6. far > near
  BY <1>1, <1>2, <1>3, <1>5, UlawGrows
<1>7. IF Negative(x) THEN ulawDecode(c) < ulawDecode(d) ELSE ulawDecode(c) > ulawDecode(d)
  BY <1>2, <1>3, <1>4, <1>6
<1> QED
  BY <1>7 DEF x

LEMMA AlawInOrder ==
  ASSUME NEW c \in Int, 0 <= c, c <= 255, NEW d \in Int, 0 <= d, d <= 255,
         Negative(EveryOtherBit(c)) = Negative(EveryOtherBit(d)),
         EveryOtherBit(c) > EveryOtherBit(d)
  PROVE  IF Negative(EveryOtherBit(c)) THEN alawDecode(c) < alawDecode(d)
                                       ELSE alawDecode(c) > alawDecode(d)
<1> DEFINE x == EveryOtherBit(c)
           y == EveryOtherBit(d)
<1>1. /\ x = 16 * Segment(x) + Quant(x) + IF Negative(x) THEN 128 ELSE 0
      /\ y = 16 * Segment(y) + Quant(y) + IF Negative(y) THEN 128 ELSE 0
      /\ Segment(x) \in 0 .. 7 /\ Quant(x) \in 0 .. 15
      /\ Segment(y) \in 0 .. 7 /\ Quant(y) \in 0 .. 15
  BY InvertedIsCode, BitsOfCode
<1>2. PICK far \in Int : /\ AlawFar(Segment(x), Quant(x), far)
                         /\ alawDecode(c) = IF Negative(x) THEN -far ELSE far
  BY AlawMagnitude
<1>3. PICK near \in Int : /\ AlawFar(Segment(y), Quant(y), near)
                          /\ alawDecode(d) = IF Negative(y) THEN -near ELSE near
  BY AlawMagnitude
<1>4. x > y /\ Negative(x) = Negative(y)
  OBVIOUS
<1> HIDE DEF x, y
<1>5. 16 * Segment(x) + Quant(x) > 16 * Segment(y) + Quant(y)
  BY <1>1, <1>4
<1>6. far > near
  BY <1>1, <1>2, <1>3, <1>5, AlawGrows
<1>7. IF Negative(x) THEN alawDecode(c) < alawDecode(d) ELSE alawDecode(c) > alawDecode(d)
  BY <1>2, <1>3, <1>4, <1>6
<1> QED
  BY <1>7 DEF x

LEMMA SumOfTwo ==
  ASSUME NEW s, Len(s) = 2, s[1] \in Int, s[2] \in Int
  PROVE  Sum(s) = s[1] + s[2]
<1> DEFINE Loop(f) == f = [ch \in 0 .. Len(s) |-> IF ch = 0 THEN 0 ELSE f[ch - 1] + s[ch]]
           sums == [ch \in 0 .. Len(s) |->
                      IF ch = 0 THEN 0 ELSE IF ch = 1 THEN s[1] ELSE s[1] + s[2]]
<1>2. Loop(sums)
  <2>1. \A ch \in 0 .. Len(s) : sums[ch] = IF ch = 0 THEN 0 ELSE sums[ch - 1] + s[ch]
    <3> TAKE ch \in 0 .. Len(s)
    <3>1. ch = 0 \/ ch = 1 \/ ch = 2
      OBVIOUS
    <3> QED
      BY <3>1
  <2> QED
    BY <2>1
<1>3. ASSUME NEW f, Loop(f)
      PROVE  f[Len(s)] = s[1] + s[2]
  <2>1. f[0] = 0 /\ f[1] = f[0] + s[1] /\ f[2] = f[1] + s[2]
    BY <1>3
  <2> QED
    BY <2>1
<1>4. Sum(s) = (CHOOSE f : Loop(f))[Len(s)]
  BY DEF Sum
<1> HIDE DEF Loop, sums
<1>5. Loop(CHOOSE f : Loop(f))
  BY <1>2
<1> QED
  BY <1>3, <1>4, <1>5

\* A chunk of samples of 16 bits.
Words(m) == [1 .. m -> Word]

LEMMA ListLength ==
  ASSUME NEW S, NEW m \in Nat, NEW list \in [1 .. m -> S]
  PROVE  Len(list) = m /\ DOMAIN list = 1 .. m /\ \A i \in 1 .. m : list[i] \in S
OBVIOUS

LEMMA ChunkLength ==
  ASSUME NEW m \in Nat, NEW values \in Words(m)
  PROVE  /\ Len(values) = m /\ DOMAIN values = 1 .. m
         /\ \A i \in 1 .. m : values[i] \in Word /\ values[i] \in Int
<1>1. Len(values) = m /\ DOMAIN values = 1 .. m /\ \A i \in 1 .. m : values[i] \in Word
  BY ListLength DEF Words
<1> QED
  BY <1>1, WordIsInt

\* The samples of one instant, one of each channel.
LEMMA ChannelsOfInstant ==
  ASSUME NEW m \in Nat, NEW values \in Words(m), NEW channels \in 1 .. 2,
         NEW i \in 1 .. m \div channels
  PROVE  /\ Len(AcrossChannels(values, i, channels)) = channels
         /\ DOMAIN AcrossChannels(values, i, channels) = 1 .. channels
         /\ \A ch \in 1 .. channels :
              /\ AcrossChannels(values, i, channels)[ch] = values[(i - 1) * channels + ch]
              /\ AcrossChannels(values, i, channels)[ch] \in Word
<1> DEFINE instant == AcrossChannels(values, i, channels)
           first == (i - 1) * channels + 1
           last == i * channels
<1>1. /\ first \in Int /\ last \in Int /\ 1 <= first /\ first <= last /\ last <= m
      /\ last - first + 1 = channels
      /\ \A ch \in 1 .. channels : first + ch - 1 = (i - 1) * channels + ch
  <2>1. CASE channels = 1
    BY <2>1
  <2>2. CASE channels = 2
    BY <2>2
  <2> QED
    BY <2>1, <2>2
<1>2. \A j \in first .. last : values[j] \in Word
  <2> TAKE j \in first .. last
  <2>1. j \in 1 .. m
    BY <1>1
  <2> QED
    BY <2>1, ChunkLength
<1>3. instant = SubSeq(values, first, last)
  BY DEF AcrossChannels
<1> HIDE DEF first, last, instant
<1>4. /\ instant \in Seq(Word)
      /\ Len(instant) = last - first + 1
      /\ \A ch \in 1 .. last - first + 1 : instant[ch] = values[first + ch - 1]
  BY <1>1, <1>2, <1>3, SubSeqProperties
<1>5. \A ch \in 1 .. channels : first + ch - 1 \in first .. last
  BY <1>1
<1>6. /\ instant \in Seq(Word) /\ Len(instant) = channels
      /\ DOMAIN instant = 1 .. channels
      /\ \A ch \in 1 .. channels : instant[ch] = values[(i - 1) * channels + ch]
                                   /\ instant[ch] \in Word
  BY <1>1, <1>2, <1>4, <1>5, LenProperties
<1> QED
  BY <1>6 DEF instant

\* A sample of the mix lies between those it is made of.
Between(n, low, high) == low <= n /\ n <= high

LEMMA WordBetween ==
  ASSUME NEW n \in Int, NEW a \in Word, NEW b \in Word, Between(n, a, b)
  PROVE  n \in Word
<1>1. a \in Int /\ b \in Int
  BY WordIsInt
<1> QED
  BY <1>1, WordMembers DEF Between

LEMMA MonoBetween ==
  ASSUME NEW m \in Nat, NEW chunk, chunk.values \in Words(m), NEW channels \in 1 .. 2
  PROVE  LET mono == ConvertToMono(chunk, channels).values
         IN /\ mono \in Words(m \div channels)
            /\ \A i \in 1 .. m \div channels :
                 \E a, b \in ToSet(AcrossChannels(chunk.values, i, channels)) :
                   a \in Word /\ b \in Word /\ Between(mono[i], a, b)
<1> DEFINE values == chunk.values
           mono == ConvertToMono(chunk, channels).values
           frames == m \div channels
           instant(i) == AcrossChannels(values, i, channels)
<1>0. frames \in Nat /\ Len(values) = m
  BY ChunkLength
<1>1. ASSUME NEW i \in 1 .. frames, NEW ch \in 1 .. channels
      PROVE  /\ instant(i)[ch] \in ToSet(instant(i)) /\ instant(i)[ch] \in Word
             /\ instant(i)[ch] \in Int /\ Len(instant(i)) = channels
             /\ instant(i)[ch] = values[(i - 1) * channels + ch]
  <2>1. /\ Len(instant(i)) = channels
        /\ DOMAIN instant(i) = 1 .. channels
        /\ instant(i)[ch] = values[(i - 1) * channels + ch] /\ instant(i)[ch] \in Word
    <3>1. values \in Words(m) /\ i \in 1 .. m \div channels /\ channels \in 1 .. 2 /\ m \in Nat
      OBVIOUS
    <3> HIDE DEF values, frames
    <3>2. /\ Len(AcrossChannels(values, i, channels)) = channels
          /\ DOMAIN AcrossChannels(values, i, channels) = 1 .. channels
          /\ \A k \in 1 .. channels :
               /\ AcrossChannels(values, i, channels)[k] = values[(i - 1) * channels + k]
               /\ AcrossChannels(values, i, channels)[k] \in Word
      BY <3>1, ChannelsOfInstant, Zenon
    <3> QED
      BY <3>2, Zenon
  <2> QED
    BY <2>1, WordIsInt DEF ToSet
<1>2. CASE channels = 1
  <2>1. mono = values /\ frames = m
    BY <1>2 DEF ConvertToMono
  <2>2. ASSUME NEW i \in 1 .. frames
        PROVE  \E a, b \in ToSet(instant(i)) :
                 a \in Word /\ b \in Word /\ Between(mono[i], a, b)
    <3>1. /\ instant(i)[1] \in ToSet(instant(i)) /\ instant(i)[1] \in Word
          /\ instant(i)[1] \in Int /\ instant(i)[1] = values[i]
      BY <1>1, <1>2
    <3> QED
      BY <2>1, <3>1 DEF Between
  <2> QED
    BY <2>1, <2>2
<1>3. CASE channels = 2
  <2>1. /\ DOMAIN mono = 1 .. frames
        /\ \A i \in 1 .. frames : mono[i] = Quotient(Sum(instant(i)), 2)
        /\ mono = [i \in 1 .. frames |-> Quotient(Sum(instant(i)), 2)]
    BY <1>0, <1>3 DEF ConvertToMono
  <2>2. ASSUME NEW i \in 1 .. frames
        PROVE  /\ mono[i] \in Int
               /\ \E a, b \in ToSet(instant(i)) :
                    a \in Word /\ b \in Word /\ Between(mono[i], a, b)
    <3> DEFINE x == instant(i)[1]
               y == instant(i)[2]
    <3>1. /\ x \in ToSet(instant(i)) /\ y \in ToSet(instant(i))
          /\ x \in Word /\ y \in Word /\ x \in Int /\ y \in Int
          /\ Len(instant(i)) = 2
      BY <1>1, <1>3
    <3>2. mono[i] = Quotient(x + y, 2)
      BY <2>1, <3>1, SumOfTwo
    <3> HIDE DEF x, y, mono
    <3>3. CASE x <= y
      <4>1. x * 2 <= x + y /\ x + y <= y * 2 /\ x + y \in Int
        BY <3>1, <3>3
      <4>2. mono[i] \in Int /\ Between(mono[i], x, y)
        BY <3>1, <3>2, <4>1, HalfBetween DEF Between
      <4> QED
        BY <3>1, <4>2
    <3>4. CASE y <= x
      <4>1. y * 2 <= x + y /\ x + y <= x * 2 /\ x + y \in Int
        BY <3>1, <3>4
      <4>2. mono[i] \in Int /\ Between(mono[i], y, x)
        BY <3>1, <3>2, <4>1, HalfBetween DEF Between
      <4> QED
        BY <3>1, <4>2
    <3> QED
      BY <3>1, <3>3, <3>4
  <2>3. \A i \in 1 .. frames : mono[i] \in Word
    BY <2>2, WordBetween
  <2>4. mono \in Words(frames)
    BY <2>1, <2>3 DEF Words
  <2> QED
    BY <2>2, <2>4
<1> QED
  BY <1>2, <1>3

LEMMA DivisionWithRest ==
  ASSUME NEW a \in Nat, NEW d \in Nat \ {0}
  PROVE  /\ a \div d \in Nat /\ a - (a \div d) * d \in 0 .. d - 1
         /\ (a \div d) * d <= a /\ a < (a \div d) * d + d
<1> DEFINE q == a \div d
<1>1. q \in Int /\ q * d <= a /\ a < q * d + d
  BY SMTT(30)
<1>2. q >= 0
  <2> SUFFICES ASSUME q + 1 <= 0 PROVE FALSE
    BY <1>1
  <2>1. (q + 1) * d <= 0
    BY <1>1, SMTT(30)
  <2>2. q * d + d <= 0
    BY <1>1, <2>1, SMTT(30)
  <2> QED
    BY <1>1, <2>2
<1> QED
  BY <1>1, <1>2

\* Part of a way is no more than the way.
LEMMA PartOfTheWay ==
  ASSUME NEW t \in Nat, NEW whole \in Nat, t <= whole, NEW d \in Nat
  PROVE  t * d \in Nat /\ t * d <= whole * d
<1>1. PICK k \in Nat : whole = t + k
  <2>1. whole - t \in Nat /\ whole = t + (whole - t)
    OBVIOUS
  <2> QED
    BY <2>1
<1>2. whole * d = t * d + k * d /\ t * d \in Nat /\ k * d \in Nat
  BY <1>1, SMTT(30)
<1> QED
  BY <1>2

\* What lies on the line between two samples lies between them.
LEMMA OnTheLine ==
  ASSUME NEW x \in Int, NEW y \in Int, NEW t \in 0 .. InternalRate - 1,
         NEW n, n = Quotient(x * InternalRate + t * (y - x), InternalRate)
  PROVE  n \in Int /\ (Between(n, x, y) \/ Between(n, y, x))
<1> DEFINE a == x * InternalRate + t * (y - x)
<1>1. t \in Nat /\ t <= InternalRate /\ InternalRate \in Nat
  BY DEF InternalRate
<1>2. CASE x <= y
  <2>1. y - x \in Nat
    BY <1>2
  <2>2. t * (y - x) \in Nat /\ t * (y - x) <= InternalRate * (y - x)
    BY <1>1, <2>1, PartOfTheWay
  <2>3. x * InternalRate <= a /\ a <= y * InternalRate /\ a \in Int
    BY <2>2 DEF InternalRate
  <2> HIDE DEF a
  <2> QED
    BY <2>3, InternalBetween DEF Between, a
<1>3. CASE y <= x
  <2>1. x - y \in Nat
    BY <1>3
  <2>2. t * (x - y) \in Nat /\ t * (x - y) <= InternalRate * (x - y)
    BY <1>1, <2>1, PartOfTheWay
  <2>3. t * (y - x) = -(t * (x - y))
    BY <1>1, SMTT(30)
  <2>4. y * InternalRate <= a /\ a <= x * InternalRate /\ a \in Int
    BY <2>2, <2>3 DEF InternalRate
  <2> HIDE DEF a
  <2> QED
    BY <2>4, InternalBetween DEF Between, a
<1> QED
  BY <1>2, <1>3

\* The sample before the instant of output sample i is one there is.
LEMMA BeforeIsThere ==
  ASSUME NEW frames \in Nat, NEW rate \in Nat \ {0},
         NEW i \in 1 .. (frames * InternalRate) \div rate
  PROVE  Before(i, rate, InternalRate) \in 1 .. frames
<1> DEFINE n == (frames * InternalRate) \div rate
           b == (i - 1) * rate
<1>1. /\ frames * InternalRate \in Nat /\ n \in Nat /\ n * rate <= frames * InternalRate
  BY DivisionWithRest DEF InternalRate
<1>2. i - 1 \in Nat /\ i \in Nat /\ i <= n /\ rate \in Nat /\ rate >= 1
  BY <1>1
<1> HIDE DEF n
<1>3. b + rate <= n * rate /\ b \in Nat
  <2>1. i * rate <= n * rate /\ i * rate \in Nat
    BY <1>1, <1>2, PartOfTheWay
  <2>2. b = i * rate - rate /\ b \in Nat
    BY <1>2, SMTT(30)
  <2> QED
    BY <1>1, <1>2, <2>1, <2>2
<1>4. n * rate \in Nat
  BY <1>1, <1>2
<1>5. b < frames * InternalRate
  BY <1>1, <1>2, <1>3, <1>4
<1> HIDE DEF b
<1>6. b \div InternalRate \in 0 .. frames - 1
  BY <1>3, <1>5 DEF InternalRate
<1> QED
  BY <1>6 DEF Before, b

LEMMA ResampledBetween ==
  ASSUME NEW frames \in Nat, NEW mono \in Words(frames), NEW rate \in Nat \ {0}
  PROVE  LET out == Resample(mono, rate, InternalRate)
             n   == (frames * InternalRate) \div rate
         IN /\ n \in Nat /\ frames * InternalRate - n * rate \in 0 .. rate - 1
            /\ out \in Words(n)
            /\ \A i \in 1 .. n :
                 LET k == Before(i, rate, InternalRate)
                 IN \E x, y \in {k, k + 1} \cap 1 .. frames : Between(out[i], mono[x], mono[y])
<1> DEFINE out == Resample(mono, rate, InternalRate)
           n   == (frames * InternalRate) \div rate
           k(i) == Before(i, rate, InternalRate)
<1>1. n \in Nat /\ frames * InternalRate - n * rate \in 0 .. rate - 1
  <2>1. frames * InternalRate \in Nat
    BY DEF InternalRate
  <2> QED
    BY <2>1, DivisionWithRest
<1>2. Len(mono) = frames /\ \A j \in 1 .. frames : mono[j] \in Word /\ mono[j] \in Int
  BY ChunkLength
<1>3. /\ DOMAIN out = 1 .. n
      /\ \A i \in 1 .. n : out[i] = Interpolate(mono, i, rate, InternalRate)
      /\ out = [i \in 1 .. n |-> Interpolate(mono, i, rate, InternalRate)]
  BY <1>2 DEF Resample
<1>4. ASSUME NEW i \in 1 .. n
      PROVE  /\ \E x, y \in {k(i), k(i) + 1} \cap 1 .. frames : Between(out[i], mono[x], mono[y])
             /\ out[i] \in Word
  <2> DEFINE past == ((i - 1) * rate) % InternalRate
  <2>1. k(i) \in 1 .. frames
    BY BeforeIsThere
  <2>2. out[i] = IF k(i) >= frames THEN mono[frames]
                 ELSE Quotient(mono[k(i)] * InternalRate + past * (mono[k(i) + 1] - mono[k(i)]),
                               InternalRate)
    BY <1>2, <1>3 DEF Interpolate
  <2>3. past \in 0 .. InternalRate - 1
    <3>1. (i - 1) * rate \in Int
      BY <1>1
    <3> QED
      BY <3>1 DEF InternalRate
  <2> HIDE DEF past, k, n, out
  <2>4. CASE k(i) >= frames
    <3>1. k(i) = frames /\ out[i] = mono[k(i)] /\ mono[k(i)] \in Word /\ mono[k(i)] \in Int
      BY <1>2, <2>1, <2>2, <2>4
    <3> QED
      BY <2>1, <3>1 DEF Between
  <2>5. CASE k(i) < frames
    <3>1. /\ k(i) + 1 \in 1 .. frames
          /\ mono[k(i)] \in Word /\ mono[k(i) + 1] \in Word
          /\ mono[k(i)] \in Int /\ mono[k(i) + 1] \in Int
      BY <1>2, <2>1, <2>5
    <3>2. out[i] = Quotient(mono[k(i)] * InternalRate + past * (mono[k(i) + 1] - mono[k(i)]),
                            InternalRate)
      BY <2>1, <2>2, <2>5
    <3>3. out[i] \in Int /\ (\/ Between(out[i], mono[k(i)], mono[k(i) + 1])
                             \/ Between(out[i], mono[k(i) + 1], mono[k(i)]))
      BY <2>3, <3>1, <3>2, OnTheLine
    <3>4. out[i] \in Word
      BY <3>1, <3>3, WordBetween
    <3> QED
      BY <2>1, <3>1, <3>3, <3>4
  <2> QED
    BY <2>1, <2>4, <2>5
<1>5. out \in Words(n)
  <2>1. \A i \in 1 .. n : out[i] \in Word
    BY <1>4
  <2> HIDE DEF out, n
  <2> QED
    BY <1>3, <2>1 DEF Words
<1> QED
  BY <1>1, <1>4, <1>5

FormatInv == AudioTypeOK /\ NormalizedKeepsSound

\* A chunk as it comes: samples or codes, all of them within 16 bits.
LEMMA ChunkTypes ==
  ASSUME NEW p \in Profile, NEW chunk \in Chunk(p)
  PROVE  \E m \in Nat :
           /\ chunk.values \in Words(m) /\ Len(chunk.values) = m
           /\ chunk = [values |-> chunk.values, half |-> chunk.half]
           /\ p.encoding # "PCM16" =>
                \A i \in 1 .. m : /\ chunk.values[i] \in Int
                                  /\ 0 <= chunk.values[i] /\ chunk.values[i] <= 255
<1> DEFINE S == IF p.encoding = "PCM16" THEN Sample ELSE Code
<1>1. PICK m \in 0 .. MaxSamples : chunk.values \in [1 .. m -> S]
  BY DEF Chunk, BoundedSeq, SeqOf
<1>2. m \in Nat
  BY AudioAssumption
<1>3. chunk = [values |-> chunk.values, half |-> chunk.half]
  BY DEF Chunk
<1>4. \A v \in Code : v \in Int /\ 0 <= v /\ v <= 255
  BY AudioAssumption, OctetMembers
<1>5. \A v \in Code : v \in Word
  <2> TAKE v \in Code
  <2>1. v \in Int /\ -32768 <= v /\ v <= 32767
    BY <1>4
  <2> QED
    BY <2>1, WordMembers
<1>6. Sample \subseteq Word
  BY AudioAssumption
<1>7. S \subseteq Word
  BY <1>5, <1>6
<1>8. /\ Len(chunk.values) = m /\ DOMAIN chunk.values = 1 .. m
      /\ \A i \in 1 .. m : chunk.values[i] \in S
  BY <1>1, <1>2, ListLength
<1> HIDE DEF S
<1>9. chunk.values \in Words(m)
  BY <1>1, <1>7 DEF Words
<1>10. p.encoding # "PCM16" => S = Code
  BY DEF S
<1> QED
  BY <1>2, <1>3, <1>4, <1>8, <1>9, <1>10

\* Decoded, a chunk is one of samples, as many as there were.
LEMMA ConvertedTypes ==
  ASSUME NEW m \in Nat, NEW values \in Words(m), NEW half, NEW chunk,
         chunk = [values |-> values, half |-> half],
         NEW encoding \in {"PCM16", "ulaw", "alaw", "opus"},
         encoding # "PCM16" => \A i \in 1 .. m : /\ values[i] \in Int
                                                 /\ 0 <= values[i] /\ values[i] <= 255
  PROVE  ConvertEncoding(chunk, encoding).values \in Words(m)
<1> DEFINE decoded == ConvertEncoding(chunk, encoding).values
<1>1. DOMAIN values = 1 .. m /\ chunk.values = values
  BY ChunkLength
<1>2. CASE encoding = "ulaw"
  <2>1. decoded = [i \in 1 .. m |-> ulawDecode(values[i])]
    BY <1>1, <1>2 DEF ConvertEncoding, ulawToPCM16
  <2>2. \A i \in 1 .. m : ulawDecode(values[i]) \in Word
    BY <1>2, DecodedIsWord
  <2> QED
    BY <2>1, <2>2 DEF Words
<1>3. CASE encoding = "alaw"
  <2>1. decoded = [i \in 1 .. m |-> alawDecode(values[i])]
    BY <1>1, <1>3 DEF ConvertEncoding, alawToPCM16
  <2>2. \A i \in 1 .. m : alawDecode(values[i]) \in Word
    BY <1>3, DecodedIsWord
  <2> QED
    BY <2>1, <2>2 DEF Words
<1>4. CASE encoding \in {"PCM16", "opus"}
  <2>1. decoded = values
    BY <1>1, <1>4 DEF ConvertEncoding
  <2> QED
    BY <2>1
<1> QED
  BY <1>2, <1>3, <1>4

\* What each way through Normalize makes of the mix to one channel.
LEMMA MixedOrResampled ==
  ASSUME NEW p \in Profile, NEW chunk, ~Normalized(chunk, p).error
  PROVE  LET mono == ConvertToMono(ConvertEncoding(chunk, p.encoding), p.channels)
             out  == Normalized(chunk, p).chunk.values
         IN /\ p.encoding # "opus"
            /\ \/ p.rate = InternalRate /\ out = mono.values
               \/ out = Resample(mono.values, p.rate, InternalRate)
<1> DEFINE mono == ConvertToMono(ConvertEncoding(chunk, p.encoding), p.channels)
<1>1. CASE p = Canonical
  <2>1. /\ p.encoding = "PCM16" /\ p.channels = 1 /\ p.rate = InternalRate
        /\ Normalized(chunk, p).chunk = chunk
    BY <1>1 DEF Canonical, Normalized, Done
  <2>2. mono = chunk
    BY <2>1 DEF ConvertEncoding, ConvertToMono
  <2> QED
    BY <2>1, <2>2
<1>2. CASE p # Canonical
  <2>1. p.encoding # "opus"
    BY <1>2 DEF Normalized, Fails
  <2>2. CASE p.rate = InternalRate
    BY <1>2, <2>1, <2>2 DEF Normalized, Done
  <2>3. CASE p.rate # InternalRate
    BY <1>2, <2>1, <2>3 DEF Normalized, Done, Fails
  <2> QED
    BY <2>1, <2>2, <2>3
<1> QED
  BY <1>1, <1>2

\* A chunk has been normalized as NormalizeChunk does it.
Received ==
  /\ profile \in Profile /\ given \in Chunk(profile)
  /\ LET made == Normalized(given, profile)
     IN normalized = IF made.error THEN [made EXCEPT !.chunk = given] ELSE made

\* The samples that come out, before it is said what they are.
Heard(out, n) ==
  LET decoded == ConvertEncoding(given, profile.encoding)
      mono    == ConvertToMono(decoded, profile.channels).values
      frames  == Len(given.values) \div profile.channels
  IN /\ n \in Nat /\ out \in Words(n)
     /\ frames * InternalRate - n * profile.rate \in 0 .. profile.rate - 1
     /\ \A i \in 1 .. n :
          LET k == Before(i, profile.rate, InternalRate)
          IN \E x, y \in {k, k + 1} \cap 1 .. frames : Between(out[i], mono[x], mono[y])

LEMMA ReceivedIsHeard ==
  ASSUME Received, ~normalized.error
  PROVE  \E n \in Nat : Heard(normalized.chunk.values, n)
<1> DEFINE p       == profile
           decoded == ConvertEncoding(given, p.encoding)
           mono    == ConvertToMono(decoded, p.channels).values
           frames  == Len(given.values) \div p.channels
           out     == normalized.chunk.values
<1>1. /\ p \in Profile /\ p.channels \in 1 .. 2 /\ p.rate \in Nat \ {0}
      /\ p.encoding \in {"PCM16", "ulaw", "alaw", "opus"}
  <2>1. p \in Profile
    BY DEF Received
  <2>2. p.channels \in 1 .. 2 /\ p.rate \in Rate /\ p.encoding \in {"PCM16", "ulaw", "alaw", "opus"}
    BY <2>1 DEF Profile
  <2>3. Rate \subseteq Nat \ {0}
    BY AudioAssumption
  <2> QED
    BY <2>1, <2>2, <2>3
<1>2. normalized = Normalized(given, p) /\ ~Normalized(given, p).error
  <2> DEFINE made == Normalized(given, p)
  <2>1. normalized = IF made.error THEN [made EXCEPT !.chunk = given] ELSE made
    BY DEF Received
  <2>2. made \in {Fails} \cup {Done(c) : c \in {given, ConvertToMono(decoded, p.channels),
          [values |-> Resample(mono, p.rate, InternalRate), half |-> FALSE]}}
    BY DEF Normalized
  <2>3. [Fails EXCEPT !.chunk = given].error = TRUE
    BY DEF Fails
  <2>4. made.error => made = Fails
    BY <2>2 DEF Done
  <2> HIDE DEF made
  <2>5. ~made.error
    BY <2>1, <2>3, <2>4
  <2> QED
    BY <2>1, <2>5 DEF made
<1>3. PICK m \in Nat :
        /\ given.values \in Words(m) /\ Len(given.values) = m
        /\ given = [values |-> given.values, half |-> given.half]
        /\ p.encoding # "PCM16" =>
             \A i \in 1 .. m : /\ given.values[i] \in Int
                               /\ 0 <= given.values[i] /\ given.values[i] <= 255
  BY ChunkTypes DEF Received
<1>4. decoded.values \in Words(m)
  BY <1>1, <1>3, ConvertedTypes
<1>5. frames \in Nat /\ frames = m \div p.channels
  BY <1>1, <1>3
<1>6. mono \in Words(frames)
  BY <1>1, <1>4, <1>5, MonoBetween
<1>7. \/ p.rate = InternalRate /\ out = mono
      \/ out = Resample(mono, p.rate, InternalRate)
  BY <1>1, <1>2, MixedOrResampled
<1>8. CASE p.rate = InternalRate /\ out = mono
  <2>1. frames * InternalRate - frames * p.rate \in 0 .. p.rate - 1
    <3>1. frames * p.rate = frames * InternalRate /\ frames * InternalRate \in Nat
      BY <1>5, <1>8 DEF InternalRate
    <3>2. 0 \in 0 .. p.rate - 1
      BY <1>8 DEF InternalRate
    <3> HIDE DEF frames
    <3> QED
      BY <3>1, <3>2
  <2>2. ASSUME NEW i \in 1 .. frames
        PROVE  LET k == Before(i, p.rate, InternalRate)
               IN \E x, y \in {k, k + 1} \cap 1 .. frames : Between(out[i], mono[x], mono[y])
    <3>1. Before(i, p.rate, InternalRate) = i
      BY <1>8 DEF Before, InternalRate
    <3>2. Between(out[i], mono[i], mono[i])
      <4>1. mono[i] \in Int
        BY <1>5, <1>6, ChunkLength
      <4> QED
        BY <1>8, <4>1 DEF Between
    <3> QED
      BY <3>1, <3>2
  <2> QED
    BY <1>5, <1>6, <1>8, <2>1, <2>2 DEF Heard
<1>9. CASE out = Resample(mono, p.rate, InternalRate)
  <2> DEFINE n == (frames * InternalRate) \div p.rate
  <2>1. /\ n \in Nat /\ frames * InternalRate - n * p.rate \in 0 .. p.rate - 1
        /\ out \in Words(n)
        /\ \A i \in 1 .. n :
             LET k == Before(i, p.rate, InternalRate)
             IN \E x, y \in {k, k + 1} \cap 1 .. frames : Between(out[i], mono[x], mono[y])
    <3> HIDE DEF mono, frames, out
    <3> QED
      BY <1>1, <1>5, <1>6, <1>9, ResampledBetween, ZenonT(60)
  <2> HIDE DEF n
  <2>2. Heard(out, n)
    BY <2>1 DEF Heard
  <2> QED
    BY <2>1, <2>2
<1> QED
  BY <1>7, <1>8, <1>9

LEMMA HeardAmongNeighbours ==
  ASSUME Received, NEW n \in Nat, NEW out, Heard(out, n), NEW i \in 1 .. n
  PROVE  \E a, b \in Neighbours(i) : a <= out[i] /\ out[i] <= b
<1> DEFINE p       == profile
           decoded == ConvertEncoding(given, p.encoding)
           mono    == ConvertToMono(decoded, p.channels).values
           frames  == Len(given.values) \div p.channels
           k       == Before(i, p.rate, InternalRate)
           instant(j) == AcrossChannels(decoded.values, j, p.channels)
<1>1. /\ p \in Profile /\ p.channels \in 1 .. 2
      /\ p.encoding \in {"PCM16", "ulaw", "alaw", "opus"}
  BY DEF Received, Profile
<1>2. PICK m \in Nat :
        /\ given.values \in Words(m) /\ Len(given.values) = m
        /\ given = [values |-> given.values, half |-> given.half]
        /\ p.encoding # "PCM16" =>
             \A j \in 1 .. m : /\ given.values[j] \in Int
                               /\ 0 <= given.values[j] /\ given.values[j] <= 255
  BY ChunkTypes DEF Received
<1>3. decoded.values \in Words(m)
  BY <1>1, <1>2, ConvertedTypes
<1>4. Len(decoded.values) = m
  BY <1>3, ChunkLength
<1>5. /\ mono \in Words(m \div p.channels)
      /\ \A j \in 1 .. m \div p.channels :
           \E a, b \in ToSet(instant(j)) : a \in Word /\ b \in Word /\ Between(mono[j], a, b)
  BY <1>1, <1>3, MonoBetween
<1>6. /\ out \in Words(n)
      /\ \E x, y \in {k, k + 1} \cap 1 .. frames : Between(out[i], mono[x], mono[y])
  BY DEF Heard
<1>7. PICK x \in {k, k + 1} \cap 1 .. frames, y \in {k, k + 1} \cap 1 .. frames :
        Between(out[i], mono[x], mono[y])
  BY <1>6
<1>8. frames = m \div p.channels /\ frames = Len(decoded.values) \div p.channels /\ frames \in Nat
  BY <1>1, <1>2, <1>4
<1>9. \A j \in {k, k + 1} \cap 1 .. frames : ToSet(instant(j)) \subseteq Neighbours(i)
  BY <1>8 DEF Neighbours
<1> HIDE DEF mono, k, frames, instant
<1>10. PICK a \in ToSet(instant(x)) : a \in Word /\ a <= mono[x]
  BY <1>5, <1>7, <1>8 DEF Between
<1>11. PICK b \in ToSet(instant(y)) : b \in Word /\ mono[y] <= b
  BY <1>5, <1>7, <1>8 DEF Between
<1>12. a \in Int /\ b \in Int /\ out[i] \in Int /\ mono[x] \in Int /\ mono[y] \in Int
  BY <1>5, <1>6, <1>7, <1>8, <1>10, <1>11, WordIsInt, ChunkLength
<1>13. a <= out[i] /\ out[i] <= b
  BY <1>7, <1>10, <1>11, <1>12 DEF Between
<1> QED
  BY <1>7, <1>9, <1>10, <1>11, <1>13

LEMMA LouderIsFurther ==
  ASSUME Received, ~normalized.error, profile.encoding # "PCM16",
         NEW c \in ToSet(given.values), NEW d \in ToSet(given.values), Louder(c, d)
  PROVE  IF Negative(Bits(c)) THEN Decoded(c) < Decoded(d) ELSE Decoded(c) > Decoded(d)
<1>1. PICK m \in Nat :
        /\ given.values \in Words(m)
        /\ \A i \in 1 .. m : /\ given.values[i] \in Int
                             /\ 0 <= given.values[i] /\ given.values[i] <= 255
  BY ChunkTypes DEF Received
<1>2. c \in Int /\ 0 <= c /\ c <= 255 /\ d \in Int /\ 0 <= d /\ d <= 255
  BY <1>1, ChunkLength DEF ToSet
<1>3. CASE profile.encoding = "ulaw"
  <2>1. Bits(c) = 255 - c /\ Bits(d) = 255 - d
        /\ Decoded(c) = ulawDecode(c) /\ Decoded(d) = ulawDecode(d)
    BY <1>3 DEF Bits, Decoded
  <2> QED
    BY <1>2, <2>1, UlawInOrder DEF Louder
<1>4. CASE profile.encoding # "ulaw"
  <2>1. Bits(c) = EveryOtherBit(c) /\ Bits(d) = EveryOtherBit(d)
        /\ Decoded(c) = alawDecode(c) /\ Decoded(d) = alawDecode(d)
    BY <1>4 DEF Bits, Decoded
  <2> QED
    BY <1>2, <2>1, AlawInOrder DEF Louder
<1> QED
  BY <1>3, <1>4

LEMMA ReceivedIsSound == Received => FormatInv
<1> SUFFICES ASSUME Received
             PROVE  FormatInv
  OBVIOUS
<1>1. profile \in Profile /\ profile.channels \in 1 .. 2
  BY DEF Received, Profile
<1>2. PICK m \in Nat : given.values \in Words(m) /\ Len(given.values) = m
  BY ChunkTypes DEF Received
<1>3. CASE normalized.error
  <2>1. normalized.chunk = given
    <3> DEFINE made == Normalized(given, profile)
    <3>1. normalized = IF made.error THEN [made EXCEPT !.chunk = given] ELSE made
      BY DEF Received
    <3>2. made.error
      BY <1>3, <3>1
    <3>3. made = Fails
      BY <3>2 DEF Normalized, Done
    <3> HIDE DEF made
    <3> QED
      BY <3>1, <3>2, <3>3 DEF Fails
  <2>2. ToSet(given.values) \subseteq Word
    BY <1>2, ChunkLength DEF ToSet
  <2> QED
    BY <1>1, <1>3, <2>1, <2>2 DEF FormatInv, AudioTypeOK, NormalizedKeepsSound
<1>4. CASE ~normalized.error
  <2> DEFINE out    == normalized.chunk.values
             frames == Len(given.values) \div profile.channels
  <2>1. PICK n \in Nat : Heard(out, n)
    BY <1>4, ReceivedIsHeard
  <2>2. /\ out \in Words(n) /\ Len(out) = n /\ DOMAIN out = 1 .. n
        /\ frames * InternalRate - n * profile.rate \in 0 .. profile.rate - 1
    BY <2>1, ChunkLength DEF Heard
  <2>3. ToSet(out) \subseteq Word
    BY <2>2, ChunkLength DEF ToSet
  <2>4. \A i \in DOMAIN out : \E a, b \in Neighbours(i) : a <= out[i] /\ out[i] <= b
    BY <2>1, <2>2, HeardAmongNeighbours
  <2>5. profile.encoding # "PCM16" =>
          \A c, d \in ToSet(given.values) :
            Louder(c, d) => IF Negative(Bits(c)) THEN Decoded(c) < Decoded(d)
                                                 ELSE Decoded(c) > Decoded(d)
    BY <1>4, LouderIsFurther
  <2>6. AudioTypeOK
    BY <1>1, <1>4, <2>3 DEF AudioTypeOK
  <2>7. NormalizedKeepsSound
    BY <2>2, <2>4, <2>5 DEF NormalizedKeepsSound
  <2> QED
    BY <2>6, <2>7 DEF FormatInv
<1> QED
  BY <1>3, <1>4

LEMMA AudioInitIsSound == AudioInit => FormatInv
<1> SUFFICES ASSUME AudioInit
             PROVE  FormatInv
  OBVIOUS
<1>1. /\ profile = Canonical /\ given.values = << >> /\ normalized.chunk.values = << >>
      /\ ~normalized.error
  BY DEF AudioInit, Silence, NoChunk
<1>2. Len(<< >>) = 0 /\ DOMAIN << >> = {} /\ ToSet(<< >>) = {}
  BY DEF ToSet
<1>3. AudioTypeOK
  BY <1>1, <1>2 DEF AudioTypeOK
<1>4. 0 \div 1 = 0 /\ 0 * InternalRate - 0 * InternalRate \in 0 .. InternalRate - 1
  BY DEF InternalRate
<1>5. profile.channels = 1 /\ profile.rate = InternalRate /\ profile.encoding = "PCM16"
  BY <1>1 DEF Canonical
<1>6. NormalizedKeepsSound
  BY <1>1, <1>2, <1>4, <1>5 DEF NormalizedKeepsSound
<1> QED
  BY <1>3, <1>6 DEF FormatInv

\* Whatever is sent, the canonical audio lasts as long, each of its samples lies between
\* those about its instant, and a louder code is further out (normalize.go:31-158, 271-309,
\* resample.go:26-84): for any samples of 16 bits, any codes and any rates.
THEOREM NormalizingKeepsSound == AudioSpec => [](NormalizedKeepsSound /\ AudioTypeOK)
<1>1. NormalizeChunk => Received'
  BY DEF NormalizeChunk, Received
<1>2. NextChunk => AudioInit'
  BY DEF NextChunk, AudioInit
<1>3. UNCHANGED audioVars /\ FormatInv => FormatInv'
  BY DEF audioVars, FormatInv, AudioTypeOK, NormalizedKeepsSound, Neighbours, Louder, Bits,
         Decoded
<1>4. FormatInv /\ [AudioNext]_audioVars => FormatInv'
  BY <1>1, <1>2, <1>3, ReceivedIsSound, AudioInitIsSound, PTL DEF AudioNext
<1>5. FormatInv => NormalizedKeepsSound /\ AudioTypeOK
  BY DEF FormatInv
<1> QED
  BY <1>4, <1>5, AudioInitIsSound, PTL DEF AudioSpec
================================================================================
