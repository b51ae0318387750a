---------------------------- MODULE CircularBuffer -----------------------------
(***************************************************************************)
(* The circular sample buffer (pkg/audio/buffer.go): an array, two         *)
(* positions and a count.  Written beyond its capacity it overwrites its   *)
(* oldest bytes, also within one Write longer than the whole array.  Each  *)
(* operation holds the lock throughout.                                    *)
(***************************************************************************)
EXTENDS Integers, Sequences

CONSTANTS Byte, \* byte values
          Size  \* capacity

ASSUME CircularAssumption == Size \in Nat \ {0} /\ Byte # {}

VARIABLES data,     \* cb.data
          readPos,  \* cb.readPos
          writePos, \* cb.writePos
          count     \* cb.count

circularVars == <<data, readPos, writePos, count>>

CircularTypeOK ==
  /\ data \in [0 .. Size - 1 -> Byte]
  /\ readPos \in 0 .. Size - 1 /\ writePos \in 0 .. Size - 1 /\ count \in 0 .. Size

CircularInit ==
  /\ data = [i \in 0 .. Size - 1 |-> CHOOSE b \in Byte : TRUE]
  /\ readPos = 0 /\ writePos = 0 /\ count = 0

Step(pos) == (pos + 1) % Size

\* Mutation: a full buffer overwrites without giving up its oldest byte.
PutByteInPlace(st, b) ==
  [d |-> [st.d EXCEPT ![st.w] = b],
   r |-> st.r,
   w |-> Step(st.w),
   n |-> IF st.n >= Size THEN st.n ELSE st.n + 1]

\* One turn of Write's loop.
PutByte(st, b) ==
  [d |-> [st.d EXCEPT ![st.w] = b],
   r |-> IF st.n >= Size THEN Step(st.r) ELSE st.r,
   w |-> Step(st.w),
   n |-> IF st.n >= Size THEN st.n ELSE st.n + 1]

\* The whole loop.
PutBytes(st, p) ==
  LET after[i \in 0 .. Len(p)] == IF i = 0 THEN st ELSE PutByte(after[i - 1], p[i])
  IN after[Len(p)]

WriteBytes(p) ==
  LET st == PutBytes([d |-> data, r |-> readPos, w |-> writePos, n |-> count], p)
  IN data' = st.d /\ readPos' = st.r /\ writePos' = st.w /\ count' = st.n

\* Read takes at most what there is.
ReadBytes(len) ==
  LET n == IF len > count THEN count ELSE len
  IN readPos' = (readPos + n) % Size /\ count' = count - n /\ UNCHANGED <<data, writePos>>

ResetCircular == readPos' = 0 /\ writePos' = 0 /\ count' = 0 /\ UNCHANGED data

WriteSome == \E n \in 0 .. Size + 1 : \E p \in [1 .. n -> Byte] : WriteBytes(p)
ReadSome  == \E n \in 1 .. Size + 1 : ReadBytes(n)

CircularNext == WriteSome \/ ReadSome \/ ResetCircular
CircularSpec == CircularInit /\ [][CircularNext]_circularVars

\* The bytes still to be read, oldest first.
Contents == [i \in 1 .. count |-> data[(readPos + i - 1) % Size]]

\* Through every wrap-around, the array and its positions behave as a queue
\* that keeps the newest Size bytes and drops the oldest (lines 272-310).
SampleQueue == INSTANCE DropOldestQueue
  WITH Item <- Byte, Cap <- Size, queue <- Contents, overflow <- FALSE
KeepsNewestBytes == SampleQueue!DropOldestSpec
================================================================================
