-------------------------------- MODULE Chunker --------------------------------
(***************************************************************************)
(* Cutting audio into frames of a fixed size (pkg/audio/chunk.go), in the  *)
(* two ways the code has: a Chunker, which keeps what does not fill a      *)
(* frame for the next Write, and ChunkStatic, which is given everything at *)
(* once.  Bytes are numbered in the order in which they arrive.            *)
(***************************************************************************)
EXTENDS Integers, Sequences

CONSTANTS FrameSize, \* bytes in a frame (320)
          MaxBytes   \* bound: bytes written between two resets

ASSUME ChunkerAssumption == FrameSize \in Nat \ {0} /\ MaxBytes \in Nat

VARIABLES pending, \* c.buffer
          cutOff,  \* what onFrame has been called with since the last Flush or Reset
          arrived  \* the bytes written since then

chunkerVars == <<pending, cutOff, arrived>>

ChunkerTypeOK ==
  /\ pending \in Seq(1 .. MaxBytes) /\ Len(pending) < FrameSize
  /\ cutOff \in Seq([1 .. FrameSize -> 1 .. MaxBytes])
  /\ arrived \in Seq(1 .. MaxBytes)

ChunkerInit == pending = <<>> /\ cutOff = <<>> /\ arrived = <<>>

\* One turn of Write's loop, if there is one.
CutOne(st) ==
  IF Len(st.rest) < FrameSize
    THEN st
    ELSE [cut  |-> Append(st.cut, SubSeq(st.rest, 1, FrameSize)),
          rest |-> SubSeq(st.rest, FrameSize + 1, Len(st.rest))]

\* The loop takes at most one turn for each byte written.
CutLoop(buffer, turns) ==
  LET after[i \in 0 .. turns] == IF i = 0 THEN [cut |-> <<>>, rest |-> buffer]
                                          ELSE CutOne(after[i - 1])
  IN after[turns]

\* Mutation: a frame left over when the loop ends is dropped with its bytes.
WriteFrames(data) ==
  LET loop == CutLoop(pending \o data, Len(data))
  IN cutOff' = cutOff \o loop.cut /\ pending' = <<>> /\ arrived' = arrived \o data

WriteData(data) ==
  LET loop == CutLoop(pending \o data, Len(data))
  IN cutOff' = cutOff \o loop.cut /\ pending' = loop.rest /\ arrived' = arrived \o data

WriteChunk ==
  \E n \in 0 .. MaxBytes - Len(arrived) :
    WriteData([i \in 1 .. n |-> Len(arrived) + i])

\* Flush hands the rest to its caller, Reset forgets it.
Forget == pending' = <<>> /\ cutOff' = <<>> /\ arrived' = <<>>
FlushChunker == pending # <<>> /\ Forget
ResetChunker == Forget

ChunkerNext == WriteChunk \/ FlushChunker \/ ResetChunker
ChunkerSpec == ChunkerInit /\ [][ChunkerNext]_chunkerVars

ChunkStatic(data) ==
  LET n == Len(data) \div FrameSize
  IN [cut  |-> [i \in 1 .. n |-> SubSeq(data, (i - 1) * FrameSize + 1, i * FrameSize)],
      rest |-> SubSeq(data, n * FrameSize + 1, Len(data))]

\* However the audio is split over the calls of Write, the Chunker's frames and
\* its rest are those of ChunkStatic on the whole (lines 24-40, 77-101).
FramesAreTheStream == [cut |-> cutOff, rest |-> pending] = ChunkStatic(arrived)
================================================================================
