------------------------------ MODULE Reassembler ------------------------------
(***************************************************************************)
(* Reassembly of numbered audio chunks (pkg/audio/chunk.go).  The network  *)
(* delivers the chunks in any order, some twice, some never.  The expected *)
(* chunk is emitted with the buffered ones that follow it; an early chunk  *)
(* is buffered; with the buffer full the expected number is skipped.       *)
(* Numbers are far from the end of uint32.                                 *)
(***************************************************************************)
EXTENDS Naturals, Sequences, FiniteSets

CONSTANTS LastSeq,      \* bound: chunks 0 .. LastSeq are sent
          MaxBufferSize \* chunks buffered before the expected one is skipped (100)

ASSUME ReassemblerAssumption == LastSeq \in Nat /\ MaxBufferSize \in Nat \ {0}

VARIABLES expectedSeq, \* r.expectedSeq
          early,       \* the numbers in r.buffer
          emitted,     \* what onData has been called with since the last Reset
          received,    \* the numbers AddChunk has been called with since then
          skipped      \* the numbers given up since then

reassemblerVars == <<expectedSeq, early, emitted, received, skipped>>
Seqs == 0 .. LastSeq

ReassemblerTypeOK ==
  /\ expectedSeq \in 0 .. LastSeq + 1
  /\ {early, received} \subseteq SUBSET Seqs /\ skipped \in SUBSET (0 .. LastSeq)
  /\ emitted \in Seq(Seqs)

ReassemblerInit ==
  expectedSeq = 0 /\ early = {} /\ emitted = <<>> /\ received = {} /\ skipped = {}

\* The first number from s on that is not buffered is gap.
Sequential(s, gap) == s .. gap - 1 \subseteq early /\ gap \notin early

Run(a, b) == [i \in 1 .. b - a |-> a + i - 1]

\* The expected chunk, and any buffered sequential chunks.
AddExpected(seq) ==
  /\ seq = expectedSeq
  /\ \E gap \in seq + 1 .. LastSeq + 1 :
       /\ Sequential(seq + 1, gap)
       /\ expectedSeq' = gap
       /\ emitted' = emitted \o Run(seq, gap)
       /\ early' = early \ (seq + 1 .. gap - 1)
  /\ received' = received \cup {seq}
  /\ UNCHANGED skipped

\* An old chunk is ignored.
AddOld(seq) == seq < expectedSeq /\ UNCHANGED reassemblerVars

\* Mutation: old chunks are not told from early ones.
AddEarlyOrOld(seq) ==
  /\ seq # expectedSeq /\ Cardinality(early) < MaxBufferSize
  /\ early' = early \cup {seq} /\ received' = received \cup {seq}
  /\ UNCHANGED <<expectedSeq, emitted, skipped>>

\* Any other chunk is buffered.
AddEarly(seq) ==
  /\ seq > expectedSeq /\ Cardinality(early) < MaxBufferSize
  /\ early' = early \cup {seq} /\ received' = received \cup {seq}
  /\ UNCHANGED <<expectedSeq, emitted, skipped>>

\* With the buffer full the expected number is given up, and its chunk
\* deleted, also if it is buffered; whatever follows it stays buffered.
AddWhenFull(seq) ==
  /\ seq > expectedSeq /\ Cardinality(early) >= MaxBufferSize
  /\ expectedSeq' = expectedSeq + 1
  /\ early' = (early \ {expectedSeq}) \cup {seq}
  /\ skipped' = skipped \cup {expectedSeq}
  /\ received' = received \cup {seq}
  /\ UNCHANGED emitted

ResetReassembler ==
  /\ expectedSeq' = 0 /\ early' = {}
  /\ emitted' = <<>> /\ received' = {} /\ skipped' = {}

ReassemblerNext ==
  \/ \E seq \in Seqs : AddExpected(seq)
  \/ \E seq \in Seqs : AddOld(seq)
  \/ \E seq \in Seqs : AddEarly(seq)
  \/ \E seq \in Seqs : AddWhenFull(seq)
  \/ ResetReassembler

ReassemblerSpec == ReassemblerInit /\ [][ReassemblerNext]_reassemblerVars

\* Chunks are emitted in order and once, whatever the network does; and until
\* the buffer overflows nothing received is lost: it has been emitted, or it
\* waits above a gap (lines 125-167).
ReassembledInOrder ==
  /\ \A i \in 1 .. Len(emitted) - 1 : emitted[i] < emitted[i + 1]
  /\ skipped = {} =>
       /\ emitted = Run(0, expectedSeq)
       /\ received = early \cup (0 .. expectedSeq - 1)
       /\ \A s \in early : s > expectedSeq
================================================================================
