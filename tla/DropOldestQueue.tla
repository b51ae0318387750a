---------------------------- MODULE DropOldestQueue ----------------------------
(***************************************************************************)
(* What the lossy buffers of the audio path promise, without saying how:   *)
(* a first-in first-out queue of at most Cap items that loses items only   *)
(* from its old end, and only to a writer that found it full.  The         *)
(* bridge's audio channel and the circular sample buffer are both shown to *)
(* implement it.                                                           *)
(***************************************************************************)
EXTENDS Naturals, SequencesExt

CONSTANTS Item, \* what is queued
          Cap   \* how much of it fits

VARIABLES queue,   \* the items, oldest first
          overflow \* a writer has found the queue full and not yet made room

Newest(s) == IF Len(s) <= Cap THEN s ELSE SubSeq(s, Len(s) - Cap + 1, Len(s))

DropOldestInit == queue = <<>> /\ overflow = FALSE

\* A writer adds items at once; what does not fit pushes out the oldest.
PutMany ==
  \E n \in 1 .. Cap + 1 : \E items \in [1 .. n -> Item] :
    queue' = Newest(queue \o items) /\ overflow' = FALSE

\* Or it finds the queue full, drops the oldest item and puts its own later.
FindFull   == Len(queue) = Cap /\ overflow' = TRUE /\ UNCHANGED queue
DropOldest == overflow /\ queue # <<>> /\ queue' = Tail(queue) /\ overflow' = FALSE
GiveUp     == overflow' = FALSE /\ UNCHANGED queue

\* A reader takes some of the oldest items.
Get == \E n \in 1 .. Len(queue) :
         queue' = SubSeq(queue, n + 1, Len(queue)) /\ UNCHANGED overflow

DropOldestNext == PutMany \/ FindFull \/ DropOldest \/ GiveUp \/ Get
DropOldestSpec == DropOldestInit /\ [][DropOldestNext]_<<queue, overflow>>
================================================================================
