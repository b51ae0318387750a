-------------------------------- MODULE Playout --------------------------------
(***************************************************************************)
(* The playout controller (pkg/audio/playout.go): a jitter buffer and a    *)
(* tracker of what has been handed out.  Reading takes a frame under the   *)
(* buffer's lock and advances the tracker under the tracker's; Stop resets *)
(* the tracker and then clears the buffer; so a Stop may fall between the  *)
(* two halves of a read and a read between the two halves of a Stop.       *)
(* Positions are counted in frames.                                        *)
(***************************************************************************)
EXTENDS Integers, JitterBuffer

CONSTANT MaxHeard \* bound: frames read, and bytes tracked, between two resets

ASSUME PlayoutAssumption == MaxHeard \in Nat

VARIABLES advancing, \* the reader has taken a frame and not yet advanced the tracker
          sent,      \* tracker.bytesSent
          total,     \* tracker.totalBytes, 0 while unknown
          paused,    \* tracker.paused
          stopping,  \* Stop has reset the tracker and not yet cleared the buffer
          heard,     \* frames taken since the last reset
          wasPaused, \* the tracker has been paused since the last reset
          completed  \* onComplete has been called since the last reset

trackerVars == <<sent, total, paused, completed, wasPaused>>
playoutVars == <<jitterVars, trackerVars, advancing, stopping, heard>>

PlayoutTypeOK ==
  /\ JitterTypeOK
  /\ {advancing, paused, stopping, wasPaused, completed} \subseteq BOOLEAN
  /\ sent \in 0 .. MaxHeard + 1 /\ total \in 0 .. MaxHeard /\ heard \in 0 .. MaxHeard

PlayoutInit ==
  /\ JitterInit
  /\ advancing = FALSE /\ stopping = FALSE /\ heard = 0
  /\ sent = 0 /\ total = 0 /\ paused = FALSE /\ completed = FALSE /\ wasPaused = FALSE

\* Read and TryRead: a frame from the buffer first, the tracker afterwards.
TakeFrameToPlay ==
  /\ ~advancing /\ heard < MaxHeard
  /\ ReadTakes \/ TryRead
  /\ advancing' = TRUE /\ heard' = heard + 1
  /\ UNCHANGED <<trackerVars, stopping>>

Advance ==
  /\ advancing /\ advancing' = FALSE
  /\ IF paused
       THEN UNCHANGED <<sent, completed>>
       ELSE /\ sent' = sent + 1
            /\ completed' = (completed \/ (total > 0 /\ sent + 1 >= total))
  /\ UNCHANGED <<jitterVars, total, paused, wasPaused, stopping, heard>>

\* Mutation: the position survives a reset.
ResetKeepsPosition ==
  /\ ~stopping /\ stopping' = TRUE
  /\ paused' = FALSE
  /\ heard' = 0 /\ wasPaused' = FALSE /\ completed' = FALSE
  /\ UNCHANGED <<jitterVars, sent, total, advancing>>

\* Stop: Reset, then Clear.
Reset ==
  /\ ~stopping /\ stopping' = TRUE
  /\ sent' = 0 /\ paused' = FALSE
  /\ heard' = 0 /\ wasPaused' = FALSE /\ completed' = FALSE
  /\ UNCHANGED <<jitterVars, total, advancing>>

ClearBuffer ==
  /\ stopping /\ stopping' = FALSE
  /\ Clear
  /\ UNCHANGED <<trackerVars, advancing, heard>>

Pause ==
  /\ ~paused /\ paused' = TRUE /\ wasPaused' = TRUE
  /\ UNCHANGED <<jitterVars, sent, total, completed, advancing, stopping, heard>>

Resume ==
  /\ paused /\ paused' = FALSE
  /\ UNCHANGED <<jitterVars, sent, total, completed, wasPaused, advancing, stopping, heard>>

\* The length of the playout becomes known once.
SetTotalBytes ==
  /\ total = 0 /\ total' \in 1 .. MaxHeard
  /\ UNCHANGED <<jitterVars, sent, paused, completed, wasPaused, advancing, stopping, heard>>

\* The buffer's own steps leave the tracker alone.
BufferStep ==
  /\ \/ Write
     \/ ~advancing /\ EnterRead
     \/ ReadFindsClosed
     \/ ReadSleeps
     \/ ReadWakes
     \/ ReadCancelled
     \/ CloseBuffer
     \/ CancelRead
  /\ UNCHANGED <<trackerVars, advancing, stopping, heard>>

PlayoutNext ==
  \/ BufferStep \/ TakeFrameToPlay \/ Advance \/ Reset \/ ClearBuffer \/ Pause \/ Resume
  \/ SetTotalBytes

PlayoutSpec == PlayoutInit /\ [][PlayoutNext]_playoutVars

\* The position an interruption reports is what the client was given since the
\* last stop, give or take the one frame whose read the stop cut in two; and a
\* playout is complete only when all but that frame has been handed out.
PositionWithinOneFrame ==
  /\ sent <= heard + 1
  /\ ~wasPaused => sent >= heard - 1
  /\ completed => heard + 1 >= total
================================================================================
