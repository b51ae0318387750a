----------------------------- MODULE JitterBuffer ------------------------------
(***************************************************************************)
(* The jitter buffer (pkg/audio/buffer.go): a bounded queue of frames      *)
(* whose reader sleeps on a one-slot notification channel outside the      *)
(* lock.  One goroutine writes, one reads, either blocking (Read) or       *)
(* polling (TryRead), and others clear and close it.  Frames are counted.  *)
(***************************************************************************)
EXTENDS Naturals

CONSTANT MaxSize \* frames the buffer holds (100 in the session handler)

ASSUME JitterAssumption == MaxSize \in Nat \ {0}

VARIABLES held,      \* frames in the buffer
          bufClosed, \* closed; the notification channel is closed with it
          notified,  \* a token waits in the notification channel
          reader,    \* the reader is outside Read, about to look, or asleep in it
          readDone   \* the context given to Read is done

jitterVars == <<held, bufClosed, notified, reader, readDone>>

JitterTypeOK ==
  /\ held \in 0 .. MaxSize
  /\ reader \in {"out", "look", "wait"}
  /\ {bufClosed, notified, readDone} \subseteq BOOLEAN

JitterInit ==
  held = 0 /\ bufClosed = FALSE /\ notified = FALSE /\ reader = "out" /\ readDone = FALSE

\* Mutation: an unbuffered channel: a reader that has let go of the lock but is
\* not receiving yet misses the notification.
WriteUnbuffered ==
  /\ ~bufClosed /\ held < MaxSize
  /\ held' = held + 1 /\ notified' \in {notified, notified \/ reader = "wait"}
  /\ UNCHANGED <<bufClosed, reader, readDone>>

\* Write refuses when closed or full, and leaves at most one token.
Write ==
  /\ ~bufClosed /\ held < MaxSize
  /\ held' = held + 1 /\ notified' = TRUE
  /\ UNCHANGED <<bufClosed, reader, readDone>>

EnterRead ==
  /\ reader = "out" /\ ~readDone
  /\ reader' = "look"
  /\ UNCHANGED <<held, bufClosed, notified, readDone>>

\* Under the lock Read takes a frame, finds the buffer closed and drained, or
\* decides to sleep.
ReadTakes ==
  /\ reader = "look" /\ held > 0
  /\ held' = held - 1 /\ reader' = "out"
  /\ UNCHANGED <<bufClosed, notified, readDone>>

ReadFindsClosed ==
  /\ reader = "look" /\ held = 0 /\ bufClosed
  /\ reader' = "out"
  /\ UNCHANGED <<held, bufClosed, notified, readDone>>

ReadSleeps ==
  /\ reader = "look" /\ held = 0 /\ ~bufClosed
  /\ reader' = "wait"
  /\ UNCHANGED <<held, bufClosed, notified, readDone>>

ReadWakes ==
  /\ reader = "wait" /\ (notified \/ bufClosed)
  /\ reader' = "look" /\ notified' = FALSE
  /\ UNCHANGED <<held, bufClosed, readDone>>

ReadCancelled ==
  /\ reader = "wait" /\ readDone
  /\ reader' = "out"
  /\ UNCHANGED <<held, bufClosed, notified, readDone>>

TryRead ==
  /\ reader = "out" /\ held > 0
  /\ held' = held - 1
  /\ UNCHANGED <<bufClosed, notified, reader, readDone>>

Clear ==
  /\ held' = 0
  /\ UNCHANGED <<bufClosed, notified, reader, readDone>>

CloseBuffer ==
  /\ ~bufClosed /\ bufClosed' = TRUE
  /\ UNCHANGED <<held, notified, reader, readDone>>

CancelRead ==
  /\ ~readDone /\ readDone' = TRUE
  /\ UNCHANGED <<held, bufClosed, notified, reader>>

JitterNext ==
  \/ Write \/ EnterRead \/ ReadTakes \/ ReadFindsClosed \/ ReadSleeps \/ ReadWakes
  \/ ReadCancelled \/ TryRead \/ Clear \/ CloseBuffer \/ CancelRead

JitterSpec == JitterInit /\ [][JitterNext]_jitterVars

\* A reader asleep over a frame, or over a closed buffer, will be woken: Read
\* looks under the lock and sleeps outside it, and Write, Clear and Close may
\* come in between (lines 59-93).
NoLostWakeup == reader = "wait" /\ (held > 0 \/ bufClosed) => notified \/ bufClosed
================================================================================
