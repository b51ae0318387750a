----------------------------- MODULE ChannelBridge -----------------------------
(***************************************************************************)
(* One session of the in-process bridge between the media edge and the     *)
(* orchestrator (orchestrator_bridge.go).  A session has four bounded      *)
(* channels with four overflow policies: audio drops its oldest frame,     *)
(* utterances block, events are refused, interrupts are coalesced.  Every  *)
(* sender looks the session up under the bridge's lock, checks under the   *)
(* session's lock that it is open, and sends holding neither, so that      *)
(* StopSession and Close may come between any two of the three.            *)
(*                                                                         *)
(* Callers: "conn" is the connection's goroutine (StartSession, SendAudio, *)
(* Interrupt, StopSession), "proc" the session handler's event goroutine   *)
(* (SendUserUtterance), "orch" the orchestrator (SendEventToSession).      *)
(* The other ends of the channels, the calls of other sessions and the     *)
(* cancellation of the callers' context are the environment's.  Session    *)
(* identifiers are generated per connection and never used twice.          *)
(***************************************************************************)
EXTENDS Naturals, Sequences

CONSTANTS AudioCap,     \* frames in audioCh (100 in the code)
          UtteranceCap, \* transcripts in utteranceCh (10)
          EventCap,     \* events in the session's eventCh (100)
          InterruptCap, \* signals in interruptCh (1)
          NoticeCap,    \* session starts in the bridge's own eventCh (1000)
          MaxFrames,    \* bound: audio frames sent
          MaxSignals    \* bound: interrupts sent

ASSUME BridgeAssumption ==
  /\ AudioCap \in Nat \ {0} /\ UtteranceCap \in Nat \ {0} /\ EventCap \in Nat \ {0}
  /\ InterruptCap \in Nat \ {0} /\ NoticeCap \in Nat \ {0}
  /\ MaxFrames \in Nat /\ MaxSignals \in Nat

Callers == {"conn", "proc", "orch"}
Ops     == {"audio", "interrupt", "utterance", "event", "stop"}
OpOf    == [conn |-> {"audio", "interrupt"}, proc |-> {"utterance"}, orch |-> {"event"}]
Idle    == [op |-> "none", at |-> "idle"]

VARIABLES registered,   \* the session is in b.sessions
          started,      \* StartSession has put it there
          starting,     \* StartSession is announcing it, with b.mu held
          notices,      \* session starts waiting in b.eventCh
          bridgeClosed, \* b.closed
          chClosed,     \* sessionCh.closed; its channels are closed
          audio, utterances, sessionEvents, interrupts, \* what the channels hold
          call,         \* what each caller is doing, and how far it is
          cancelled,    \* the callers' context is done
          panicked,     \* a goroutine has sent on a closed channel: the process dies
          frames,       \* audio frames handed to SendAudio so far
          signals,      \* interrupts accepted so far
          unheard       \* an accepted interrupt the orchestrator has not taken since

channels   == <<audio, utterances, sessionEvents, interrupts>>
life       == <<registered, started, starting, notices, bridgeClosed, chClosed>>
ghosts     == <<frames, signals, unheard>>
bridgeVars == <<life, channels, call, cancelled, panicked, ghosts>>

BridgeTypeOK ==
  /\ {registered, started, starting, bridgeClosed, chClosed, cancelled, panicked, unheard}
       \subseteq BOOLEAN
  /\ notices \in 0 .. NoticeCap
  /\ audio \in Seq(1 .. MaxFrames) /\ Len(audio) <= AudioCap
  /\ utterances \in 0 .. UtteranceCap /\ sessionEvents \in 0 .. EventCap
  /\ interrupts \in 0 .. InterruptCap
  /\ call \in [Callers -> [op : Ops \cup {"none"},
                           at : {"idle", "check", "send", "drop", "resend", "close"}]]
  /\ frames \in 0 .. MaxFrames /\ signals \in 0 .. MaxSignals

BridgeInit ==
  /\ registered = FALSE /\ started = FALSE /\ starting = FALSE /\ notices = 0
  /\ bridgeClosed = FALSE /\ chClosed = FALSE
  /\ audio = <<>> /\ utterances = 0 /\ sessionEvents = 0 /\ interrupts = 0
  /\ call = [c \in Callers |-> Idle]
  /\ cancelled = FALSE /\ panicked = FALSE
  /\ frames = 0 /\ signals = 0 /\ unheard = FALSE

--------------------------------------------------------------------------------
At(c, op, at) == ~panicked /\ call[c] = [op |-> op, at |-> at]
GoTo(c, at)   == call' = [call EXCEPT ![c].at = at]
Return(c)     == call' = [call EXCEPT ![c] = Idle]
Free(c)       == ~panicked /\ call[c] = Idle
Unlocked      == ~starting \* b.mu is free: only StartSession waits with it held

\* A send on a closed channel is always ready, and panics.
Panic == panicked' = TRUE /\ UNCHANGED <<life, channels, call, cancelled, ghosts>>

\* StartSession registers the session and then announces it on the bridge's own
\* channel, holding b.mu until there is room or the context is done; given up,
\* the session stays registered.
StartSession ==
  /\ Free("conn") /\ Unlocked /\ ~bridgeClosed /\ ~started
  /\ registered' = TRUE /\ started' = TRUE /\ starting' = TRUE
  /\ UNCHANGED <<notices, bridgeClosed, chClosed, channels, call, cancelled, panicked, ghosts>>

Announced ==
  /\ ~panicked /\ starting
  /\ \/ notices < NoticeCap /\ notices' = notices + 1
     \/ cancelled /\ UNCHANGED notices
  /\ starting' = FALSE
  /\ UNCHANGED <<registered, started, bridgeClosed, chClosed, channels, call, cancelled,
                 panicked, ghosts>>

\* Every sender: look up, check, send.
LookUp(c) ==
  /\ Free(c) /\ Unlocked /\ registered
  /\ \E op \in OpOf[c] :
       /\ op = "audio" => frames < MaxFrames
       /\ op = "interrupt" => signals < MaxSignals
       /\ call' = [call EXCEPT ![c] = [op |-> op, at |-> "check"]]
       /\ frames' = IF op = "audio" THEN frames + 1 ELSE frames
  /\ UNCHANGED <<life, channels, cancelled, panicked, signals, unheard>>

Check(c) ==
  /\ ~panicked /\ call[c].at = "check"
  /\ IF chClosed THEN Return(c) ELSE GoTo(c, "send")
  /\ UNCHANGED <<life, channels, cancelled, panicked, ghosts>>

GiveUpOnCancel(c) ==
  /\ ~panicked /\ cancelled /\ call[c].at \in {"send", "resend"} /\ call[c].op # "event"
  /\ Return(c)
  /\ UNCHANGED <<life, channels, cancelled, panicked, ghosts>>

\* SendAudio: a full channel gives up its oldest frame and is tried again.
PutFrame ==
  /\ Len(audio) < AudioCap
  /\ audio' = Append(audio, frames)
  /\ Return("conn")
  /\ UNCHANGED <<life, utterances, sessionEvents, interrupts, cancelled, panicked, ghosts>>

SendAudio ==
  /\ At("conn", "audio", "send")
  /\ \/ chClosed /\ Panic
     \/ ~chClosed /\ PutFrame
     \/ /\ ~chClosed /\ ~cancelled /\ Len(audio) = AudioCap
        /\ GoTo("conn", "drop")
        /\ UNCHANGED <<life, channels, cancelled, panicked, ghosts>>

\* Mutation: the newest frame makes room instead of the oldest.
DropNewestFrame ==
  /\ At("conn", "audio", "drop")
  /\ audio' = IF audio = <<>> THEN <<>> ELSE SubSeq(audio, 1, Len(audio) - 1)
  /\ GoTo("conn", "resend")
  /\ UNCHANGED <<life, utterances, sessionEvents, interrupts, cancelled, panicked, ghosts>>

\* Mutation: the oldest frame is only looked at.
KeepOldestFrame ==
  /\ At("conn", "audio", "drop")
  /\ GoTo("conn", "resend")
  /\ UNCHANGED <<life, channels, cancelled, panicked, ghosts>>

DropFrame ==
  /\ At("conn", "audio", "drop")
  /\ audio' = IF audio = <<>> THEN <<>> ELSE Tail(audio)
  /\ GoTo("conn", "resend")
  /\ UNCHANGED <<life, utterances, sessionEvents, interrupts, cancelled, panicked, ghosts>>

ResendAudio ==
  /\ At("conn", "audio", "resend")
  /\ \/ chClosed /\ Panic
     \/ ~chClosed /\ PutFrame

\* SendUserUtterance waits for room.
SendUtterance ==
  /\ At("proc", "utterance", "send")
  /\ \/ chClosed /\ Panic
     \/ /\ ~chClosed /\ utterances < UtteranceCap
        /\ utterances' = utterances + 1
        /\ Return("proc")
        /\ UNCHANGED <<life, audio, sessionEvents, interrupts, cancelled, panicked, ghosts>>

\* Mutation: the channel is made without a buffer, and a signal nobody is
\* waiting for takes the default branch.
InterruptUnbuffered ==
  /\ At("conn", "interrupt", "send")
  /\ \/ chClosed /\ Panic
     \/ /\ ~chClosed
        /\ Return("conn")
        /\ signals' = signals + 1 /\ unheard' = TRUE
        /\ UNCHANGED <<life, channels, cancelled, panicked, frames>>

\* Interrupt signals, or finds a signal waiting already.
Interrupt ==
  /\ At("conn", "interrupt", "send")
  /\ \/ chClosed /\ Panic
     \/ /\ ~chClosed
        /\ \/ interrupts < InterruptCap /\ interrupts' = interrupts + 1
           \/ interrupts = InterruptCap /\ ~cancelled /\ UNCHANGED interrupts
        /\ Return("conn")
        /\ signals' = signals + 1 /\ unheard' = TRUE
        /\ UNCHANGED <<life, audio, utterances, sessionEvents, cancelled, panicked, frames>>

\* SendEventToSession refuses an event it has no room for.
SendEventToSession ==
  /\ At("orch", "event", "send")
  /\ \/ chClosed /\ Panic
     \/ /\ ~chClosed
        /\ sessionEvents' = IF sessionEvents < EventCap THEN sessionEvents + 1 ELSE sessionEvents
        /\ Return("orch")
        /\ UNCHANGED <<life, audio, utterances, interrupts, cancelled, panicked, ghosts>>

\* StopSession: out of the map, then closed under the session's own lock.
StopSession ==
  /\ Free("conn") /\ Unlocked /\ registered
  /\ registered' = FALSE
  /\ call' = [call EXCEPT !["conn"] = [op |-> "stop", at |-> "close"]]
  /\ UNCHANGED <<started, starting, notices, bridgeClosed, chClosed, channels, cancelled,
                 panicked, ghosts>>

CloseChannels ==
  /\ At("conn", "stop", "close")
  /\ chClosed' = TRUE
  /\ Return("conn")
  /\ UNCHANGED <<registered, started, starting, notices, bridgeClosed, channels, cancelled,
                 panicked, ghosts>>

\* Close, at shutdown, closes the bridge and every session in one go.
CloseBridge ==
  /\ ~panicked /\ Unlocked /\ ~bridgeClosed
  /\ bridgeClosed' = TRUE
  /\ chClosed' = (chClosed \/ registered)
  /\ registered' = FALSE
  /\ UNCHANGED <<started, starting, notices, channels, call, cancelled, panicked, ghosts>>

--------------------------------------------------------------------------------
\* The environment: contexts, other sessions, and the channels' other ends.
CancelCallers ==
  /\ ~panicked /\ ~cancelled /\ cancelled' = TRUE
  /\ UNCHANGED <<life, channels, call, panicked, ghosts>>

OtherSessionStarts ==
  /\ ~panicked /\ Unlocked /\ ~bridgeClosed /\ notices < NoticeCap
  /\ notices' = notices + 1
  /\ UNCHANGED <<registered, started, starting, bridgeClosed, chClosed, channels, call,
                 cancelled, panicked, ghosts>>

TakeNotice ==
  /\ ~panicked /\ notices > 0 /\ notices' = notices - 1
  /\ UNCHANGED <<registered, started, starting, bridgeClosed, chClosed, channels, call,
                 cancelled, panicked, ghosts>>

TakeFrame ==
  /\ ~panicked /\ audio # <<>> /\ audio' = Tail(audio)
  /\ UNCHANGED <<life, utterances, sessionEvents, interrupts, call, cancelled, panicked, ghosts>>

TakeUtterance ==
  /\ ~panicked /\ utterances > 0 /\ utterances' = utterances - 1
  /\ UNCHANGED <<life, audio, sessionEvents, interrupts, call, cancelled, panicked, ghosts>>

TakeEvent ==
  /\ ~panicked /\ sessionEvents > 0 /\ sessionEvents' = sessionEvents - 1
  /\ UNCHANGED <<life, audio, utterances, interrupts, call, cancelled, panicked, ghosts>>

TakeInterrupt ==
  /\ ~panicked /\ interrupts > 0 /\ interrupts' = interrupts - 1 /\ unheard' = FALSE
  /\ UNCHANGED <<life, audio, utterances, sessionEvents, call, cancelled, panicked, frames,
                 signals>>

BridgeNext ==
  \/ StartSession
  \/ Announced
  \/ \E c \in Callers : LookUp(c)
  \/ \E c \in Callers : Check(c)
  \/ \E c \in Callers : GiveUpOnCancel(c)
  \/ SendAudio
  \/ DropFrame
  \/ ResendAudio
  \/ SendUtterance
  \/ Interrupt
  \/ SendEventToSession
  \/ StopSession
  \/ CloseChannels
  \/ CloseBridge
  \/ CancelCallers
  \/ OtherSessionStarts
  \/ TakeNotice
  \/ TakeFrame
  \/ TakeUtterance
  \/ TakeEvent
  \/ TakeInterrupt

\* The connection's goroutine keeps running once it has called SendAudio; the
\* orchestrator need not read.
SendAudioStep == Check("conn") \/ GiveUpOnCancel("conn") \/ SendAudio \/ DropFrame \/ ResendAudio
BridgeSpec    == BridgeInit /\ [][BridgeNext]_bridgeVars /\ WF_bridgeVars(SendAudioStep)

--------------------------------------------------------------------------------
\* The audio channel loses frames only at its old end, and only to a SendAudio
\* that found it full, whatever the orchestrator reads in between (lines 157-174).
AudioQueue == INSTANCE DropOldestQueue
  WITH Item <- 1 .. MaxFrames, Cap <- AudioCap, queue <- audio,
       overflow <- (call["conn"].at = "drop")
AudioDropsOldest == AudioQueue!DropOldestSpec

\* An interrupt that Interrupt accepted, a coalesced one too, is still waiting
\* in the channel until the orchestrator has taken a signal after it; stopping
\* the session or closing the bridge does not lose it (lines 231-239).
InterruptNotLost == unheard => interrupts > 0

\* SendAudio never leaves the connection's goroutine waiting: with the
\* orchestrator not reading at all, it returns (or dies with the process).
SendAudioReturns == call["conn"].op = "audio" ~> (call["conn"].op # "audio" \/ panicked)
================================================================================
