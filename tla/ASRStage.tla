------------------------------- MODULE ASRStage --------------------------------
(***************************************************************************)
(* The speech recognition stage (pipeline/asr_stage.go), once per call:    *)
(* a sender that hands the caller's audio to the provider, a receiver that *)
(* hands the provider's results to the caller, both over bounded channels, *)
(* and a context that ends them.  ProcessAudio ("once") sends one piece of *)
(* audio and stops at the first final result; ProcessAudioStream           *)
(* ("stream") forwards until its input is closed, and its receiver waits   *)
(* for the sender before it closes the results.  The provider and the      *)
(* caller owe nothing: either may stop reading, or never answer.           *)
(***************************************************************************)
EXTENDS Naturals, Sequences

CONSTANTS StreamCap, \* pieces of audio in the provider's stream (10)
          ResultCap, \* results in resultCh (10)
          MaxAudio,  \* bound: pieces of audio the caller sends
          MaxResults \* bound: results the provider sends

ASSUME ASRAssumption ==
  /\ StreamCap \in Nat \ {0} /\ ResultCap \in Nat \ {0}
  /\ MaxAudio \in Nat \ {0} /\ MaxResults \in Nat

VARIABLES mode,         \* "once" or "stream"
          sender,       \* "take", "put", "done"
          toCome,       \* pieces of audio the caller may still send
          inputClosed,  \* the caller has closed its audio stream
          stream,       \* pieces in the provider's stream
          streamClosed, \* the sender has closed it
          provider,     \* "running", or its result channel is closed
          results,      \* results the provider may still send
          offer,        \* the result the provider is sending: "none", "partial", "final", "error"
          receiver,     \* "take", "wait", "done", or the result it is forwarding
          resultCh,     \* results waiting for the caller
          resultClosed, \* the receiver has closed resultCh
          asrCancelled  \* ctx is done

senderVars   == <<sender, toCome, inputClosed, stream, streamClosed>>
receiverVars == <<receiver, resultCh, resultClosed>>
providerVars == <<provider, results, offer>>
asrVars      == <<mode, senderVars, providerVars, receiverVars, asrCancelled>>

Result == {"partial", "final", "error"}

ASRTypeOK ==
  /\ mode \in {"once", "stream"} /\ sender \in {"take", "put", "done"}
  /\ toCome \in 0 .. MaxAudio /\ stream \in 0 .. StreamCap /\ results \in 0 .. MaxResults
  /\ offer \in Result \cup {"none"} /\ provider \in {"running", "closed"}
  /\ receiver \in {"take", "wait", "done"} \cup Result
  /\ resultCh \in Seq(Result) /\ Len(resultCh) <= ResultCap
  /\ {inputClosed, streamClosed, resultClosed, asrCancelled} \subseteq BOOLEAN

\* StreamRecognize has succeeded; a call the breaker or the provider refuses
\* returns before either goroutine is started.
ASRInit ==
  /\ mode \in {"once", "stream"}
  /\ sender = IF mode = "once" THEN "put" ELSE "take"
  /\ toCome = IF mode = "once" THEN 0 ELSE MaxAudio
  /\ inputClosed = FALSE /\ stream = 0 /\ streamClosed = FALSE
  /\ provider = "running" /\ results = MaxResults /\ offer = "none"
  /\ receiver = "take" /\ resultCh = <<>> /\ resultClosed = FALSE
  /\ asrCancelled = FALSE

\* The sender ends by closing the provider's stream.
SenderEnds == sender' = "done" /\ streamClosed' = TRUE /\ UNCHANGED <<toCome, inputClosed, stream>>

SenderTakes ==
  /\ sender = "take"
  /\ \/ /\ toCome > 0 /\ toCome' = toCome - 1 /\ sender' = "put"
        /\ UNCHANGED <<inputClosed, stream, streamClosed>>
     \/ inputClosed /\ SenderEnds
     \/ asrCancelled /\ SenderEnds
  /\ UNCHANGED <<mode, providerVars, receiverVars, asrCancelled>>

\* Mutation: the inner send does not watch the context.
SenderPutsBlindly ==
  /\ sender = "put" /\ stream < StreamCap
  /\ stream' = stream + 1
  /\ IF mode = "once" THEN sender' = "done" /\ streamClosed' = TRUE
                      ELSE sender' = "take" /\ UNCHANGED streamClosed
  /\ UNCHANGED <<toCome, inputClosed, mode, providerVars, receiverVars, asrCancelled>>

SenderPuts ==
  /\ sender = "put"
  /\ \/ /\ stream < StreamCap /\ stream' = stream + 1
        /\ IF mode = "once" THEN sender' = "done" /\ streamClosed' = TRUE
                            ELSE sender' = "take" /\ UNCHANGED streamClosed
        /\ UNCHANGED <<toCome, inputClosed>>
     \/ asrCancelled /\ SenderEnds
  /\ UNCHANGED <<mode, providerVars, receiverVars, asrCancelled>>

\* The receiver's deferred calls: in "stream", wait for the sender, then close.
ReceiverLeaves ==
  receiver' = (IF mode = "stream" THEN "wait" ELSE "done") /\ resultClosed' = (mode = "once")

ReceiverTakes ==
  /\ receiver = "take"
  /\ \/ offer # "none" /\ receiver' = offer /\ offer' = "none" /\ UNCHANGED resultClosed
     \/ provider = "closed" /\ offer = "none" /\ ReceiverLeaves /\ UNCHANGED offer
     \/ asrCancelled /\ ReceiverLeaves /\ UNCHANGED offer
  /\ UNCHANGED <<mode, senderVars, provider, results, resultCh, asrCancelled>>

ReceiverPuts ==
  /\ receiver \in Result
  /\ \/ /\ Len(resultCh) < ResultCap /\ resultCh' = Append(resultCh, receiver)
        /\ IF mode = "once" /\ receiver = "final"
             THEN ReceiverLeaves
             ELSE receiver' = "take" /\ UNCHANGED resultClosed
     \/ asrCancelled /\ ReceiverLeaves /\ UNCHANGED resultCh
  /\ UNCHANGED <<mode, senderVars, providerVars, asrCancelled>>

ReceiverCloses ==
  /\ receiver = "wait" /\ sender = "done"
  /\ receiver' = "done" /\ resultClosed' = TRUE
  /\ UNCHANGED <<mode, senderVars, providerVars, resultCh, asrCancelled>>

\* The environment: the caller's input, its reading, its cancel; the provider.
CallerClosesInput ==
  /\ mode = "stream" /\ ~inputClosed /\ inputClosed' = TRUE /\ toCome' = 0
  /\ UNCHANGED <<mode, sender, stream, streamClosed, providerVars, receiverVars, asrCancelled>>

CallerReads ==
  /\ resultCh # <<>> /\ resultCh' = Tail(resultCh)
  /\ UNCHANGED <<mode, senderVars, providerVars, receiver, resultClosed, asrCancelled>>

CancelASR ==
  /\ ~asrCancelled /\ asrCancelled' = TRUE
  /\ UNCHANGED <<mode, senderVars, providerVars, receiverVars>>

ProviderReads ==
  /\ stream > 0 /\ stream' = stream - 1
  /\ UNCHANGED <<mode, sender, toCome, inputClosed, streamClosed, providerVars, receiverVars,
                 asrCancelled>>

ProviderOffers ==
  /\ provider = "running" /\ offer = "none" /\ results > 0
  /\ offer' \in Result /\ results' = results - 1
  /\ UNCHANGED <<mode, senderVars, provider, receiverVars, asrCancelled>>

ProviderEnds ==
  /\ provider = "running" /\ offer = "none" /\ provider' = "closed"
  /\ UNCHANGED <<mode, senderVars, results, offer, receiverVars, asrCancelled>>

SenderStep   == SenderTakes \/ SenderPuts
ReceiverStep == ReceiverTakes \/ ReceiverPuts \/ ReceiverCloses

ASRNext ==
  \/ SenderTakes \/ SenderPuts \/ ReceiverTakes \/ ReceiverPuts \/ ReceiverCloses
  \/ CallerClosesInput \/ CallerReads \/ CancelASR
  \/ ProviderReads \/ ProviderOffers \/ ProviderEnds

\* Only the stage's own two goroutines are scheduled fairly.
ASRSpec == ASRInit /\ [][ASRNext]_asrVars /\ WF_asrVars(SenderStep) /\ WF_asrVars(ReceiverStep)

\* A cancelled context ends both goroutines and closes both channels, with a
\* caller that no longer reads, a provider that no longer reads, and the
\* receiver waiting for the sender (lines 94-127, 214-287).
CancelEndsStage == asrCancelled ~> (sender = "done" /\ streamClosed /\ resultClosed)
================================================================================
