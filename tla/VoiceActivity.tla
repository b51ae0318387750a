----------------------------- MODULE VoiceActivity -----------------------------
(***************************************************************************)
(* Energy-based voice activity detection (media-edge/internal/vad): the    *)
(* detector's four states and frame counters, and the processor that turns *)
(* its results into callbacks.  A frame is speech or silence, according to *)
(* its energy and the threshold; durations are in frames.  The detector    *)
(* and the processor have a lock each, so a Reset may fall between the     *)
(* detector's result and the processor's use of it.                        *)
(***************************************************************************)
EXTENDS Naturals

CONSTANTS MinSpeech,  \* the values of MinSpeechMs, in frames
          MinSilence, \* those of MinSilenceMs
          Hangover,   \* those of HangoverFrames
          Horizon     \* bound: frame counters stop here, beyond every threshold

ASSUME VadAssumption ==
  /\ MinSpeech \subseteq Nat /\ MinSilence \subseteq Nat /\ Hangover \subseteq Nat
  /\ Horizon \in Nat
  /\ \A n \in MinSpeech \cup MinSilence \cup Hangover : n < Horizon

VadConfig == [minSpeech : MinSpeech, minSilence : MinSilence, hangover : Hangover]
VadState  == {"silence", "speech_start", "speech", "speech_end"}

VARIABLES config,        \* v.config
          vad,           \* v.state
          speechFrames, silenceFrames, hangoverCount,
          result,        \* start or end in the last frame's result
          delivering,    \* the processor has not used that result yet
          speechStart,   \* p.speechStart is set
          voiced, silent, \* how many frames in a row, up to now, were speech, or silence
          settled        \* a frame has been processed under the current configuration

counters == <<speechFrames, silenceFrames, hangoverCount>>
vadVars  == <<config, vad, counters, result, delivering, speechStart, voiced, silent, settled>>

VadTypeOK ==
  /\ config \in VadConfig /\ vad \in VadState /\ result \in {"none", "start", "end"}
  /\ {speechFrames, silenceFrames, hangoverCount, voiced, silent} \subseteq 0 .. Horizon
  /\ {delivering, speechStart, settled} \subseteq BOOLEAN

VadInit ==
  /\ config \in VadConfig /\ vad = "silence"
  /\ speechFrames = 0 /\ silenceFrames = 0 /\ hangoverCount = 0
  /\ result = "none" /\ delivering = FALSE /\ speechStart = FALSE
  /\ voiced = 0 /\ silent = 0 /\ settled = FALSE

More(n) == IF n < Horizon THEN n + 1 ELSE n

\* What every frame does, whatever the state: count the runs and hand over a result.
Frame(speech, res) ==
  /\ ~delivering /\ delivering' = TRUE
  /\ voiced' = IF speech THEN More(voiced) ELSE 0
  /\ silent' = IF speech THEN 0 ELSE More(silent)
  /\ result' = res
  /\ settled' = TRUE
  /\ UNCHANGED <<config, speechStart>>

\* Process in StateSilence: speech starts after half the minimum duration.
SilenceFrame(speech) ==
  /\ vad = "silence"
  /\ LET n      == IF speech THEN More(speechFrames) ELSE 0
         begins == speech /\ n >= config.minSpeech \div 2
     IN /\ speechFrames' = n
        /\ vad' = IF begins THEN "speech_start" ELSE "silence"
        /\ IF begins THEN silenceFrames' = 0 /\ hangoverCount' = 0
                     ELSE UNCHANGED <<silenceFrames, hangoverCount>>
        /\ Frame(speech, IF begins THEN "start" ELSE "none")

\* In StateSpeechStart: confirmed by the next frame, or a false start.
StartFrame(speech) ==
  /\ vad = "speech_start"
  /\ IF speech
       THEN vad' = "speech" /\ speechFrames' = More(speechFrames) /\ silenceFrames' = 0
       ELSE vad' = "silence" /\ speechFrames' = 0 /\ UNCHANGED silenceFrames
  /\ UNCHANGED hangoverCount
  /\ Frame(speech, "none")

\* Mutation: a speech frame restarts the hangover but not the count of silence.
SpeechFrameKeepsSilence(speech) ==
  /\ vad = "speech"
  /\ IF speech
       THEN /\ vad' = "speech" /\ speechFrames' = More(speechFrames)
            /\ hangoverCount' = 0 /\ UNCHANGED silenceFrames
            /\ Frame(speech, "none")
       ELSE LET ends == /\ More(hangoverCount) > config.hangover
                        /\ More(silenceFrames) >= config.minSilence
            IN /\ silenceFrames' = More(silenceFrames)
               /\ hangoverCount' = More(hangoverCount)
               /\ vad' = IF ends THEN "speech_end" ELSE "speech"
               /\ UNCHANGED speechFrames
               /\ Frame(speech, IF ends THEN "end" ELSE "none")

\* In StateSpeech: it ends once the hangover has expired and the silence is long enough.
SpeechFrame(speech) ==
  /\ vad = "speech"
  /\ IF speech
       THEN /\ vad' = "speech" /\ speechFrames' = More(speechFrames)
            /\ hangoverCount' = 0 /\ silenceFrames' = 0
            /\ Frame(speech, "none")
       ELSE LET ends == /\ More(hangoverCount) > config.hangover
                        /\ More(silenceFrames) >= config.minSilence
            IN /\ silenceFrames' = More(silenceFrames)
               /\ hangoverCount' = More(hangoverCount)
               /\ vad' = IF ends THEN "speech_end" ELSE "speech"
               /\ UNCHANGED speechFrames
               /\ Frame(speech, IF ends THEN "end" ELSE "none")

\* In StateSpeechEnd: back to silence, or an immediate restart.
EndFrame(speech) ==
  /\ vad = "speech_end"
  /\ vad' = IF speech THEN "speech_start" ELSE "silence"
  /\ speechFrames' = IF speech THEN 1 ELSE 0
  /\ silenceFrames' = 0 /\ hangoverCount' = 0
  /\ Frame(speech, IF speech THEN "start" ELSE "none")

\* The processor's half: remember the start, report an end only after one.
Deliver ==
  /\ delivering /\ delivering' = FALSE
  /\ speechStart' = CASE result = "start" -> TRUE
                      [] result = "end"   -> FALSE
                      [] OTHER            -> speechStart
  /\ UNCHANGED <<config, vad, counters, result, voiced, silent, settled>>

ResetVad ==
  /\ vad' = "silence" /\ speechFrames' = 0 /\ silenceFrames' = 0 /\ hangoverCount' = 0
  /\ speechStart' = FALSE
  /\ voiced' = 0 /\ silent' = 0 /\ settled' = FALSE
  /\ UNCHANGED <<config, result, delivering>>

UpdateVadConfig ==
  /\ config' \in VadConfig
  /\ settled' = FALSE
  /\ UNCHANGED <<vad, counters, result, delivering, speechStart, voiced, silent>>

VadNext ==
  \/ \E speech \in BOOLEAN : SilenceFrame(speech)
  \/ \E speech \in BOOLEAN : StartFrame(speech)
  \/ \E speech \in BOOLEAN : SpeechFrame(speech)
  \/ \E speech \in BOOLEAN : EndFrame(speech)
  \/ Deliver
  \/ ResetVad
  \/ UpdateVadConfig

VadSpec == VadInit /\ [][VadNext]_vadVars

LongSilence == silent > config.hangover /\ silent >= config.minSilence

\* The frames in a row that a listener would count justify what is reported,
\* and nothing due is missed: speech starts after half the minimum or right
\* after an end, goes on until, and ends exactly when, the silence has outlasted
\* both the hangover and the minimum (lines 126-194).
SpeechIsBoundedBySilence ==
  settled =>
    /\ vad = "speech_end" => LongSilence
    /\ vad = "speech" => ~LongSilence
    /\ vad = "silence" => voiced = 0 \/ voiced < config.minSpeech \div 2
    /\ vad = "speech_start" => voiced >= config.minSpeech \div 2 \/ voiced = 1
================================================================================
