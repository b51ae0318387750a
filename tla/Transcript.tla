------------------------------ MODULE Transcript ------------------------------
(***************************************************************************)
(* What a session promises about its memory, without turns, cursors and    *)
(* interruptions: users speak one after the other, their listeners hear    *)
(* more and more of the replies, and what is remembered of a reply is no   *)
(* more than was heard of it by then.  The memory shows the newest of what *)
(* was recorded.  Conversation is shown to implement it.                   *)
(***************************************************************************)
EXTENDS History

CONSTANTS Turns,  \* numbers of utterances, and of the replies to them
          MaxSize \* how many messages the memory shows

VARIABLES said,         \* number of the last utterance
          instructions, \* number of system messages so far
          heard,        \* turn -> characters of its reply heard so far
          log,          \* everything recorded since the memory was cleared
          shown         \* the memory

transcriptVars == <<said, instructions, heard, log, shown>>

TranscriptInit ==
  /\ said = 0 /\ instructions = 0
  /\ heard = [g \in Turns |-> 0]
  /\ log = <<>> /\ shown = <<>>

Record(m) == log' = Append(log, m) /\ shown' = Newest(log', MaxSize)

UserSpeaks ==
  /\ said + 1 \in Turns
  /\ said' = said + 1
  /\ \E len \in {0, 1} : Record(Message("user", said', len))
  /\ UNCHANGED <<instructions, heard>>

\* More of a reply to something that was said is heard, or none.
Hear ==
  /\ \E g \in Turns : /\ g <= said
                      /\ heard'[g] >= heard[g]
                      /\ heard' = [heard EXCEPT ![g] = heard'[g]]
  /\ UNCHANGED <<said, instructions, log, shown>>

\* A part, never empty, of what was heard of a reply.
Remember ==
  /\ \E g \in Turns : /\ g <= said
                      /\ \E len \in 1..heard[g] : Record(Message("assistant", g, len))
  /\ UNCHANGED <<said, instructions, heard>>

Instruct ==
  /\ instructions' = instructions + 1
  /\ Record(Message("system", instructions', 1))
  /\ UNCHANGED <<said, heard>>

Forget ==
  /\ log' = <<>> /\ shown' = <<>>
  /\ UNCHANGED <<said, instructions, heard>>

TranscriptNext == UserSpeaks \/ Hear \/ Remember \/ Instruct \/ Forget

TranscriptSpec == TranscriptInit /\ [][TranscriptNext]_transcriptVars
=============================================================================
