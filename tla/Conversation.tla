---------------------------- MODULE Conversation ----------------------------
(***************************************************************************)
(* What a session remembers: the turn manager's turn and its playout       *)
(* cursor (statemachine/turn_manager.go, pkg/session/turn.go), the history *)
(* it is committed to (pkg/session/history.go) and the prompts assembled   *)
(* from it (pipeline/prompt.go).                                           *)
(*                                                                         *)
(* Three processes call the turn manager, each call atomic under its       *)
(* mutex: the utterance's goroutines (engine.go), HandleInterruption, and  *)
(* whoever reports playout.  Nothing in the repository but its tests is    *)
(* that reporter yet; here it reports what it plays of the current turn.   *)
(* AppendSystemMessage, Clear and Reset have no callers but tests either.  *)
(*                                                                         *)
(* Text is a number of characters.  Audio is counted in bytes, as the      *)
(* cursor is, and positions in samples.  The floating-point conversions    *)
(* between them may fall one short of an exact result.                     *)
(***************************************************************************)
EXTENDS History

CONSTANTS
  MaxUtterances,  (* bound on user utterances                                *)
  MaxText,        (* bound on the characters of one reply                    *)
  MaxPlayed,      (* bound on the bytes of one reply's audio                 *)
  MaxSystem,      (* bound on system messages added to the history           *)
  MaxInterrupts,  (* bound on interruptions                                  *)
  MaxClears,      (* bound on calls of Clear and Reset                       *)
  ChunkBytes,     (* the sizes of audio chunks                               *)
  SampleRate,     (* samples per second (16000)                              *)
  CharsPerSecond, (* the assumed speaking rate (15)                          *)
  MaxSize,        (* the history's maxSize (100)                             *)
  MaxContext      (* the assembler's maxContextMessages (20)                 *)

BytesPerSample == 2

ASSUME ConversationAssumption ==
  /\ MaxUtterances \in Nat /\ MaxText \in Nat /\ MaxPlayed \in Nat
  /\ MaxSystem \in Nat /\ MaxInterrupts \in Nat /\ MaxClears \in Nat
  /\ ChunkBytes \subseteq Nat \ {0}
  /\ SampleRate \in Nat \ {0} /\ CharsPerSecond \in Nat \ {0}
  /\ MaxSize \in Nat \ {0} /\ MaxContext \in Nat \ {0}

VARIABLES
  phase,      (* where the utterance's goroutines are                        *)
  utt,        (* number of the last user utterance                           *)
  turn,       (* TurnManager.currentTurn, or NoTurn                          *)
  messages,   (* ConversationHistory.messages                                *)
  prompt,     (* the prompt about to be sent                                 *)
  (* HandleInterruption *)
  intr,       (* where it is                                                 *)
  position,   (* the playout position it has read, in samples                *)
  positionOf, (* the turn it read the position of, 0 for none                *)
  committed,  (* the turn CommitTurn returned to it, and its length          *)
  (* bounds *)
  systems, interrupts, clears,
  (* observation *)
  log,        (* every message appended since the history was last cleared   *)
  generated,  (* turn -> characters generated                                *)
  played      (* turn -> bytes reported as played                            *)

uttVars   == <<phase, utt, generated>>
histVars  == <<messages, log>>
intrVars  == <<intr, position, positionOf, committed, interrupts>>
vars == <<uttVars, turn, histVars, prompt, intrVars, systems, clears, played>>

Turns == 1..MaxUtterances

NoTurn == [gen |-> 0, text |-> 0, cursor |-> 0, interrupted |-> FALSE]

Samples(bytes) == bytes \div BytesPerSample

\* calculateDurationFromBytes and the speaking rate, in exact arithmetic.
Chars(bytes) == (Samples(bytes) * CharsPerSecond) \div SampleRate

(* GetCommittableText: the characters the cursor has passed, of those there   *)
(* are.  An exact multiple may come out one short.                            *)
Committable(t) ==
  LET passed == {Chars(t.cursor)} \cup
                  {c \in {Chars(t.cursor) - 1} :
                     c >= 0 /\ (Samples(t.cursor) * CharsPerSecond) % SampleRate = 0}
  IN {IF t.text > c THEN c ELSE t.text : c \in passed}

AppendMessage(m) ==
  /\ log' = Append(log, m)
  /\ messages' = Limit(Append(messages, m), MaxSize)

\* Mutation: a reply is filed under the latest utterance.
AppendAssistantAsLatest(gen, len) ==
  IF len > 0 THEN AppendMessage(Message("assistant", utt, len)) ELSE UNCHANGED histVars

\* AppendAssistantMessage leaves out an empty one.
AppendAssistant(gen, len) ==
  IF len > 0 THEN AppendMessage(Message("assistant", gen, len)) ELSE UNCHANGED histVars

Init ==
  /\ phase = "recv" /\ utt = 0
  /\ turn = NoTurn /\ messages = <<>> /\ prompt = <<>>
  /\ intr = "idle" /\ position = 0 /\ positionOf = 0
  /\ committed = [gen |-> 0, len |-> 0]
  /\ systems = 0 /\ interrupts = 0 /\ clears = 0
  /\ log = <<>>
  /\ generated = [g \in Turns |-> 0] /\ played = [g \in Turns |-> 0]

-----------------------------------------------------------------------------
(* ProcessUserUtterance and its token processor *)

\* The recognizer's final transcript may be empty; it is appended all the same.
AppendUserMessage ==
  /\ phase = "recv" /\ utt < MaxUtterances
  /\ phase' = "assemble" /\ utt' = utt + 1
  /\ \E len \in {0, 1} : AppendMessage(Message("user", utt', len))
  /\ UNCHANGED <<turn, prompt, intrVars, systems, clears, generated, played>>

\* Mutation: the limit is applied before the utterance is added.
AssembledBeforeUtterance(system, ms, utterance) ==
  Limit(system \o Only(ms, NotEmpty), MaxContext) \o Only(utterance, NotEmpty)

Assembled(system, ms, utterance) ==
  Limit(system \o Only(ms \o utterance, NotEmpty), MaxContext)

SystemPrompts == {<<>>, <<Message("system", 0, 1)>>}

\* The utterance is in the history by now, and added once more.
AssemblePrompt ==
  /\ phase = "assemble"
  /\ phase' = "start"
  /\ \E system \in SystemPrompts, len \in {0, 1} :
        /\ \E i \in DOMAIN log : log[i] = Message("user", utt, len)
        /\ prompt' = Assembled(system, messages, <<Message("user", utt, len)>>)
  /\ UNCHANGED <<utt, turn, histVars, intrVars, systems, clears, generated, played>>

\* LLMStage.Generate fails; a turn an earlier utterance left stays.
GenerateFails ==
  /\ phase = "start"
  /\ phase' = "recv" /\ prompt' = <<>>
  /\ UNCHANGED <<utt, turn, histVars, intrVars, systems, clears, generated, played>>

StartTurn ==
  /\ phase = "start"
  /\ phase' = "stream" /\ prompt' = <<>>
  /\ turn' = [NoTurn EXCEPT !.gen = utt]
  /\ UNCHANGED <<utt, histVars, intrVars, systems, clears, generated, played>>

\* The final token is appended like any other and then commits the turn.
AppendGenerated ==
  /\ phase = "stream" /\ generated[utt] < MaxText
  /\ generated' = [generated EXCEPT ![utt] = @ + 1]
  /\ turn' = IF turn = NoTurn THEN turn ELSE [turn EXCEPT !.text = @ + 1]
  /\ phase' \in {"stream", "commit"}
  /\ UNCHANGED <<utt, histVars, prompt, intrVars, systems, clears, played>>

\* The stream ends, or fails, without a final token: nothing is committed.
StreamEnds ==
  /\ phase = "stream"
  /\ phase' = "recv"
  /\ UNCHANGED <<utt, turn, histVars, prompt, intrVars, systems, clears, generated, played>>

CommitTurn(len) ==
  /\ len \in Committable(turn)
  /\ turn' = NoTurn
  /\ AppendAssistant(turn.gen, len)

CommitFinal ==
  /\ phase = "commit"
  /\ phase' = "recv"
  /\ \E len \in 0..MaxText : CommitTurn(len)
  /\ UNCHANGED <<utt, prompt, intrVars, systems, clears, generated, played>>

-----------------------------------------------------------------------------
(* Playout reports, which carry no generation and go to the current turn *)

Advance(bytes) ==
  /\ turn # NoTurn /\ played[turn.gen] + bytes <= MaxPlayed
  /\ turn' = [turn EXCEPT !.cursor = @ + bytes]
  /\ played' = [played EXCEPT ![turn.gen] = @ + bytes]
  /\ UNCHANGED <<uttVars, histVars, prompt, intrVars, systems, clears>>

AdvancePlayout == \E bytes \in ChunkBytes : Advance(bytes)

\* The duration comes back as whole samples, perhaps one fewer.
MarkSpoken ==
  \E bytes \in ChunkBytes, lost \in {0, 1} :
     /\ Samples(bytes) > lost
     /\ Advance((Samples(bytes) - lost) * BytesPerSample)

-----------------------------------------------------------------------------
(* HandleInterruption of the engine: four calls on the turn manager and the   *)
(* history, between which the others' calls may come.                         *)

GetCurrentPosition ==
  /\ intr = "idle" /\ interrupts < MaxInterrupts
  /\ interrupts' = interrupts + 1
  /\ intr' = "mark"
  /\ position' \in {p \in {Samples(turn.cursor), Samples(turn.cursor) - 1} : p >= 0}
  /\ positionOf' = turn.gen
  /\ UNCHANGED <<uttVars, turn, histVars, prompt, committed, systems, clears, played>>

\* Mutation: the cursor moves to the position, wherever that is.
MarkedThere(t, bytes) == [t EXCEPT !.interrupted = TRUE, !.cursor = bytes]

\* Mutation: the position is taken for bytes.
MarkedInSamples(t, bytes) ==
  [t EXCEPT !.interrupted = TRUE, !.cursor = Samples(IF bytes < @ THEN bytes ELSE @)]

\* MarkInterrupted: the cursor only ever moves back.
Marked(t, bytes) ==
  [t EXCEPT !.interrupted = TRUE, !.cursor = IF bytes < @ THEN bytes ELSE @]

HandleInterruption ==
  /\ intr = "mark"
  /\ intr' = "commit"
  /\ turn' = IF turn = NoTurn THEN turn ELSE Marked(turn, position * BytesPerSample)
  /\ UNCHANGED <<uttVars, histVars, prompt, position, positionOf, committed,
                 interrupts, systems, clears, played>>

CommitInterrupted ==
  /\ intr = "commit"
  /\ intr' = "append"
  /\ \E len \in 0..MaxText :
        CommitTurn(len) /\ committed' = [gen |-> turn.gen, len |-> len]
  /\ UNCHANGED <<uttVars, prompt, position, positionOf, interrupts, systems,
                 clears, played>>

\* What CommitTurn has just appended is appended once more.
AppendCommitted ==
  /\ intr = "append"
  /\ intr' = "idle"
  /\ AppendAssistant(committed.gen, committed.len)
  /\ position' = 0 /\ positionOf' = 0 /\ committed' = [gen |-> 0, len |-> 0]
  /\ UNCHANGED <<uttVars, turn, prompt, interrupts, systems, clears, played>>

-----------------------------------------------------------------------------
(* Operations the managers offer beside *)

AppendSystemMessage ==
  /\ systems < MaxSystem
  /\ systems' = systems + 1
  /\ AppendMessage(Message("system", systems', 1))
  /\ UNCHANGED <<uttVars, turn, prompt, intrVars, clears, played>>

\* Not between an utterance's entry into the history and its prompt.
Clear ==
  /\ clears < MaxClears /\ phase # "assemble"
  /\ clears' = clears + 1
  /\ messages' = <<>> /\ log' = <<>>
  /\ UNCHANGED <<uttVars, turn, prompt, intrVars, systems, played>>

Reset ==
  /\ clears < MaxClears
  /\ clears' = clears + 1
  /\ turn' = NoTurn
  /\ UNCHANGED <<uttVars, histVars, prompt, intrVars, systems, played>>

-----------------------------------------------------------------------------

UtteranceStep == AppendUserMessage \/ AssemblePrompt \/ GenerateFails \/ StartTurn
                   \/ AppendGenerated \/ StreamEnds \/ CommitFinal
InterruptStep == GetCurrentPosition \/ HandleInterruption \/ CommitInterrupted
                   \/ AppendCommitted

Next ==
  \/ UtteranceStep
  \/ AdvancePlayout \/ MarkSpoken
  \/ InterruptStep
  \/ AppendSystemMessage \/ Clear \/ Reset

Spec == Init /\ [][Next]_vars

-----------------------------------------------------------------------------
(* Properties *)

\* Every variable has its type; the history outgrows its limit only by system messages.
TypeOK ==
  /\ phase \in {"recv", "assemble", "start", "stream", "commit"} /\ utt \in 0..MaxUtterances
  /\ turn \in [gen : 0..MaxUtterances, text : 0..MaxText, cursor : Nat,
               interrupted : BOOLEAN]
  /\ messages \in Seq(Messages) /\ log \in Seq(Messages) /\ prompt \in Seq(Messages)
  /\ intr \in {"idle", "mark", "commit", "append"}
  /\ position \in Nat /\ positionOf \in 0..MaxUtterances
  /\ committed \in [gen : 0..MaxUtterances, len : 0..MaxText]
  /\ systems \in 0..MaxSystem /\ interrupts \in 0..MaxInterrupts /\ clears \in 0..MaxClears
  /\ generated \in [Turns -> 0..MaxText] /\ played \in [Turns -> 0..MaxPlayed]
  /\ Len(messages) <= Larger(MaxSize, Cardinality(SystemAt(messages)))

(* "Only spoken_text is committed to conversation history"                    *)
(* (docs/session-interruption.md:137): what the history has of a reply was    *)
(* generated and played in that very turn, even when an interruption marks a  *)
(* later turn with the position it had read of an earlier one.                *)
SpokenOnly ==
  \A i \in DOMAIN log : log[i].role = "assistant" =>
    /\ log[i].turn \in Turns
    /\ log[i].len <= generated[log[i].turn]
    /\ log[i].len <= Chars(played[log[i].turn])

(* Trimming after every append leaves what one trim of the whole conversation *)
(* would: no message is lost that still fits, and none changes its place      *)
(* among those of its kind.                                                   *)
HistoryIsTrimmedLog == messages = Newest(log, MaxSize)

\* The characters of a reply that were generated and played.
Heard(g) ==
  LET spoken == Chars(played[g]) IN IF generated[g] < spoken THEN generated[g] ELSE spoken

Memory == INSTANCE Transcript
          WITH said <- utt, instructions <- systems, heard <- [g \in Turns |-> Heard(g)],
               shown <- messages

(* Turns, cursors, interruptions and trimming together come to a transcript:  *)
(* whatever interrupts whom, each reply is recorded under its own utterance   *)
(* and for no more than was heard of it when it was, and the history is the   *)
(* newest of the record.                                                      *)
ImplementsTranscript == Memory!TranscriptSpec

(* The history's limit and the assembler's act as the assembler's alone: a    *)
(* prompt shows exactly the newest of all that was said, unless an empty      *)
(* utterance took a place in the history.                                     *)
PromptShowsNewest ==
  [][phase = "assemble" /\ phase' = "start" /\ MaxContext <= MaxSize
     /\ (\A i \in DOMAIN log : log[i] \in NotEmpty)
       => \E system \in SystemPrompts :
            prompt' = Newest(system \o log \o <<Message("user", utt, 1)>>, MaxContext)]_vars

LastLen(g) == LET m == log'[Len(log')]
              IN IF Len(log') > Len(log) /\ m.role = "assistant" /\ m.turn = g
                 THEN m.len ELSE 0

\* What a commit must not forget: all that was played, or for an interrupted turn
\* what had been played when the handler read the position.
MustKeep == IF turn.interrupted THEN position * BytesPerSample ELSE played[turn.gen]

(* The conversions between bytes, durations and samples cost a commit at most *)
(* one character of what was played, and an interrupted turn is remembered    *)
(* that far too, provided the handler had read the position of that turn.     *)
CommitKeepsWhatWasPlayed ==
  [][turn # NoTurn /\ turn' = NoTurn /\ clears' = clears
     /\ (turn.interrupted => positionOf = turn.gen)
       => \/ LastLen(turn.gen) = turn.text
          \/ LastLen(turn.gen) >= Chars(MustKeep) - 1]_vars

(* "Trimmed text committed to conversation history"                           *)
(* (docs/session-interruption.md:179) is one step: the history has a reply    *)
(* once.                                                                      *)
RepliesEnterHistoryOnce ==
  \A i, j \in DOMAIN messages :
    messages[i].role = "assistant" /\ messages[j].role = "assistant" /\ i # j
      => messages[i].turn # messages[j].turn
=============================================================================
