------------------------- MODULE ConversationProofs -------------------------
(***************************************************************************)
(* That the history only ever holds what was spoken, that trimming it      *)
(* after every append keeps what one trim of all that was said would, and  *)
(* that prompts show the newest of it; for any number of utterances and    *)
(* interruptions, any chunk sizes, rates and limits.                       *)
(*                                                                         *)
(* SpokenOnly is not inductive: what a commit appends is bounded by the    *)
(* turn's text and cursor, so the invariant bounds these by what the turn  *)
(* has generated and played, and carries the bound over to the text that   *)
(* HandleInterruption holds between its two appends.  A token is appended  *)
(* to the current turn whatever its number, so the invariant also says     *)
(* that the turn being streamed to is the utterance's own.                 *)
(***************************************************************************)
EXTENDS Conversation, Induction, FiniteSetTheorems, FunctionTheorems, TLAPS

\* The len characters of turn g were generated and played.
Spoken(g, len) ==
  g \in Turns /\ len <= generated[g] /\ len <= Chars(played[g])

TurnRecord == [gen : 0..MaxUtterances, text : Nat, cursor : Nat, interrupted : BOOLEAN]

TypesInv ==
  /\ phase \in {"recv", "assemble", "start", "stream", "commit"}
  /\ utt \in 0..MaxUtterances /\ (phase # "recv" => utt \in Turns)
  /\ turn \in TurnRecord
  /\ position \in Nat
  /\ committed \in [gen : 0..MaxUtterances, len : Nat]
  /\ generated \in [Turns -> Nat] /\ played \in [Turns -> Nat]
  /\ log \in Seq(Messages)

TurnInv ==
  /\ turn # NoTurn => /\ turn.gen \in Turns
                      /\ turn.text <= generated[turn.gen]
                      /\ turn.cursor <= played[turn.gen]
  /\ phase \in {"stream", "commit"} => turn = NoTurn \/ turn.gen = utt

CommittedInv == committed.len > 0 => Spoken(committed.gen, committed.len)

Inv == TypesInv /\ TurnInv /\ CommittedInv /\ SpokenOnly

-----------------------------------------------------------------------------

\* Integer division is monotone.
LEMMA DivMonotone ==
  ASSUME NEW a \in Nat, NEW b \in Nat, a <= b, NEW d \in Nat \ {0}
  PROVE  a \div d <= b \div d /\ a \div d \in Nat
<1> DEFINE p == a \div d
           q == b \div d
<1>1. p \in Int /\ q \in Int /\ d * p <= a /\ a < d * p + d /\ d * q <= b /\ b < d * q + d
  BY SMTT(30)
<1>2. d * p < d * q + d
  BY <1>1
<1>3. p <= q
  <2> SUFFICES ASSUME p >= q + 1 PROVE FALSE
    BY <1>1
  <2>1. d * p >= d * (q + 1)
    BY <1>1, SMTT(30)
  <2> QED BY <2>1, <1>1, <1>2, SMTT(30)
<1>4. p \in Nat
  <2> SUFFICES ASSUME p + 1 <= 0 PROVE FALSE
    BY <1>1
  <2>1. d * (p + 1) <= 0
    BY <1>1, SMTT(30)
  <2> QED BY <2>1, <1>1, SMTT(30)
<1> QED BY <1>3, <1>4

\* More bytes never stand for fewer characters.
LEMMA CharsMonotone ==
  ASSUME NEW a \in Nat, NEW b \in Nat, a <= b
  PROVE  Chars(a) \in Nat /\ Chars(a) <= Chars(b)
<1>1. Samples(a) \in Nat /\ Samples(b) \in Nat /\ Samples(a) <= Samples(b)
  BY SMT DEF Samples, BytesPerSample
<1>2. Samples(a) * CharsPerSecond <= Samples(b) * CharsPerSecond
  <2>1. PICK k \in Nat : Samples(b) = Samples(a) + k
    <3>1. Samples(b) - Samples(a) \in Nat /\ Samples(b) = Samples(a) + (Samples(b) - Samples(a))
      BY <1>1
    <3> QED BY <3>1
  <2>2. CharsPerSecond \in Nat
    BY ConversationAssumption
  <2>3. Samples(b) * CharsPerSecond = Samples(a) * CharsPerSecond + k * CharsPerSecond
    BY <1>1, <2>1, <2>2, SMTT(30)
  <2>4. k * CharsPerSecond \in Nat /\ Samples(a) * CharsPerSecond \in Nat
    BY <1>1, <2>1, <2>2, SMTT(30)
  <2> QED BY <2>3, <2>4
<1>3. Samples(a) * CharsPerSecond \in Nat /\ Samples(b) * CharsPerSecond \in Nat
  BY <1>1, ConversationAssumption, SMTT(30)
<1> QED BY <1>2, <1>3, DivMonotone, ConversationAssumption DEF Chars

\* A commit takes no more than the turn generated and played.
LEMMA CommittableIsSpoken ==
  ASSUME Inv, NEW len \in Nat, len \in Committable(turn)
  PROVE  len > 0 => Spoken(turn.gen, len)
<1> SUFFICES ASSUME len > 0 PROVE Spoken(turn.gen, len)
  OBVIOUS
<1>1. turn.text \in Nat /\ turn.cursor \in Nat
  BY DEF Inv, TypesInv, TurnRecord
<1>2. Chars(turn.cursor) \in Nat
  BY <1>1, CharsMonotone
<1>3. len <= turn.text /\ len <= Chars(turn.cursor)
  BY <1>1, <1>2 DEF Committable
<1>4. turn # NoTurn
  BY <1>3 DEF NoTurn
<1>5. turn.gen \in Turns /\ turn.text <= generated[turn.gen] /\ turn.cursor <= played[turn.gen]
  BY <1>4 DEF Inv, TurnInv
<1>6. generated[turn.gen] \in Nat /\ played[turn.gen] \in Nat
  BY <1>5 DEF Inv, TypesInv
<1>7. Chars(turn.cursor) <= Chars(played[turn.gen]) /\ Chars(played[turn.gen]) \in Nat
  BY <1>1, <1>5, <1>6, CharsMonotone
<1> QED BY <1>1, <1>2, <1>3, <1>5, <1>6, <1>7 DEF Spoken

\* An append keeps the log typed and spoken, if the message is.
LEMMA AppendKeepsSpoken ==
  ASSUME Inv, NEW m \in Messages, AppendMessage(m), UNCHANGED <<generated, played>>,
         m.role = "assistant" => Spoken(m.turn, m.len)
  PROVE  log' \in Seq(Messages) /\ SpokenOnly'
<1>1. log \in Seq(Messages) /\ log' = Append(log, m)
  BY DEF Inv, TypesInv, AppendMessage
<1>2. log' \in Seq(Messages) /\ Len(log') = Len(log) + 1 /\ DOMAIN log' = 1..Len(log')
  BY <1>1
<1>3. ASSUME NEW i \in DOMAIN log', log'[i].role = "assistant"
      PROVE  Spoken(log'[i].turn, log'[i].len)
  <2>1. CASE i = Len(log) + 1
    BY <1>1, <1>2, <1>3, <2>1
  <2>2. CASE i # Len(log) + 1
    <3>1. i \in DOMAIN log /\ log'[i] = log[i]
      BY <1>1, <1>2, <2>2
    <3> QED BY <3>1, <1>3 DEF Inv, SpokenOnly, Spoken
  <2> QED BY <2>1, <2>2
<1> QED BY <1>2, <1>3 DEF SpokenOnly, Spoken, Chars, Samples

LEMMA AppendAssistantKeepsSpoken ==
  ASSUME Inv, NEW g \in 0..MaxUtterances, NEW len \in Nat, AppendAssistant(g, len),
         UNCHANGED <<generated, played>>, len > 0 => Spoken(g, len)
  PROVE  log' \in Seq(Messages) /\ SpokenOnly'
<1>1. CASE len > 0
  <2> DEFINE m == Message("assistant", g, len)
  <2>1. m \in Messages /\ m.role = "assistant" /\ m.turn = g /\ m.len = len
    BY ConversationAssumption DEF Message, Messages
  <2>2. AppendMessage(m)
    BY <1>1 DEF AppendAssistant
  <2> HIDE DEF m
  <2> QED BY <1>1, <2>1, <2>2, AppendKeepsSpoken
<1>2. CASE ~(len > 0)
  BY <1>2 DEF AppendAssistant, histVars, Inv, TypesInv, SpokenOnly, Chars, Samples
<1> QED BY <1>1, <1>2

-----------------------------------------------------------------------------

LEMMA NoTurnTyped == NoTurn \in TurnRecord
<1>1. 0 \in 0..MaxUtterances /\ 0 \in Nat /\ FALSE \in BOOLEAN
  BY ConversationAssumption
<1> QED BY <1>1 DEF NoTurn, TurnRecord

LEMMA InitInv == Init => Inv
BY ConversationAssumption
   DEF Init, Inv, TypesInv, TurnRecord, TurnInv, CommittedInv, SpokenOnly, NoTurn, Turns

\* Steps that leave the history's log and what was played and generated alone.
LEMMA KeepsSpoken ==
  ASSUME Inv, UNCHANGED <<log, generated, played>>
  PROVE  SpokenOnly' /\ log' \in Seq(Messages)
BY DEF Inv, TypesInv, SpokenOnly, Chars, Samples

LEMMA KeepsCommitted ==
  ASSUME Inv, UNCHANGED <<committed, generated, played>>
  PROVE  CommittedInv'
BY DEF Inv, CommittedInv, Spoken, Chars, Samples

\* What was generated and played only grows, and so stays spoken.
LEMMA GrowthKeepsSpoken ==
  ASSUME Inv, UNCHANGED <<log, committed>>,
         generated' \in [Turns -> Nat], played' \in [Turns -> Nat],
         \A g \in Turns : generated[g] <= generated'[g] /\ played[g] <= played'[g]
  PROVE  SpokenOnly' /\ CommittedInv'
<1>1. ASSUME NEW g \in Turns PROVE Chars(played[g]) <= Chars(played'[g])
                                  /\ Chars(played[g]) \in Nat /\ Chars(played'[g]) \in Nat
  <2>1. played[g] \in Nat /\ played'[g] \in Nat /\ played[g] <= played'[g]
    BY <1>1 DEF Inv, TypesInv
  <2> QED BY <2>1, CharsMonotone
<1>2. ASSUME NEW g \in Turns, NEW len \in Nat, Spoken(g, len) PROVE Spoken(g, len)'
  <2>1. generated[g] \in Nat /\ generated'[g] \in Nat /\ generated[g] <= generated'[g]
    BY <1>2 DEF Inv, TypesInv
  <2>2. len <= generated[g] /\ len <= Chars(played[g])
    BY <1>2 DEF Spoken
  <2>3. len <= generated'[g] /\ len <= Chars(played'[g])
    BY <2>1, <2>2, <1>1, <1>2
  <2> QED BY <2>3 DEF Spoken, Chars, Samples
<1>3. SpokenOnly'
  <2> SUFFICES ASSUME NEW i \in DOMAIN log, log[i].role = "assistant"
               PROVE  Spoken(log[i].turn, log[i].len)'
    BY DEF SpokenOnly, Spoken
  <2>1. log[i].len \in Nat
    <3>1. log \in Seq(Messages) /\ i \in DOMAIN log
      BY DEF Inv, TypesInv
    <3>2. log[i] \in Messages
      BY <3>1
    <3> QED BY <3>2 DEF Messages
  <2>2. Spoken(log[i].turn, log[i].len)
    BY DEF Inv, SpokenOnly, Spoken
  <2>3. log[i].turn \in Turns
    BY <2>2 DEF Spoken
  <2>4. Spoken(log[i].turn, log[i].len)'
    BY <1>2, <2>1, <2>2, <2>3 DEF Spoken, Chars, Samples
  <2> QED BY <2>4
<1>4. CommittedInv'
  <2> SUFFICES ASSUME committed.len > 0 PROVE Spoken(committed.gen, committed.len)'
    BY DEF CommittedInv
  <2>1. committed.len \in Nat /\ Spoken(committed.gen, committed.len)
    BY DEF Inv, TypesInv, CommittedInv
  <2>2. committed.gen \in Turns
    BY <2>1 DEF Spoken
  <2> QED BY <1>2, <2>1, <2>2 DEF Spoken, Chars, Samples
<1> QED BY <1>3, <1>4

LEMMA AdvanceInv ==
  ASSUME Inv, NEW bytes \in Nat, Advance(bytes)
  PROVE  Inv'
<1>1. turn # NoTurn /\ turn.gen \in Turns
      /\ turn.text <= generated[turn.gen] /\ turn.cursor <= played[turn.gen]
  BY DEF Inv, TurnInv, Advance
<1>2. turn \in TurnRecord /\ played \in [Turns -> Nat] /\ generated \in [Turns -> Nat]
  BY DEF Inv, TypesInv
<1>3. turn' \in TurnRecord /\ turn'.gen = turn.gen /\ turn'.text = turn.text
      /\ turn'.cursor = turn.cursor + bytes
  BY <1>2 DEF Advance, TurnRecord
<1>4. played' \in [Turns -> Nat] /\ played'[turn.gen] = played[turn.gen] + bytes
      /\ \A g \in Turns : played[g] <= played'[g]
  BY <1>1, <1>2 DEF Advance
<1>5. UNCHANGED <<phase, utt, generated, log, position, committed>>
  BY DEF Advance, uttVars, histVars, intrVars
<1>6. TypesInv'
  BY <1>3, <1>4, <1>5 DEF Inv, TypesInv, TurnRecord, Turns
<1>7. TurnInv'
  <2>1. played[turn.gen] \in Nat /\ turn.cursor \in Nat
    BY <1>1, <1>2 DEF TurnRecord
  <2>2. turn'.gen \in Turns /\ turn'.text <= generated'[turn'.gen]
        /\ turn'.cursor <= played'[turn'.gen]
    BY <1>1, <1>3, <1>4, <1>5, <2>1
  <2>3. phase' \in {"stream", "commit"} => turn'.gen = utt'
    BY <1>1, <1>3, <1>5 DEF Inv, TurnInv
  <2> QED BY <2>2, <2>3 DEF TurnInv, Turns
<1>8. \A g \in Turns : generated[g] <= generated'[g] /\ played[g] <= played'[g]
  BY <1>2, <1>4, <1>5
<1>9. generated' \in [Turns -> Nat]
  BY <1>2, <1>5
<1>10. SpokenOnly' /\ CommittedInv'
  BY <1>4, <1>5, <1>8, <1>9, GrowthKeepsSpoken
<1> QED BY <1>6, <1>7, <1>10 DEF Inv

LEMMA AppendGeneratedInv ==
  ASSUME Inv, AppendGenerated
  PROVE  Inv'
<1>1. turn \in TurnRecord /\ played \in [Turns -> Nat] /\ generated \in [Turns -> Nat]
  BY DEF Inv, TypesInv
<1>2. utt \in Turns /\ phase = "stream" /\ phase' \in {"stream", "commit"}
  BY DEF Inv, TypesInv, AppendGenerated
<1>3. \/ turn' = NoTurn
      \/ /\ turn' \in TurnRecord /\ turn # NoTurn
         /\ turn'.gen = turn.gen /\ turn'.text = turn.text + 1 /\ turn'.cursor = turn.cursor
  BY <1>1 DEF AppendGenerated, TurnRecord
<1>4. generated' \in [Turns -> Nat] /\ generated'[utt] = generated[utt] + 1
      /\ \A g \in Turns : generated[g] <= generated'[g]
  BY <1>1, <1>2 DEF AppendGenerated
<1>5. UNCHANGED <<utt, played, log, position, committed>>
  BY DEF AppendGenerated, histVars, intrVars
<1>6. turn' \in TurnRecord
  BY <1>3, NoTurnTyped
<1>7. TypesInv'
  BY <1>2, <1>4, <1>5, <1>6 DEF Inv, TypesInv, TurnRecord, Turns
<1>8. TurnInv'
  <2>1. CASE turn' = NoTurn
    BY <2>1 DEF TurnInv, NoTurn
  <2>2. CASE turn' # NoTurn
    <3>1. turn # NoTurn /\ turn'.gen = turn.gen /\ turn'.text = turn.text + 1
          /\ turn'.cursor = turn.cursor
      BY <1>3, <2>2
    <3>2. turn.gen = utt /\ turn.text <= generated[utt] /\ turn.cursor <= played[utt]
      BY <1>2, <3>1 DEF Inv, TurnInv
    <3>3. generated[utt] \in Nat /\ turn.text \in Nat
      BY <1>1, <1>2 DEF TurnRecord
    <3>4. turn'.text <= generated'[utt] /\ turn'.cursor <= played'[utt]
      BY <1>4, <1>5, <3>1, <3>2, <3>3
    <3> QED BY <1>2, <1>5, <3>1, <3>2, <3>4 DEF TurnInv, Turns
  <2> QED BY <2>1, <2>2
<1>9. \A g \in Turns : generated[g] <= generated'[g] /\ played[g] <= played'[g]
  BY <1>1, <1>4, <1>5
<1>10. played' \in [Turns -> Nat]
  BY <1>1, <1>5
<1>11. SpokenOnly' /\ CommittedInv'
  BY <1>4, <1>5, <1>9, <1>10, GrowthKeepsSpoken
<1> QED BY <1>7, <1>8, <1>11 DEF Inv

\* Steps of an utterance that append nothing.
LEMMA QuietUtteranceInv ==
  ASSUME Inv, AssemblePrompt \/ GenerateFails \/ StartTurn \/ StreamEnds
  PROVE  Inv'
<1>1. UNCHANGED <<utt, log, committed, generated, played, position>>
  BY DEF AssemblePrompt, GenerateFails, StartTurn, StreamEnds, histVars, intrVars
<1>2. phase # "recv" /\ utt \in Turns
  BY DEF Inv, TypesInv, AssemblePrompt, GenerateFails, StartTurn, StreamEnds
<1>3. phase' \in {"recv", "start", "stream"}
  BY DEF AssemblePrompt, GenerateFails, StartTurn, StreamEnds
<1>4. \/ turn' = turn /\ phase' # "stream"
      \/ /\ turn' \in TurnRecord
         /\ turn'.gen = utt /\ turn'.text = 0 /\ turn'.cursor = 0
  <2>1. utt \in 0..MaxUtterances
    BY DEF Inv, TypesInv
  <2> QED BY <2>1, NoTurnTyped
          DEF AssemblePrompt, GenerateFails, StartTurn, StreamEnds, NoTurn, TurnRecord
<1>5. TypesInv'
  BY <1>1, <1>2, <1>3, <1>4 DEF Inv, TypesInv, TurnRecord, Turns
<1>6. TurnInv'
  <2>1. CASE turn' = turn /\ phase' # "stream"
    BY <1>1, <1>3, <2>1 DEF Inv, TurnInv, Turns
  <2>2. CASE turn'.gen = utt /\ turn'.text = 0 /\ turn'.cursor = 0
    <3>1. generated[utt] \in Nat /\ played[utt] \in Nat
      BY <1>2 DEF Inv, TypesInv
    <3> QED BY <1>1, <1>2, <2>2, <3>1 DEF TurnInv, Turns
  <2> QED BY <1>4, <2>1, <2>2
<1> QED BY <1>1, <1>5, <1>6, KeepsSpoken, KeepsCommitted DEF Inv

LEMMA AppendUserMessageInv ==
  ASSUME Inv, AppendUserMessage
  PROVE  Inv'
<1>1. PICK len \in {0, 1} : AppendMessage(Message("user", utt', len))
  BY DEF AppendUserMessage
<1>2. utt' \in Turns /\ utt' \in 0..MaxUtterances /\ phase' = "assemble"
      /\ UNCHANGED <<turn, position, committed, generated, played>>
  BY ConversationAssumption DEF Inv, TypesInv, AppendUserMessage, intrVars, Turns
<1> DEFINE m == Message("user", utt', len)
<1>3. m \in Messages /\ m.role # "assistant"
  BY <1>2, ConversationAssumption DEF Message, Messages, Turns
<1> HIDE DEF m
<1>4. log' \in Seq(Messages) /\ SpokenOnly'
  BY <1>1, <1>2, <1>3, AppendKeepsSpoken DEF m
<1>5. TypesInv'
  BY <1>2, <1>4 DEF Inv, TypesInv, TurnRecord, Turns
<1>6. TurnInv'
  BY <1>2 DEF Inv, TurnInv, Turns
<1> QED BY <1>2, <1>4, <1>5, <1>6, KeepsCommitted DEF Inv

LEMMA CommitFinalInv ==
  ASSUME Inv, CommitFinal
  PROVE  Inv'
<1>1. PICK len \in 0..MaxText : CommitTurn(len)
  BY DEF CommitFinal
<1>2. UNCHANGED <<utt, position, committed, generated, played>> /\ phase' = "recv"
  BY DEF CommitFinal, intrVars
<1>3. len \in Nat /\ turn.gen \in 0..MaxUtterances
  BY ConversationAssumption DEF Inv, TypesInv, TurnRecord
<1>4. log' \in Seq(Messages) /\ SpokenOnly'
  BY <1>1, <1>2, <1>3, CommittableIsSpoken, AppendAssistantKeepsSpoken DEF CommitTurn
<1>5. turn' = NoTurn
  BY <1>1 DEF CommitTurn
<1>6. TypesInv'
  BY <1>2, <1>4, <1>5, NoTurnTyped DEF Inv, TypesInv, TurnRecord, Turns
<1>7. TurnInv'
  BY <1>2, <1>5 DEF TurnInv, NoTurn
<1> QED BY <1>2, <1>4, <1>6, <1>7, KeepsCommitted DEF Inv

\* An interruption's first two steps append nothing.
LEMMA MarkInv ==
  ASSUME Inv, GetCurrentPosition \/ HandleInterruption
  PROVE  Inv'
<1>1. turn \in TurnRecord /\ position \in Nat
  BY DEF Inv, TypesInv
<1>2. UNCHANGED <<phase, utt, log, committed, generated, played>>
  BY DEF GetCurrentPosition, HandleInterruption, uttVars, histVars
<1>3. position' \in Nat
  <2>1. Samples(turn.cursor) \in Nat
    BY <1>1, SMT DEF Samples, BytesPerSample, TurnRecord
  <2> QED BY <1>1, <2>1 DEF GetCurrentPosition, HandleInterruption
<1>4. turn' \in TurnRecord /\ turn'.gen = turn.gen /\ turn'.text = turn.text
      /\ turn'.cursor <= turn.cursor /\ (turn = NoTurn => turn' = NoTurn)
  <2>1. CASE turn' = turn
    BY <1>1, <2>1 DEF TurnRecord
  <2>2. CASE turn # NoTurn /\ turn' = Marked(turn, position * BytesPerSample)
    <3>1. position * BytesPerSample \in Nat
      BY <1>1 DEF BytesPerSample
    <3>2. PICK c \in Nat : c <= turn.cursor
                           /\ turn' = [turn EXCEPT !.interrupted = TRUE, !.cursor = c]
      <4>1. turn.cursor \in Nat
        BY <1>1 DEF TurnRecord
      <4> DEFINE b == position * BytesPerSample
                 c == IF b < turn.cursor THEN b ELSE turn.cursor
      <4>2. turn' = [turn EXCEPT !.interrupted = TRUE, !.cursor = c]
        BY <2>2 DEF Marked
      <4>3. c \in Nat /\ c <= turn.cursor
        BY <3>1, <4>1
      <4> HIDE DEF c
      <4> QED BY <4>2, <4>3
    <3> QED BY <1>1, <2>2, <3>2 DEF TurnRecord
  <2> QED BY <2>1, <2>2 DEF GetCurrentPosition, HandleInterruption
<1>5. TypesInv'
  BY <1>2, <1>3, <1>4 DEF Inv, TypesInv, TurnRecord, Turns
<1>6. TurnInv'
  <2>1. turn.cursor \in Nat /\ turn'.cursor \in Nat
    BY <1>1, <1>4 DEF TurnRecord
  <2>2. ASSUME turn' # NoTurn
        PROVE  turn'.gen \in Turns /\ turn'.text <= generated'[turn'.gen]
               /\ turn'.cursor <= played'[turn'.gen]
    <3>1. turn.gen \in Turns /\ turn.text <= generated[turn.gen] /\ turn.cursor <= played[turn.gen]
      BY <1>4, <2>2 DEF Inv, TurnInv
    <3>2. played[turn.gen] \in Nat
      BY <3>1 DEF Inv, TypesInv
    <3> QED BY <1>2, <1>4, <2>1, <3>1, <3>2
  <2>3. phase' \in {"stream", "commit"} => turn' = NoTurn \/ turn'.gen = utt'
    BY <1>2, <1>4 DEF Inv, TurnInv
  <2> QED BY <2>2, <2>3 DEF TurnInv, Turns
<1> QED BY <1>2, <1>5, <1>6, KeepsSpoken, KeepsCommitted DEF Inv

LEMMA CommitInterruptedInv ==
  ASSUME Inv, CommitInterrupted
  PROVE  Inv'
<1>1. PICK len \in 0..MaxText : CommitTurn(len) /\ committed' = [gen |-> turn.gen, len |-> len]
  BY DEF CommitInterrupted
<1>2. UNCHANGED <<phase, utt, position, generated, played>>
  BY DEF CommitInterrupted, uttVars
<1>3. len \in Nat /\ turn.gen \in 0..MaxUtterances
  BY ConversationAssumption DEF Inv, TypesInv, TurnRecord
<1>4. len > 0 => Spoken(turn.gen, len)
  BY <1>1, <1>3, CommittableIsSpoken DEF CommitTurn
<1>5. log' \in Seq(Messages) /\ SpokenOnly'
  BY <1>1, <1>2, <1>3, <1>4, AppendAssistantKeepsSpoken DEF CommitTurn
<1>6. turn' = NoTurn
  BY <1>1 DEF CommitTurn
<1>7. TypesInv'
  BY <1>1, <1>2, <1>3, <1>5, <1>6, NoTurnTyped DEF Inv, TypesInv, TurnRecord, Turns
<1>8. TurnInv'
  BY <1>2, <1>6 DEF TurnInv, NoTurn
<1>9. CommittedInv'
  <2>1. committed'.gen = turn.gen /\ committed'.len = len
    BY <1>1
  <2> QED BY <1>2, <1>4, <2>1 DEF CommittedInv, Spoken, Chars, Samples
<1> QED BY <1>5, <1>7, <1>8, <1>9 DEF Inv

LEMMA AppendCommittedInv ==
  ASSUME Inv, AppendCommitted
  PROVE  Inv'
<1>1. UNCHANGED <<phase, utt, turn, generated, played>>
      /\ AppendAssistant(committed.gen, committed.len)
      /\ position' = 0 /\ committed' = [gen |-> 0, len |-> 0]
  BY DEF AppendCommitted, uttVars
<1>2. committed.gen \in 0..MaxUtterances /\ committed.len \in Nat
      /\ (committed.len > 0 => Spoken(committed.gen, committed.len))
  BY DEF Inv, TypesInv, CommittedInv
<1>3. log' \in Seq(Messages) /\ SpokenOnly'
  BY <1>1, <1>2, AppendAssistantKeepsSpoken
<1>4. 0 \in 0..MaxUtterances
  BY ConversationAssumption
<1>5. TypesInv'
  BY <1>1, <1>3, <1>4 DEF Inv, TypesInv, TurnRecord, Turns
<1>6. TurnInv' /\ CommittedInv'
  BY <1>1 DEF Inv, TurnInv, CommittedInv, Turns
<1> QED BY <1>3, <1>5, <1>6 DEF Inv

LEMMA OtherInv ==
  ASSUME Inv, systems \in Nat, AppendSystemMessage \/ Clear \/ Reset
  PROVE  Inv'
<1>1. UNCHANGED <<phase, utt, generated, played, position, committed>>
      /\ (turn' = turn \/ turn' = NoTurn)
  BY DEF AppendSystemMessage, Clear, Reset, uttVars, intrVars
<1>2. log' \in Seq(Messages) /\ SpokenOnly'
  <2>1. CASE AppendSystemMessage
    <3> DEFINE m == Message("system", systems', 1)
    <3>1. m \in Messages /\ m.role # "assistant" /\ AppendMessage(m)
      BY <2>1 DEF Message, Messages, AppendSystemMessage
    <3> HIDE DEF m
    <3> QED BY <1>1, <3>1, AppendKeepsSpoken
  <2>2. CASE Clear
    BY <2>2 DEF Clear, SpokenOnly
  <2>3. CASE Reset
    BY <1>1, <2>3, KeepsSpoken DEF Reset, histVars
  <2> QED BY <2>1, <2>2, <2>3
<1>3. TypesInv'
  BY <1>1, <1>2, NoTurnTyped DEF Inv, TypesInv, TurnRecord, Turns
<1>4. TurnInv'
  BY <1>1 DEF Inv, TurnInv, NoTurn, Turns
<1> QED BY <1>1, <1>2, <1>3, <1>4, KeepsCommitted DEF Inv

SystemsInv == systems \in Nat

LEMMA NextSystems == SystemsInv /\ [Next]_vars => SystemsInv'
BY DEF SystemsInv, Next, vars, UtteranceStep, AppendUserMessage, AssemblePrompt, GenerateFails,
       StartTurn, AppendGenerated, StreamEnds, CommitFinal, AdvancePlayout, MarkSpoken,
       Advance, InterruptStep, GetCurrentPosition, HandleInterruption, CommitInterrupted,
       AppendCommitted, AppendSystemMessage, Clear, Reset

LEMMA NextInv == Inv /\ SystemsInv /\ [Next]_vars => Inv'
<1> SUFFICES ASSUME Inv, systems \in Nat, [Next]_vars PROVE Inv'
  BY DEF SystemsInv
<1>1. CASE UtteranceStep
  BY <1>1, QuietUtteranceInv, AppendUserMessageInv, AppendGeneratedInv, CommitFinalInv
     DEF UtteranceStep
<1>2. CASE AdvancePlayout
  BY <1>2, AdvanceInv, ConversationAssumption DEF AdvancePlayout
<1>3. CASE MarkSpoken
  <2>1. PICK bytes \in ChunkBytes, lost \in {0, 1} :
          Samples(bytes) > lost /\ Advance((Samples(bytes) - lost) * BytesPerSample)
    BY <1>3 DEF MarkSpoken
  <2>2. bytes \in Nat
    BY ConversationAssumption
  <2>3. (Samples(bytes) - lost) * BytesPerSample \in Nat
    BY <2>1, <2>2, SMT DEF Samples, BytesPerSample
  <2> QED BY <2>1, <2>3, AdvanceInv
<1>4. CASE InterruptStep
  BY <1>4, MarkInv, CommitInterruptedInv, AppendCommittedInv DEF InterruptStep
<1>5. CASE AppendSystemMessage \/ Clear \/ Reset
  BY <1>5, OtherInv
<1>6. CASE UNCHANGED vars
  <2>1. UNCHANGED <<phase, utt, turn, log, position, committed, generated, played>>
    BY <1>6 DEF vars, uttVars, histVars, intrVars
  <2>2. TypesInv' /\ TurnInv'
    BY <2>1 DEF Inv, TypesInv, TurnInv, TurnRecord, Turns
  <2> QED BY <2>1, <2>2, KeepsSpoken, KeepsCommitted DEF Inv
<1> QED BY <1>1, <1>2, <1>3, <1>4, <1>5, <1>6 DEF Next

(* What the history has of a reply was generated and played in that turn,     *)
(* whichever calls of the interruption handler, the token processor and the   *)
(* playout reports come between one another.                                  *)
THEOREM ConversationSpokenOnly == Spec => []SpokenOnly
<1>1. Inv => SpokenOnly
  BY DEF Inv
<1>2. Init => SystemsInv
  BY DEF Init, SystemsInv
<1> QED BY InitInv, NextInv, NextSystems, <1>1, <1>2, PTL DEF Spec

-----------------------------------------------------------------------------
(* A turn that is not interrupted has its cursor where its playout is; the    *)
(* cursor of an interrupted one is not behind the position read of it.  A     *)
(* turn starts with nothing played of it, and no position read of it.         *)

Unplayed(g) == g > utt \/ (g = utt /\ phase \in {"assemble", "start"})

FreshInv ==
  /\ \A g \in Turns : Unplayed(g) => played[g] = 0
  /\ ~Unplayed(turn.gen)
  /\ positionOf \in 0..MaxUtterances /\ ~Unplayed(positionOf)

CursorInv ==
  turn # NoTurn =>
    /\ ~turn.interrupted => turn.cursor = played[turn.gen]
    /\ positionOf = turn.gen => position * BytesPerSample <= turn.cursor

KeptInv == FreshInv /\ CursorInv

LEMMA KeptInit == Init => KeptInv
BY ConversationAssumption
   DEF Init, KeptInv, FreshInv, CursorInv, Unplayed, NoTurn, Turns

\* Half the bytes, rounded down, is no more than the bytes.
LEMMA SamplesBelow ==
  ASSUME NEW bytes \in Nat
  PROVE  Samples(bytes) \in Nat /\ Samples(bytes) * BytesPerSample <= bytes
BY SMT DEF Samples, BytesPerSample

LEMMA AdvanceKept ==
  ASSUME Inv, KeptInv, NEW bytes \in Nat, Advance(bytes)
  PROVE  KeptInv'
<1>1. /\ turn # NoTurn /\ turn.gen \in Turns /\ turn \in TurnRecord
      /\ turn.cursor \in Nat /\ position \in Nat /\ played \in [Turns -> Nat]
      /\ played[turn.gen] \in Nat
  BY DEF Inv, TypesInv, TurnInv, TurnRecord, Advance
<1>2. /\ turn'.gen = turn.gen /\ turn'.interrupted = turn.interrupted
      /\ turn'.cursor = turn.cursor + bytes
      /\ played' = [played EXCEPT ![turn.gen] = @ + bytes]
      /\ UNCHANGED <<utt, phase, position, positionOf>>
  BY <1>1 DEF Advance, TurnRecord, uttVars, intrVars
<1>3. \A g \in Turns : Unplayed(g)' => g # turn.gen /\ Unplayed(g)
  BY <1>2 DEF KeptInv, FreshInv, Unplayed
<1>4. FreshInv'
  BY <1>1, <1>2, <1>3 DEF KeptInv, FreshInv, Unplayed, Turns
<1>5. ~turn'.interrupted => turn'.cursor = played'[turn'.gen]
  <2>1. played'[turn.gen] = played[turn.gen] + bytes
    BY <1>1, <1>2
  <2> QED BY <1>1, <1>2, <2>1 DEF KeptInv, CursorInv
<1>6. positionOf' = turn'.gen => position' * BytesPerSample <= turn'.cursor
  <2>1. position * BytesPerSample \in Nat
    BY <1>1 DEF BytesPerSample
  <2>2. positionOf = turn.gen => position * BytesPerSample <= turn.cursor
    BY <1>1 DEF KeptInv, CursorInv
  <2>3. positionOf = turn.gen => position * BytesPerSample <= turn.cursor + bytes
    BY <1>1, <2>1, <2>2
  <2> QED BY <1>2, <2>3 DEF BytesPerSample
<1> QED BY <1>4, <1>5, <1>6 DEF KeptInv, CursorInv

LEMMA UtteranceKept ==
  ASSUME Inv, KeptInv, UtteranceStep
  PROVE  KeptInv'
<1>1. /\ UNCHANGED <<position, positionOf, played>>
      /\ utt \in Nat /\ (phase # "recv" => utt \in Turns /\ 0 < utt)
      /\ turn.gen \in Nat /\ turn \in TurnRecord
  <2>1. UNCHANGED <<position, positionOf, played>>
    BY DEF UtteranceStep, AppendUserMessage, AssemblePrompt, GenerateFails, StartTurn,
           AppendGenerated, StreamEnds, CommitFinal, intrVars
  <2>2. utt \in Nat /\ (phase # "recv" => utt \in Turns /\ 0 < utt)
    BY ConversationAssumption DEF Inv, TypesInv, Turns
  <2>3. turn.gen \in Nat /\ turn \in TurnRecord
    BY ConversationAssumption DEF Inv, TypesInv, TurnRecord
  <2> QED
    BY <2>1, <2>2, <2>3
<1>2. CASE AppendUserMessage
  <2>1. utt' = utt + 1 /\ phase' = "assemble" /\ turn' = turn
    BY <1>2 DEF AppendUserMessage
  <2>2. \A g \in Nat : Unplayed(g)' => Unplayed(g)
    BY <1>1, <2>1 DEF Unplayed
  <2>3. \A g \in Turns : g \in Nat
    BY DEF Turns
  <2>4. FreshInv'
    BY <1>1, <2>1, <2>2, <2>3 DEF KeptInv, FreshInv
  <2> QED BY <1>1, <2>1, <2>4 DEF KeptInv, CursorInv, BytesPerSample, NoTurn
<1>3. CASE StartTurn
  <2>1. /\ utt' = utt /\ phase = "start" /\ phase' = "stream"
        /\ turn'.gen = utt /\ turn'.cursor = 0 /\ utt \in Turns
    BY <1>1, <1>3 DEF StartTurn, NoTurn
  <2>2. \A g : Unplayed(g)' => Unplayed(g)
    BY <2>1 DEF Unplayed
  <2>3. ~Unplayed(utt)'
    BY <1>1, <2>1 DEF Unplayed
  <2>4. played[utt] = 0 /\ positionOf # utt
    BY <2>1 DEF KeptInv, FreshInv, Unplayed
  <2>5. FreshInv'
    BY <1>1, <2>1, <2>2, <2>3 DEF KeptInv, FreshInv, Unplayed
  <2> QED BY <1>1, <2>1, <2>4, <2>5 DEF KeptInv, CursorInv
<1>4. CASE AppendGenerated
  <2>1. /\ utt' = utt /\ phase' \in {"stream", "commit"} /\ phase = "stream"
        /\ turn'.gen = turn.gen /\ turn'.cursor = turn.cursor
        /\ turn'.interrupted = turn.interrupted
        /\ (turn = NoTurn => turn' = NoTurn)
    BY <1>1, <1>4 DEF AppendGenerated, TurnRecord
  <2>2. \A g : Unplayed(g)' => Unplayed(g)
    BY <2>1 DEF Unplayed
  <2>3. FreshInv'
    BY <1>1, <2>1, <2>2 DEF KeptInv, FreshInv
  <2> QED BY <1>1, <2>1, <2>3 DEF KeptInv, CursorInv, BytesPerSample
<1>5. CASE AssemblePrompt \/ GenerateFails \/ StreamEnds \/ CommitFinal
  <2>1. /\ utt' = utt /\ (turn' = turn \/ turn' = NoTurn)
        /\ (phase' \in {"assemble", "start"} => phase \in {"assemble", "start"})
        /\ (turn' = NoTurn => ~Unplayed(turn.gen)')
    <3>1. utt' = utt /\ (turn' = turn \/ turn' = NoTurn)
          /\ (phase' \in {"assemble", "start"} => phase = "assemble")
      BY <1>5
      DEF AssemblePrompt, GenerateFails, StreamEnds, CommitFinal, CommitTurn
    <3> QED BY <1>1, <3>1 DEF Unplayed, NoTurn
  <2>2. \A g : Unplayed(g)' => Unplayed(g)
    BY <2>1 DEF Unplayed
  <2>3. FreshInv'
    BY <1>1, <2>1, <2>2 DEF KeptInv, FreshInv
  <2> QED BY <1>1, <2>1, <2>3 DEF KeptInv, CursorInv, BytesPerSample, NoTurn
<1> QED BY <1>2, <1>3, <1>4, <1>5 DEF UtteranceStep

LEMMA InterruptKept ==
  ASSUME Inv, KeptInv, InterruptStep
  PROVE  KeptInv'
<1>1. /\ UNCHANGED <<phase, utt, played>> /\ utt \in Nat /\ (phase # "recv" => 0 < utt)
      /\ turn \in TurnRecord /\ turn.cursor \in Nat /\ turn.gen \in 0..MaxUtterances
      /\ position \in Nat /\ position * BytesPerSample \in Nat
      /\ (turn # NoTurn => turn.gen # 0)
  BY ConversationAssumption
  DEF InterruptStep, GetCurrentPosition, HandleInterruption, CommitInterrupted,
      AppendCommitted, uttVars, Inv, TypesInv, TurnInv, TurnRecord, Turns, BytesPerSample
<1>2. \A g : Unplayed(g)' <=> Unplayed(g)
  BY <1>1 DEF Unplayed
<1>3. ~Unplayed(0) /\ 0 \in 0..MaxUtterances
  BY <1>1, ConversationAssumption DEF Unplayed
<1>4. CASE GetCurrentPosition
  <2>1. turn' = turn /\ positionOf' = turn.gen
        /\ (position' = Samples(turn.cursor) \/ position' = Samples(turn.cursor) - 1)
    BY <1>4 DEF GetCurrentPosition
  <2>2. position' * BytesPerSample <= turn.cursor
    BY <1>1, <2>1, SamplesBelow DEF BytesPerSample
  <2>3. FreshInv'
    BY <1>1, <1>2, <2>1 DEF KeptInv, FreshInv
  <2> QED BY <1>1, <2>1, <2>2, <2>3 DEF KeptInv, CursorInv, BytesPerSample
<1>5. CASE HandleInterruption
  <2>1. UNCHANGED <<position, positionOf>>
    BY <1>5 DEF HandleInterruption
  <2>2. CASE turn = NoTurn
    BY <1>1, <1>2, <1>5, <2>1, <2>2 DEF HandleInterruption, KeptInv, FreshInv, CursorInv
  <2>3. CASE turn # NoTurn
    <3> DEFINE b == position * BytesPerSample
    <3>1. turn'.gen = turn.gen /\ turn'.interrupted
          /\ turn'.cursor = IF b < turn.cursor THEN b ELSE turn.cursor
      BY <1>1, <1>5, <2>3 DEF HandleInterruption, Marked, TurnRecord
    <3>2. FreshInv'
      BY <1>1, <1>2, <2>1, <3>1 DEF KeptInv, FreshInv
    <3>3. positionOf = turn.gen => b <= turn'.cursor
      BY <1>1, <2>3, <3>1 DEF KeptInv, CursorInv
    <3> QED BY <2>1, <3>1, <3>2, <3>3 DEF KeptInv, CursorInv, BytesPerSample
  <2> QED BY <2>2, <2>3
<1>6. CASE CommitInterrupted
  <2>1. turn' = NoTurn /\ turn'.gen = 0 /\ UNCHANGED <<position, positionOf>>
    BY <1>6 DEF CommitInterrupted, CommitTurn, NoTurn
  <2> QED BY <1>1, <1>2, <1>3, <2>1 DEF KeptInv, FreshInv, CursorInv
<1>7. CASE AppendCommitted
  <2>1. turn' = turn /\ positionOf' = 0
    BY <1>7 DEF AppendCommitted
  <2>2. FreshInv'
    BY <1>1, <1>2, <1>3, <2>1 DEF KeptInv, FreshInv
  <2> QED BY <1>1, <2>1, <2>2 DEF KeptInv, CursorInv
<1> QED BY <1>4, <1>5, <1>6, <1>7 DEF InterruptStep

LEMMA KeptNext == Inv /\ KeptInv /\ [Next]_vars => KeptInv'
<1> SUFFICES ASSUME Inv, KeptInv, [Next]_vars
             PROVE  KeptInv'
  OBVIOUS
<1>1. CASE UtteranceStep
  BY <1>1, UtteranceKept
<1>2. CASE AdvancePlayout
  BY <1>2, AdvanceKept, ConversationAssumption DEF AdvancePlayout
<1>3. CASE MarkSpoken
  <2>1. PICK bytes \in ChunkBytes, lost \in {0, 1} :
          Samples(bytes) > lost /\ Advance((Samples(bytes) - lost) * BytesPerSample)
    BY <1>3 DEF MarkSpoken
  <2>2. bytes \in Nat
    BY ConversationAssumption
  <2>3. (Samples(bytes) - lost) * BytesPerSample \in Nat
    BY <2>1, <2>2, SMT DEF Samples, BytesPerSample
  <2> QED BY <2>1, <2>3, AdvanceKept
<1>4. CASE InterruptStep
  BY <1>4, InterruptKept
<1>5. CASE AppendSystemMessage \/ Clear \/ Reset \/ UNCHANGED vars
  <2>1. /\ UNCHANGED <<phase, utt, played, position, positionOf>>
        /\ (turn' = turn \/ turn' = NoTurn)
    BY <1>5 DEF AppendSystemMessage, Clear, Reset, vars, uttVars, intrVars
  <2>2. \A g : Unplayed(g)' <=> Unplayed(g)
    BY <2>1 DEF Unplayed
  <2>3. ~Unplayed(0) /\ NoTurn.gen = 0
    BY ConversationAssumption DEF Inv, TypesInv, Turns, Unplayed, NoTurn
  <2>4. FreshInv'
    BY <2>1, <2>2, <2>3 DEF KeptInv, FreshInv
  <2> QED BY <2>1, <2>4 DEF KeptInv, CursorInv, BytesPerSample
<1> QED BY <1>1, <1>2, <1>3, <1>4, <1>5 DEF Next

\* What a commit appends is what it committed.
LEMMA LastLenOfCommit ==
  ASSUME Inv, NEW len \in Nat, AppendAssistant(turn.gen, len)
  PROVE  LastLen(turn.gen) = len
<1>1. log \in Seq(Messages) /\ Len(log) \in Nat
  BY LenProperties DEF Inv, TypesInv
<1>2. CASE len > 0
  <2> DEFINE m == Message("assistant", turn.gen, len)
  <2>1. m.role = "assistant" /\ m.turn = turn.gen /\ m.len = len
    BY DEF Message
  <2>2. m \in Messages
    BY ConversationAssumption DEF Message, Messages, Inv, TypesInv, TurnRecord
  <2>3. log' = Append(log, m)
    BY <1>2 DEF AppendAssistant, AppendMessage
  <2> HIDE DEF m
  <2>4. Len(log') = Len(log) + 1 /\ log'[Len(log')] = m
    BY <1>1, <2>2, <2>3
  <2> QED BY <1>1, <2>1, <2>4 DEF LastLen
<1>3. CASE ~(len > 0)
  BY <1>1, <1>3 DEF AppendAssistant, histVars, LastLen
<1> QED BY <1>2, <1>3

\* A commit keeps the turn's text, or all but a character of what the cursor has passed.
LEMMA CommittableKeeps ==
  ASSUME Inv, NEW len \in Committable(turn)
  PROVE  len \in Nat /\ (len = turn.text \/ len >= Chars(turn.cursor) - 1)
<1>1. turn.text \in Nat /\ turn.cursor \in Nat
  BY DEF Inv, TypesInv, TurnRecord
<1>2. Chars(turn.cursor) \in Nat
  BY <1>1, CharsMonotone
<1>3. PICK c \in Nat : c >= Chars(turn.cursor) - 1 /\ len = IF turn.text > c THEN c ELSE turn.text
  BY <1>2 DEF Committable
<1> QED BY <1>1, <1>3

\* Only the two commits end a turn that is not reset.
LEMMA WhoEndsATurn ==
  ASSUME Inv, KeptInv, Next, turn # NoTurn, turn' = NoTurn, clears' = clears, clears \in Nat
  PROVE  \E len \in 0..MaxText : CommitTurn(len)
<1>1. turn \in TurnRecord /\ turn.gen \in Turns /\ turn.gen # 0 /\ turn.text \in Nat /\ utt \in Nat
  BY DEF Inv, TypesInv, TurnInv, TurnRecord, Turns
<1>2. ~StartTurn
  BY <1>1 DEF StartTurn, Inv, TypesInv, NoTurn, Turns
<1>3. ~AppendGenerated
  <2> SUFFICES ASSUME AppendGenerated PROVE FALSE
    OBVIOUS
  <2>1. turn'.gen = turn.gen
    BY <1>1 DEF AppendGenerated, TurnRecord
  <2> QED BY <1>1, <2>1 DEF NoTurn
<1>4. \A bytes : ~Advance(bytes)
  <2> SUFFICES ASSUME NEW bytes, Advance(bytes) PROVE FALSE
    OBVIOUS
  <2>1. turn'.gen = turn.gen
    BY <1>1 DEF Advance, TurnRecord
  <2> QED BY <1>1, <2>1 DEF NoTurn
<1>5. ~HandleInterruption
  <2> SUFFICES ASSUME HandleInterruption PROVE FALSE
    OBVIOUS
  <2>1. turn'.gen = turn.gen
    BY <1>1 DEF HandleInterruption, Marked, TurnRecord
  <2> QED BY <1>1, <2>1 DEF NoTurn
<1>6. ~Reset
  BY DEF Reset
<1>7. ~(AppendUserMessage \/ AssemblePrompt \/ GenerateFails \/ StreamEnds
          \/ GetCurrentPosition \/ AppendCommitted \/ AppendSystemMessage \/ Clear)
  BY DEF AppendUserMessage, AssemblePrompt, GenerateFails, StreamEnds, GetCurrentPosition,
         AppendCommitted, AppendSystemMessage, Clear
<1> QED
  BY <1>2, <1>3, <1>4, <1>5, <1>6, <1>7
  DEF Next, UtteranceStep, InterruptStep, AdvancePlayout, MarkSpoken, CommitFinal,
      CommitInterrupted

ClearsInv == clears \in Nat

LEMMA NextClears == ClearsInv /\ [Next]_vars => ClearsInv'
BY DEF ClearsInv, Next, vars, UtteranceStep, AppendUserMessage, AssemblePrompt, GenerateFails,
       StartTurn, AppendGenerated, StreamEnds, CommitFinal, AdvancePlayout, MarkSpoken,
       Advance, InterruptStep, GetCurrentPosition, HandleInterruption, CommitInterrupted,
       AppendCommitted, AppendSystemMessage, Clear, Reset

\* The step that commits a turn remembers all that must be kept of it.
LEMMA CommitStepKeeps ==
  ASSUME Inv, KeptInv, NEW len \in 0..MaxText, CommitTurn(len), turn # NoTurn,
         turn.interrupted => positionOf = turn.gen
  PROVE  LastLen(turn.gen) = turn.text \/ LastLen(turn.gen) >= Chars(MustKeep) - 1
<1>1. len \in Nat /\ (len = turn.text \/ len >= Chars(turn.cursor) - 1)
  BY CommittableKeeps DEF CommitTurn
<1>2. LastLen(turn.gen) = len
  BY <1>1, LastLenOfCommit DEF CommitTurn
<1>3. turn.cursor \in Nat /\ position * BytesPerSample \in Nat
  BY DEF Inv, TypesInv, TurnRecord, BytesPerSample
<1>4. MustKeep \in Nat /\ MustKeep <= turn.cursor
  BY <1>3 DEF MustKeep, KeptInv, CursorInv
<1>5. Chars(MustKeep) <= Chars(turn.cursor) /\ Chars(MustKeep) \in Nat /\ Chars(turn.cursor) \in Nat
  BY <1>3, <1>4, CharsMonotone
<1> QED BY <1>1, <1>2, <1>5

\* A commit forgets at most one character of what was played of the turn, or,
\* once it is interrupted, of what the position read of it had passed
\* (turn.go:77-120, turn_manager.go:79-131), for any chunks and rates.
THEOREM CommitForgetsNothingPlayed == Spec => CommitKeepsWhatWasPlayed
<1> DEFINE Keeps == turn # NoTurn /\ turn' = NoTurn /\ clears' = clears
                      /\ (turn.interrupted => positionOf = turn.gen)
                      => LastLen(turn.gen) = turn.text \/ LastLen(turn.gen) >= Chars(MustKeep) - 1
<1>1. Inv /\ KeptInv /\ ClearsInv /\ [Next]_vars => [Keeps]_vars
  <2> SUFFICES ASSUME Inv, KeptInv, ClearsInv, Next, turn # NoTurn, turn' = NoTurn,
                      clears' = clears, turn.interrupted => positionOf = turn.gen
               PROVE  LastLen(turn.gen) = turn.text \/ LastLen(turn.gen) >= Chars(MustKeep) - 1
    OBVIOUS
  <2> QED BY WhoEndsATurn, CommitStepKeeps DEF ClearsInv
<1>2. Init => SystemsInv /\ ClearsInv
  BY DEF Init, SystemsInv, ClearsInv
<1> QED
  BY InitInv, NextInv, NextSystems, NextClears, KeptInit, KeptNext, <1>1, <1>2, PTL
  DEF Spec, CommitKeepsWhatWasPlayed

-----------------------------------------------------------------------------
(* What Only keeps of a list of messages, by induction over the list; what a  *)
(* limit makes of a list, that limiting it early makes no difference, and     *)
(* that it keeps the positions its reference says.                            *)

\* What Only goes through, one message at a time.
Sieve(f, ms, S, T) ==
  /\ f \in [0..Len(ms) -> Seq(T)] /\ f[0] = << >>
  /\ \A i \in 1..Len(ms) : f[i] = IF ms[i] \in S THEN Append(f[i - 1], ms[i]) ELSE f[i - 1]

\* There is such a sieve, and Only is where it ends.
LEMMA SieveExists ==
  ASSUME NEW T, NEW ms \in Seq(T), NEW S
  PROVE  \E f : Sieve(f, ms, S, T) /\ Only(ms, S) = f[Len(ms)]
<1> DEFINE n == Len(ms)
           take(kept, i) == IF ms[i] \in S THEN Append(kept, ms[i]) ELSE kept
           step    == [pair \in (1..n) \X Seq(T) |-> take(pair[2], pair[1])]
           Loop(f) == f = [i \in 0..n |-> IF i = 0 THEN << >>
                                          ELSE IF ms[i] \in S THEN Append(f[i - 1], ms[i])
                                                              ELSE f[i - 1]]
<1>1. n \in Nat /\ \A i \in 1..n : ms[i] \in T
  BY LenProperties, ElementOfSeq
<1>2. \A i \in 1..n : \A kept \in Seq(T) : take(kept, i) \in Seq(T)
  BY <1>1, AppendProperties
<1> HIDE DEF n
<1>3. \E f : Loop(f)
  <2> HIDE DEF take
  <2>1. step \in Steps(n, Seq(T))
    BY <1>2 DEF Steps
  <2>2. << >> \in Seq(T)
    BY EmptySeq
  <2> HIDE DEF step
  <2>3. PICK f : Recursive(f, n, Seq(T), << >>, step)
    BY <1>1, <2>1, <2>2, RecursionExists
  <2>4. f \in [0..n -> Seq(T)]
    BY <2>3 DEF Recursive
  <2>5. \A i \in 0..n : f[i] = IF i = 0 THEN << >>
                               ELSE IF ms[i] \in S THEN Append(f[i - 1], ms[i]) ELSE f[i - 1]
    <3> TAKE i \in 0..n
    <3>1. CASE i = 0
      BY <3>1, <2>3 DEF Recursive
    <3>2. CASE i \in 1..n
      <4>1. f[i] = step[<<i, f[i - 1]>>]
        BY <3>2, <2>3 DEF Recursive
      <4>2. i - 1 \in 0..n
        BY <3>2, <1>1
      <4>3. f[i - 1] \in Seq(T)
        BY <4>2, <2>4
      <4>4. <<i, f[i - 1]>> \in (1..n) \X Seq(T)
        BY <3>2, <4>3
      <4>5. step[<<i, f[i - 1]>>] = take(f[i - 1], i)
        BY <4>4 DEF step
      <4> QED
        BY <3>2, <4>1, <4>5 DEF take
    <3> QED
      BY <1>1, <3>1, <3>2
  <2>6. Loop(f)
    BY <2>4, <2>5
  <2> HIDE DEF Loop
  <2> QED
    BY <2>6
<1>4. ASSUME NEW f, Loop(f)
      PROVE  Sieve(f, ms, S, T)
  <2>1. f[0] = << >>
    BY <1>1, <1>4
  <2>2. \A i \in 1..n : f[i] = take(f[i - 1], i)
    <3> TAKE i \in 1..n
    <3>1. i \in 0..n /\ i # 0
      BY <1>1
    <3> QED
      BY <3>1, <1>4
  <2> DEFINE I == {i \in 0..n : f[i] \in Seq(T)}
  <2>3. 0 \in I
    <3>1. 0 \in 0..n /\ << >> \in Seq(T)
      BY <1>1, EmptySeq
    <3> QED
      BY <2>1, <3>1
  <2>4. \A i \in 0..n - 1 : i \in I => i + 1 \in I
    <3> SUFFICES ASSUME NEW i \in 0..n - 1, f[i] \in Seq(T)
                 PROVE  f[i + 1] \in Seq(T)
      BY <1>1
    <3>1. i + 1 \in 1..n /\ (i + 1) - 1 = i
      BY <1>1
    <3>2. f[i + 1] = take(f[i], i + 1)
      BY <2>2, <3>1
    <3> HIDE DEF take
    <3> QED
      BY <1>2, <3>1, <3>2
  <2> HIDE DEF I
  <2>5. 0..n \subseteq I
    BY <1>1, <2>3, <2>4, BoundedInduction, ZenonT(30)
  <2>6. \A i \in 0..n : f[i] \in Seq(T)
    BY <2>5 DEF I
  <2>7. f = [i \in 0..n |-> f[i]]
    BY <1>4
  <2>8. f \in [0..n -> Seq(T)]
    BY <2>6, <2>7
  <2>9. \A i \in 1..n : f[i] = IF ms[i] \in S THEN Append(f[i - 1], ms[i]) ELSE f[i - 1]
    BY <2>2
  <2> QED
    BY <2>1, <2>8, <2>9, Zenon DEF Sieve, n
<1>5. Only(ms, S) = (CHOOSE f : Loop(f))[n]
  BY ZenonT(60) DEF Only, n
<1>6. Loop(CHOOSE f : Loop(f))
  BY <1>3
<1> HIDE DEF Loop
<1> QED
  BY <1>4, <1>5, <1>6 DEF n

\* The two go through a sequence alike, whether or not one more follows.
LEMMA SievesAgree ==
  ASSUME NEW T, NEW S, NEW ms \in Seq(T), NEW m \in T,
         NEW f, Sieve(f, ms, S, T), NEW g, Sieve(g, Append(ms, m), S, T)
  PROVE  f[Len(ms)] = g[Len(ms)]
<1> DEFINE n == Len(ms)
           ns == Append(ms, m)
           I == {i \in 0..n : f[i] = g[i]}
<1>1. n \in Nat /\ Len(ns) = n + 1 /\ \A i \in 1..n : ns[i] = ms[i]
  BY LenProperties, AppendProperties
<1>2. 0 \in I
  BY <1>1 DEF Sieve
<1>3. \A i \in 0..n - 1 : i \in I => i + 1 \in I
  <2> SUFFICES ASSUME NEW i \in 0..n - 1, f[i] = g[i]
               PROVE  f[i + 1] = g[i + 1]
    BY <1>1
  <2>1. i + 1 \in 1..n /\ i + 1 \in 1..Len(ns) /\ (i + 1) - 1 = i
    BY <1>1
  <2>2. f[i + 1] = IF ms[i + 1] \in S THEN Append(f[i], ms[i + 1]) ELSE f[i]
    BY <2>1 DEF Sieve
  <2> HIDE DEF ns
  <2>3. g[i + 1] = IF ns[i + 1] \in S THEN Append(g[i], ns[i + 1]) ELSE g[i]
    BY <2>1 DEF Sieve, ns
  <2>4. ns[i + 1] = ms[i + 1]
    BY <1>1, <2>1
  <2> QED
    BY <2>1, <2>2, <2>3, <2>4
<1> HIDE DEF I
<1>4. 0..n \subseteq I
  BY <1>1, <1>2, <1>3, BoundedInduction
<1> QED
  BY <1>1, <1>4 DEF I

\* What Only makes of a sequence that grows.
LEMMA OnlyAppend ==
  ASSUME NEW T, NEW ms \in Seq(T), NEW m \in T, NEW S
  PROVE  /\ Only(<< >>, S) = << >>
         /\ Only(ms, S) \in Seq(T)
         /\ Only(Append(ms, m), S) = IF m \in S THEN Append(Only(ms, S), m) ELSE Only(ms, S)
<1> DEFINE ns == Append(ms, m)
<1>1. << >> \in Seq(T) /\ Len(<< >>) = 0
  BY EmptySeq
<1>2. Only(<< >>, S) = << >>
  <2>1. PICK f : Sieve(f, << >>, S, T) /\ Only(<< >>, S) = f[Len(<< >>)]
    BY <1>1, SieveExists
  <2> QED
    BY <1>1, <2>1 DEF Sieve
<1>3. PICK f : Sieve(f, ms, S, T) /\ Only(ms, S) = f[Len(ms)]
  BY SieveExists
<1>4. Len(ms) \in Nat
  BY LenProperties
<1>5. Only(ms, S) \in Seq(T)
  BY <1>3, <1>4 DEF Sieve
<1>6. /\ ns \in Seq(T) /\ Len(ns) = Len(ms) + 1 /\ ns[Len(ms) + 1] = m
      /\ \A i \in 1..Len(ms) : ms[i] = ns[i]
  BY AppendProperties
<1> HIDE DEF ns
<1>7. PICK g : Sieve(g, ns, S, T) /\ Only(ns, S) = g[Len(ns)]
  BY <1>6, SieveExists
<1>8. f[Len(ms)] = g[Len(ms)]
  <2>1. Sieve(f, ms, S, T) /\ Sieve(g, Append(ms, m), S, T)
    BY <1>3, <1>7 DEF ns
  <2> QED
    BY <2>1, SievesAgree
<1>9. g[Len(ns)] = IF m \in S THEN Append(g[Len(ms)], m) ELSE g[Len(ms)]
  <2>1. Len(ns) \in 1..Len(ns) /\ Len(ns) - 1 = Len(ms)
    BY <1>4, <1>6
  <2>2. g[Len(ns)] = IF ns[Len(ns)] \in S THEN Append(g[Len(ns) - 1], ns[Len(ns)])
                                         ELSE g[Len(ns) - 1]
    BY <1>7, <2>1 DEF Sieve
  <2> QED
    BY <1>6, <2>1, <2>2
<1> QED
  BY <1>2, <1>3, <1>5, <1>7, <1>8, <1>9 DEF ns

LEMMA OnlyAppendMessage ==
  ASSUME NEW s \in Seq(Messages), NEW e \in Messages, NEW S
  PROVE  Only(Append(s, e), S) = IF e \in S THEN Append(Only(s, S), e) ELSE Only(s, S)
BY OnlyAppend

\* Of nothing, nothing is kept.
LEMMA OnlyEmpty == \A S : Only(<< >>, S) = << >>
<1> TAKE S
<1>1. << >> \in Seq({0}) /\ 0 \in {0}
  BY EmptySeq
<1> QED
  BY <1>1, OnlyAppend

\* Nothing is kept but what was there.
LEMMA OnlyIn ==
  ASSUME NEW T, NEW ms \in Seq(T), NEW S
  PROVE  Only(ms, S) \in Seq(T)
<1>1. PICK f : Sieve(f, ms, S, T) /\ Only(ms, S) = f[Len(ms)]
  BY SieveExists
<1>2. Len(ms) \in 0..Len(ms)
  BY LenProperties
<1> QED
  BY <1>1, <1>2 DEF Sieve

\* What is kept of two sequences one after the other, is kept of each.
LEMMA OnlyConcat ==
  ASSUME NEW T, NEW S, NEW s \in Seq(T)
  PROVE  \A t \in Seq(T) : Only(s \o t, S) = Only(s, S) \o Only(t, S)
<1>0. \A t \in Seq(T) : \A e \in T :
        /\ e \in S => Only(Append(t, e), S) = Append(Only(t, S), e)
        /\ e \notin S => Only(Append(t, e), S) = Only(t, S)
  <2> TAKE t \in Seq(T)
  <2> TAKE e \in T
  <2>1. CASE e \in S
    BY <2>1, OnlyAppend
  <2>2. CASE e \notin S
    BY <2>2, OnlyAppend
  <2> QED
    BY <2>1, <2>2
<1> DEFINE Q == {t \in Seq(T) : Only(s \o t, S) = Only(s, S) \o Only(t, S)}
<1>1. << >> \in Q
  <2>1. << >> \in Seq(T) /\ s \o << >> = s
    BY EmptySeq, ConcatEmptySeq
  <2>2. Only(<< >>, S) = << >>
    BY <2>1, OnlyEmpty
  <2>3. Only(s, S) \o << >> = Only(s, S)
    BY OnlyIn, ConcatEmptySeq
  <2> QED
    BY <2>1, <2>2, <2>3
<1>2. \A t \in Seq(T) : \A e \in T : t \in Q => Append(t, e) \in Q
  <2> SUFFICES ASSUME NEW t \in Seq(T), NEW e \in T,
                      Only(s \o t, S) = Only(s, S) \o Only(t, S)
               PROVE  Append(t, e) \in Q
    OBVIOUS
  <2>1. Append(t, e) \in Seq(T) /\ s \o t \in Seq(T)
    BY AppendProperties, ConcatProperties
  <2>2. s \o Append(t, e) = Append(s \o t, e)
    BY <2>1, AppendAssociative
  <2>3. Only(s, S) \in Seq(T) /\ Only(t, S) \in Seq(T)
    BY OnlyIn
  <2>4. /\ e \in S => /\ Only(Append(t, e), S) = Append(Only(t, S), e)
                     /\ Only(Append(s \o t, e), S) = Append(Only(s \o t, S), e)
        /\ e \notin S => /\ Only(Append(t, e), S) = Only(t, S)
                        /\ Only(Append(s \o t, e), S) = Only(s \o t, S)
    BY <1>0, <2>1
  <2>6. Append(Only(s, S) \o Only(t, S), e) = Only(s, S) \o Append(Only(t, S), e)
    BY <2>3, AppendAssociative
  <2> QED
    BY <2>1, <2>2, <2>4, <2>6
<1> HIDE DEF Q
<1>3. Seq(T) \subseteq Q
  BY <1>1, <1>2, SequenceInduction
<1> QED
  BY <1>3 DEF Q

\* Nothing is taken from a sequence that is of the set.
LEMMA OnlyAll ==
  ASSUME NEW S
  PROVE  \A s \in Seq(S) : Only(s, S) = s
<1> DEFINE Q == {s \in Seq(S) : Only(s, S) = s}
<1>1. << >> \in Q
  BY EmptySeq, OnlyEmpty
<1>2. \A s \in Seq(S) : \A e \in S : s \in Q => Append(s, e) \in Q
  BY OnlyAppend, AppendProperties
<1> HIDE DEF Q
<1>3. Seq(S) \subseteq Q
  BY <1>1, <1>2, SequenceInduction
<1> QED
  BY <1>3 DEF Q

\* Nothing is left of a sequence that has nothing of the set.
LEMMA OnlyNone ==
  ASSUME NEW T, NEW S, \A e \in T : e \notin S
  PROVE  \A s \in Seq(T) : Only(s, S) = << >>
<1> DEFINE Q == {s \in Seq(T) : Only(s, S) = << >>}
<1>1. << >> \in Q
  BY EmptySeq, OnlyEmpty
<1>2. \A s \in Seq(T) : \A e \in T : s \in Q => Append(s, e) \in Q
  BY OnlyAppend, AppendProperties
<1> HIDE DEF Q
<1>3. Seq(T) \subseteq Q
  BY <1>1, <1>2, SequenceInduction
<1> QED
  BY <1>3 DEF Q

\* What is kept is of the set.
LEMMA OnlyOf ==
  ASSUME NEW T, NEW S
  PROVE  \A s \in Seq(T) : Only(s, S) \in Seq(T \cap S)
<1> DEFINE Q == {s \in Seq(T) : Only(s, S) \in Seq(T \cap S)}
<1>1. << >> \in Q
  BY EmptySeq, OnlyEmpty
<1>2. \A s \in Seq(T) : \A e \in T : s \in Q => Append(s, e) \in Q
  <2> SUFFICES ASSUME NEW s \in Seq(T), NEW e \in T, Only(s, S) \in Seq(T \cap S)
               PROVE  Append(s, e) \in Seq(T) /\ Only(Append(s, e), S) \in Seq(T \cap S)
    OBVIOUS
  <2>1. CASE e \in S
    <3>1. Append(Only(s, S), e) \in Seq(T \cap S)
      BY <2>1, AppendProperties
    <3> QED
      BY <2>1, <3>1, OnlyAppend, AppendProperties
  <2>2. CASE e \notin S
    BY <2>2, OnlyAppend, AppendProperties
  <2> QED
    BY <2>1, <2>2
<1> HIDE DEF Q
<1>3. Seq(T) \subseteq Q
  BY <1>1, <1>2, SequenceInduction
<1> QED
  BY <1>3 DEF Q

\* Every message is either a system message or one of the others.
LEMMA EitherSystemOrOther ==
  \A s \in Seq(Messages) :
    /\ Only(s, System) \in Seq(System) /\ Only(s, Others) \in Seq(Others)
    /\ Len(s) = Len(Only(s, System)) + Len(Only(s, Others))
<1>1. /\ Messages \cap System = System /\ Messages \cap Others = Others
      /\ \A m \in Messages : (m \in System /\ m \notin Others) \/ (m \notin System /\ m \in Others)
  BY DEF Messages, System, Others
<1>2. \A s \in Seq(Messages) : Only(s, System) \in Seq(System) /\ Only(s, Others) \in Seq(Others)
  BY <1>1, OnlyOf
<1> DEFINE Q == {s \in Seq(Messages) : Len(s) = Len(Only(s, System)) + Len(Only(s, Others))}
<1>3. << >> \in Q
  BY EmptySeq, OnlyEmpty
<1>4. \A s \in Seq(Messages) : \A e \in Messages : s \in Q => Append(s, e) \in Q
  <2> SUFFICES ASSUME NEW s \in Seq(Messages), NEW e \in Messages, s \in Q
               PROVE  /\ Append(s, e) \in Seq(Messages)
                      /\ Len(Append(s, e))
                           = Len(Only(Append(s, e), System)) + Len(Only(Append(s, e), Others))
    OBVIOUS
  <2>1. /\ Append(s, e) \in Seq(Messages) /\ Len(Append(s, e)) = Len(s) + 1
        /\ Only(Append(s, e), System) = IF e \in System THEN Append(Only(s, System), e)
                                                        ELSE Only(s, System)
        /\ Only(Append(s, e), Others) = IF e \in Others THEN Append(Only(s, Others), e)
                                                        ELSE Only(s, Others)
    <3>1. Append(s, e) \in Seq(Messages) /\ Len(Append(s, e)) = Len(s) + 1
      BY AppendProperties
    <3>2. \A S : Only(Append(s, e), S) = IF e \in S THEN Append(Only(s, S), e) ELSE Only(s, S)
      BY OnlyAppendMessage
    <3> QED
      BY <3>1, <3>2, Zenon
  <2>2. e \in System => Len(Append(Only(s, System), e)) = Len(Only(s, System)) + 1
    BY <1>2, AppendProperties
  <2>3. e \in Others => Len(Append(Only(s, Others), e)) = Len(Only(s, Others)) + 1
    BY <1>2, AppendProperties
  <2>4. Len(Only(s, System)) \in Nat /\ Len(Only(s, Others)) \in Nat
    BY <1>2, LenProperties
  <2>5. CASE e \in System /\ e \notin Others
    BY <2>1, <2>2, <2>4, <2>5
  <2>6. CASE e \notin System /\ e \in Others
    BY <2>1, <2>3, <2>4, <2>6
  <2> QED
    BY <1>1, <2>5, <2>6
<1> HIDE DEF Q
<1>5. Seq(Messages) \subseteq Q
  BY <1>3, <1>4, SequenceInduction
<1> QED
  BY <1>2, <1>5 DEF Q

-----------------------------------------------------------------------------

\* The last of a sequence, and how many.
LEMMA LastProperties ==
  ASSUME NEW T, NEW s \in Seq(T), NEW n \in Nat
  PROVE  /\ Last(s, n) \in Seq(T)
         /\ Len(Last(s, n)) = IF Len(s) > n THEN n ELSE Len(s)
         /\ \A i \in 1..Len(Last(s, n)) :
               Last(s, n)[i] = s[i + (Len(s) - Len(Last(s, n)))]
<1>1. Len(s) \in Nat /\ \A i \in 1..Len(s) : s[i] \in T
  BY LenProperties, ElementOfSeq
<1>2. CASE Len(s) > n
  <2> DEFINE m == Len(s) - n + 1
  <2>1. /\ SubSeq(s, m, Len(s)) \in Seq(T)
        /\ Len(SubSeq(s, m, Len(s))) = IF m <= Len(s) THEN Len(s) - m + 1 ELSE 0
        /\ \A i \in 1..Len(s) - m + 1 : SubSeq(s, m, Len(s))[i] = s[m + i - 1]
    <3>1. m \in Int /\ Len(s) \in Int /\ \A i \in m..Len(s) : s[i] \in T
      BY <1>1, <1>2
    <3> HIDE DEF m
    <3> QED
      BY <3>1, SubSeqProperties
  <2>2. Last(s, n) = SubSeq(s, m, Len(s))
    BY <1>2 DEF Last
  <2>3. Len(SubSeq(s, m, Len(s))) = n
    BY <1>1, <1>2, <2>1
  <2>4. \A i \in 1..n : SubSeq(s, m, Len(s))[i] = s[i + (Len(s) - n)]
    <3> TAKE i \in 1..n
    <3>1. i \in 1..Len(s) - m + 1 /\ m + i - 1 = i + (Len(s) - n)
      BY <1>1
    <3> QED
      BY <2>1, <3>1
  <2> QED
    BY <1>2, <2>1, <2>2, <2>3, <2>4
<1>3. CASE ~(Len(s) > n)
  <2>1. Last(s, n) = s
    BY <1>3 DEF Last
  <2>2. \A i \in 1..Len(s) : i + (Len(s) - Len(s)) = i
    BY <1>1
  <2> QED
    BY <1>3, <2>1, <2>2
<1> QED
  BY <1>2, <1>3

\* What has been dropped from the front is not missed when fewer are wanted of more.
LEMMA LastOfLast ==
  ASSUME NEW T, NEW s \in Seq(T), NEW t \in Seq(T), NEW n \in Nat, NEW k \in 0..n
  PROVE  Last(Last(s, n) \o t, k) = Last(s \o t, k)
<1> DEFINE r == Last(s, n)
           a == r \o t
           b == s \o t
<1>1. k \in Nat /\ Len(s) \in Nat /\ Len(t) \in Nat
  BY LenProperties
<1>2. /\ r \in Seq(T) /\ Len(r) = IF Len(s) > n THEN n ELSE Len(s)
      /\ \A i \in 1..Len(r) : r[i] = s[i + (Len(s) - Len(r))]
  BY LastProperties
<1> HIDE DEF r
<1>3. /\ a \in Seq(T) /\ Len(a) = Len(r) + Len(t)
      /\ \A i \in 1..Len(r) + Len(t) : a[i] = IF i <= Len(r) THEN r[i] ELSE t[i - Len(r)]
  BY <1>2, ConcatProperties
<1>4. /\ b \in Seq(T) /\ Len(b) = Len(s) + Len(t)
      /\ \A i \in 1..Len(s) + Len(t) : b[i] = IF i <= Len(s) THEN s[i] ELSE t[i - Len(s)]
  BY ConcatProperties
<1> HIDE DEF a, b
<1>5. /\ Last(a, k) \in Seq(T) /\ Len(Last(a, k)) = IF Len(a) > k THEN k ELSE Len(a)
      /\ \A i \in 1..Len(Last(a, k)) : Last(a, k)[i] = a[i + (Len(a) - Len(Last(a, k)))]
  BY <1>1, <1>3, LastProperties
<1>6. /\ Last(b, k) \in Seq(T) /\ Len(Last(b, k)) = IF Len(b) > k THEN k ELSE Len(b)
      /\ \A i \in 1..Len(Last(b, k)) : Last(b, k)[i] = b[i + (Len(b) - Len(Last(b, k)))]
  BY <1>1, <1>4, LastProperties
<1>7. Len(Last(a, k)) = Len(Last(b, k))
  BY <1>1, <1>2, <1>3, <1>4, <1>5, <1>6
<1>8. ASSUME NEW i \in 1..Len(Last(a, k))
      PROVE  Last(a, k)[i] = Last(b, k)[i]
  <2> DEFINE x == i + (Len(a) - Len(Last(a, k)))
             y == i + (Len(b) - Len(Last(b, k)))
  <2>1. /\ x \in 1..Len(a) /\ y \in 1..Len(b) /\ y = x + (Len(s) - Len(r))
    <3>1. Len(r) \in Nat /\ Len(r) <= Len(s)
      BY <1>1, <1>2
    <3>2. Len(a) \in Nat /\ Len(b) \in Nat /\ Len(b) - Len(a) = Len(s) - Len(r)
      BY <1>1, <1>3, <1>4, <3>1
    <3>3. Len(Last(a, k)) \in 0..Len(a) /\ Len(Last(a, k)) <= Len(b)
      BY <1>1, <1>5, <3>1, <3>2
    <3>4. i \in Nat /\ 1 <= i /\ i <= Len(Last(a, k))
      BY <3>3
    <3>5. x \in 1..Len(a)
      BY <3>2, <3>3, <3>4
    <3>6. y = x + (Len(s) - Len(r))
      BY <1>1, <1>7, <3>1, <3>2, <3>3, <3>4
    <3> HIDE DEF x, y
    <3> QED
      BY <1>1, <3>1, <3>2, <3>5, <3>6
  <2>2. Last(a, k)[i] = a[x] /\ Last(b, k)[i] = b[y]
    BY <1>5, <1>6, <1>7
  <2> HIDE DEF x, y
  <2>3. CASE x <= Len(r)
    <3>1. x \in 1..Len(r) /\ y <= Len(s)
      BY <1>1, <1>2, <2>1, <2>3
    <3>2. a[x] = r[x] /\ b[y] = s[y] /\ r[x] = s[y]
      BY <1>2, <1>3, <1>4, <2>1, <2>3, <3>1
    <3> QED
      BY <2>2, <3>2
  <2>4. CASE x > Len(r)
    <3>1. ~(x <= Len(r)) /\ ~(y <= Len(s)) /\ x - Len(r) = y - Len(s)
      BY <1>1, <1>2, <2>1, <2>4
    <3>2. a[x] = t[x - Len(r)] /\ b[y] = t[y - Len(s)]
      BY <1>3, <1>4, <2>1, <3>1
    <3> QED
      BY <2>2, <3>1, <3>2
  <2> QED
    BY <1>1, <1>2, <1>3, <2>1, <2>3, <2>4
<1>9. Last(a, k) = Last(b, k)
  BY <1>5, <1>6, <1>7, <1>8, SeqEqual
<1> QED
  BY <1>9 DEF a, b, r

\* No message is of both kinds.
LEMMA KindsOfMessages ==
  /\ System \subseteq Messages /\ Others \subseteq Messages
  /\ \A m \in System : m \notin Others
  /\ \A m \in Others : m \notin System
BY DEF Messages, System, Others

\* What a limit does to a list that is longer: the system messages stay.
LEMMA LimitParts ==
  ASSUME NEW l \in Seq(Messages), NEW n \in Nat, Len(l) > n,
         NEW room, room = Larger(n - Len(Only(l, System)), 0)
  PROVE  /\ room \in Nat
         /\ Limit(l, n) = Only(l, System) \o Last(Only(l, Others), room)
         /\ Limit(l, n) \in Seq(Messages)
         /\ Len(Limit(l, n)) = Larger(n, Len(Only(l, System)))
         /\ Only(Limit(l, n), System) = Only(l, System)
         /\ Only(Limit(l, n), Others) = Last(Only(l, Others), room)
<1> DEFINE sys == Only(l, System)
           oth == Only(l, Others)
           last == Last(oth, room)
<1>1. /\ sys \in Seq(System) /\ oth \in Seq(Others) /\ Len(l) = Len(sys) + Len(oth)
      /\ Len(sys) \in Nat /\ Len(oth) \in Nat
  BY EitherSystemOrOther, LenProperties
<1>2. Limit(l, n) = sys \o last
  BY DEF Limit
<1> HIDE DEF sys, oth
<1>3. room \in Nat /\ (n >= Len(sys) => room = n - Len(sys)) /\ (n < Len(sys) => room = 0)
  BY <1>1 DEF Larger, sys
<1>4. last \in Seq(Others) /\ Len(last) = IF Len(oth) > room THEN room ELSE Len(oth)
  BY <1>1, <1>3, LastProperties
<1> HIDE DEF last
<1>5. sys \in Seq(Messages) /\ last \in Seq(Messages)
  BY <1>1, <1>4, KindsOfMessages, SeqMonotonic
<1>6. sys \o last \in Seq(Messages) /\ Len(sys \o last) = Len(sys) + Len(last)
  BY <1>5, ConcatProperties
<1>7. Len(sys) + Len(last) = Larger(n, Len(sys))
  <2>1. CASE n >= Len(sys)
    <3>1. Len(oth) > room
      BY <1>1, <1>3, <2>1
    <3>2. Larger(n, Len(sys)) = n
      BY <1>1, <2>1 DEF Larger
    <3> QED
      BY <1>1, <1>3, <1>4, <2>1, <3>1, <3>2
  <2>2. CASE n < Len(sys)
    <3>1. Larger(n, Len(sys)) = Len(sys)
      BY <1>1, <2>2 DEF Larger
    <3>2. Len(last) = 0
      BY <1>1, <1>3, <1>4, <2>2
    <3> QED
      BY <1>1, <3>1, <3>2
  <2> QED
    BY <1>1, <2>1, <2>2
<1>8. Only(sys \o last, System) = sys
  <2>1. Only(sys \o last, System) = Only(sys, System) \o Only(last, System)
    BY <1>5, OnlyConcat
  <2>2. Only(sys, System) = sys
    BY <1>1, OnlyAll
  <2>3. Only(last, System) = << >>
    BY <1>4, KindsOfMessages, OnlyNone
  <2>4. sys \o << >> = sys
    BY <1>5, ConcatEmptySeq
  <2> QED
    BY <2>1, <2>2, <2>3, <2>4
<1>9. Only(sys \o last, Others) = last
  <2>1. Only(sys \o last, Others) = Only(sys, Others) \o Only(last, Others)
    BY <1>5, OnlyConcat
  <2>2. Only(last, Others) = last
    BY <1>4, OnlyAll
  <2>3. Only(sys, Others) = << >>
    BY <1>1, KindsOfMessages, OnlyNone
  <2>4. << >> \o last = last
    BY <1>5, ConcatEmptySeq
  <2> QED
    BY <2>1, <2>2, <2>3, <2>4
<1> QED
  BY <1>2, <1>3, <1>6, <1>7, <1>8, <1>9 DEF sys, oth, last

\* A limit that leaves a list alone or not, it has messages, and no more others than fit.
LEMMA LimitTyped ==
  ASSUME NEW l \in Seq(Messages), NEW n \in Nat
  PROVE  /\ Limit(l, n) \in Seq(Messages)
         /\ Len(Limit(l, n)) <= Larger(n, Len(Only(Limit(l, n), System)))
<1>1. CASE Len(l) <= n
  <2>1. Limit(l, n) = l
    BY <1>1 DEF Limit
  <2>2. Len(l) \in Nat /\ Len(Only(l, System)) \in Nat
    BY EitherSystemOrOther, LenProperties
  <2> QED
    BY <1>1, <2>1, <2>2 DEF Larger
<1>2. CASE ~(Len(l) <= n)
  <2>1. Len(l) > n
    BY <1>2, LenProperties
  <2>2. Len(Only(l, System)) \in Nat
    BY EitherSystemOrOther, LenProperties
  <2>3. PICK room : room = Larger(n - Len(Only(l, System)), 0)
    OBVIOUS
  <2>4. /\ Limit(l, n) \in Seq(Messages)
        /\ Len(Limit(l, n)) = Larger(n, Len(Only(l, System)))
        /\ Only(Limit(l, n), System) = Only(l, System)
    BY <2>1, <2>3, LimitParts
  <2> QED
    BY <2>2, <2>4 DEF Larger
<1> QED
  BY <1>1, <1>2

\* A list limited before and after more is said, as if it were limited at the end alone.
LEMMA LimitTwice ==
  ASSUME NEW p \in Seq(System), NEW l \in Seq(Messages), NEW q \in Seq(Messages), q # << >>,
         NEW m \in Nat, NEW n \in 0..m
  PROVE  Limit((p \o Limit(l, m)) \o q, n) = Limit((p \o l) \o q, n)
<1> DEFINE r == Limit(l, m)
           a == (p \o r) \o q
           b == (p \o l) \o q
<1>1. CASE Len(l) <= m
  BY <1>1 DEF Limit
<1>2. CASE ~(Len(l) <= m)
  <2>1. n \in Nat /\ n <= m /\ Len(l) \in Nat /\ Len(l) > m /\ Len(q) \in Nat /\ Len(q) > 0
    BY <1>2, LenProperties, EmptySeq
  <2>2. PICK room : room = Larger(m - Len(Only(l, System)), 0)
    OBVIOUS
  <2>3. /\ room \in Nat /\ r \in Seq(Messages)
        /\ Len(r) = Larger(m, Len(Only(l, System)))
        /\ Only(r, System) = Only(l, System)
        /\ Only(r, Others) = Last(Only(l, Others), room)
    BY <2>1, <2>2, LimitParts
  <2> HIDE DEF r
  <2>4. p \in Seq(Messages) /\ Len(p) \in Nat
    BY KindsOfMessages, SeqMonotonic, LenProperties
  <2>5. /\ p \o r \in Seq(Messages) /\ p \o l \in Seq(Messages)
        /\ Len(p \o r) = Len(p) + Len(r) /\ Len(p \o l) = Len(p) + Len(l)
    BY <2>3, <2>4, ConcatProperties
  <2>6. /\ a \in Seq(Messages) /\ b \in Seq(Messages)
        /\ Len(a) = Len(p) + Len(r) + Len(q) /\ Len(b) = Len(p) + Len(l) + Len(q)
    BY <2>5, ConcatProperties
  <2>7. Only(p, System) = p /\ Only(p, Others) = << >>
    BY OnlyAll, OnlyNone, KindsOfMessages
  <2>o. \A S : /\ Only(a, S) = (Only(p, S) \o Only(r, S)) \o Only(q, S)
               /\ Only(b, S) = (Only(p, S) \o Only(l, S)) \o Only(q, S)
    <3> TAKE S
    <3>1. /\ Only(p \o r, S) = Only(p, S) \o Only(r, S)
          /\ Only(p \o l, S) = Only(p, S) \o Only(l, S)
      BY <2>3, <2>4, OnlyConcat, Zenon, ZenonT(60)
    <3>2. /\ Only((p \o r) \o q, S) = Only(p \o r, S) \o Only(q, S)
          /\ Only((p \o l) \o q, S) = Only(p \o l, S) \o Only(q, S)
      BY <2>5, OnlyConcat, Zenon, ZenonT(60)
    <3> QED
      BY <3>1, <3>2
  <2>8. /\ Only(a, System) = (p \o Only(r, System)) \o Only(q, System)
        /\ Only(b, System) = (p \o Only(l, System)) \o Only(q, System)
    BY <2>7, <2>o
  <2>9. /\ Only(a, Others) = Only(r, Others) \o Only(q, Others)
        /\ Only(b, Others) = Only(l, Others) \o Only(q, Others)
    <3>1. /\ Only(a, Others) = (<< >> \o Only(r, Others)) \o Only(q, Others)
          /\ Only(b, Others) = (<< >> \o Only(l, Others)) \o Only(q, Others)
      BY <2>7, <2>o
    <3>2. << >> \o Only(r, Others) = Only(r, Others) /\ << >> \o Only(l, Others) = Only(l, Others)
      BY <2>3, EitherSystemOrOther, ConcatEmptySeq
    <3> QED
      BY <3>1, <3>2
  <2>10. Only(a, System) = Only(b, System)
    BY <2>3, <2>8
  <2>11. PICK k : k = Larger(n - Len(Only(a, System)), 0)
    OBVIOUS
  <2>12. k \in 0..room
    <3>1. /\ p \in Seq(System) /\ Only(l, System) \in Seq(System)
          /\ Only(q, System) \in Seq(System)
      BY EitherSystemOrOther
    <3>2. /\ Len((p \o Only(l, System)) \o Only(q, System))
               = Len(p) + Len(Only(l, System)) + Len(Only(q, System))
          /\ Len(Only(l, System)) \in Nat /\ Len(Only(q, System)) \in Nat
      <4>1. /\ p \o Only(l, System) \in Seq(System)
            /\ Len(p \o Only(l, System)) = Len(p) + Len(Only(l, System))
        BY <3>1, ConcatProperties
      <4>2. Len((p \o Only(l, System)) \o Only(q, System))
              = Len(p \o Only(l, System)) + Len(Only(q, System))
        BY <3>1, <4>1, ConcatProperties
      <4> QED
        BY <3>1, <4>1, <4>2, LenProperties
    <3>3. Len(Only(a, System)) >= Len(Only(l, System)) /\ Len(Only(a, System)) \in Nat
      BY <2>4, <2>8, <2>10, <3>2
    <3> QED
      BY <2>1, <2>2, <2>11, <3>2, <3>3 DEF Larger
  <2>13. Last(Only(a, Others), k) = Last(Only(b, Others), k)
    <3>1. Only(l, Others) \in Seq(Others) /\ Only(q, Others) \in Seq(Others)
      BY EitherSystemOrOther
    <3> QED
      BY <2>3, <2>9, <2>12, <3>1, LastOfLast
  <2>14. Len(a) > n /\ Len(b) > n
    <3>1. Len(Only(l, System)) \in Nat
      BY EitherSystemOrOther, LenProperties
    <3> QED
      BY <2>1, <2>3, <2>4, <2>6, <3>1 DEF Larger
  <2> HIDE DEF a, b
  <2>15. /\ Limit(a, n) = Only(a, System) \o Last(Only(a, Others), k)
         /\ Limit(b, n) = Only(b, System) \o Last(Only(b, Others), k)
    <3>1. k = Larger(n - Len(Only(b, System)), 0)
      BY <2>10, <2>11
    <3>2. Limit(a, n) = Only(a, System) \o Last(Only(a, Others), k)
      BY <2>1, <2>6, <2>11, <2>14, LimitParts, ZenonT(60)
    <3>3. Limit(b, n) = Only(b, System) \o Last(Only(b, Others), k)
      BY <2>1, <2>6, <2>14, <3>1, LimitParts, ZenonT(60)
    <3> QED
      BY <3>2, <3>3
  <2>16. Limit(a, n) = Limit(b, n)
    BY <2>10, <2>13, <2>15
  <2> QED
    BY <2>16 DEF a, b, r
<1> QED
  BY <1>1, <1>2

\* at lists the n elements of I in their order.
Ranks(at, I, n) ==
  /\ n \in Nat /\ at \in [1..n -> I]
  /\ \A i \in I : \E k \in 1..n : at[k] = i
  /\ \A j, k \in 1..n : j < k => at[j] < at[k]

At(ms, S) == {i \in 1..Len(ms) : ms[i] \in S}

\* at says where every message that is kept comes from.
Sources(at, ms, S) ==
  /\ Ranks(at, At(ms, S), Len(Only(ms, S)))
  /\ \A k \in 1..Len(Only(ms, S)) : Only(ms, S)[k] = ms[at[k]]

\* What is kept keeps its order.
LEMMA OnlyKeepsOrder ==
  ASSUME NEW T, NEW S
  PROVE  \A ms \in Seq(T) : \E at : Sources(at, ms, S)
<1> DEFINE Q == {ms \in Seq(T) : \E at : Sources(at, ms, S)}
<1>1. << >> \in Q
  <2>1. << >> \in Seq(T) /\ Len(<< >>) = 0 /\ Only(<< >>, S) = << >>
    BY EmptySeq, OnlyEmpty
  <2>2. At(<< >>, S) = {}
    BY <2>1 DEF At
  <2>3. Sources([k \in 1..0 |-> 0], << >>, S)
    BY <2>1, <2>2 DEF Sources, Ranks
  <2>4. \E at : Sources(at, << >>, S)
    BY <2>3
  <2> QED
    BY <2>1, <2>4
<1>2. \A ms \in Seq(T) : \A e \in T : ms \in Q => Append(ms, e) \in Q
  <2> SUFFICES ASSUME NEW ms \in Seq(T), NEW e \in T, NEW at, Sources(at, ms, S)
               PROVE  Append(ms, e) \in Seq(T) /\ \E to : Sources(to, Append(ms, e), S)
    OBVIOUS
  <2> DEFINE ns == Append(ms, e)
             len == Len(ms)
             n == Len(Only(ms, S))
  <2>1. /\ ns \in Seq(T) /\ Len(ns) = len + 1 /\ ns[len + 1] = e /\ len \in Nat
        /\ \A i \in 1..len : ns[i] = ms[i]
    BY AppendProperties, LenProperties
  <2>2. Only(ms, S) \in Seq(T) /\ n \in Nat
    BY OnlyIn, LenProperties
  <2>3. CASE e \in S
    <3>1. Only(ns, S) = Append(Only(ms, S), e)
      BY <2>3, OnlyAppend
    <3>2. /\ Len(Only(ns, S)) = n + 1 /\ Only(ns, S)[n + 1] = e
          /\ \A k \in 1..n : Only(ns, S)[k] = Only(ms, S)[k]
      BY <2>2, <3>1, AppendProperties
    <3> HIDE DEF ns, len, n
    <3>3. At(ns, S) = At(ms, S) \cup {len + 1}
      BY <2>1, <2>3 DEF At, len
    <3>4. /\ at \in [1..n -> At(ms, S)] /\ \A i \in At(ms, S) : \E k \in 1..n : at[k] = i
          /\ \A j, k \in 1..n : j < k => at[j] < at[k]
          /\ \A k \in 1..n : Only(ms, S)[k] = ms[at[k]]
      BY DEF Sources, Ranks, n
    <3>5. \A i \in At(ms, S) : i \in 1..len
      BY DEF At, len
    <3> DEFINE to == [k \in 1..n + 1 |-> IF k <= n THEN at[k] ELSE len + 1]
    <3>6. to \in [1..n + 1 -> At(ns, S)]
      <4> SUFFICES ASSUME NEW k \in 1..n + 1
                   PROVE  (IF k <= n THEN at[k] ELSE len + 1) \in At(ns, S)
        OBVIOUS
      <4>1. k <= n => k \in 1..n
        BY <2>2
      <4> QED
        BY <3>3, <3>4, <4>1
    <3>7. \A k \in 1..n : to[k] = at[k] /\ to[k] \in 1..len
      BY <2>2, <3>4, <3>5
    <3>8. to[n + 1] = len + 1
      BY <2>2
    <3> HIDE DEF to
    <3>9. \A k \in 1..n + 1 : k \in 1..n \/ k = n + 1
      BY <2>2
    <3>10. 1..n \subseteq 1..n + 1 /\ n + 1 \in 1..n + 1
      BY <2>2
    <3>11. \A i \in At(ns, S) : \E k \in 1..n + 1 : to[k] = i
      BY <3>3, <3>4, <3>7, <3>8, <3>10
    <3>12. \A j, k \in 1..n + 1 : j < k => to[j] < to[k]
      <4> SUFFICES ASSUME NEW j \in 1..n + 1, NEW k \in 1..n + 1, j < k
                   PROVE  to[j] < to[k]
        OBVIOUS
      <4>1. j \in 1..n
        BY <2>2
      <4>2. CASE k \in 1..n
        BY <3>4, <3>7, <4>1, <4>2
      <4>3. CASE k = n + 1
        BY <2>1, <3>7, <3>8, <4>1, <4>3
      <4> QED
        BY <3>9, <4>2, <4>3
    <3>13. \A k \in 1..n + 1 : Only(ns, S)[k] = ns[to[k]]
      <4> TAKE k \in 1..n + 1
      <4>1. CASE k \in 1..n
        BY <2>1, <3>2, <3>4, <3>7, <4>1
      <4>2. CASE k = n + 1
        BY <2>1, <3>2, <3>8, <4>2
      <4> QED
        BY <3>9, <4>1, <4>2
    <3>14. Sources(to, ns, S)
      BY <2>2, <3>2, <3>6, <3>11, <3>12, <3>13 DEF Sources, Ranks
    <3> QED
      BY <2>1, <3>14 DEF ns
  <2>4. CASE e \notin S
    <3>1. Only(ns, S) = Only(ms, S)
      BY <2>4, OnlyAppend
    <3> HIDE DEF ns, len, n
    <3>2. At(ns, S) = At(ms, S)
      BY <2>1, <2>4 DEF At, len
    <3>3. \A k \in 1..n : at[k] \in 1..len
      BY DEF Sources, Ranks, At, len, n
    <3>4. Sources(at, ns, S)
      BY <2>1, <3>1, <3>2, <3>3 DEF Sources, n
    <3> QED
      BY <2>1, <3>4 DEF ns
  <2> QED
    BY <2>3, <2>4
<1> HIDE DEF Q
<1>3. Seq(T) \subseteq Q
  BY <1>1, <1>2, SequenceInduction
<1> QED
  BY <1>3 DEF Q

Between(I, low, high) == {i \in I : low <= i /\ i <= high}

\* How many there are from one to another.
LEMMA CountBetween ==
  ASSUME NEW I \in SUBSET Int, NEW n, NEW at, Ranks(at, I, n),
         NEW j \in 1..n, NEW k \in 1..n, j <= k
  PROVE  Cardinality(Between(I, at[j], at[k])) = k - j + 1
<1> DEFINE B == Between(I, at[j], at[k])
           m == k - j + 1
           f == [x \in 1..m |-> at[x + (j - 1)]]
<1>1. /\ n \in Nat /\ at \in [1..n -> I] /\ \A i \in I : \E x \in 1..n : at[x] = i
      /\ \A x, y \in 1..n : x < y => at[x] < at[y]
  BY DEF Ranks
<1>2. \A x \in 1..n : at[x] \in Int
  BY <1>1
<1>3. m \in Nat /\ \A x \in 1..m : x + (j - 1) \in 1..n /\ x + (j - 1) >= j /\ x + (j - 1) <= k
  BY <1>1
<1>4. \A x, y \in 1..n : x <= y => at[x] <= at[y]
  <2> TAKE x, y \in 1..n
  <2>1. x < y => at[x] < at[y]
    BY <1>1
  <2>2. x <= y => x < y \/ x = y
    BY <1>1
  <2> QED
    BY <1>2, <2>1, <2>2
<1>5. f \in [1..m -> B]
  <2> SUFFICES ASSUME NEW x \in 1..m
               PROVE  at[x + (j - 1)] \in B
    OBVIOUS
  <2>1. PICK y \in 1..n : y = x + (j - 1) /\ j <= y /\ y <= k
    BY <1>3
  <2>2. at[j] <= at[y] /\ at[y] <= at[k]
    BY <1>4, <2>1
  <2> QED
    BY <1>1, <2>1, <2>2 DEF Between
<1>6. \A x, y \in 1..m : f[x] = f[y] => x = y
  <2> SUFFICES ASSUME NEW x \in 1..m, NEW y \in 1..m, x < y
               PROVE  f[x] # f[y]
    BY <1>3
  <2>1. PICK v \in 1..n : v = x + (j - 1)
    BY <1>3
  <2>2. PICK w \in 1..n : w = y + (j - 1)
    BY <1>3
  <2>3. v < w
    BY <1>1, <1>3, <2>1, <2>2
  <2>4. at[v] < at[w] /\ at[v] \in Int /\ at[w] \in Int
    BY <1>1, <1>2, <2>3
  <2>5. f[x] = at[v] /\ f[y] = at[w]
    BY <2>1, <2>2
  <2> QED
    BY <2>4, <2>5
<1>7. \A i \in B : \E x \in 1..m : f[x] = i
  <2> SUFFICES ASSUME NEW i \in I, at[j] <= i, i <= at[k]
               PROVE  \E x \in 1..m : f[x] = i
    BY DEF Between
  <2>1. PICK y \in 1..n : at[y] = i
    BY <1>1
  <2>2. j <= y /\ y <= k
    <3>1. y < j => at[y] < at[j]
      BY <1>1
    <3>2. k < y => at[k] < at[y]
      BY <1>1
    <3>3. at[y] \in Int /\ at[j] \in Int /\ at[k] \in Int /\ at[y] = i
      BY <1>2, <2>1
    <3> QED
      BY <1>1, <3>1, <3>2, <3>3
  <2>3. PICK x \in 1..m : x = y - (j - 1) /\ x + (j - 1) = y
    BY <1>1, <2>2
  <2> QED
    BY <2>1, <2>3
<1> HIDE DEF f, m, B
<1>8. f \in Bijection(1..m, B)
  BY <1>5, <1>6, <1>7, Fun_IsBij
<1>9. ExistsBijection(1..m, B)
  BY <1>8 DEF ExistsBijection
<1>10. Cardinality(B) = m
  BY <1>3, <1>9, FS_CountingElements
<1> QED
  BY <1>10 DEF m, B

\* How many there are.
LEMMA CountAll ==
  ASSUME NEW I, NEW n, NEW at, Ranks(at, I, n), I \in SUBSET Int
  PROVE  Cardinality(I) = n
<1>1. /\ n \in Nat /\ at \in [1..n -> I] /\ \A i \in I : \E x \in 1..n : at[x] = i
      /\ \A x, y \in 1..n : x < y => at[x] < at[y]
  BY DEF Ranks
<1>2. \A x, y \in 1..n : at[x] = at[y] => x = y
  <2> SUFFICES ASSUME NEW x \in 1..n, NEW y \in 1..n, x < y
               PROVE  at[x] # at[y]
    BY <1>1
  <2>1. at[x] < at[y] /\ at[x] \in Int
    BY <1>1
  <2> QED
    BY <2>1
<1>3. at \in Bijection(1..n, I)
  BY <1>1, <1>2, Fun_IsBij
<1>4. ExistsBijection(1..n, I)
  BY <1>3 DEF ExistsBijection
<1> QED
  BY <1>1, <1>4, FS_CountingElements

\* Pick follows the order.
LEMMA PickIsRanked ==
  ASSUME NEW T, NEW ms \in Seq(T), NEW I \in SUBSET (1..Len(ms)), NEW n, NEW at,
         Ranks(at, I, n), NEW s \in Seq(T), Len(s) = n, \A k \in 1..n : s[k] = ms[at[k]]
  PROVE  Pick(ms, I) = s
<1>1. /\ n \in Nat /\ at \in [1..n -> I] /\ \A i \in I : \E x \in 1..n : at[x] = i
      /\ \A x, y \in 1..n : x < y => at[x] < at[y]
  BY DEF Ranks
<1>2. I \in SUBSET Int /\ \A i \in I : i \in Int
  BY LenProperties
<1>3. Cardinality(I) = n
  BY <1>2, CountAll
<1>4. ASSUME NEW k \in 1..n
      PROVE  Cardinality({j \in I : j <= at[k]}) = k
  <2>1. 1 \in 1..n /\ 1 <= k /\ k - 1 + 1 = k
    BY <1>1
  <2>2. Cardinality(Between(I, at[1], at[k])) = k
    BY <1>2, <2>1, CountBetween
  <2>3. \A i \in I : at[1] <= i
    <3> TAKE i \in I
    <3>1. PICK x \in 1..n : at[x] = i
      BY <1>1
    <3>2. 1 = x \/ 1 < x
      BY <1>1
    <3>3. 1 < x => at[1] < at[x]
      BY <1>1, <2>1
    <3>4. at[1] \in Int /\ at[x] \in Int
      BY <1>1, <1>2, <2>1
    <3> QED
      BY <3>1, <3>2, <3>3, <3>4
  <2>4. Between(I, at[1], at[k]) = {j \in I : j <= at[k]}
    BY <2>3 DEF Between
  <2> QED
    BY <2>2, <2>4
<1>5. ASSUME NEW k \in 1..n
      PROVE  (CHOOSE i \in I : Cardinality({j \in I : j <= i}) = k) = at[k]
  <2>1. at[k] \in I /\ Cardinality({j \in I : j <= at[k]}) = k
    BY <1>1, <1>4
  <2>2. ASSUME NEW i \in I, Cardinality({j \in I : j <= i}) = k
        PROVE  i = at[k]
    <3>1. PICK x \in 1..n : at[x] = i
      BY <1>1
    <3>2. Cardinality({j \in I : j <= at[x]}) = x
      BY <1>4
    <3> QED
      BY <2>2, <3>1, <3>2
  <2> QED
    BY <2>1, <2>2
<1>6. Pick(ms, I) = [k \in 1..n |-> ms[at[k]]]
  BY <1>3, <1>5 DEF Pick
<1>7. s = [k \in 1..n |-> s[k]]
  BY LenProperties
<1> QED
  BY <1>6, <1>7

\* The positions of the system messages and of the others.
LEMMA PositionsOfKinds ==
  ASSUME NEW l \in Seq(Messages)
  PROVE  /\ SystemAt(l) = At(l, System) /\ DOMAIN l \ SystemAt(l) = At(l, Others)
         /\ SystemAt(l) \in SUBSET (1..Len(l)) /\ SystemAt(l) \in SUBSET Int
         /\ Cardinality(SystemAt(l)) = Len(Only(l, System))
         /\ Pick(l, SystemAt(l)) = Only(l, System)
<1>1. DOMAIN l = 1..Len(l) /\ Len(l) \in Nat /\ \A i \in 1..Len(l) : l[i] \in Messages
  BY LenProperties, ElementOfSeq
<1>2. SystemAt(l) = At(l, System)
  BY <1>1 DEF SystemAt, At
<1>3. \A m \in Messages : m \notin System <=> m \in Others
  BY DEF Messages, System, Others
<1>4. DOMAIN l \ SystemAt(l) = At(l, Others)
  BY <1>1, <1>2, <1>3 DEF At
<1>5. At(l, System) \in SUBSET (1..Len(l)) /\ At(l, System) \in SUBSET Int
  BY DEF At
<1>6. PICK at : Sources(at, l, System)
  BY OnlyKeepsOrder
<1>7. /\ Ranks(at, At(l, System), Len(Only(l, System)))
      /\ \A k \in 1..Len(Only(l, System)) : Only(l, System)[k] = l[at[k]]
  BY <1>6 DEF Sources
<1>8. Cardinality(At(l, System)) = Len(Only(l, System))
  BY <1>5, <1>7, CountAll
<1>9. Only(l, System) \in Seq(Messages)
  BY OnlyIn
<1>10. Pick(l, At(l, System)) = Only(l, System)
  BY <1>5, <1>7, <1>9, PickIsRanked
<1> QED
  BY <1>2, <1>4, <1>5, <1>8, <1>10

\* The positions that a limit keeps are those of the last of the others.
LEMMA NewestPicked ==
  ASSUME NEW l \in Seq(Messages), NEW n \in Nat, Len(l) > n,
         NEW room, room = Larger(n - Len(Only(l, System)), 0)
  PROVE  Pick(l, NewestAt(l, n)) = Last(Only(l, Others), room)
<1> DEFINE sys == Len(Only(l, System))
           oth == Only(l, Others)
           N == Len(oth)
           last == Last(oth, room)
           L == Len(last)
           others == At(l, Others)
<1>1. PICK to : Sources(to, l, Others)
  BY OnlyKeepsOrder
<1>2. /\ Ranks(to, others, N) /\ \A k \in 1..N : oth[k] = l[to[k]]
  BY <1>1 DEF Sources
<1>3. /\ to \in [1..N -> others] /\ \A i \in others : \E k \in 1..N : to[k] = i
      /\ \A j, k \in 1..N : j < k => to[j] < to[k]
  BY <1>2 DEF Ranks
<1>4. sys \in Nat /\ N \in Nat /\ Len(l) = sys + N
  BY EitherSystemOrOther, LenProperties
<1>5. others \in SUBSET (1..Len(l)) /\ others \in SUBSET Int
  BY DEF At
<1>6. oth \in Seq(Messages)
  BY OnlyIn
<1> HIDE DEF sys, oth, others
<1>7. room \in Nat /\ (n >= sys => room = n - sys) /\ (n < sys => room = 0)
  BY <1>4 DEF Larger, sys
<1>8. /\ last \in Seq(Messages) /\ L = IF N > room THEN room ELSE N
      /\ \A i \in 1..L : last[i] = oth[i + (N - L)]
  BY <1>6, <1>7, LastProperties
<1> HIDE DEF N, last, L
<1>9. L \in 0..N
  BY <1>4, <1>7, <1>8
<1>10. ASSUME NEW k \in 1..N
       PROVE  Cardinality({j \in others : j >= to[k]}) = N - k + 1
  <2>1. N \in 1..N /\ k <= N
    BY <1>4
  <2>2. Cardinality(Between(others, to[k], to[N])) = N - k + 1
    BY <1>2, <1>5, <2>1, CountBetween
  <2>3. \A i \in others : i <= to[N]
    <3> TAKE i \in others
    <3>1. PICK x \in 1..N : to[x] = i
      BY <1>3
    <3>2. x = N \/ x < N
      BY <1>4
    <3>3. x < N => to[x] < to[N]
      BY <1>3, <2>1
    <3>4. to[N] \in Int /\ to[x] \in Int
      BY <1>3, <1>5, <2>1
    <3> QED
      BY <3>1, <3>2, <3>3, <3>4
  <2>4. to[k] \in Int /\ \A i \in others : i \in Int
    BY <1>3, <1>5
  <2>5. Between(others, to[k], to[N]) = {j \in others : j >= to[k]}
    BY <2>3, <2>4 DEF Between
  <2> QED
    BY <2>2, <2>5
<1>11. NewestAt(l, n) = {i \in others : Cardinality({j \in others : j >= i}) + sys <= n}
  BY PositionsOfKinds DEF NewestAt, others, sys
<1>12. ASSUME NEW k \in 1..N
       PROVE  to[k] \in NewestAt(l, n) <=> k > N - L
  <2>1. to[k] \in others
    BY <1>3
  <2>2. to[k] \in NewestAt(l, n) <=> N - k + 1 + sys <= n
    BY <1>10, <1>11, <2>1
  <2>3. CASE n >= sys
    <3>1. L = n - sys
      BY <1>4, <1>7, <1>8, <2>3
    <3> QED
      BY <1>4, <2>2, <3>1
  <2>4. CASE n < sys
    <3>1. L = 0
      BY <1>4, <1>7, <1>8, <2>4
    <3> QED
      BY <1>4, <2>2, <2>4, <3>1
  <2> QED
    BY <1>4, <2>3, <2>4
<1> DEFINE I == NewestAt(l, n)
           new == [k \in 1..L |-> to[k + (N - L)]]
<1>13. I \subseteq others
  BY <1>11
<1> HIDE DEF I
<1>14. \A k \in 1..L : k + (N - L) \in 1..N /\ k + (N - L) > N - L
  BY <1>4, <1>9
<1>15. new \in [1..L -> I]
  <2> SUFFICES ASSUME NEW k \in 1..L
               PROVE  to[k + (N - L)] \in I
    OBVIOUS
  <2>1. PICK x \in 1..N : x = k + (N - L) /\ x > N - L
    BY <1>14
  <2> QED
    BY <1>12, <2>1 DEF I
<1>16. \A i \in I : \E k \in 1..L : new[k] = i
  <2> TAKE i \in I
  <2>1. PICK x \in 1..N : to[x] = i
    BY <1>3, <1>13
  <2>2. x > N - L
    BY <1>12, <2>1 DEF I
  <2>3. PICK k \in 1..L : k = x - (N - L) /\ k + (N - L) = x
    BY <1>4, <1>9, <2>2
  <2> QED
    BY <2>1, <2>3
<1>17. \A j, k \in 1..L : j < k => new[j] < new[k]
  <2> SUFFICES ASSUME NEW j \in 1..L, NEW k \in 1..L, j < k
               PROVE  to[j + (N - L)] < to[k + (N - L)]
    OBVIOUS
  <2>1. PICK x \in 1..N : x = j + (N - L)
    BY <1>14
  <2>2. PICK y \in 1..N : y = k + (N - L)
    BY <1>14
  <2>3. x < y
    BY <1>4, <1>9, <2>1, <2>2
  <2> QED
    BY <1>3, <2>1, <2>2, <2>3
<1>18. \A k \in 1..L : last[k] = l[new[k]]
  <2> TAKE k \in 1..L
  <2>1. PICK x \in 1..N : x = k + (N - L)
    BY <1>14
  <2>2. last[k] = oth[x] /\ oth[x] = l[to[x]] /\ new[k] = to[x]
    BY <1>2, <1>8, <2>1
  <2> QED
    BY <2>2
<1> HIDE DEF new
<1>19. Ranks(new, I, L)
  BY <1>9, <1>15, <1>16, <1>17 DEF Ranks
<1>20. I \in SUBSET (1..Len(l)) /\ Len(last) = L
  BY <1>5, <1>13 DEF L
<1>21. Pick(l, I) = last
  BY <1>8, <1>18, <1>19, <1>20, PickIsRanked
<1> QED
  BY <1>21 DEF I, last, oth

\* The limit keeps exactly what its reference says.
LEMMA LimitIsNewest ==
  ASSUME NEW l \in Seq(Messages), NEW n \in Nat
  PROVE  Limit(l, n) = Newest(l, n)
<1>1. CASE Len(l) <= n
  BY <1>1 DEF Limit, Newest
<1>2. CASE ~(Len(l) <= n)
  <2>1. Len(l) > n
    BY <1>2, LenProperties
  <2>2. PICK room : room = Larger(n - Len(Only(l, System)), 0)
    OBVIOUS
  <2>3. Pick(l, NewestAt(l, n)) = Last(Only(l, Others), room)
    BY <2>1, <2>2, NewestPicked
  <2>4. Limit(l, n) = Only(l, System) \o Last(Only(l, Others), room)
    BY <2>1, <2>2, LimitParts
  <2>5. Pick(l, SystemAt(l)) = Only(l, System)
    BY PositionsOfKinds
  <2> QED
    BY <1>2, <2>3, <2>4, <2>5 DEF Newest
<1> QED
  BY <1>1, <1>2

\* A limit brings nothing in.
LEMMA LimitKeepsKind ==
  ASSUME NEW T, NEW l \in Seq(T), NEW n \in Nat
  PROVE  Limit(l, n) \in Seq(T)
<1>1. CASE Len(l) <= n
  BY <1>1 DEF Limit
<1>2. CASE ~(Len(l) <= n)
  <2>1. PICK room \in Nat : room = Larger(n - Len(Only(l, System)), 0)
    <3>1. Only(l, System) \in Seq(T) /\ Len(Only(l, System)) \in Nat
      BY OnlyIn, LenProperties
    <3> QED
      BY <3>1 DEF Larger
  <2>2. Only(l, System) \in Seq(T) /\ Only(l, Others) \in Seq(T)
    BY OnlyIn
  <2>3. Last(Only(l, Others), room) \in Seq(T)
    BY <2>2, LastProperties
  <2>4. Limit(l, n) = Only(l, System) \o Last(Only(l, Others), room)
    BY <1>2, <2>1 DEF Limit
  <2> QED
    BY <2>2, <2>3, <2>4, ConcatProperties
<1> QED
  BY <1>1, <1>2

-----------------------------------------------------------------------------
(* The history, the prompts, and their bounds. *)

\* Trimming after every append keeps the history what one trim of the log makes it.
TrimmedInv == messages = Limit(log, MaxSize)

LEMMA SizesTyped == MaxSize \in Nat /\ MaxContext \in Nat
BY ConversationAssumption

LEMMA AppendTrims ==
  ASSUME Inv, TrimmedInv, NEW m \in Messages, AppendMessage(m)
  PROVE  TrimmedInv'
<1>1. /\ log \in Seq(Messages) /\ log' = Append(log, m) /\ messages = Limit(log, MaxSize)
      /\ messages' = Limit(Append(messages, m), MaxSize)
  BY DEF Inv, TypesInv, TrimmedInv, AppendMessage
<1>2. messages \in Seq(Messages)
  BY <1>1, SizesTyped, LimitTyped
<1>3. << >> \in Seq(System) /\ <<m>> \in Seq(Messages) /\ <<m>> # << >>
  BY EmptySeq
<1>4. MaxSize \in 0..MaxSize
  BY SizesTyped
<1>5. Limit((<< >> \o Limit(log, MaxSize)) \o <<m>>, MaxSize)
        = Limit((<< >> \o log) \o <<m>>, MaxSize)
  BY <1>1, <1>3, <1>4, SizesTyped, LimitTwice
<1>6. << >> \o messages = messages /\ << >> \o log = log
  BY <1>1, <1>2, ConcatEmptySeq
<1>7. Append(messages, m) = messages \o <<m>> /\ Append(log, m) = log \o <<m>>
  BY <1>1, <1>2, AppendIsConcat
<1> QED
  BY <1>1, <1>5, <1>6, <1>7 DEF TrimmedInv

LEMMA AppendAssistantTrims ==
  ASSUME Inv, TrimmedInv, NEW g \in 0..MaxUtterances, NEW len \in Nat, AppendAssistant(g, len)
  PROVE  TrimmedInv'
<1>1. CASE len > 0
  <2> DEFINE m == Message("assistant", g, len)
  <2>1. m \in Messages
    BY ConversationAssumption DEF Message, Messages
  <2>2. AppendMessage(m)
    BY <1>1 DEF AppendAssistant
  <2> HIDE DEF m
  <2> QED
    BY <2>1, <2>2, AppendTrims
<1>2. CASE ~(len > 0)
  BY <1>2 DEF AppendAssistant, histVars, TrimmedInv
<1> QED
  BY <1>1, <1>2

LEMMA TrimmedInit == Init => TrimmedInv
<1> SUFFICES ASSUME Init
             PROVE  TrimmedInv
  OBVIOUS
<1>1. log = << >> /\ messages = << >> /\ Len(<< >>) <= MaxSize
  BY SizesTyped, EmptySeq DEF Init
<1> QED
  BY <1>1 DEF TrimmedInv, Limit

LEMMA TrimmedNext == Inv /\ SystemsInv /\ TrimmedInv /\ [Next]_vars => TrimmedInv'
<1> SUFFICES ASSUME Inv, systems \in Nat, TrimmedInv, [Next]_vars
             PROVE  TrimmedInv'
  BY DEF SystemsInv
<1>1. CASE UNCHANGED histVars
  BY <1>1 DEF histVars, TrimmedInv
<1>2. CASE AppendUserMessage
  <2>1. PICK len \in {0, 1} : AppendMessage(Message("user", utt', len))
    BY <1>2 DEF AppendUserMessage
  <2>2. utt' \in Nat
    BY <1>2, ConversationAssumption DEF AppendUserMessage, Inv, TypesInv
  <2>3. Message("user", utt', len) \in Messages
    BY <2>2 DEF Message, Messages
  <2> QED
    BY <2>1, <2>3, AppendTrims
<1>3. CASE CommitFinal \/ CommitInterrupted
  <2>1. PICK len \in 0..MaxText : CommitTurn(len)
    BY <1>3 DEF CommitFinal, CommitInterrupted
  <2>2. turn.gen \in 0..MaxUtterances /\ len \in Nat
    BY DEF Inv, TypesInv, TurnRecord
  <2> QED
    BY <2>1, <2>2, AppendAssistantTrims DEF CommitTurn
<1>4. CASE AppendCommitted
  <2>1. committed.gen \in 0..MaxUtterances /\ committed.len \in Nat
    BY DEF Inv, TypesInv
  <2> QED
    BY <1>4, <2>1, AppendAssistantTrims DEF AppendCommitted
<1>5. CASE AppendSystemMessage
  <2>1. AppendMessage(Message("system", systems', 1)) /\ systems' \in Nat
    BY <1>5 DEF AppendSystemMessage
  <2>2. Message("system", systems', 1) \in Messages
    BY <2>1 DEF Message, Messages
  <2> QED
    BY <2>1, <2>2, AppendTrims
<1>6. CASE Clear
  <2>1. log' = << >> /\ messages' = << >> /\ Len(<< >>) <= MaxSize
    BY <1>6, SizesTyped, EmptySeq DEF Clear
  <2> QED
    BY <2>1 DEF TrimmedInv, Limit
<1> QED
  BY <1>1, <1>2, <1>3, <1>4, <1>5, <1>6
  DEF Next, UtteranceStep, InterruptStep, AssemblePrompt, GenerateFails, StartTurn,
      AppendGenerated, StreamEnds, AdvancePlayout, MarkSpoken, Advance, GetCurrentPosition,
      HandleInterruption, Reset, vars

(* Trimming the history after every append (pkg/session/history.go:126-149)   *)
(* never loses a message that one trim of all that was appended would keep,   *)
(* and never moves one, for any limit and any mix of system messages.         *)
THEOREM TrimsLikeOnce == Spec => []HistoryIsTrimmedLog
<1>1. Inv /\ TrimmedInv => HistoryIsTrimmedLog
  <2> SUFFICES ASSUME Inv, TrimmedInv
               PROVE  HistoryIsTrimmedLog
    OBVIOUS
  <2>1. log \in Seq(Messages)
    BY DEF Inv, TypesInv
  <2> QED
    BY <2>1, SizesTyped, LimitIsNewest DEF TrimmedInv, HistoryIsTrimmedLog
<1>2. Init => SystemsInv
  BY DEF Init, SystemsInv
<1> QED
  BY InitInv, NextInv, NextSystems, TrimmedInit, TrimmedNext, <1>1, <1>2, PTL DEF Spec

-----------------------------------------------------------------------------

LEMMA SystemPromptTyped ==
  ASSUME NEW system \in SystemPrompts
  PROVE  system \in Seq(System)
<1>1. CASE system = << >>
  BY <1>1, EmptySeq
<1>2. CASE system = <<Message("system", 0, 1)>>
  <2>1. Message("system", 0, 1) \in System
    BY DEF Message, System
  <2> QED
    BY <1>2, <2>1
<1> QED
  BY <1>1, <1>2 DEF SystemPrompts

\* What is appended empty does not matter when nothing was.
LEMMA AssembledIsNewest ==
  ASSUME Inv, TrimmedInv, MaxContext <= MaxSize, \A i \in DOMAIN log : log[i] \in NotEmpty,
         NEW system \in SystemPrompts, NEW u \in NotEmpty
  PROVE  Assembled(system, messages, <<u>>) = Newest(system \o log \o <<u>>, MaxContext)
<1>1. log \in Seq(Messages) /\ messages = Limit(log, MaxSize)
  BY DEF Inv, TypesInv, TrimmedInv
<1>2. NotEmpty \subseteq Messages /\ System \subseteq Messages
  BY DEF NotEmpty, Messages, System
<1>3. log \in Seq(NotEmpty)
  <2>1. /\ log \in [1..Len(log) -> Messages] /\ Len(log) \in Nat
        /\ \A i \in 1..Len(log) : log[i] \in NotEmpty
    BY <1>1, LenProperties
  <2>2. log \in [1..Len(log) -> NotEmpty]
    BY <2>1
  <2> QED
    BY <2>1, <2>2, SeqDef
<1>4. messages \in Seq(NotEmpty) /\ messages \in Seq(Messages)
  <2>1. messages \in Seq(NotEmpty)
    BY <1>1, <1>3, SizesTyped, LimitKeepsKind
  <2> QED
    BY <1>2, <2>1, SeqMonotonic
<1>5. <<u>> \in Seq(NotEmpty) /\ <<u>> \in Seq(Messages) /\ <<u>> # << >>
  BY <1>2
<1>6. messages \o <<u>> \in Seq(NotEmpty)
  BY <1>4, <1>5, ConcatProperties
<1>7. Only(messages \o <<u>>, NotEmpty) = messages \o <<u>>
  BY <1>6, OnlyAll
<1>8. system \in Seq(System) /\ system \in Seq(Messages)
  BY <1>2, SystemPromptTyped, SeqMonotonic
<1>9. Assembled(system, messages, <<u>>) = Limit(system \o (messages \o <<u>>), MaxContext)
  BY <1>7 DEF Assembled
<1>10. system \o (messages \o <<u>>) = (system \o messages) \o <<u>>
  BY <1>4, <1>5, <1>8, ConcatAssociative
<1>11. MaxContext \in 0..MaxSize
  BY SizesTyped
<1>12. Limit((system \o Limit(log, MaxSize)) \o <<u>>, MaxContext)
         = Limit((system \o log) \o <<u>>, MaxContext)
  BY <1>1, <1>5, <1>8, <1>11, SizesTyped, LimitTwice
<1>13. (system \o log) \o <<u>> \in Seq(Messages)
  BY <1>1, <1>5, <1>8, ConcatProperties
<1>14. Limit((system \o log) \o <<u>>, MaxContext) = Newest((system \o log) \o <<u>>, MaxContext)
  BY <1>13, SizesTyped, LimitIsNewest
<1> QED
  BY <1>1, <1>9, <1>10, <1>12, <1>14

\* The prompt that the assembler makes of a trimmed history (pipeline/prompt.go:54-98)
\* has the newest of all that was said, for any two limits of which the assembler's is
\* not the greater.
THEOREM PromptsShowNewest == Spec => PromptShowsNewest
<1> DEFINE Shows == phase = "assemble" /\ phase' = "start" /\ MaxContext <= MaxSize
                      /\ (\A i \in DOMAIN log : log[i] \in NotEmpty)
                      => \E system \in SystemPrompts :
                           prompt' = Newest(system \o log \o <<Message("user", utt, 1)>>, MaxContext)
<1>1. Inv /\ TrimmedInv /\ [Next]_vars => [Shows]_vars
  <2> SUFFICES ASSUME Inv, TrimmedInv, Next, phase = "assemble", phase' = "start",
                      MaxContext <= MaxSize, \A i \in DOMAIN log : log[i] \in NotEmpty
               PROVE  \E system \in SystemPrompts :
                        prompt' = Newest(system \o log \o <<Message("user", utt, 1)>>, MaxContext)
    OBVIOUS
  <2>1. AssemblePrompt
    BY DEF Next, UtteranceStep, InterruptStep, AppendUserMessage, GenerateFails, StartTurn,
           AppendGenerated, StreamEnds, CommitFinal, AdvancePlayout, MarkSpoken, Advance,
           GetCurrentPosition, HandleInterruption, CommitInterrupted, AppendCommitted,
           AppendSystemMessage, Clear, Reset, uttVars
  <2>2. PICK system \in SystemPrompts, len \in {0, 1} :
          /\ \E i \in DOMAIN log : log[i] = Message("user", utt, len)
          /\ prompt' = Assembled(system, messages, <<Message("user", utt, len)>>)
    BY <2>1 DEF AssemblePrompt
  <2>3. Message("user", utt, len) \in NotEmpty
    BY <2>2
  <2>4. len = 1
    BY <2>3 DEF Message, NotEmpty
  <2>5. Assembled(system, messages, <<Message("user", utt, 1)>>)
          = Newest(system \o log \o <<Message("user", utt, 1)>>, MaxContext)
    BY <2>3, <2>4, AssembledIsNewest
  <2> QED
    BY <2>2, <2>4, <2>5
<1>2. Init => SystemsInv
  BY DEF Init, SystemsInv
<1> QED
  BY InitInv, NextInv, NextSystems, TrimmedInit, TrimmedNext, <1>1, <1>2, PTL
  DEF Spec, PromptShowsNewest

-----------------------------------------------------------------------------
(* The counters keep within their bounds, and prompts are lists of messages. *)

BoundsInv ==
  /\ prompt \in Seq(Messages)
  /\ intr \in {"idle", "mark", "commit", "append"} /\ positionOf \in 0..MaxUtterances
  /\ committed.len <= MaxText
  /\ systems \in 0..MaxSystem /\ interrupts \in 0..MaxInterrupts /\ clears \in 0..MaxClears
  /\ generated \in [Turns -> 0..MaxText] /\ played \in [Turns -> 0..MaxPlayed]

LEMMA BoundsInit == Init => BoundsInv
BY ConversationAssumption, EmptySeq DEF Init, BoundsInv

LEMMA AssembledTyped ==
  ASSUME Inv, TrimmedInv, NEW system \in SystemPrompts, NEW u \in Messages
  PROVE  Assembled(system, messages, <<u>>) \in Seq(Messages)
<1>1. messages \in Seq(Messages)
  BY SizesTyped, LimitTyped DEF Inv, TypesInv, TrimmedInv
<1>2. system \in Seq(Messages)
  BY SystemPromptTyped, KindsOfMessages, SeqMonotonic
<1>3. <<u>> \in Seq(Messages)
  OBVIOUS
<1>4. messages \o <<u>> \in Seq(Messages)
  BY <1>1, <1>3, ConcatProperties
<1>5. Only(messages \o <<u>>, NotEmpty) \in Seq(Messages)
  BY <1>4, OnlyIn
<1>6. system \o Only(messages \o <<u>>, NotEmpty) \in Seq(Messages)
  BY <1>2, <1>5, ConcatProperties
<1> QED
  BY <1>6, SizesTyped, LimitTyped DEF Assembled

LEMMA BoundsNext == Inv /\ TrimmedInv /\ BoundsInv /\ [Next]_vars => BoundsInv'
<1> SUFFICES ASSUME Inv, TrimmedInv, BoundsInv, [Next]_vars
             PROVE  BoundsInv'
  OBVIOUS
<1>1. /\ MaxUtterances \in Nat /\ MaxText \in Nat /\ MaxPlayed \in Nat /\ MaxSystem \in Nat
      /\ MaxInterrupts \in Nat /\ MaxClears \in Nat /\ ChunkBytes \subseteq Nat
  BY ConversationAssumption
<1>2. turn.gen \in 0..MaxUtterances /\ (turn # NoTurn => turn.gen \in Turns)
  BY DEF Inv, TypesInv, TurnInv, TurnRecord
<1>3. << >> \in Seq(Messages)
  BY EmptySeq
<1>4. CASE AssemblePrompt
  <2>1. PICK system \in SystemPrompts, len \in {0, 1} :
          prompt' = Assembled(system, messages, <<Message("user", utt, len)>>)
    BY <1>4 DEF AssemblePrompt
  <2>2. utt \in Nat
    BY <1>1 DEF Inv, TypesInv
  <2>3. Message("user", utt, len) \in Messages
    BY <2>2 DEF Message, Messages
  <2>4. prompt' \in Seq(Messages)
    BY <2>1, <2>3, AssembledTyped
  <2> QED
    BY <1>4, <2>4 DEF AssemblePrompt, BoundsInv, intrVars
<1>5. CASE GenerateFails \/ StartTurn \/ StreamEnds \/ AppendUserMessage \/ CommitFinal
  BY <1>3, <1>5 DEF GenerateFails, StartTurn, StreamEnds, AppendUserMessage, CommitFinal,
                    BoundsInv, intrVars
<1>6. CASE AppendGenerated
  <2>1. utt \in Turns /\ generated[utt] \in 0..MaxText /\ generated[utt] < MaxText
    BY <1>6 DEF AppendGenerated, Inv, TypesInv, BoundsInv
  <2>2. generated' \in [Turns -> 0..MaxText]
    BY <1>1, <1>6, <2>1 DEF AppendGenerated, BoundsInv
  <2> QED
    BY <1>6, <2>2 DEF AppendGenerated, BoundsInv, intrVars
<1>7. ASSUME NEW bytes \in Nat, Advance(bytes)
      PROVE  BoundsInv'
  <2>1. turn.gen \in Turns /\ played[turn.gen] \in 0..MaxPlayed
    BY <1>2, <1>7 DEF Advance, BoundsInv
  <2>2. played' \in [Turns -> 0..MaxPlayed]
    BY <1>1, <1>7, <2>1, SMTT(30) DEF Advance, BoundsInv
  <2> QED
    BY <1>7, <2>2 DEF Advance, BoundsInv, uttVars, intrVars
<1>8. CASE AdvancePlayout
  BY <1>1, <1>7, <1>8 DEF AdvancePlayout
<1>9. CASE MarkSpoken
  <2>1. PICK bytes \in ChunkBytes, lost \in {0, 1} :
          Samples(bytes) > lost /\ Advance((Samples(bytes) - lost) * BytesPerSample)
    BY <1>9 DEF MarkSpoken
  <2>2. Samples(bytes) \in Nat
    BY <1>1, SamplesBelow
  <2>3. (Samples(bytes) - lost) * BytesPerSample \in Nat
    BY <2>1, <2>2, SMT DEF BytesPerSample
  <2> QED
    BY <1>7, <2>1, <2>3
<1>10. CASE GetCurrentPosition
  BY <1>1, <1>2, <1>10 DEF GetCurrentPosition, BoundsInv, uttVars
<1>11. CASE HandleInterruption
  BY <1>11 DEF HandleInterruption, BoundsInv, uttVars
<1>12. CASE CommitInterrupted
  <2>1. PICK len \in 0..MaxText : committed' = [gen |-> turn.gen, len |-> len]
    BY <1>12 DEF CommitInterrupted
  <2>2. committed'.len <= MaxText
    BY <1>1, <2>1
  <2> QED
    BY <1>12, <2>2 DEF CommitInterrupted, BoundsInv, uttVars
<1>13. CASE AppendCommitted
  BY <1>1, <1>13 DEF AppendCommitted, BoundsInv, uttVars
<1>14. CASE AppendSystemMessage \/ Clear \/ Reset
  BY <1>1, <1>14 DEF AppendSystemMessage, Clear, Reset, BoundsInv, uttVars, intrVars
<1>15. CASE UNCHANGED vars
  BY <1>15 DEF vars, uttVars, intrVars, BoundsInv
<1> QED
  BY <1>4, <1>5, <1>6, <1>8, <1>9, <1>10, <1>11, <1>12, <1>13, <1>14, <1>15
  DEF Next, UtteranceStep, InterruptStep

(* Every variable has its type, and the history is no longer than its limit   *)
(* unless the system messages alone are (pkg/session/history.go:151-209).     *)
THEOREM ConversationTyped == Spec => []TypeOK
<1>1. Inv /\ TrimmedInv /\ BoundsInv => TypeOK
  <2> SUFFICES ASSUME Inv, TrimmedInv, BoundsInv
               PROVE  TypeOK
    OBVIOUS
  <2>1. log \in Seq(Messages) /\ messages = Limit(log, MaxSize)
    BY DEF Inv, TypesInv, TrimmedInv
  <2>2. /\ messages \in Seq(Messages)
        /\ Len(messages) <= Larger(MaxSize, Len(Only(messages, System)))
    BY <2>1, SizesTyped, LimitTyped
  <2>3. Len(messages) <= Larger(MaxSize, Cardinality(SystemAt(messages)))
    BY <2>2, PositionsOfKinds
  <2>4. turn.text \in 0..MaxText
    <3>1. turn \in TurnRecord /\ MaxText \in Nat
      BY ConversationAssumption DEF Inv, TypesInv
    <3>2. CASE turn = NoTurn
      BY <3>1, <3>2 DEF NoTurn
    <3>3. CASE turn # NoTurn
      <4>1. turn.gen \in Turns /\ turn.text <= generated[turn.gen]
        BY <3>3 DEF Inv, TurnInv
      <4>2. generated[turn.gen] \in 0..MaxText /\ turn.text \in Nat
        BY <3>1, <4>1 DEF BoundsInv, TurnRecord
      <4> QED
        BY <3>1, <4>1, <4>2
    <3> QED
      BY <3>2, <3>3
  <2>5. turn \in [gen : 0..MaxUtterances, text : 0..MaxText, cursor : Nat, interrupted : BOOLEAN]
    BY <2>4 DEF Inv, TypesInv, TurnRecord
  <2>6. committed \in [gen : 0..MaxUtterances, len : 0..MaxText]
    <3>1. committed.len \in Nat /\ committed.len <= MaxText /\ MaxText \in Nat
      BY ConversationAssumption DEF Inv, TypesInv, BoundsInv
    <3>2. committed.len \in 0..MaxText
      BY <3>1
    <3> QED
      BY <3>2 DEF Inv, TypesInv
  <2> QED
    BY <2>1, <2>2, <2>3, <2>5, <2>6 DEF TypeOK, Inv, TypesInv, BoundsInv
<1>2. Init => SystemsInv
  BY DEF Init, SystemsInv
<1> QED
  BY InitInv, NextInv, NextSystems, TrimmedInit, TrimmedNext, BoundsInit, BoundsNext,
     <1>1, <1>2, PTL DEF Spec
-----------------------------------------------------------------------------
(* The conversation implements the transcript. *)

\* The instance's own History is this one.
LEMMA MemoryShowsNewest ==
  /\ \A l, n : Memory!Newest(l, n) = Newest(l, n)
  /\ \A role, g, len : Memory!Message(role, g, len) = Message(role, g, len)
<1>1. \A role, g, len : Memory!Message(role, g, len) = Message(role, g, len)
  BY DEF Memory!Message, Message
<1>2. ASSUME NEW l, NEW n PROVE Memory!Newest(l, n) = Newest(l, n)
  <2>1. Memory!SystemAt(l) = SystemAt(l)
    BY DEF Memory!SystemAt, Memory!System, SystemAt, System
  <2>2. \A S : Memory!Cardinality(S) = Cardinality(S)
    BY DEF Memory!Cardinality, Cardinality
  <2>3. Memory!NewestAt(l, n) = NewestAt(l, n)
    BY <2>1, <2>2 DEF Memory!NewestAt, NewestAt
  <2>4. ASSUME NEW I PROVE Memory!Pick(l, I) = Pick(l, I)
    BY DEF Memory!Pick, Pick, Memory!Cardinality, Cardinality
  <2> QED
    BY <2>1, <2>3, <2>4 DEF Memory!Newest, Newest
<1> QED
  BY <1>1, <1>2

\* What is heard of a reply is a number, and none of it before any was played.
LEMMA HeardTyped ==
  ASSUME Inv, NEW g \in Turns
  PROVE  /\ Heard(g) \in Nat
         /\ \A len \in Nat : Spoken(g, len) <=> len <= Heard(g)
<1>1. generated[g] \in Nat /\ played[g] \in Nat
  BY DEF Inv, TypesInv
<1>2. Chars(played[g]) \in Nat
  BY <1>1, CharsMonotone
<1> QED
  BY <1>1, <1>2 DEF Heard, Spoken

LEMMA NoCharsUnplayed == Chars(0) = 0
<1>1. Samples(0) = 0
  BY SMT DEF Samples, BytesPerSample
<1>2. SampleRate \in Nat \ {0} /\ CharsPerSecond \in Nat
  BY ConversationAssumption
<1>3. 0 * CharsPerSecond = 0
  BY <1>2, SMT
<1>4. 0 \div SampleRate = 0
  <2>1. 0 \div SampleRate \in Nat
    BY <1>2, DivMonotone
  <2>2. SampleRate * (0 \div SampleRate) <= 0
    BY <1>2, SMTT(30)
  <2> QED
    BY <1>2, <2>1, <2>2, SMTT(30)
<1> QED
  BY <1>1, <1>3, <1>4 DEF Chars

\* Only replies to what was said have been heard.
LEMMA SpokenWasSaid ==
  ASSUME Inv, KeptInv, NEW g, NEW len \in Nat, len > 0, Spoken(g, len)
  PROVE  g \in Turns /\ g <= utt
<1>1. g \in Turns /\ len <= Chars(played[g])
  BY DEF Spoken
<1>2. played[g] # 0
  BY <1>1, NoCharsUnplayed
<1> QED
  BY <1>1, <1>2, ConversationAssumption DEF KeptInv, FreshInv, Unplayed, Inv, TypesInv, Turns

\* What is heard grows with what is generated and played.
LEMMA HeardGrows ==
  ASSUME Inv, Inv', NEW g \in Turns, generated[g] <= generated'[g], played[g] <= played'[g]
  PROVE  Heard(g) \in Nat /\ Heard(g)' \in Nat /\ Heard(g) <= Heard(g)'
<1>1. /\ generated[g] \in Nat /\ generated'[g] \in Nat
      /\ played[g] \in Nat /\ played'[g] \in Nat
  BY DEF Inv, TypesInv, Turns
<1>2. /\ Chars(played[g]) \in Nat /\ Chars(played'[g]) \in Nat
      /\ Chars(played[g]) <= Chars(played'[g])
  BY <1>1, CharsMonotone
<1>3. Heard(g)' = IF generated'[g] < Chars(played'[g]) THEN generated'[g] ELSE Chars(played'[g])
  BY DEF Heard, Chars, Samples
<1> QED
  BY <1>1, <1>2, <1>3 DEF Heard

\* One reply is generated or played further.
LEMMA HearStep ==
  ASSUME Inv, Inv', NEW g \in Turns, g <= utt, UNCHANGED <<utt, systems, messages, log>>,
         generated[g] <= generated'[g], played[g] <= played'[g],
         \A h \in Turns : h # g => generated'[h] = generated[h] /\ played'[h] = played[h]
  PROVE  Memory!TranscriptNext
<1> DEFINE heard == [h \in Turns |-> Heard(h)]
<1>1. heard' = [h \in Turns |-> Heard(h)']
  BY DEF Heard, Turns, Chars, Samples
<1>2. \A h \in Turns : h # g => Heard(h)' = Heard(h)
  BY DEF Heard, Chars, Samples
<1>3. heard'[g] >= heard[g]
  <2>1. Heard(g) <= Heard(g)' /\ Heard(g) \in Nat /\ Heard(g)' \in Nat
    BY HeardGrows
  <2> QED
    BY <1>1, <2>1
<1>4. heard' = [heard EXCEPT ![g] = heard'[g]]
  <2> HIDE DEF heard
  <2>1. heard = [h \in Turns |-> Heard(h)]
    BY DEF heard
  <2> QED
    BY <1>1, <1>2, <2>1, Zenon
<1> QED
  BY <1>3, <1>4 DEF Memory!TranscriptNext, Memory!Hear
\* A message appended to the log and the trimmed history is one recorded.
LEMMA RecordStep ==
  ASSUME Inv, TrimmedInv, NEW m \in Messages, AppendMessage(m)
  PROVE  Memory!Record(m)
<1>1. TrimmedInv' /\ log' = Append(log, m) /\ log' \in Seq(Messages)
  BY AppendTrims DEF AppendMessage, Inv, TypesInv
<1>2. messages' = Newest(log', MaxSize)
  BY <1>1, SizesTyped, LimitIsNewest DEF TrimmedInv
<1> QED
  BY <1>1, <1>2, MemoryShowsNewest DEF Memory!Record

\* Steps that generate and play nothing leave what is heard alone.
LEMMA HeardSame ==
  ASSUME UNCHANGED <<generated, played>>
  PROVE  [g \in Turns |-> Heard(g)]' = [g \in Turns |-> Heard(g)]
BY DEF Heard, Turns, Chars, Samples

\* What a commit appends was heard by then, of a reply to what was said.
LEMMA RememberStep ==
  ASSUME Inv, KeptInv, TrimmedInv, NEW g \in 0..MaxUtterances, NEW len \in Nat,
         AppendAssistant(g, len), len > 0 => Spoken(g, len),
         UNCHANGED <<utt, systems, generated, played>>
  PROVE  Memory!TranscriptNext \/ UNCHANGED Memory!transcriptVars
<1>1. CASE len > 0
  <2>1. g \in Turns /\ g <= utt /\ len <= Heard(g) /\ Heard(g) \in Nat
    BY <1>1, SpokenWasSaid, HeardTyped
  <2>2. len \in 1..[h \in Turns |-> Heard(h)][g]
    BY <1>1, <2>1
  <2>3. Message("assistant", g, len) \in Messages
    BY ConversationAssumption DEF Message, Messages
  <2>4. Memory!Record(Message("assistant", g, len))
    BY <1>1, <2>3, RecordStep DEF AppendAssistant
  <2>5. Memory!Record(Memory!Message("assistant", g, len))
    BY <2>4, MemoryShowsNewest
  <2> QED
    BY <2>1, <2>2, <2>5, HeardSame DEF Memory!TranscriptNext, Memory!Remember
<1>2. CASE ~(len > 0)
  BY <1>2, HeardSame DEF AppendAssistant, histVars, Memory!transcriptVars
<1> QED
  BY <1>1, <1>2

LEMMA TranscriptUtteranceStep ==
  ASSUME Inv, Inv', KeptInv, TrimmedInv, UtteranceStep
  PROVE  Memory!TranscriptNext \/ UNCHANGED Memory!transcriptVars
<1>1. CASE AppendUserMessage
  <2>1. PICK len \in {0, 1} : AppendMessage(Message("user", utt', len))
    BY <1>1 DEF AppendUserMessage
  <2>2. utt' = utt + 1 /\ utt + 1 \in Turns /\ UNCHANGED <<systems, generated, played>>
    BY <1>1, ConversationAssumption DEF AppendUserMessage, Inv, TypesInv, Turns
  <2>3. Message("user", utt', len) \in Messages
    BY <2>2 DEF Message, Messages, Turns
  <2>4. Memory!Record(Memory!Message("user", utt', len))
    BY <2>1, <2>3, RecordStep, MemoryShowsNewest
  <2> QED
    BY <2>2, <2>4, HeardSame DEF Memory!TranscriptNext, Memory!UserSpeaks
<1>2. CASE AssemblePrompt \/ GenerateFails \/ StartTurn \/ StreamEnds
  <2>1. UNCHANGED <<utt, systems, messages, log, generated, played>>
    BY <1>2 DEF AssemblePrompt, GenerateFails, StartTurn, StreamEnds, histVars
  <2> QED
    BY <2>1, HeardSame DEF Memory!transcriptVars
<1>3. CASE AppendGenerated
  <2>1. /\ utt \in Turns /\ UNCHANGED <<utt, systems, messages, log, played>>
        /\ generated' = [generated EXCEPT ![utt] = @ + 1]
    BY <1>3 DEF AppendGenerated, histVars, Inv, TypesInv
  <2>2. /\ generated \in [Turns -> Nat] /\ played \in [Turns -> Nat] /\ utt \in Nat
    BY ConversationAssumption DEF Inv, TypesInv
  <2>3. /\ generated[utt] <= generated'[utt] /\ played[utt] <= played'[utt] /\ utt <= utt
        /\ \A h \in Turns : h # utt => generated'[h] = generated[h] /\ played'[h] = played[h]
    BY <2>1, <2>2
  <2> QED
    BY <2>1, <2>3, HearStep
<1>4. CASE CommitFinal
  <2>1. PICK len \in 0..MaxText : CommitTurn(len)
    BY <1>4 DEF CommitFinal
  <2>2. len \in Nat /\ turn.gen \in 0..MaxUtterances
    BY ConversationAssumption DEF Inv, TypesInv, TurnRecord
  <2>3. (len > 0 => Spoken(turn.gen, len)) /\ AppendAssistant(turn.gen, len)
    BY <2>1, <2>2, CommittableIsSpoken DEF CommitTurn
  <2>4. UNCHANGED <<utt, systems, generated, played>>
    BY <1>4 DEF CommitFinal
  <2> QED
    BY <2>2, <2>3, <2>4, RememberStep
<1> QED
  BY <1>1, <1>2, <1>3, <1>4 DEF UtteranceStep

LEMMA TranscriptPlayoutStep ==
  ASSUME Inv, Inv', KeptInv, NEW bytes \in Nat, Advance(bytes)
  PROVE  Memory!TranscriptNext
<1>1. /\ turn # NoTurn /\ UNCHANGED <<utt, systems, messages, log, generated>>
      /\ played' = [played EXCEPT ![turn.gen] = @ + bytes]
  BY DEF Advance, uttVars, histVars
<1>2. turn.gen \in Turns /\ generated \in [Turns -> Nat] /\ played \in [Turns -> Nat]
  BY <1>1 DEF Inv, TypesInv, TurnInv
<1>3. turn.gen <= utt
  BY <1>2, ConversationAssumption DEF KeptInv, FreshInv, Unplayed, Inv, TypesInv, Turns
<1>4. /\ generated[turn.gen] <= generated'[turn.gen] /\ played[turn.gen] <= played'[turn.gen]
      /\ \A h \in Turns : h # turn.gen =>
           generated'[h] = generated[h] /\ played'[h] = played[h]
  BY <1>1, <1>2
<1> QED
  BY <1>1, <1>2, <1>3, <1>4, HearStep

LEMMA TranscriptInterruptStep ==
  ASSUME Inv, KeptInv, TrimmedInv, InterruptStep
  PROVE  Memory!TranscriptNext \/ UNCHANGED Memory!transcriptVars
<1>1. CASE GetCurrentPosition \/ HandleInterruption
  <2>1. UNCHANGED <<utt, systems, messages, log, generated, played>>
    BY <1>1 DEF GetCurrentPosition, HandleInterruption, uttVars, histVars
  <2> QED
    BY <2>1, HeardSame DEF Memory!transcriptVars
<1>2. CASE CommitInterrupted
  <2>1. PICK len \in 0..MaxText : CommitTurn(len)
    BY <1>2 DEF CommitInterrupted
  <2>2. len \in Nat /\ turn.gen \in 0..MaxUtterances
    BY ConversationAssumption DEF Inv, TypesInv, TurnRecord
  <2>3. (len > 0 => Spoken(turn.gen, len)) /\ AppendAssistant(turn.gen, len)
    BY <2>1, <2>2, CommittableIsSpoken DEF CommitTurn
  <2>4. UNCHANGED <<utt, systems, generated, played>>
    BY <1>2 DEF CommitInterrupted, uttVars
  <2> QED
    BY <2>2, <2>3, <2>4, RememberStep
<1>3. CASE AppendCommitted
  <2>1. /\ committed.gen \in 0..MaxUtterances /\ committed.len \in Nat
        /\ committed.len > 0 => Spoken(committed.gen, committed.len)
    BY DEF Inv, TypesInv, CommittedInv
  <2>2. /\ AppendAssistant(committed.gen, committed.len)
        /\ UNCHANGED <<utt, systems, generated, played>>
    BY <1>3 DEF AppendCommitted, uttVars
  <2> QED
    BY <2>1, <2>2, RememberStep
<1> QED
  BY <1>1, <1>2, <1>3 DEF InterruptStep

LEMMA TranscriptOtherStep ==
  ASSUME Inv, SystemsInv, TrimmedInv, AppendSystemMessage \/ Clear \/ Reset
  PROVE  Memory!TranscriptNext \/ UNCHANGED Memory!transcriptVars
<1>1. UNCHANGED <<utt, generated, played>>
  BY DEF AppendSystemMessage, Clear, Reset, uttVars
<1>2. CASE AppendSystemMessage
  <2>1. systems' = systems + 1 /\ AppendMessage(Message("system", systems', 1)) /\ systems \in Nat
    BY <1>2 DEF AppendSystemMessage, SystemsInv
  <2>2. Message("system", systems', 1) \in Messages
    BY <2>1 DEF Message, Messages
  <2>3. Memory!Record(Memory!Message("system", systems', 1))
    BY <2>1, <2>2, RecordStep, MemoryShowsNewest
  <2> QED
    BY <1>1, <2>1, <2>3, HeardSame DEF Memory!TranscriptNext, Memory!Instruct
<1>3. CASE Clear
  BY <1>1, <1>3, HeardSame DEF Clear, Memory!TranscriptNext, Memory!Forget
<1>4. CASE Reset
  BY <1>1, <1>4, HeardSame DEF Reset, histVars, Memory!transcriptVars
<1> QED
  BY <1>2, <1>3, <1>4

LEMMA TranscriptInit == Init => Memory!TranscriptInit
<1> SUFFICES ASSUME Init PROVE Memory!TranscriptInit
  OBVIOUS
<1>1. \A g \in Turns : Heard(g) = 0
  BY NoCharsUnplayed DEF Init, Heard
<1> QED
  BY <1>1 DEF Init, Memory!TranscriptInit

LEMMA TranscriptStep ==
  Inv /\ Inv' /\ SystemsInv /\ KeptInv /\ TrimmedInv /\ [Next]_vars
    => Memory!TranscriptNext \/ UNCHANGED Memory!transcriptVars
<1> SUFFICES ASSUME Inv, Inv', SystemsInv, KeptInv, TrimmedInv, [Next]_vars
             PROVE  Memory!TranscriptNext \/ UNCHANGED Memory!transcriptVars
  OBVIOUS
<1>1. CASE UtteranceStep
  BY <1>1, TranscriptUtteranceStep
<1>2. CASE AdvancePlayout
  BY <1>2, TranscriptPlayoutStep, ConversationAssumption DEF AdvancePlayout
<1>3. CASE MarkSpoken
  <2>1. PICK bytes \in ChunkBytes, lost \in {0, 1} :
          Samples(bytes) > lost /\ Advance((Samples(bytes) - lost) * BytesPerSample)
    BY <1>3 DEF MarkSpoken
  <2>2. bytes \in Nat
    BY ConversationAssumption
  <2>3. (Samples(bytes) - lost) * BytesPerSample \in Nat
    BY <2>1, <2>2, SMT DEF Samples, BytesPerSample
  <2> QED
    BY <2>1, <2>3, TranscriptPlayoutStep
<1>4. CASE InterruptStep
  BY <1>4, TranscriptInterruptStep
<1>5. CASE AppendSystemMessage \/ Clear \/ Reset
  BY <1>5, TranscriptOtherStep
<1>6. CASE UNCHANGED vars
  <2>1. UNCHANGED <<utt, systems, messages, log, generated, played>>
    BY <1>6 DEF vars, uttVars, histVars
  <2> QED
    BY <2>1, HeardSame DEF Memory!transcriptVars
<1> QED
  BY <1>1, <1>2, <1>3, <1>4, <1>5, <1>6 DEF Next

(* Turns, playout, interruptions and trimming implement the transcript: each  *)
(* step of the conversation is one of the transcript's or changes nothing     *)
(* there.  No reply is ever recorded under another utterance, or beyond what  *)
(* was heard of it at that moment, and the history always shows the newest.   *)
THEOREM ConversationImplementsTranscript == Spec => ImplementsTranscript
<1>1. Init => SystemsInv
  BY DEF Init, SystemsInv
<1> QED
  BY InitInv, NextInv, NextSystems, KeptInit, KeptNext, TrimmedInit, TrimmedNext,
     TranscriptInit, TranscriptStep, <1>1, PTL
  DEF Spec, ImplementsTranscript, Memory!TranscriptSpec
=============================================================================
