------------------------------- MODULE History -------------------------------
(***************************************************************************)
(* What the two limits on a list of messages do to it.  The conversation   *)
(* history trims itself after every append (pkg/session/history.go) and    *)
(* the prompt assembler limits what it sends (pipeline/prompt.go): both    *)
(* leave a list that fits alone, and otherwise move the system messages to *)
(* the front and keep the newest of the others that still fit.             *)
(***************************************************************************)
EXTENDS Integers, Sequences, FiniteSets

\* turn numbers an utterance and the reply to it; len counts characters.
Message(role, turn, len) == [role |-> role, turn |-> turn, len |-> len]

Messages == [role : {"user", "assistant", "system"}, turn : Nat, len : Nat]
System   == [role : {"system"}, turn : Nat, len : Nat]
Others   == [role : {"user", "assistant"}, turn : Nat, len : Nat]
NotEmpty == [role : {"user", "assistant", "system"}, turn : Nat, len : Nat \ {0}]

\* The messages of ms that belong to S, in their order.
Only(ms, S) ==
  LET kept[i \in 0..Len(ms)] ==
        IF i = 0 THEN <<>>
        ELSE IF ms[i] \in S THEN Append(kept[i - 1], ms[i]) ELSE kept[i - 1]
  IN kept[Len(ms)]

Larger(a, b) == IF a > b THEN a ELSE b

\* The last n elements; the whole sequence if it is not longer.
Last(s, n) == IF Len(s) > n THEN SubSeq(s, Len(s) - n + 1, Len(s)) ELSE s

\* Mutation: the oldest messages are kept.
LimitKeepsOldest(ms, n) ==
  IF Len(ms) <= n THEN ms
  ELSE LET system == Only(ms, System)
           others == Only(ms, Others)
           keep   == Larger(n - Len(system), 0)
       IN system \o SubSeq(others, 1, IF keep < Len(others) THEN keep ELSE Len(others))

Limit(ms, n) ==
  IF Len(ms) <= n THEN ms
  ELSE LET system == Only(ms, System)
       IN system \o Last(Only(ms, Others), Larger(n - Len(system), 0))

-----------------------------------------------------------------------------
(* The reference: which positions of a list a limit of n keeps. *)

SystemAt(ms) == {i \in DOMAIN ms : ms[i] \in System}

NewestAt(ms, n) ==
  LET others == DOMAIN ms \ SystemAt(ms)
  IN {i \in others : Cardinality({j \in others : j >= i}) + Cardinality(SystemAt(ms)) <= n}

\* The elements at the positions in I, in their order.
Pick(ms, I) ==
  [k \in 1..Cardinality(I) |-> ms[CHOOSE i \in I : Cardinality({j \in I : j <= i}) = k]]

Newest(ms, n) ==
  IF Len(ms) <= n THEN ms ELSE Pick(ms, SystemAt(ms)) \o Pick(ms, NewestAt(ms, n))
=============================================================================
