------------------------------- MODULE Transport -------------------------------
(***************************************************************************)
(* The WebSocket transport of the media edge (transport/transport.go):     *)
(* senders queue messages without waiting, one write pump writes them to   *)
(* the connection, and Close ends both.  A sender checks the closed flag   *)
(* under the lock and sends without it, while Close sets the flag, closes  *)
(* closeCh and closes writeCh one after the other.                         *)
(*                                                                         *)
(* The pump runs only once StartWritePump has been called.  Messages are   *)
(* numbered in the order in which they are accepted.                       *)
(***************************************************************************)
EXTENDS Naturals, Sequences

CONSTANTS Sender,     \* goroutines that send (the session handler's three)
          QueueCap,   \* messages in writeCh (100)
          MaxAccepted \* bound: messages accepted

ASSUME TransportAssumption == QueueCap \in Nat \ {0} /\ MaxAccepted \in Nat

VARIABLES closing,  \* how far Close has come
          queued,   \* writeCh
          pumpAt,   \* the write pump
          holding,  \* the messages it is writing: one or none
          wire,     \* what has been written, 0 for the close message
          sending,  \* the senders that have found the transport open
          accepted, \* messages accepted so far
          crashed   \* a sender has sent on the closed writeCh: the process dies

pumpVars      == <<pumpAt, holding, wire>>
transportVars == <<closing, queued, pumpVars, sending, accepted, crashed>>

CloseMessage == 0

TransportTypeOK ==
  /\ closing \in {"open", "flagged", "signalled", "closed"}
  /\ queued \in Seq(1 .. MaxAccepted) /\ Len(queued) <= QueueCap
  /\ pumpAt \in {"off", "select", "write", "close", "done"}
  /\ holding \in Seq(1 .. MaxAccepted) /\ Len(holding) <= 1
  /\ wire \in Seq(0 .. MaxAccepted) /\ sending \subseteq Sender
  /\ accepted \in 0 .. MaxAccepted /\ crashed \in BOOLEAN

TransportInit ==
  /\ closing = "open" /\ queued = <<>>
  /\ pumpAt = "off" /\ holding = <<>> /\ wire = <<>>
  /\ sending = {} /\ accepted = 0 /\ crashed = FALSE

Signalled == closing \in {"signalled", "closed"} \* closeCh is closed

--------------------------------------------------------------------------------
\* sendMessage, by way of SendEvent and SendAudio: the flag, then the select.
FindsOpen(s) ==
  /\ ~crashed /\ closing = "open" /\ accepted < MaxAccepted /\ s \notin sending
  /\ sending' = sending \cup {s}
  /\ UNCHANGED <<closing, queued, pumpVars, accepted, crashed>>

Accepted(s) ==
  /\ ~crashed /\ s \in sending /\ closing # "closed" /\ Len(queued) < QueueCap
  /\ accepted < MaxAccepted
  /\ queued' = Append(queued, accepted + 1) /\ accepted' = accepted + 1
  /\ sending' = sending \ {s}
  /\ UNCHANGED <<closing, pumpVars, crashed>>

\* The channel is full, or the transport is closing.
Refused(s) ==
  /\ ~crashed /\ s \in sending /\ (Signalled \/ Len(queued) = QueueCap)
  /\ sending' = sending \ {s}
  /\ UNCHANGED <<closing, queued, pumpVars, accepted, crashed>>

\* With both channels closed the select takes either case, and one panics.
Crashes(s) ==
  /\ ~crashed /\ s \in sending /\ closing = "closed"
  /\ crashed' = TRUE
  /\ UNCHANGED <<closing, queued, pumpVars, sending, accepted>>

\* Close: only the first caller gets past the flag.
Close(from, to) ==
  /\ ~crashed /\ closing = from /\ closing' = to
  /\ UNCHANGED <<queued, pumpVars, sending, accepted, crashed>>

CloseTransport == Close("open", "flagged")
SignalClose    == Close("flagged", "signalled")
CloseWriteCh   == Close("signalled", "closed")

--------------------------------------------------------------------------------
\* The write pump.
PumpGoes(from, to) ==
  /\ ~crashed /\ pumpAt = from /\ pumpAt' = to
  /\ UNCHANGED <<closing, sending, accepted, crashed>>

StartWritePump == PumpGoes("off", "select") /\ UNCHANGED <<queued, holding, wire>>

PumpTakes ==
  /\ queued # <<>> /\ PumpGoes("select", "write")
  /\ queued' = Tail(queued) /\ holding' = <<Head(queued)>>
  /\ UNCHANGED wire

PumpWrites ==
  /\ PumpGoes("write", "select")
  /\ wire' = wire \o holding /\ holding' = <<>>
  /\ UNCHANGED queued

\* A message or a ping that cannot be written ends the pump.
WriteFails ==
  /\ PumpGoes("write", "done") \/ PumpGoes("select", "done")
  /\ holding' = <<>>
  /\ UNCHANGED <<queued, wire>>

\* closeCh is closed, or writeCh is closed and drained.
PumpSeesClose ==
  /\ Signalled /\ PumpGoes("select", "close")
  /\ UNCHANGED <<queued, holding, wire>>

\* Mutation: the pump goes on after its last words.
WriteCloseAndGoOn ==
  /\ PumpGoes("close", "select")
  /\ wire' \in {wire, Append(wire, CloseMessage)}
  /\ UNCHANGED <<queued, holding>>

\* The close message, which may not get through, and the end of the connection.
WriteClose ==
  /\ PumpGoes("close", "done")
  /\ wire' \in {wire, Append(wire, CloseMessage)}
  /\ UNCHANGED <<queued, holding>>

TransportNext ==
  \/ \E s \in Sender : FindsOpen(s)
  \/ \E s \in Sender : Accepted(s)
  \/ \E s \in Sender : Refused(s)
  \/ \E s \in Sender : Crashes(s)
  \/ CloseTransport \/ SignalClose \/ CloseWriteCh
  \/ StartWritePump \/ PumpTakes \/ PumpWrites \/ WriteFails \/ PumpSeesClose \/ WriteClose

TransportSpec == TransportInit /\ [][TransportNext]_transportVars

--------------------------------------------------------------------------------
\* What has gone over the wire, but for a close message at its end.
Messages == IF wire # <<>> /\ wire[Len(wire)] = CloseMessage
              THEN SubSeq(wire, 1, Len(wire) - 1) ELSE wire

\* The client is sent what was accepted, in that order and without gaps; nothing
\* accepted is lost while the pump lives, however senders and Close overlap; and
\* the close message is the last one (transport.go:97-171).
SentAsAccepted ==
  /\ pumpAt # "done" => Messages \o holding \o queued = [i \in 1 .. accepted |-> i]
  /\ Messages = [i \in 1 .. Len(Messages) |-> i]
  /\ \A i \in 1 .. Len(wire) - 1 : wire[i] # CloseMessage
================================================================================
