------------------------------ MODULE Connection -------------------------------
(***************************************************************************)
(* The life of one WebSocket connection of the media edge                  *)
(* (handler/websocket.go), with what the process does around it            *)
(* (media-edge/cmd/main.go).  Its goroutines are the read loop, which      *)
(* alone handles messages and cleans up, and the write pump.  The context  *)
(* they share is cancelled by the pump when it ends, by a session.stop, by *)
(* the process's shutdown, and by net/http as soon as ServeHTTP returns,   *)
(* since it is derived from the request's.                                 *)
(*                                                                         *)
(* The session handler is "running" from Start to Stop (SessionHandler);   *)
(* the bridge is the ChannelBridge, or one that accepts a subscription to  *)
(* a session it has not been told of, as the interface allows.             *)
(***************************************************************************)
EXTENDS Naturals

CONSTANTS Bridges,   \* the bridges to consider, among "channel" and "lenient"
          WriteCap,  \* messages in c.writeCh (100)
          MaxFaults  \* bound: calls of the store that fail

ASSUME ConnectionAssumption ==
  Bridges \subseteq {"channel", "lenient"} /\ WriteCap \in Nat \ {0} /\ MaxFaults \in Nat

VARIABLES loop,       \* where the read loop is
          pump,       \* the write pump
          ctxDone,    \* c.ctx is done
          hasSession, \* c.sessionID is set
          handler,    \* c.handler: none, or its state
          closed,     \* c.closed
          writeCh,    \* messages waiting in c.writeCh
          connected,  \* the connection is in h.connections
          stored,     \* the session is in the store
          bridge,     \* which bridge
          bridgeHas,  \* the session is in the bridge
          noticeRoom, \* the bridge can announce a session
          process,    \* main: serving, then shutting down
          faults,     \* calls of the store that failed
          outcome     \* outcome of the last session.start on this connection

connections == <<connected, closed, ctxDone>>
session     == <<hasSession, handler>>
world       == <<bridge, noticeRoom, process>>
connectionVars == <<loop, pump, connections, session, writeCh, stored, bridgeHas, world, faults,
                    outcome>>

LoopAt == {"none", "setup", "select", "read", "save", "handler", "start", "bridge", "announce",
           "confirm", "error", "stop", "delete", "ended", "cancel", "cleanup", "stopHandler",
           "unregister", "deleteAgain", "gone"}
StartOutcome == {"not yet", "ok", "no store", "no events", "no bridge"}

ConnectionTypeOK ==
  /\ loop \in LoopAt /\ pump \in {"off", "select", "done"}
  /\ handler \in {"none", "idle", "running", "stopped"} /\ writeCh \in 0 .. WriteCap
  /\ bridge \in Bridges /\ faults \in 0 .. MaxFaults /\ outcome \in StartOutcome
  /\ process \in {"serving", "closing", "closed", "bridgeClosed"}
  /\ {ctxDone, hasSession, closed, connected, stored, bridgeHas, noticeRoom} \subseteq BOOLEAN

ConnectionInit ==
  /\ loop = "none" /\ pump = "off" /\ ctxDone = FALSE
  /\ hasSession = FALSE /\ handler = "none" /\ closed = FALSE /\ writeCh = 0
  /\ connected = FALSE /\ stored = FALSE
  /\ bridge \in Bridges /\ bridgeHas = FALSE /\ noticeRoom \in BOOLEAN
  /\ process = "serving" /\ faults = 0 /\ outcome = "not yet"

LoopGoes(from, to) == loop = from /\ loop' = to

\* sendEvent: refused when the context is done or the channel is full; when both
\* the context is done and there is room, select takes either.  Errors are ignored.
SendEvent ==
  \/ writeCh < WriteCap /\ writeCh' = writeCh + 1
  \/ (ctxDone \/ writeCh = WriteCap) /\ UNCHANGED writeCh

StoreFails == faults < MaxFaults /\ faults' = faults + 1

--------------------------------------------------------------------------------
\* ServeHTTP: upgraded and registered before the loop starts.
Serve ==
  /\ process \in {"serving", "closing"} /\ LoopGoes("none", "setup")
  /\ connected' = TRUE
  /\ UNCHANGED <<pump, closed, ctxDone, session, writeCh, stored, bridgeHas, world, faults,
                 outcome>>

\* net/http cancels the request's context when ServeHTTP has returned.
RequestContextEnds ==
  /\ loop # "none" /\ ctxDone' = TRUE
  /\ UNCHANGED <<loop, pump, connected, closed, session, writeCh, stored, bridgeHas, world, faults,
                 outcome>>

StartPump ==
  /\ LoopGoes("setup", "select") /\ pump' = "select"
  /\ UNCHANGED <<connections, session, writeCh, stored, bridgeHas, world, faults, outcome>>

SeesCancel ==
  /\ ctxDone /\ LoopGoes("select", "cleanup")
  /\ UNCHANGED <<pump, connections, session, writeCh, stored, bridgeHas, world, faults, outcome>>

PingFails ==
  /\ LoopGoes("select", "cleanup")
  /\ UNCHANGED <<pump, connections, session, writeCh, stored, bridgeHas, world, faults, outcome>>

\* select's default: only when the context is not done.
Reads ==
  /\ ~ctxDone /\ LoopGoes("select", "read")
  /\ UNCHANGED <<pump, connections, session, writeCh, stored, bridgeHas, world, faults, outcome>>

\* The client is gone, or silent beyond the read deadline.  Nothing else ends a
\* ReadMessage: a cancelled context does not.
ReadFails ==
  /\ LoopGoes("read", "cleanup")
  /\ UNCHANGED <<pump, connections, session, writeCh, stored, bridgeHas, world, faults, outcome>>

\* A message of a wrong type or form, or one whose handler reports an error.
BadMessage ==
  /\ LoopGoes("read", "error")
  /\ UNCHANGED <<pump, connections, session, writeCh, stored, bridgeHas, world, faults, outcome>>

SendError ==
  /\ LoopGoes("error", "select") /\ SendEvent
  /\ UNCHANGED <<pump, connections, session, stored, bridgeHas, world, faults, outcome>>

\* audio.chunk, session.update, session.interrupt: the handler must exist, and
\* audio is refused when it is not running; an update never fails.
HandlerMessage ==
  /\ handler # "none" /\ loop = "read"
  /\ loop' \in IF handler = "running" THEN {"select"} ELSE {"select", "error"}
  /\ UNCHANGED <<pump, connections, session, writeCh, stored, bridgeHas, world, faults, outcome>>

NoActiveSession ==
  /\ handler = "none" /\ LoopGoes("read", "error")
  /\ UNCHANGED <<pump, connections, session, writeCh, stored, bridgeHas, world, faults, outcome>>

--------------------------------------------------------------------------------
\* handleSessionStart, in its order; c.mu is held throughout, and every step
\* reads only what the loop owns, the store and the bridge.

\* Mutation: the session's identifier is kept only once the session has started.
ForgetsSession ==
  /\ ~hasSession /\ LoopGoes("read", "save")
  /\ UNCHANGED <<pump, connections, session, writeCh, stored, bridgeHas, world, faults, outcome>>

SessionStart ==
  /\ ~hasSession /\ LoopGoes("read", "save") /\ hasSession' = TRUE
  /\ UNCHANGED <<pump, connections, handler, writeCh, stored, bridgeHas, world, faults, outcome>>

AlreadyStarted ==
  /\ hasSession /\ LoopGoes("read", "error")
  /\ UNCHANGED <<pump, connections, session, writeCh, stored, bridgeHas, world, faults, outcome>>

SaveSession ==
  /\ loop = "save"
  /\ \/ loop' = "handler" /\ stored' = TRUE /\ UNCHANGED <<faults, outcome>>
     \/ loop' = "error" /\ StoreFails /\ outcome' = "no store" /\ UNCHANGED stored
  /\ UNCHANGED <<pump, connections, session, writeCh, bridgeHas, world>>

NewSessionHandler ==
  /\ LoopGoes("handler", "start") /\ handler' = "idle"
  /\ UNCHANGED <<pump, connections, hasSession, writeCh, stored, bridgeHas, world, faults, outcome>>

\* The handler subscribes to the session's events: the ChannelBridge knows no
\* session before its StartSession, which comes next.
CanSubscribe == bridge = "lenient" \/ bridgeHas

StartHandlerFails ==
  /\ ~CanSubscribe /\ LoopGoes("start", "error") /\ outcome' = "no events"
  /\ UNCHANGED <<pump, connections, session, writeCh, stored, bridgeHas, world, faults>>

StartsHandler ==
  /\ CanSubscribe /\ LoopGoes("start", "bridge") /\ handler' = "running"
  /\ UNCHANGED <<pump, connections, hasSession, writeCh, stored, bridgeHas, world, faults, outcome>>

BridgeStart ==
  /\ process # "bridgeClosed" /\ LoopGoes("bridge", "announce") /\ bridgeHas' = TRUE
  /\ UNCHANGED <<pump, connections, session, writeCh, stored, world, faults, outcome>>

BridgeIsClosed ==
  /\ process = "bridgeClosed" /\ LoopGoes("bridge", "error") /\ outcome' = "no bridge"
  /\ UNCHANGED <<pump, connections, session, writeCh, stored, bridgeHas, world, faults>>

\* The announcement waits for room, or for the context to end; then the session
\* stays registered in the bridge.
SessionAnnounced ==
  /\ noticeRoom /\ LoopGoes("announce", "confirm")
  /\ UNCHANGED <<pump, connections, session, writeCh, stored, bridgeHas, world, faults, outcome>>

NotAnnounced ==
  /\ ctxDone /\ LoopGoes("announce", "error") /\ outcome' = "no bridge"
  /\ UNCHANGED <<pump, connections, session, writeCh, stored, bridgeHas, world, faults>>

ConfirmStarted ==
  /\ LoopGoes("confirm", "select") /\ SendEvent /\ outcome' = "ok"
  /\ UNCHANGED <<pump, connections, session, stored, bridgeHas, world, faults>>

--------------------------------------------------------------------------------
\* SessionHandler.Stop: nothing when idle, else the bridge's session ends too.
HandlerStops ==
  IF handler = "running" THEN handler' = "stopped" /\ bridgeHas' = FALSE
                         ELSE UNCHANGED <<handler, bridgeHas>>

DeleteSession ==
  \/ stored' = FALSE /\ UNCHANGED faults
  \/ StoreFails /\ UNCHANGED stored

\* handleSessionStop.
SessionStop ==
  /\ handler # "none" /\ LoopGoes("read", "stop")
  /\ UNCHANGED <<pump, connections, session, writeCh, stored, bridgeHas, world, faults, outcome>>

StopOnRequest ==
  /\ LoopGoes("stop", "delete") /\ HandlerStops
  /\ UNCHANGED <<pump, connections, hasSession, writeCh, stored, world, faults, outcome>>

DeleteOnRequest ==
  /\ LoopGoes("delete", "ended") /\ DeleteSession
  /\ UNCHANGED <<pump, connections, session, writeCh, bridgeHas, world, outcome>>

SendEnded ==
  /\ LoopGoes("ended", "cancel") /\ SendEvent
  /\ UNCHANGED <<pump, connections, session, stored, bridgeHas, world, faults, outcome>>

CancelOnRequest ==
  /\ LoopGoes("cancel", "select") /\ ctxDone' = TRUE
  /\ UNCHANGED <<pump, connected, closed, session, writeCh, stored, bridgeHas, world, faults,
                 outcome>>

\* cleanupConnection, once.
Cleanup ==
  /\ ~closed /\ LoopGoes("cleanup", "stopHandler") /\ closed' = TRUE
  /\ UNCHANGED <<pump, connected, ctxDone, session, writeCh, stored, bridgeHas, world, faults,
                 outcome>>

CleanupHandler ==
  /\ LoopGoes("stopHandler", "unregister") /\ HandlerStops
  /\ UNCHANGED <<pump, connections, hasSession, writeCh, stored, world, faults, outcome>>

Unregister ==
  /\ LoopGoes("unregister", "deleteAgain") /\ connected' = FALSE
  /\ UNCHANGED <<pump, closed, ctxDone, session, writeCh, stored, bridgeHas, world, faults,
                 outcome>>

DeleteLeftover ==
  /\ LoopGoes("deleteAgain", "gone")
  /\ IF hasSession THEN DeleteSession ELSE UNCHANGED <<stored, faults>>
  /\ UNCHANGED <<pump, connections, session, writeCh, bridgeHas, world, outcome>>

--------------------------------------------------------------------------------
\* The write pump: it has no last words, so what is queued when the context ends
\* may never be sent.
PumpSends ==
  /\ pump = "select" /\ writeCh > 0 /\ writeCh' = writeCh - 1
  /\ UNCHANGED <<loop, pump, connections, session, stored, bridgeHas, world, faults, outcome>>

PumpFails ==
  /\ pump = "select" /\ writeCh > 0 /\ writeCh' = writeCh - 1
  /\ pump' = "done" /\ ctxDone' = TRUE
  /\ UNCHANGED <<loop, connected, closed, session, stored, bridgeHas, world, faults, outcome>>

PumpSeesCancel ==
  /\ pump = "select" /\ ctxDone /\ pump' = "done"
  /\ UNCHANGED <<loop, connections, session, writeCh, stored, bridgeHas, world, faults, outcome>>

\* Close cancels the connections it finds and waits for none.
CancelConnections == ctxDone' = (ctxDone \/ connected)

\* main at shutdown: the handler is closed, then the server is shut down; the
\* deferred calls close the handler again, and the bridge.
CloseConnections ==
  /\ \/ process = "serving" /\ process' = "closing"
     \/ process = "closing" /\ process' = "closed"
  /\ CancelConnections
  /\ UNCHANGED <<loop, pump, connected, closed, session, writeCh, stored, bridge, bridgeHas,
                 noticeRoom, faults, outcome>>

MainClosesBridge ==
  /\ process = "closed" /\ process' = "bridgeClosed" /\ bridgeHas' = FALSE
  /\ UNCHANGED <<loop, pump, connections, session, writeCh, stored, bridge, noticeRoom, faults,
                 outcome>>

StartStep == SessionStart \/ AlreadyStarted \/ SaveSession \/ NewSessionHandler \/ StartHandlerFails
             \/ StartsHandler \/ BridgeStart \/ BridgeIsClosed \/ SessionAnnounced \/ NotAnnounced
             \/ ConfirmStarted
StopStep  == SessionStop \/ StopOnRequest \/ DeleteOnRequest \/ SendEnded \/ CancelOnRequest
             \/ Cleanup \/ CleanupHandler \/ Unregister \/ DeleteLeftover
LoopStep  == StartPump \/ SeesCancel \/ PingFails \/ Reads \/ ReadFails \/ BadMessage \/ SendError
             \/ HandlerMessage \/ NoActiveSession \/ StartStep \/ StopStep
Surroundings == Serve \/ RequestContextEnds \/ PumpSends \/ PumpFails \/ PumpSeesCancel
                \/ CloseConnections \/ MainClosesBridge

ConnectionNext == LoopStep \/ Surroundings
ConnectionSpec == ConnectionInit /\ [][ConnectionNext]_connectionVars

--------------------------------------------------------------------------------
\* However a connection ends, in the middle of a start that failed half-way,
\* after a stop, or at shutdown, nothing of it is left: not in the map of
\* connections, not in the bridge, no running handler, and nothing in the store
\* unless the store failed (websocket.go:500-543).
CleanupLeavesNothing ==
  loop = "gone" => /\ ~connected /\ ~bridgeHas /\ handler # "running"
                   /\ stored => faults > 0

\* A session.start on a connection that has no session is confirmed, as long as
\* the store works and the process is not shutting down (docs/websocket-api.md).
StartNeverFails == outcome \in {"no events", "no bridge"} => process # "serving"
================================================================================
