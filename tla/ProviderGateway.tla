---------------------------- MODULE ProviderGateway ----------------------------
(***************************************************************************)
(* The Python provider gateway (py/provider_gateway/app): a servicer's     *)
(* streams (grpc_api/llm_servicer.py; the recogniser's and the             *)
(* synthesiser's servicers have the same life cycle) and the registry they *)
(* take their providers from (core/registry.py).                           *)
(*                                                                         *)
(* asyncio runs one coroutine at a time, up to its next await or yield: a  *)
(* stream is opened in one step, gives its responses in any number of      *)
(* steps that change nothing here, and is closed in one, the finally       *)
(* clause.  The servicer records streams by session ID, so that streams of *)
(* one session share a record that each of them deletes when it ends.      *)
(***************************************************************************)
EXTENDS Naturals, FiniteSets

CONSTANTS Stream,       \* calls of StreamGenerate
          CallSession,  \* session IDs they carry
          ProviderName, \* names they ask for
          MaxVersions   \* bound: registrations of a name

ASSUME GatewayAssumption == MaxVersions \in Nat

VARIABLES factories, \* versions registered under each name
          instances, \* per name, the version of the cached provider, or 0
          streams,   \* what each stream is doing, for whom and with which provider
          active,    \* per session, the recorded provider, or none
          robbed     \* streams during which another call of their session ended

gatewayVars == <<factories, instances, streams, active, robbed>>

NoProvider == [name |-> "none", version |-> 0]
Provider   == [name : ProviderName, version : 1 .. MaxVersions]
NoStream       == [at |-> "idle"]
Streaming(s, p) == [at |-> "streaming", session |-> s, provider |-> p]

GatewayTypeOK ==
  /\ factories \in [ProviderName -> 0 .. MaxVersions]
  /\ instances \in [ProviderName -> 0 .. MaxVersions]
  /\ streams \in [Stream -> {NoStream} \cup {Streaming(s, p) : s \in CallSession, p \in Provider}]
  /\ active \in [CallSession -> Provider \cup {NoProvider}]
  /\ robbed \subseteq Stream

GatewayInit ==
  /\ factories = [n \in ProviderName |-> 0] /\ instances = [n \in ProviderName |-> 0]
  /\ streams = [st \in Stream |-> NoStream]
  /\ active = [s \in CallSession |-> NoProvider] /\ robbed = {}

Live(s) == {st \in Stream : streams[st].at = "streaming" /\ streams[st].session = s}

--------------------------------------------------------------------------------
\* register_llm: the cache is left as it is.
RegisterFactory ==
  \E n \in ProviderName :
    /\ factories[n] < MaxVersions
    /\ factories' = [factories EXCEPT ![n] = @ + 1]
    /\ UNCHANGED <<instances, streams, active, robbed>>

\* get_llm: the cached provider, or one the factory makes.
Obtained(n, v) ==
  /\ v = IF instances[n] # 0 THEN instances[n] ELSE factories[n]
  /\ v # 0 /\ instances' = [instances EXCEPT ![n] = v]

OpenStream ==
  \E st \in Stream, s \in CallSession, n \in ProviderName, v \in 1 .. MaxVersions :
    /\ streams[st] = NoStream /\ Obtained(n, v)
    /\ streams' = [streams EXCEPT ![st] = Streaming(s, [name |-> n, version |-> v])]
    /\ active' = [active EXCEPT ![s] = [name |-> n, version |-> v]]
    /\ UNCHANGED <<factories, robbed>>

\* The finally clause, whichever call of the session recorded the provider.
Forgets(s) == active' = [active EXCEPT ![s] = NoProvider]

\* There is no such provider, or the factory fails: the call raises before it
\* has recorded anything, and its finally clause runs all the same.
RefuseStream ==
  \E s \in CallSession, n \in ProviderName :
    /\ instances[n] = 0
    /\ Forgets(s) /\ robbed' = robbed \cup Live(s)
    /\ UNCHANGED <<factories, instances, streams>>

\* Mutation: a stream that fails, or is cancelled, leaves its record.
EndStreamCleanly ==
  \E st \in Stream, s \in CallSession :
    /\ st \in Live(s)
    /\ streams' = [streams EXCEPT ![st] = NoStream]
    /\ Forgets(s) \/ UNCHANGED active
    /\ robbed' = (robbed \cup Live(s)) \ {st}
    /\ UNCHANGED <<factories, instances>>

\* The last response, an error of the provider's, or the client gone.
EndStream ==
  \E st \in Stream, s \in CallSession :
    /\ st \in Live(s)
    /\ streams' = [streams EXCEPT ![st] = NoStream]
    /\ Forgets(s)
    /\ robbed' = (robbed \cup Live(s)) \ {st}
    /\ UNCHANGED <<factories, instances>>

GatewayNext == RegisterFactory \/ OpenStream \/ RefuseStream \/ EndStream
GatewaySpec == GatewayInit /\ [][GatewayNext]_gatewayVars

--------------------------------------------------------------------------------
\* What Cancel asks, if anything: the provider recorded for the session.
CancelAsks(s) == IF active[s] = NoProvider THEN {} ELSE {active[s]}

\* A cancel reaches a provider that is generating for that session or none, never
\* a stale one; a session's only stream is found, unless another call of the
\* session has ended since it began; and the streams of one provider name share
\* one instance, also when its factory is registered again meanwhile
\* (llm_servicer.py:54-104, 170-184, registry.py:114-140).
CancelFindsStream ==
  /\ \A s \in CallSession :
       /\ CancelAsks(s) \subseteq {streams[st].provider : st \in Live(s)}
       /\ Live(s) \ robbed # {} => CancelAsks(s) # {}
  /\ \A s, t \in CallSession : \A a \in Live(s), b \in Live(t) :
       streams[a].provider.name = streams[b].provider.name =>
         streams[a].provider = streams[b].provider
================================================================================
