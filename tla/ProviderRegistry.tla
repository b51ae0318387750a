--------------------------- MODULE ProviderRegistry ----------------------------
(***************************************************************************)
(* The provider registry (pkg/providers/registry.go): providers are        *)
(* registered by kind and name, and ResolveForSession picks a name of each *)
(* kind for a session by priority: request, session, tenant, global.       *)
(*                                                                         *)
(* ResolveForSession reads r.config without the lock SetConfig takes, once *)
(* for the global defaults and once for the tenant's overrides, so a       *)
(* change between them makes it mix two configurations.  Registrations are *)
(* never withdrawn.                                                        *)
(***************************************************************************)
EXTENDS Naturals, FiniteSets

CONSTANTS Kind,      \* ASR, LLM, TTS, VAD
          Unchecked, \* the kinds whose name is not looked up (VAD)
          Name,      \* names of providers
          NoName,    \* the empty name: no choice
          Choice,    \* bound: the choices of names a level may make
          MaxConfigs \* bound: calls of SetConfig

ASSUME RegistryAssumption ==
  /\ NoName \notin Name /\ Unchecked \subseteq Kind
  /\ Choice \subseteq [Kind -> Name \cup {NoName}]
  /\ [k \in Kind |-> NoName] \in Choice
  /\ MaxConfigs \in Nat

VARIABLES providers,  \* per kind, the registered names
          settings,   \* r.config; before SetConfig, one that chooses nothing
          changes,    \* calls of SetConfig so far
          resolving,  \* where the call of ResolveForSession is
          asked,      \* its arguments: what the session and the request choose
          resolved,   \* its result so far
          during      \* the configurations in force at some time of the call

registryVars == <<providers, settings, changes, resolving, asked, resolved, during>>

NoChoice == [k \in Kind |-> NoName]
Settings == [global : Choice, tenant : Choice]
Asked    == [session : Choice, request : Choice]

RegistryTypeOK ==
  /\ providers \in [Kind -> SUBSET Name]
  /\ settings \in Settings /\ during \subseteq Settings /\ changes \in 0 .. MaxConfigs
  /\ resolving \in {"no", "tenant", "validate", "resolved", "refused"} /\ asked \in Asked
  /\ resolved \in [Kind -> Name \cup {NoName}]

RegistryInit ==
  /\ providers = [k \in Kind |-> {}]
  /\ settings = [global |-> NoChoice, tenant |-> NoChoice] /\ changes = 0
  /\ resolving = "no" /\ asked = [session |-> NoChoice, request |-> NoChoice]
  /\ resolved = NoChoice /\ during = {}

RegisterProvider ==
  /\ \E k \in Kind, n \in Name :
       providers' = [providers EXCEPT ![k] = @ \cup {n}]
  /\ UNCHANGED <<settings, changes, resolving, asked, resolved, during>>

SetConfig ==
  /\ changes < MaxConfigs /\ changes' = changes + 1
  /\ settings' \in Settings
  /\ during' = IF resolving = "tenant" THEN during \cup {settings'} ELSE during
  /\ UNCHANGED <<providers, resolving, asked, resolved>>

\* One level over those below it: an empty name leaves what is there.
Over(below, level) == [k \in Kind |-> IF level[k] = NoName THEN below[k] ELSE level[k]]

ResolveGlobal ==
  /\ resolving = "no" /\ resolving' = "tenant"
  /\ asked' \in Asked
  /\ resolved' = settings.global /\ during' = {settings}
  /\ UNCHANGED <<providers, settings, changes>>

\* Mutation: the tenant's overrides are applied after the session's choices.
ResolveTenantLast ==
  /\ resolving = "tenant" /\ resolving' = "validate"
  /\ resolved' = Over(Over(Over(resolved, asked.session), settings.tenant), asked.request)
  /\ UNCHANGED <<providers, settings, changes, asked, during>>

ResolveOverrides ==
  /\ resolving = "tenant" /\ resolving' = "validate"
  /\ resolved' = Over(Over(Over(resolved, settings.tenant), asked.session), asked.request)
  /\ UNCHANGED <<providers, settings, changes, asked, during>>

\* GetASR, GetLLM and GetTTS find a provider by its name.
Get(k, n) == n \in providers[k]

\* The names are looked up, each under the lock; registrations only grow, so
\* the lookups may be taken as one.
ValidateNames ==
  /\ resolving = "validate"
  /\ resolving' = IF \A k \in Kind \ Unchecked : resolved[k] = NoName \/ Get(k, resolved[k])
                    THEN "resolved" ELSE "refused"
  /\ UNCHANGED <<providers, settings, changes, asked, resolved, during>>

NextResolution ==
  /\ resolving \in {"resolved", "refused"} /\ resolving' = "no"
  /\ asked' = [session |-> NoChoice, request |-> NoChoice]
  /\ resolved' = NoChoice /\ during' = {}
  /\ UNCHANGED <<providers, settings, changes>>

RegistryNext == RegisterProvider \/ SetConfig \/ ResolveGlobal \/ ResolveOverrides \/ ValidateNames
                \/ NextResolution
RegistrySpec == RegistryInit /\ [][RegistryNext]_registryVars

--------------------------------------------------------------------------------
\* The levels that name a provider of kind k, the highest priority first.
FirstChoice(k, levels) ==
  LET named == {i \in 1 .. 4 : levels[i][k] # NoName}
  IN IF named = {} THEN NoName
                   ELSE levels[CHOOSE i \in named : \A j \in named : i <= j][k]

\* Whatever SetConfig does meanwhile, a resolution is the one of the four
\* levels' first choices, the global one and the tenant's each in force at some
\* time of the call; it never falls back below a level that names a provider,
\* and every name that is looked up exists (registry.go:172-246).
ResolutionIsOfItsTime ==
  resolving = "resolved" =>
    \E c, d \in during :
      LET levels == <<asked.request, asked.session, d.tenant, c.global>>
      IN \A k \in Kind : /\ resolved[k] = FirstChoice(k, levels)
                         /\ k \notin Unchecked => resolved[k] \in providers[k] \cup {NoName}
================================================================================
