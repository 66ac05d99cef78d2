------------------------------ MODULE Settings ------------------------------
(***************************************************************************)
(* What an administrator changes while the server runs, and what of it a   *)
(* restart finds again: the kill switch (approval.Service.SetKillSwitch),  *)
(* the connection of the reasoning provider (PUT of                        *)
(* /api/v1/connections/reasoning/config and OpenAICompatibleClient).  Each *)
(* is one copy in memory and one in application_settings, written one      *)
(* after the other by handlers that nothing serialises.  The modes, which  *)
(* live in memory only, are in Proposals, where they matter.               *)
(***************************************************************************)
EXTENDS Integers

CONSTANTS
  Handlers,    \* requests the server works on at once
  Hosts,       \* provider endpoints
  ApiHosts,    \* those the handler accepts (normalizeProviderConfig)
  BootHosts,   \* those main accepts
  Keys,        \* API keys an administrator may enter
  EnvKey,      \* the key LLM_API_KEY holds, or NoKey
  NoHost, NoKey,
  EnvSwitch,   \* KILL_SWITCH_ENABLED: the switch when none is stored
  MaxRequests, \* bound: requests that reach a handler
  MaxRestarts, \* bound
  StoreFaults  \* whether a write of a setting may fail

ASSUME SettingsAssumption ==
  /\ ApiHosts \subseteq Hosts /\ BootHosts \subseteq Hosts /\ NoHost \notin Hosts
  /\ NoKey \notin Keys
  /\ EnvSwitch \in BOOLEAN
  /\ MaxRequests \in Nat /\ MaxRestarts \in Nat /\ StoreFaults \in BOOLEAN

VARIABLES
  \* memory
  switch, active,
  \* application_settings and the key file of the cipher
  storedSwitch, storedProfile, storedBundle, cipher,
  \* the handlers at work
  handler,
  \* bounds, and history: the kinds of setting whose last changes overlapped,
  \* and what became of the last change of the connection
  requests, restarts, overlapped, lastPut

memory   == <<switch, active>>
store    == <<storedSwitch, storedProfile, storedBundle, cipher>>
settings == <<memory, store>>
setting  == <<settings, handler, requests, restarts, overlapped, lastPut>>

\* A profile refers to its key: an environment variable, or the encrypted
\* store, which is no variable.
References == {"LLM_API_KEY", "ENCRYPTED_LLM_API_KEY"}
Profiles   == [host : Hosts, ref : References]
Resolve(ref) == IF ref = "LLM_API_KEY" THEN EnvKey ELSE NoKey

AllKeys == Keys \union {EnvKey, NoKey}
Configs == [host : Hosts \union {NoHost}, key : AllKeys]
Configured(config) == config.host # NoHost /\ config.key # NoKey

\* Settings that are not in the store.
NoProfile == [host |-> NoHost, ref |-> "LLM_API_KEY"]
NoBundle  == [profile |-> NoProfile, key |-> NoKey, cipher |-> 0]

Steps == {"idle", "switch set", "read", "saved", "key read"}
Idle  == [step |-> "idle", on |-> FALSE, profile |-> NoProfile, given |-> NoKey,
          key |-> NoKey, bundle |-> NoBundle]
KindOf(step) == IF step = "switch set" THEN "switch" ELSE "connection"

Busy(kind) == \E r \in Handlers : handler[r].step # "idle" /\ KindOf(handler[r].step) = kind

----------------------------------------------------------------------------
(* What the start of the server makes of the store (NewService of the      *)
(* approval package, applyStoredConnectionProfiles)                        *)

BootSwitch == IF storedSwitch = "none" THEN EnvSwitch ELSE storedSwitch = "true"

Readable(bundle) == bundle # NoBundle /\ bundle.cipher = cipher

BootConfig ==
  IF Readable(storedBundle)
    THEN [host |-> storedBundle.profile.host, key |-> storedBundle.key]
    ELSE [host |-> storedProfile.host, key |-> Resolve(storedProfile.ref)]

SettingsInit ==
  /\ storedSwitch = "none" /\ storedProfile = NoProfile /\ storedBundle = NoBundle
  /\ cipher = 1
  /\ switch = BootSwitch
  /\ active = [host |-> NoHost, key |-> EnvKey]
  /\ handler = [r \in Handlers |-> Idle]
  /\ requests = 0 /\ restarts = 0 /\ overlapped = {} /\ lastPut = "none"

\* The requests at work are lost.  The key file may be lost with the container:
\* a new one is made.
SettingsRestart ==
  /\ restarts < MaxRestarts
  /\ UNCHANGED <<storedSwitch, storedProfile, storedBundle>>
  /\ cipher' \in {cipher, cipher + 1}
  /\ BootConfig'.host \in BootHosts \union {NoHost}
  /\ switch' = BootSwitch
  /\ active' = BootConfig'
  /\ handler' = [r \in Handlers |-> Idle]
  /\ restarts' = restarts + 1 /\ overlapped' = {} /\ lastPut' = "none"
  /\ UNCHANGED requests

----------------------------------------------------------------------------
(* The handlers *)

Starts(r, kind, local) ==
  /\ requests < MaxRequests
  /\ requests' = requests + 1
  /\ handler[r] = Idle
  /\ handler' = [handler EXCEPT ![r] = local]
  /\ overlapped' = IF Busy(kind) THEN overlapped \union {kind} ELSE overlapped \ {kind}

Goes(r, next) == handler' = [handler EXCEPT ![r].step = next]
Ends(r)       == handler' = [handler EXCEPT ![r] = Idle]

\* SetKillSwitch sets the switch in memory,
SetSwitch(r, on) ==
  /\ Starts(r, "switch", [Idle EXCEPT !.step = "switch set", !.on = on])
  /\ switch' = on
  /\ UNCHANGED <<active, store, restarts, lastPut>>

\* Mutant: a failed write leaves the switch as it was asked for.
PersistOrKeep(r) ==
  /\ handler[r].step = "switch set"
  /\ \/ storedSwitch' = IF handler[r].on THEN "true" ELSE "false"
     \/ StoreFaults /\ UNCHANGED storedSwitch
  /\ Ends(r)
  /\ UNCHANGED <<memory, storedProfile, storedBundle, cipher, requests, restarts,
                 overlapped, lastPut>>

\* and then in the store; a failed write turns it on.
PersistSwitch(r) ==
  /\ handler[r].step = "switch set"
  /\ \/ /\ storedSwitch' = IF handler[r].on THEN "true" ELSE "false"
        /\ UNCHANGED switch
     \/ /\ StoreFaults
        /\ switch' = TRUE
        /\ UNCHANGED storedSwitch
  /\ Ends(r)
  /\ UNCHANGED <<active, storedProfile, storedBundle, cipher,
                 requests, restarts, overlapped, lastPut>>

\* Mutant: the profile is saved before the provider's client has checked it.
ReadUnchecked(r, profile, given) ==
  /\ Starts(r, "connection", [Idle EXCEPT !.step = "read", !.profile = profile,
                !.given = given, !.key = given, !.bundle = storedBundle])
  /\ UNCHANGED <<settings, restarts, lastPut>>

\* The PUT of a connection: the bundle is read, the request is checked.  A key
\* that was entered makes the profile refer to the encrypted store.
ReadConnection(r, profile, given) ==
  LET asked == IF given = NoKey THEN profile
               ELSE [profile EXCEPT !.ref = "ENCRYPTED_LLM_API_KEY"]
      key   == IF given = NoKey THEN Resolve(profile.ref) ELSE given
  IN /\ profile.host \in ApiHosts
     /\ key # NoKey \/ Configured(active)
     /\ Starts(r, "connection", [Idle EXCEPT !.step = "read", !.profile = asked,
                   !.given = given, !.key = key, !.bundle = storedBundle])
     /\ UNCHANGED <<settings, restarts, lastPut>>

\* The bundle that was read keeps its key unless one was entered; without a
\* bundle the profile is saved alone.
NextBundle(h) ==
  IF h.given # NoKey THEN [profile |-> h.profile, key |-> h.given, cipher |-> cipher]
  ELSE IF h.bundle # NoBundle THEN [h.bundle EXCEPT !.profile = h.profile]
  ELSE NoBundle

\* Mutant: without a key the profile is saved alone, bundle or not.
SaveProfileAlone(r) ==
  LET h == handler[r]
  IN /\ h.step = "read"
     /\ IF h.given = NoKey
          THEN storedProfile' = h.profile /\ UNCHANGED storedBundle
          ELSE storedBundle' = NextBundle(h) /\ UNCHANGED storedProfile
     /\ Goes(r, "saved")
     /\ UNCHANGED <<memory, storedSwitch, cipher, requests, restarts, overlapped, lastPut>>

SaveConnection(r) ==
  LET bundle == NextBundle(handler[r])
  IN /\ handler[r].step = "read"
     /\ \/ /\ IF bundle = NoBundle
                THEN storedProfile' = handler[r].profile /\ UNCHANGED storedBundle
                ELSE storedBundle' = bundle /\ UNCHANGED storedProfile
           /\ Goes(r, "saved")
           /\ UNCHANGED lastPut
        \/ /\ StoreFaults
           /\ Ends(r)
           /\ lastPut' = "failed"
           /\ UNCHANGED <<storedProfile, storedBundle>>
  /\ UNCHANGED <<memory, storedSwitch, cipher, requests, restarts, overlapped>>

\* Reconfigure reads the key in use under one lock when it was given none,
ReadKey(r) ==
  /\ handler[r].step = "saved"
  /\ handler' = [handler EXCEPT ![r].step = "key read",
                   ![r].key = IF @ = NoKey THEN active.key ELSE @]
  /\ UNCHANGED <<settings, requests, restarts, overlapped, lastPut>>

\* and replaces the configuration under another; the request is answered.  The
\* handler turns the reasoning mode to the provider as well: one of the changes
\* of Proposals' ChangeModes.
Activate(r) ==
  /\ handler[r].step = "key read"
  /\ active' = [host |-> handler[r].profile.host, key |-> handler[r].key]
  /\ lastPut' = IF handler[r].given = NoKey THEN "saved" ELSE "saved with key"
  /\ Ends(r)
  /\ UNCHANGED <<switch, store, requests, restarts, overlapped>>

SettingsNext(r) ==
  \/ PersistSwitch(r)
  \/ SaveConnection(r)
  \/ ReadKey(r)
  \/ Activate(r)
----------------------------------------------------------------------------
\* No request changes a setting of the kind, and the last ones did not overlap.
Settled(kind) == ~Busy(kind) /\ kind \notin overlapped

\* When actions may run, a restart does not find that they may not: the switch
\* is off in memory only when the next start would find it off.
SwitchOffIsRecorded == Settled("switch") /\ ~switch => ~BootSwitch

\* The connection the console answered for is the one a restart loads: with its
\* key when one was entered; when none was, at the same endpoint at least, as
\* long as the stored key can be decrypted.
SavedConnectionReloads ==
  Settled("connection") =>
    /\ lastPut = "saved with key" => BootConfig = active
    /\ lastPut = "saved" /\ (storedBundle = NoBundle \/ Readable(storedBundle)) =>
         BootConfig.host = active.host

\* The server can start with any connection it has stored.
CanRestart == BootConfig.host \in BootHosts \union {NoHost}
=============================================================================
