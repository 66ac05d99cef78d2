---------------------------- MODULE ConsoleProofs ----------------------------
(***************************************************************************)
(* Proofs about Console, for every set of users, requests, endpoints and   *)
(* keys, with failing writes and a restart anywhere.                       *)
(***************************************************************************)
EXTENDS Console, FiniteSetTheorems, TLAPS

ConnectionSteps == {"read", "saved", "key read"}

Bundles == {NoBundle} \union
           [profile : [host : ApiHosts, ref : References], key : AllKeys, cipher : Nat]

Locals == [step : Steps, on : BOOLEAN,
           profile : [host : ApiHosts \union {NoHost}, ref : References],
           given : Keys \union {NoKey}, key : AllKeys, bundle : Bundles]

\* Only endpoints that the handler has accepted get anywhere.
SettingsTypeOK ==
  /\ switch \in BOOLEAN /\ storedSwitch \in {"none", "true", "false"}
  /\ active \in [host : ApiHosts \union {NoHost}, key : AllKeys]
  /\ storedProfile \in [host : ApiHosts \union {NoHost}, ref : References]
  /\ storedBundle \in Bundles
  /\ cipher \in Nat
  /\ handler \in [Handlers -> Locals]
  /\ overlapped \subseteq {"switch", "connection"}
  /\ \A r \in Handlers : handler[r].step \in ConnectionSteps => handler[r].profile.host \in ApiHosts

\* A request on the switch that nothing overlaps: memory is what it asked for.
SwitchInv ==
  "switch" \notin overlapped =>
    /\ \A r, s \in Handlers :
         handler[r].step = "switch set" /\ handler[s].step = "switch set" => r = s
    /\ \A r \in Handlers : handler[r].step = "switch set" => switch = handler[r].on

\* A change of the connection that nothing overlaps: the bundle it has read is
\* the stored one, and then the stored one is what it will activate.
Stored(h) ==
  /\ h.given # NoKey =>
       /\ h.key = h.given
       /\ BootConfig = [host |-> h.profile.host, key |-> h.given]
  /\ h.given = NoKey /\ (storedBundle = NoBundle \/ Readable(storedBundle)) =>
       BootConfig.host = h.profile.host

ConnectionInv ==
  "connection" \notin overlapped =>
    /\ \A r, s \in Handlers :
         handler[r].step \in ConnectionSteps /\ handler[s].step \in ConnectionSteps => r = s
    /\ \A r \in Handlers :
         /\ handler[r].step = "read" =>
              /\ handler[r].bundle = storedBundle
              /\ handler[r].given # NoKey => handler[r].key = handler[r].given
         /\ handler[r].step \in {"saved", "key read"} => Stored(handler[r])

\* A handler at work was let in as an administrator's.
ByAdmins ==
  \A r \in Handlers :
    handler[r].step # "idle" => by[r] # NoUser /\ by[r] \in Users /\ RoleOf[by[r]] = "admin"

SessionsOK == sessions \in [Tokens -> [user : Users \union {NoUser}, expires : Int]]
              /\ now \in Int /\ by \in [Handlers -> Users \union {NoUser}]

Inv ==
  /\ SettingsTypeOK /\ SwitchInv /\ ConnectionInv /\ SessionsOK /\ ByAdmins
  /\ SwitchOffIsRecorded /\ SavedConnectionReloads
----------------------------------------------------------------------------
LEMMA BusySwitch == SettingsTypeOK => (Busy("switch") <=> \E r \in Handlers : handler[r].step = "switch set")
  BY DEF SettingsTypeOK, Busy, KindOf, Locals, Steps

LEMMA BusyConnection ==
  SettingsTypeOK => (Busy("connection") <=> \E r \in Handlers : handler[r].step \in ConnectionSteps)
  BY DEF SettingsTypeOK, Busy, KindOf, Locals, Steps, ConnectionSteps

LEMMA IdleLocal ==
  /\ Idle \in Locals /\ Idle.step = "idle"
  /\ NoProfile \in [host : ApiHosts \union {NoHost}, ref : References]
  /\ NoBundle \in Bundles
  BY DEF Idle, Locals, Steps, NoProfile, References, Bundles, NoBundle, AllKeys

LEMMA InitInv == Init => Inv
<1> SUFFICES ASSUME Init PROVE Inv
  OBVIOUS
<1> USE DEF Init, AccessInit, SettingsInit
<1>1. SettingsTypeOK
  <2>1. switch \in BOOLEAN
    BY SettingsAssumption DEF BootSwitch
  <2> QED
    BY <2>1, IdleLocal DEF SettingsTypeOK, ConnectionSteps, AllKeys
<1>2. \A r \in Handlers : handler[r].step = "idle"
  BY IdleLocal
<1>3. SwitchInv /\ ConnectionInv /\ ByAdmins
  BY <1>2 DEF SwitchInv, ConnectionInv, ByAdmins, ConnectionSteps
<1>4. SessionsOK
  BY AccessAssumption DEF SessionsOK, NoSession
<1>5. SwitchOffIsRecorded /\ SavedConnectionReloads
  BY DEF SwitchOffIsRecorded, SavedConnectionReloads, BootSwitch
<1> QED
  BY <1>1, <1>3, <1>4, <1>5 DEF Inv
----------------------------------------------------------------------------
(* A step of Access leaves the settings alone.                             *)

LEMMA AccessKeeps ==
  ASSUME Inv, AccessNext, UNCHANGED <<setting, by>>
  PROVE  Inv'
<1> USE DEF Inv, setting, settings, memory, store
<1>1. SettingsTypeOK' /\ SwitchInv' /\ ConnectionInv' /\ ByAdmins'
  BY DEF SettingsTypeOK, SwitchInv, ConnectionInv, ByAdmins, Stored, BootConfig, Readable
<1>2. SwitchOffIsRecorded' /\ SavedConnectionReloads'
  BY DEF SwitchOffIsRecorded, SavedConnectionReloads, Settled, Busy, BootSwitch, BootConfig, Readable
<1>3. SessionsOK'
  <2> USE AccessAssumption DEF SessionsOK
  <2>1. CASE Tick
    BY <2>1 DEF Tick
  <2>2. CASE LoginRefused \/ LoginFails
    BY <2>2 DEF LoginRefused, LoginFails
  <2>3. CASE \E u \in Users, t \in Tokens : Login(u, t)
    BY <2>3 DEF Login
  <2>4. CASE \E t \in Tokens : Logout(t)
    BY <2>4 DEF Logout, NoSession
  <2> QED
    BY <2>1, <2>2, <2>3, <2>4 DEF AccessNext
<1> QED
  BY <1>1, <1>2, <1>3

\* Who enters is an administrator.
LEMMA EntersOK ==
  ASSUME Inv, NEW r \in Handlers, NEW t \in Tokens, Enters(r, t),
         \A s \in Handlers \ {r} : handler'[s] = handler[s]
  PROVE  SessionsOK' /\ ByAdmins'
  BY DEF Inv, SessionsOK, ByAdmins, Enters, MayMutate, Authenticated, access

\* What the start of a request does to the handlers and the overlaps.
LEMMA StartsFacts ==
  ASSUME Inv, NEW r \in Handlers, NEW kind \in {"switch", "connection"}, NEW local \in Locals,
         Starts(r, kind, local)
  PROVE  /\ handler' \in [Handlers -> Locals]
         /\ handler'[r] = local
         /\ \A s \in Handlers \ {r} : handler'[s] = handler[s]
         /\ handler[r].step = "idle"
         /\ overlapped' \subseteq {"switch", "connection"}
         /\ \A k \in {"switch", "connection"} \ {kind} : k \in overlapped' <=> k \in overlapped
         /\ kind \notin overlapped' => ~Busy(kind)
  BY IdleLocal DEF Starts, Inv, SettingsTypeOK

LEMMA SwitchAsked ==
  ASSUME Inv, NEW r \in Handlers, NEW t \in Tokens, NEW on \in BOOLEAN, RequestSwitch(r, t, on)
  PROVE  Inv'
<1> DEFINE local == [Idle EXCEPT !.step = "switch set", !.on = on]
<1> USE DEF Inv
<1>1. local \in Locals /\ local.step = "switch set" /\ local.on = on
  BY IdleLocal DEF Locals, Steps, Idle
<1>2. Starts(r, "switch", local) /\ Enters(r, t) /\ switch' = on
  BY DEF RequestSwitch, SetSwitch
<1>3. UNCHANGED <<active, storedSwitch, storedProfile, storedBundle, cipher, lastPut>>
  BY DEF RequestSwitch, SetSwitch, store
<1> HIDE DEF local
<1>4. /\ handler' \in [Handlers -> Locals] /\ handler'[r] = local
      /\ \A s \in Handlers \ {r} : handler'[s] = handler[s]
      /\ handler[r].step = "idle"
      /\ overlapped' \subseteq {"switch", "connection"}
      /\ "connection" \in overlapped' <=> "connection" \in overlapped
      /\ "switch" \notin overlapped' => ~Busy("switch")
  BY <1>1, <1>2, StartsFacts
<1>5. SettingsTypeOK'
  BY <1>1, <1>2, <1>3, <1>4 DEF SettingsTypeOK, ConnectionSteps
<1>6. SwitchInv'
  BY <1>1, <1>2, <1>4, BusySwitch DEF SwitchInv
<1>7. \A s \in Handlers : handler'[s].step \in ConnectionSteps =>
        s # r /\ handler'[s] = handler[s]
  BY <1>1, <1>4 DEF ConnectionSteps
<1>8. ConnectionInv'
  BY <1>3, <1>4, <1>7 DEF ConnectionInv, Stored, BootConfig, Readable, ConnectionSteps
<1>9. SwitchOffIsRecorded'
  BY <1>1, <1>4, <1>5, BusySwitch DEF SwitchOffIsRecorded, Settled, Busy, KindOf
<1>10. SavedConnectionReloads'
  <2>1. Busy("connection") => Busy("connection")'
    BY <1>4, <1>1 DEF Busy, KindOf
  <2> QED
    BY <1>3, <1>4, <2>1 DEF SavedConnectionReloads, Settled, BootConfig, Readable
<1>11. SessionsOK' /\ ByAdmins'
  BY <1>2, <1>4, EntersOK
<1> QED
  BY <1>5, <1>6, <1>8, <1>9, <1>10, <1>11

LEMMA ConnectionAsked ==
  ASSUME Inv, NEW r \in Handlers, NEW t \in Tokens, NEW profile \in Profiles,
         NEW given \in Keys \union {NoKey}, RequestConnection(r, t, profile, given)
  PROVE  Inv'
<1> DEFINE asked == IF given = NoKey THEN profile
                    ELSE [profile EXCEPT !.ref = "ENCRYPTED_LLM_API_KEY"]
           key   == IF given = NoKey THEN Resolve(profile.ref) ELSE given
           local == [Idle EXCEPT !.step = "read", !.profile = asked, !.given = given,
                       !.key = key, !.bundle = storedBundle]
<1> USE DEF Inv
<1>1. profile.host \in ApiHosts /\ Starts(r, "connection", local) /\ Enters(r, t)
  BY DEF RequestConnection, ReadConnection
<1>2. UNCHANGED settings /\ UNCHANGED lastPut
  BY DEF RequestConnection, ReadConnection
<1>3. asked \in [host : ApiHosts, ref : References] /\ asked.host = profile.host
  BY <1>1 DEF Profiles, References
<1>4. key \in AllKeys
  BY DEF Resolve, AllKeys
<1> HIDE DEF asked, key
<1>5. /\ local \in Locals /\ local.step = "read" /\ local.profile = asked
      /\ local.given = given /\ local.key = key /\ local.bundle = storedBundle
  BY <1>3, <1>4, IdleLocal DEF Locals, Steps, Idle, SettingsTypeOK
<1>6. given # NoKey => key = given
  BY DEF key
<1> HIDE DEF local
<1>7. /\ handler' \in [Handlers -> Locals] /\ handler'[r] = local
      /\ \A s \in Handlers \ {r} : handler'[s] = handler[s]
      /\ handler[r].step = "idle"
      /\ overlapped' \subseteq {"switch", "connection"}
      /\ "switch" \in overlapped' <=> "switch" \in overlapped
      /\ "connection" \notin overlapped' => ~Busy("connection")
  BY <1>1, <1>5, StartsFacts
<1>8. SettingsTypeOK'
  BY <1>1, <1>2, <1>3, <1>5, <1>7 DEF SettingsTypeOK, settings, memory, store
<1>9. SwitchInv'
  BY <1>2, <1>5, <1>7 DEF SwitchInv, settings, memory
<1>10. ConnectionInv'
  <2> SUFFICES ASSUME "connection" \notin overlapped' PROVE ConnectionInv'
    BY DEF ConnectionInv
  <2>1. \A s \in Handlers : handler'[s].step \in ConnectionSteps => s = r
    BY <1>7, BusyConnection
  <2>2. handler'[r].step = "read" /\ handler'[r].bundle = storedBundle'
    BY <1>2, <1>5, <1>7 DEF settings, store
  <2>3. handler'[r].given # NoKey => handler'[r].key = handler'[r].given
    BY <1>5, <1>6, <1>7
  <2> QED
    BY <2>1, <2>2, <2>3 DEF ConnectionInv, ConnectionSteps
<1>11. SwitchOffIsRecorded'
  <2>1. Busy("switch") => Busy("switch")'
    BY <1>7 DEF Busy, KindOf
  <2> QED
    BY <1>2, <1>7, <2>1 DEF SwitchOffIsRecorded, Settled, BootSwitch, settings, memory, store
<1>12. SavedConnectionReloads'
  BY <1>5, <1>7, <1>8, BusyConnection DEF SavedConnectionReloads, Settled, Busy, KindOf
<1>13. SessionsOK' /\ ByAdmins'
  BY <1>1, <1>7, EntersOK
<1> QED
  BY <1>8, <1>9, <1>10, <1>11, <1>12, <1>13

\* What the end of a request does to the handlers.
LEMMA EndsFacts ==
  ASSUME Inv, NEW r \in Handlers, Ends(r)
  PROVE  /\ handler' \in [Handlers -> Locals]
         /\ handler'[r].step = "idle"
         /\ \A s \in Handlers \ {r} : handler'[s] = handler[s]
  BY IdleLocal DEF Ends, Inv, SettingsTypeOK

LEMMA SwitchPersisted ==
  ASSUME Inv, NEW r \in Handlers, PersistSwitch(r), UNCHANGED <<access, by>>
  PROVE  Inv'
<1> USE DEF Inv
<1>1. /\ handler[r].step = "switch set" /\ Ends(r)
      /\ UNCHANGED <<active, storedProfile, storedBundle, cipher, overlapped, lastPut>>
      /\ \/ switch' = switch /\ storedSwitch' = IF handler[r].on THEN "true" ELSE "false"
         \/ switch' = TRUE /\ storedSwitch' = storedSwitch
  BY DEF PersistSwitch
<1>2. /\ handler' \in [Handlers -> Locals] /\ handler'[r].step = "idle"
      /\ \A s \in Handlers \ {r} : handler'[s] = handler[s]
  BY <1>1, EndsFacts
<1>3. SettingsTypeOK'
  BY <1>1, <1>2 DEF SettingsTypeOK, ConnectionSteps
<1>4. SwitchInv'
  <2> SUFFICES ASSUME "switch" \notin overlapped PROVE SwitchInv'
    BY <1>1 DEF SwitchInv
  <2>1. \A s \in Handlers : handler'[s].step # "switch set"
    BY <1>1, <1>2 DEF SwitchInv
  <2> QED
    BY <2>1 DEF SwitchInv
<1>5. \A s \in Handlers : handler'[s].step \in ConnectionSteps =>
        s # r /\ handler'[s] = handler[s]
  BY <1>2 DEF ConnectionSteps
<1>6. ConnectionInv'
  BY <1>1, <1>5 DEF ConnectionInv, Stored, BootConfig, Readable, ConnectionSteps
<1>7. SwitchOffIsRecorded'
  <2> SUFFICES ASSUME "switch" \notin overlapped, ~switch' PROVE ~BootSwitch'
    BY <1>1 DEF SwitchOffIsRecorded, Settled
  <2>1. switch = handler[r].on
    BY <1>1 DEF SwitchInv
  <2>2. ~handler[r].on /\ storedSwitch' = "false"
    BY <1>1, <2>1 DEF SettingsTypeOK
  <2> QED
    BY <2>2 DEF BootSwitch
<1>8. SavedConnectionReloads'
  <2>1. Busy("connection") => Busy("connection")'
    BY <1>1, <1>2 DEF Busy, KindOf
  <2> QED
    BY <1>1, <2>1 DEF SavedConnectionReloads, Settled, BootConfig, Readable
<1>9. SessionsOK' /\ ByAdmins'
  BY <1>2 DEF SessionsOK, ByAdmins, access
<1> QED
  BY <1>3, <1>4, <1>6, <1>7, <1>8, <1>9

LEMMA ConnectionSaved ==
  ASSUME Inv, NEW r \in Handlers, SaveConnection(r), UNCHANGED <<access, by>>
  PROVE  Inv'
<1> DEFINE h == handler[r]
           next == NextBundle(h)
<1> USE DEF Inv
<1>1. /\ h.step = "read"
      /\ UNCHANGED <<switch, active, storedSwitch, cipher, overlapped>>
      /\ \/ /\ IF next = NoBundle
                 THEN storedProfile' = h.profile /\ UNCHANGED storedBundle
                 ELSE storedBundle' = next /\ UNCHANGED storedProfile
            /\ Goes(r, "saved") /\ UNCHANGED lastPut
         \/ /\ Ends(r) /\ lastPut' = "failed"
            /\ UNCHANGED <<storedProfile, storedBundle>>
  BY DEF SaveConnection, memory
<1>2. /\ h \in Locals /\ h.profile \in [host : ApiHosts, ref : References]
      /\ h.profile.host # NoHost
  BY <1>1, SettingsAssumption DEF SettingsTypeOK, ConnectionSteps, Locals
<1>3. /\ next \in Bundles
      /\ next # NoBundle => next.profile = h.profile
      /\ h.given # NoKey => next # NoBundle /\ next.key = h.given /\ next.cipher = cipher
      /\ h.given = NoKey => (next = NoBundle <=> h.bundle = NoBundle)
  <2>1. CASE h.given # NoKey
    <3>1. next = [profile |-> h.profile, key |-> h.given, cipher |-> cipher]
      BY <2>1 DEF NextBundle
    <3>2. h.given \in AllKeys /\ cipher \in Nat
      BY <1>2 DEF Locals, AllKeys, SettingsTypeOK
    <3>3. next # NoBundle
      BY <1>2, <3>1 DEF NoBundle, NoProfile
    <3> QED
      BY <1>2, <2>1, <3>1, <3>2, <3>3 DEF Bundles
  <2>2. CASE h.given = NoKey /\ h.bundle # NoBundle
    <3>1. next = [h.bundle EXCEPT !.profile = h.profile]
      BY <2>2 DEF NextBundle
    <3>2. h.bundle \in [profile : [host : ApiHosts, ref : References], key : AllKeys, cipher : Nat]
      BY <1>2, <2>2 DEF Locals, Bundles
    <3>3. /\ next \in [profile : [host : ApiHosts, ref : References], key : AllKeys, cipher : Nat]
          /\ next.profile = h.profile
      BY <1>2, <3>1, <3>2
    <3>4. next # NoBundle
      BY <1>2, <3>3 DEF NoBundle, NoProfile
    <3> QED
      BY <2>2, <3>3, <3>4 DEF Bundles
  <2>3. CASE h.given = NoKey /\ h.bundle = NoBundle
    BY <2>3, IdleLocal DEF NextBundle
  <2> QED
    BY <2>1, <2>2, <2>3
<1> HIDE DEF next, h
<1>4. /\ handler' \in [Handlers -> Locals]
      /\ \A s \in Handlers \ {r} : handler'[s] = handler[s]
      /\ Goes(r, "saved") => handler'[r] = [h EXCEPT !.step = "saved"]
      /\ Ends(r) => handler'[r].step = "idle"
  <2>1. ASSUME Goes(r, "saved")
        PROVE  /\ handler' \in [Handlers -> Locals]
               /\ \A s \in Handlers \ {r} : handler'[s] = handler[s]
               /\ handler'[r] = [h EXCEPT !.step = "saved"]
    <3>1. handler' = [handler EXCEPT ![r] = [h EXCEPT !.step = "saved"]]
      BY <2>1 DEF Goes, h
    <3>2. [h EXCEPT !.step = "saved"] \in Locals
      BY <1>2 DEF Locals, Steps
    <3> QED
      BY <3>1, <3>2 DEF SettingsTypeOK
  <2>2. Ends(r) => /\ handler' \in [Handlers -> Locals]
                   /\ \A s \in Handlers \ {r} : handler'[s] = handler[s]
                   /\ handler'[r].step = "idle"
    BY EndsFacts
  <2> QED
    BY <1>1, <2>1, <2>2
<1>5. handler'[r].step \in {"idle", "saved"} /\ h = handler[r]
  BY <1>1, <1>2, <1>4 DEF Locals, h
<1>6. SettingsTypeOK'
  <2>1. handler'[r].step \in ConnectionSteps => handler'[r].profile.host \in ApiHosts
    BY <1>1, <1>2, <1>4, <1>5 DEF ConnectionSteps, Locals
  <2>2. storedBundle' \in Bundles
    BY <1>1, <1>3 DEF SettingsTypeOK
  <2>3. storedProfile' \in [host : ApiHosts \union {NoHost}, ref : References]
    BY <1>1, <1>2 DEF SettingsTypeOK
  <2> QED
    BY <1>1, <1>4, <2>1, <2>2, <2>3 DEF SettingsTypeOK
<1>7. SwitchInv'
  BY <1>1, <1>4, <1>5 DEF SwitchInv
<1>8. \/ handler'[r].step = "idle"
      \/ /\ handler'[r] = [h EXCEPT !.step = "saved"] /\ lastPut' = lastPut
         /\ IF next = NoBundle
              THEN storedProfile' = h.profile /\ UNCHANGED storedBundle
              ELSE storedBundle' = next /\ UNCHANGED storedProfile
  BY <1>1, <1>4
<1>9. ConnectionInv'
  <2> SUFFICES ASSUME "connection" \notin overlapped PROVE ConnectionInv'
    BY <1>1 DEF ConnectionInv
  <2>1. h.bundle = storedBundle /\ (h.given # NoKey => h.key = h.given)
    BY <1>1, <1>5 DEF ConnectionInv
  <2>2. \A s \in Handlers : handler'[s].step \in ConnectionSteps => s = r
    BY <1>1, <1>4, <1>5 DEF ConnectionInv, ConnectionSteps
  <2>3. handler'[r].step = "saved" => Stored(handler[r])'
    <3> SUFFICES ASSUME handler'[r].step = "saved" PROVE Stored(handler[r])'
      OBVIOUS
    <3>1. /\ handler'[r].given = h.given /\ handler'[r].key = h.key
          /\ handler'[r].profile = h.profile
      BY <1>2, <1>8 DEF Locals
    <3>2. CASE h.given # NoKey
      <4>1. storedBundle' = next /\ Readable(storedBundle)'
        BY <1>1, <1>3, <1>8, <3>2 DEF Readable
      <4>2. BootConfig' = [host |-> h.profile.host, key |-> h.given]
        BY <1>3, <3>2, <4>1 DEF BootConfig
      <4> QED
        BY <2>1, <3>1, <3>2, <4>2 DEF Stored
    <3>3. CASE h.given = NoKey /\ next = NoBundle
      <4>1. storedBundle' = NoBundle /\ storedProfile' = h.profile
        BY <1>3, <1>8, <2>1, <3>3
      <4>2. BootConfig'.host = h.profile.host
        BY <4>1 DEF BootConfig, Readable
      <4> QED
        BY <3>1, <3>3, <4>2 DEF Stored
    <3>4. CASE h.given = NoKey /\ next # NoBundle
      <4>1. storedBundle' = next /\ storedBundle' # NoBundle /\ next.profile = h.profile
        BY <1>3, <1>8, <3>4
      <4>2. Readable(storedBundle)' => BootConfig'.host = h.profile.host
        BY <4>1 DEF BootConfig
      <4> QED
        BY <3>1, <3>4, <4>1, <4>2 DEF Stored
    <3> QED
      BY <3>2, <3>3, <3>4
  <2> QED
    BY <1>5, <2>2, <2>3 DEF ConnectionInv, ConnectionSteps
<1>10. SwitchOffIsRecorded'
  <2>1. Busy("switch") => Busy("switch")'
    BY <1>1, <1>4, <1>5 DEF Busy, KindOf
  <2> QED
    BY <1>1, <2>1 DEF SwitchOffIsRecorded, Settled, BootSwitch
<1>11. SavedConnectionReloads'
  <2>1. CASE Goes(r, "saved")
    <3>1. Busy("connection")'
      BY <1>1, <1>4, <1>5, <2>1, <1>2 DEF Busy, KindOf, Goes, SettingsTypeOK, Locals
    <3> QED
      BY <3>1 DEF SavedConnectionReloads, Settled
  <2>2. CASE lastPut' = "failed"
    BY <2>2 DEF SavedConnectionReloads
  <2> QED
    BY <1>1, <2>1, <2>2
<1>12. SessionsOK' /\ ByAdmins'
  BY <1>1, <1>4, <1>5 DEF SessionsOK, ByAdmins, access
<1> QED
  BY <1>6, <1>7, <1>9, <1>10, <1>11, <1>12

LEMMA KeyRead ==
  ASSUME Inv, NEW r \in Handlers, ReadKey(r), UNCHANGED <<access, by>>
  PROVE  Inv'
<1> DEFINE h == handler[r]
<1> USE DEF Inv
<1>1. /\ h.step = "saved" /\ UNCHANGED <<settings, overlapped, lastPut>>
      /\ handler' = [handler EXCEPT ![r].step = "key read",
                       ![r].key = IF @ = NoKey THEN active.key ELSE @]
  BY DEF ReadKey
<1>2. h \in Locals /\ active.key \in AllKeys /\ h.profile.host \in ApiHosts
  BY <1>1 DEF SettingsTypeOK, ConnectionSteps
<1>3. /\ handler' \in [Handlers -> Locals]
      /\ \A s \in Handlers \ {r} : handler'[s] = handler[s]
      /\ handler'[r].step = "key read" /\ handler'[r].given = h.given
      /\ handler'[r].profile = h.profile
      /\ h.key # NoKey => handler'[r].key = h.key
  BY <1>1, <1>2 DEF SettingsTypeOK, Locals, Steps
<1>4. SettingsTypeOK'
  BY <1>1, <1>2, <1>3 DEF SettingsTypeOK, settings, memory, store
<1>5. SwitchInv'
  BY <1>1, <1>3 DEF SwitchInv, settings, memory
<1>6. ConnectionInv'
  <2> SUFFICES ASSUME "connection" \notin overlapped PROVE ConnectionInv'
    BY <1>1 DEF ConnectionInv
  <2>1. Stored(h) /\ \A s \in Handlers : handler'[s].step \in ConnectionSteps => s = r
    BY <1>1, <1>3 DEF ConnectionInv, ConnectionSteps
  <2>2. Stored(handler[r])'
    BY <1>1, <1>3, <2>1 DEF Stored, BootConfig, Readable, settings, store
  <2> QED
    BY <1>3, <2>1, <2>2 DEF ConnectionInv, ConnectionSteps
<1>7. SwitchOffIsRecorded'
  <2>1. Busy("switch") => Busy("switch")'
    BY <1>1, <1>3 DEF Busy, KindOf
  <2> QED
    BY <1>1, <2>1 DEF SwitchOffIsRecorded, Settled, BootSwitch, settings, memory, store
<1>8. SavedConnectionReloads'
  BY <1>3, <1>4, BusyConnection DEF SavedConnectionReloads, Settled, Busy, KindOf
<1>9. SessionsOK' /\ ByAdmins'
  BY <1>1, <1>3 DEF SessionsOK, ByAdmins, access
<1> QED
  BY <1>4, <1>5, <1>6, <1>7, <1>8, <1>9

LEMMA Activated ==
  ASSUME Inv, NEW r \in Handlers, Activate(r), UNCHANGED <<access, by>>
  PROVE  Inv'
<1> DEFINE h == handler[r]
<1> USE DEF Inv
<1>1. /\ h.step = "key read" /\ Ends(r) /\ UNCHANGED <<switch, store, overlapped>>
      /\ active' = [host |-> h.profile.host, key |-> h.key]
      /\ lastPut' = IF h.given = NoKey THEN "saved" ELSE "saved with key"
  BY DEF Activate
<1>2. h \in Locals /\ h.profile.host \in ApiHosts
  BY <1>1 DEF SettingsTypeOK, ConnectionSteps
<1>3. /\ handler' \in [Handlers -> Locals] /\ handler'[r].step = "idle"
      /\ \A s \in Handlers \ {r} : handler'[s] = handler[s]
  BY <1>1, EndsFacts
<1>4. SettingsTypeOK'
  BY <1>1, <1>2, <1>3 DEF SettingsTypeOK, ConnectionSteps, Locals, store
<1>5. SwitchInv'
  BY <1>1, <1>3 DEF SwitchInv
<1>6. ConnectionInv'
  BY <1>1, <1>3 DEF ConnectionInv, ConnectionSteps, Stored, BootConfig, Readable, store
<1>7. SwitchOffIsRecorded'
  <2>1. Busy("switch") => Busy("switch")'
    BY <1>1, <1>3 DEF Busy, KindOf
  <2> QED
    BY <1>1, <2>1 DEF SwitchOffIsRecorded, Settled, BootSwitch, store
<1>8. SavedConnectionReloads'
  <2> SUFFICES ASSUME "connection" \notin overlapped PROVE SavedConnectionReloads'
    BY <1>1 DEF SavedConnectionReloads, Settled
  <2>1. Stored(h)
    BY <1>1 DEF ConnectionInv
  <2>2. CASE h.given # NoKey
    BY <1>1, <2>1, <2>2 DEF SavedConnectionReloads, Stored, BootConfig, Readable, store
  <2>3. CASE h.given = NoKey
    BY <1>1, <2>1, <2>3 DEF SavedConnectionReloads, Stored, BootConfig, Readable, store
  <2> QED
    BY <2>2, <2>3
<1>9. SessionsOK' /\ ByAdmins'
  BY <1>3 DEF SessionsOK, ByAdmins, access
<1> QED
  BY <1>4, <1>5, <1>6, <1>7, <1>8, <1>9

\* What the start of the server loads is something the handlers have accepted.
LEMMA BootLoads ==
  ASSUME SettingsTypeOK
  PROVE  BootConfig \in [host : ApiHosts \union {NoHost}, key : AllKeys]
  BY DEF SettingsTypeOK, BootConfig, Readable, Bundles, Resolve, AllKeys

LEMMA Restarted == ASSUME Inv, Restart PROVE Inv'
<1> USE DEF Inv
<1>1. /\ UNCHANGED <<storedSwitch, storedProfile, storedBundle, now, sessions>>
      /\ cipher' \in {cipher, cipher + 1}
      /\ switch' = BootSwitch /\ active' = BootConfig'
      /\ handler' = [r \in Handlers |-> Idle]
      /\ overlapped' = {} /\ lastPut' = "none"
      /\ by' = [r \in Handlers |-> NoUser]
  BY DEF Restart, SettingsRestart, AccessRestart
<1>2. handler' \in [Handlers -> Locals] /\ \A r \in Handlers : handler'[r].step = "idle"
  BY <1>1, IdleLocal
<1>3. BootConfig' \in [host : ApiHosts \union {NoHost}, key : AllKeys]
  BY <1>1 DEF SettingsTypeOK, BootConfig, Readable, Bundles, Resolve, AllKeys
<1>4. SettingsTypeOK'
  <2>1. switch' \in BOOLEAN /\ overlapped' \subseteq {"switch", "connection"}
    BY <1>1, SettingsAssumption DEF BootSwitch
  <2>2. cipher' \in Nat
    BY <1>1 DEF SettingsTypeOK
  <2>3. storedBundle' \in Bundles /\ storedSwitch' \in {"none", "true", "false"}
        /\ storedProfile' \in [host : ApiHosts \union {NoHost}, ref : References]
    BY <1>1 DEF SettingsTypeOK
  <2>4. active' \in [host : ApiHosts \union {NoHost}, key : AllKeys]
    BY <1>1, <1>3
  <2>5. \A r \in Handlers : handler'[r].step \notin ConnectionSteps
    BY <1>2 DEF ConnectionSteps
  <2> QED
    BY <1>2, <2>1, <2>2, <2>3, <2>4, <2>5 DEF SettingsTypeOK
<1>5. SwitchInv' /\ ConnectionInv' /\ ByAdmins'
  BY <1>2 DEF SwitchInv, ConnectionInv, ByAdmins, ConnectionSteps
<1>6. SwitchOffIsRecorded' /\ SavedConnectionReloads'
  BY <1>1 DEF SwitchOffIsRecorded, SavedConnectionReloads, BootSwitch
<1>7. SessionsOK'
  BY <1>1 DEF SessionsOK
<1> QED
  BY <1>4, <1>5, <1>6, <1>7

LEMMA StepInv == Inv /\ [Next]_vars => Inv'
<1> SUFFICES ASSUME Inv, [Next]_vars PROVE Inv'
  OBVIOUS
<1>1. CASE AccessNext /\ UNCHANGED <<setting, by>>
  BY <1>1, AccessKeeps
<1>2. ASSUME NEW t \in Tokens, NEW r \in Handlers, NEW on \in BOOLEAN, RequestSwitch(r, t, on)
      PROVE  Inv'
  BY <1>2, SwitchAsked
<1>3. ASSUME NEW t \in Tokens, NEW r \in Handlers, NEW profile \in Profiles,
             NEW given \in Keys \union {NoKey}, RequestConnection(r, t, profile, given)
      PROVE  Inv'
  BY <1>3, ConnectionAsked
<1>4. ASSUME NEW r \in Handlers, Work(r) PROVE Inv'
  BY <1>4, SwitchPersisted, ConnectionSaved, KeyRead, Activated DEF Work, SettingsNext
<1>5. CASE Restart
  BY <1>5, Restarted
<1>6. CASE UNCHANGED vars
  <2> USE <1>6 DEF Inv, vars, setting, settings, memory, store, access
  <2>1. SettingsTypeOK' /\ SwitchInv' /\ ConnectionInv' /\ SessionsOK' /\ ByAdmins'
    BY DEF SettingsTypeOK, SwitchInv, ConnectionInv, SessionsOK, ByAdmins, Stored, BootConfig, Readable
  <2>2. SwitchOffIsRecorded' /\ SavedConnectionReloads'
    BY DEF SwitchOffIsRecorded, SavedConnectionReloads, Settled, Busy, BootSwitch, BootConfig, Readable
  <2> QED
    BY <2>1, <2>2
<1> QED
  BY <1>1, <1>2, <1>3, <1>4, <1>5, <1>6 DEF Next
----------------------------------------------------------------------------
\* The settings stay well formed: whatever fails or races, only endpoints the
\* handler has accepted are stored and used.
THEOREM SettingsTyped == Spec => []SettingsTypeOK
<1>1. Inv => SettingsTypeOK
  BY DEF Inv
<1> QED
  BY <1>1, InitInv, StepInv, PTL DEF Spec

\* SetKillSwitch fails to the safe side: without overlapping requests the
\* switch is never off in memory and on in the store.
THEOREM SwitchSafe == Spec => []SwitchOffIsRecorded
<1>1. Inv => SwitchOffIsRecorded
  BY DEF Inv
<1> QED
  BY <1>1, InitInv, StepInv, PTL DEF Spec

\* A connection saved without an overlapping request is the one a restart loads.
THEOREM ConnectionReloads == Spec => []SavedConnectionReloads
<1>1. Inv => SavedConnectionReloads
  BY DEF Inv
<1> QED
  BY <1>1, InitInv, StepInv, PTL DEF Spec

\* Where main accepts every endpoint the handler accepts, no stored connection
\* keeps the server from starting.
THEOREM ServerRestarts == ASSUME ApiHosts \subseteq BootHosts PROVE Spec => []CanRestart
<1>1. Inv => CanRestart
  BY BootLoads DEF Inv, CanRestart
<1> QED
  BY <1>1, InitInv, StepInv, PTL DEF Spec

\* Restarts are told from other steps by their counter.
Counted == restarts \in Nat

\* Only requests of administrators change a setting.
THEOREM AdminsOnly == Spec => AdminsChangeSettings
<1> DEFINE Change == settings' # settings /\ restarts' = restarts =>
             \E r \in Handlers :
               handler'[r] # handler[r] /\ by'[r] # NoUser /\ RoleOf[by'[r]] = "admin"
<1>1. Inv /\ Counted /\ [Next]_vars => [Change]_vars
  <2> SUFFICES ASSUME Inv, Counted, Next, settings' # settings, restarts' = restarts
               PROVE  \E r \in Handlers :
                        handler'[r] # handler[r] /\ by'[r] # NoUser /\ RoleOf[by'[r]] = "admin"
    OBVIOUS
  <2>1. CASE AccessNext /\ UNCHANGED <<setting, by>>
    BY <2>1 DEF setting
  <2>2. ASSUME NEW t \in Tokens, NEW r \in Handlers, NEW on \in BOOLEAN, RequestSwitch(r, t, on)
        PROVE  handler'[r] # handler[r] /\ by'[r] # NoUser /\ RoleOf[by'[r]] = "admin"
    <3> DEFINE local == [Idle EXCEPT !.step = "switch set", !.on = on]
    <3>1. local \in Locals /\ local.step = "switch set"
      BY IdleLocal DEF Locals, Steps, Idle
    <3>2. Starts(r, "switch", local) /\ Enters(r, t)
      BY <2>2 DEF RequestSwitch, SetSwitch
    <3> HIDE DEF local
    <3>3. /\ handler'[r].step = "switch set" /\ handler[r].step = "idle"
          /\ \A s \in Handlers \ {r} : handler'[s] = handler[s]
      BY <3>1, <3>2, StartsFacts
    <3>4. ByAdmins'
      BY <3>2, <3>3, EntersOK
    <3> QED
      BY <3>3, <3>4 DEF ByAdmins
  <2>3. ASSUME NEW t \in Tokens, NEW r \in Handlers, NEW profile \in Profiles,
               NEW given \in Keys \union {NoKey}, RequestConnection(r, t, profile, given)
        PROVE  FALSE
    BY <2>3 DEF RequestConnection, ReadConnection
  <2>4. ASSUME NEW r \in Handlers, Work(r)
        PROVE  handler'[r] # handler[r] /\ by'[r] # NoUser /\ RoleOf[by'[r]] = "admin"
    <3>1. handler[r].step # "idle" /\ by' = by
      BY <2>4 DEF Work, SettingsNext, PersistSwitch, SaveConnection, ReadKey, Activate
    <3>2. handler'[r] # handler[r]
      <4>1. CASE Ends(r)
        BY <3>1, <4>1, EndsFacts
      <4>2. CASE SaveConnection(r) /\ Goes(r, "saved")
        BY <4>2 DEF SaveConnection, Goes, Inv, SettingsTypeOK, Locals
      <4>3. CASE ReadKey(r)
        BY <4>3 DEF ReadKey
      <4> QED
        BY <2>4, <4>1, <4>2, <4>3 DEF Work, SettingsNext, PersistSwitch, SaveConnection, Activate
    <3> QED
      BY <3>1, <3>2 DEF Inv, ByAdmins
  <2>5. CASE Restart
    BY <2>5 DEF Restart, SettingsRestart, Counted
  <2> QED
    BY <2>1, <2>2, <2>3, <2>4, <2>5 DEF Next
<1>2. Init => Counted
  BY DEF Init, SettingsInit, Counted
<1>3. Counted /\ [Next]_vars => Counted'
  <2> SUFFICES ASSUME Counted, [Next]_vars PROVE Counted'
    OBVIOUS
  <2>1. CASE Restart
    BY <2>1 DEF Restart, SettingsRestart, Counted
  <2>2. CASE ~Restart
    <3>1. restarts' = restarts
      BY <2>2 DEF Next, Work, SettingsNext, PersistSwitch, SaveConnection, ReadKey, Activate,
             RequestSwitch, SetSwitch, RequestConnection, ReadConnection, vars, setting
    <3> QED
      BY <3>1 DEF Counted
  <2> QED
    BY <2>1, <2>2
<1> QED
  BY <1>1, <1>2, <1>3, InitInv, StepInv, PTL DEF Spec, AdminsChangeSettings
----------------------------------------------------------------------------
(* The limiter. *)

(* The list it keeps has every attempt it let through that still counts,   *)
(* and none it did not; the numbers tell the attempts of one time apart.   *)
LimiterInv ==
  /\ now \in Int
  /\ IsFiniteSet(admitted) /\ \A x \in admitted : x.at \in Int /\ x.nth \in Nat
  /\ \A x \in admitted : x.nth < Cardinality(admitted)
  /\ attempts \subseteq admitted
  /\ Within(admitted) \subseteq attempts
  /\ Cardinality(Within(admitted)) <= Limit

LEMMA CountsAlike == LimiterInv => Within(attempts) = Within(admitted)
  BY DEF LimiterInv, Within

LEMMA AllowKeepsLimit ==
  ASSUME LimiterInv, Allow, now' = now PROVE LimiterInv'
<1> DEFINE this == [at |-> now, nth |-> Cardinality(admitted)]
<1> USE DEF LimiterInv
<1>1. /\ attempts' = Within(attempts) \union {this}
      /\ admitted' = admitted \union {this}
      /\ Cardinality(Within(attempts)) < Limit
  BY DEF Allow
<1>2. Cardinality(admitted) \in Nat /\ this \notin admitted
  BY FS_CardinalityType
<1>3. /\ IsFiniteSet(admitted') /\ Cardinality(admitted') = Cardinality(admitted) + 1
      /\ this.at = now /\ this.nth = Cardinality(admitted)
  BY <1>1, <1>2, FS_AddElement
<1>4. \A x \in admitted' : x.at \in Int /\ x.nth \in Nat /\ x.nth < Cardinality(admitted')
  BY <1>1, <1>2, <1>3
<1> HIDE DEF this
<1>5. this.at > now - Window
  BY <1>3, AccessAssumption
<1>6. Within(admitted)' = Within(admitted) \union {this}
  BY <1>1, <1>5 DEF Within
<1>7. IsFiniteSet(Within(admitted)) /\ Within(admitted) \subseteq admitted
  BY FS_Subset DEF Within
<1>8. Cardinality(Within(admitted)') = Cardinality(Within(admitted)) + 1
  BY <1>2, <1>6, <1>7, FS_AddElement
<1>9. Cardinality(Within(admitted)) < Limit /\ Cardinality(Within(admitted)) \in Nat
  BY <1>1, <1>7, CountsAlike, FS_CardinalityType
<1>10. Cardinality(Within(admitted)') <= Limit
  BY <1>8, <1>9, AccessAssumption
<1>11. attempts' \subseteq admitted' /\ Within(admitted)' \subseteq attempts'
  BY <1>1, <1>6, CountsAlike, <1>7
<1> QED
  BY <1>3, <1>4, <1>10, <1>11

\* Time only takes attempts out of the window.
LEMMA TickKeepsLimit ==
  ASSUME LimiterInv, now' = now + 1, UNCHANGED <<attempts, admitted>> PROVE LimiterInv'
<1> USE DEF LimiterInv
<1>1. Within(admitted)' \subseteq Within(admitted)
  BY AccessAssumption DEF Within
<1>2. IsFiniteSet(Within(admitted))
  BY FS_Subset DEF Within
<1>3. Cardinality(Within(admitted)') <= Cardinality(Within(admitted))
  BY <1>1, <1>2, FS_Subset
<1>4. Cardinality(Within(admitted)') \in Nat /\ Cardinality(Within(admitted)) \in Nat
  BY <1>1, <1>2, FS_Subset, FS_CardinalityType
<1>5. Cardinality(Within(admitted)') <= Limit
  BY <1>3, <1>4, AccessAssumption
<1> QED
  BY <1>1, <1>5

LEMMA StepKeepsLimit == LimiterInv /\ [Next]_vars => LimiterInv'
<1> SUFFICES ASSUME LimiterInv, [Next]_vars PROVE LimiterInv'
  OBVIOUS
<1>1. CASE UNCHANGED <<now, attempts, admitted>>
  BY <1>1 DEF LimiterInv, Within
<1>2. CASE Tick
  BY <1>2, TickKeepsLimit DEF Tick
<1>3. CASE LoginFails \/ \E u \in Users, t \in Tokens : Login(u, t)
  BY <1>3, AllowKeepsLimit DEF LoginFails, Login
<1>4. CASE LoginRefused
  <2>1. now' = now /\ admitted' = admitted /\ attempts' = Within(attempts)
    BY <1>4 DEF LoginRefused, Refuse
  <2>2. Within(admitted)' = Within(admitted) /\ attempts' = Within(admitted)
    BY <2>1, CountsAlike DEF Within
  <2>3. attempts' \subseteq admitted'
    BY <2>1, <2>2 DEF Within
  <2> QED
    BY <2>1, <2>2, <2>3 DEF LimiterInv
<1>5. CASE Restart
  <2>1. now' = now /\ attempts' = {} /\ admitted' = {}
    BY <1>5 DEF Restart, AccessRestart
  <2>2. Within(admitted)' = {}
    BY <2>1 DEF Within
  <2>3. IsFiniteSet(admitted') /\ Cardinality(Within(admitted)') = 0
    BY <2>1, <2>2, FS_EmptySet
  <2>4. Cardinality(Within(admitted)') <= Limit
    BY <2>3, AccessAssumption
  <2> QED
    BY <2>1, <2>2, <2>3, <2>4 DEF LimiterInv
<1>6. CASE \E t \in Tokens : Logout(t)
  BY <1>1, <1>6 DEF Logout
<1>7. ASSUME NEW r \in Handlers, Work(r) PROVE LimiterInv'
  BY <1>1, <1>7 DEF Work, access
<1>8. ASSUME NEW r \in Handlers, NEW t \in Tokens, Enters(r, t) PROVE LimiterInv'
  BY <1>1, <1>8 DEF Enters, access
<1>9. CASE UNCHANGED vars
  BY <1>1, <1>9 DEF vars, access
<1> QED
  BY <1>2, <1>3, <1>4, <1>5, <1>6, <1>7, <1>8, <1>9
     DEF Next, AccessNext, RequestSwitch, RequestConnection

\* The limiter lets through what it may in every window, and refuses nobody
\* for attempts it refused.
THEOREM LimiterIsExact == Spec => []LimiterExact
<1>1. Init => LimiterInv
  <2> SUFFICES ASSUME Init PROVE LimiterInv
    OBVIOUS
  <2>1. Within(admitted) = {}
    BY DEF Init, AccessInit, Within
  <2> QED
    BY <2>1, FS_EmptySet, AccessAssumption DEF Init, AccessInit, LimiterInv
<1>2. LimiterInv => LimiterExact
  <2> SUFFICES ASSUME LimiterInv PROVE LimiterExact
    OBVIOUS
  <2>1. Cardinality(Within(admitted)) \in Nat
    BY FS_Subset, FS_CardinalityType DEF LimiterInv, Within
  <2> QED
    BY <2>1, CountsAlike, AccessAssumption DEF LimiterInv, LimiterExact
<1> QED
  BY <1>1, <1>2, StepKeepsLimit, PTL DEF Spec
=============================================================================
