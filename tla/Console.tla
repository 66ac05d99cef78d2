------------------------------ MODULE Console ------------------------------
(***************************************************************************)
(* The console: the settings handlers (Settings) behind the sessions and   *)
(* the middleware (Access).  A request is authenticated before its handler *)
(* starts; a logout, an expiry or a restart may come while it runs.        *)
(***************************************************************************)
EXTENDS Access, Settings

VARIABLE by  \* the user each request at work was let through as

vars == <<access, setting, by>>

Init ==
  /\ AccessInit
  /\ SettingsInit
  /\ by = [r \in Handlers |-> NoUser]

\* The middleware passes an identity to the handler, which does not look again.
Enters(r, t) ==
  /\ MayMutate(t, TRUE)
  /\ by' = [by EXCEPT ![r] = sessions[t].user]
  /\ UNCHANGED access

RequestSwitch(r, t, on) == Enters(r, t) /\ SetSwitch(r, on)

RequestConnection(r, t, profile, given) ==
  Enters(r, t) /\ ReadConnection(r, profile, given)

Work(r) == SettingsNext(r) /\ UNCHANGED <<access, by>>

Restart == AccessRestart /\ SettingsRestart /\ by' = [r \in Handlers |-> NoUser]

Next ==
  \/ AccessNext /\ UNCHANGED <<setting, by>>
  \/ \E t \in Tokens :
       \/ \E r \in Handlers, on \in BOOLEAN : RequestSwitch(r, t, on)
       \/ \E r \in Handlers, profile \in Profiles, given \in Keys \union {NoKey} :
            RequestConnection(r, t, profile, given)
  \/ \E r \in Handlers : Work(r)
  \/ Restart

Spec == Init /\ [][Next]_vars
----------------------------------------------------------------------------
\* Apart from a restart, only a request that came in as an administrator's
\* changes a setting, whatever became of its session since.
AdminsChangeSettings ==
  [][settings' # settings /\ restarts' = restarts =>
       \E r \in Handlers :
         handler'[r] # handler[r] /\ by'[r] # NoUser /\ RoleOf[by'[r]] = "admin"]_vars
=============================================================================
