------------------------------- MODULE Access -------------------------------
(***************************************************************************)
(* Who may ask the console for what (internal/auth and                     *)
(* internal/http/security.go): logins under a rate limit, sessions that    *)
(* end by logout or expiry, and the middleware that lets a mutation        *)
(* through.  One host is modelled, the limiter keeps a list for each; what *)
(* a page carries by itself (origin, CSRF token) is taken as valid.        *)
(***************************************************************************)
EXTENDS Integers, FiniteSets

CONSTANTS
  Users,
  RoleOf,    \* the role of each
  NoUser,
  Tokens,    \* session tokens: each is issued once
  Limit,     \* logins a host may try in Window
  Window,
  Lifetime,  \* SESSION_TTL
  MaxTime    \* bound: the clock

Roles == {"viewer", "operator", "admin"}

ASSUME AccessAssumption ==
  /\ RoleOf \in [Users -> Roles]
  /\ NoUser \notin Users
  /\ Limit \in Nat \ {0} /\ Window \in Nat \ {0}
  /\ Lifetime \in Nat \ {0} /\ MaxTime \in Nat

VARIABLES
  now,
  attempts,   \* the limiter's list for the host: when, and which of them it is
  issued, sessions,
  admitted    \* history: when a login was let through since the start

access == <<now, attempts, issued, sessions, admitted>>

NoSession == [user |-> NoUser, expires |-> 0]

AccessInit ==
  /\ now = 0
  /\ attempts = {}
  /\ issued = {} /\ sessions = [t \in Tokens |-> NoSession]
  /\ admitted = {}

Tick ==
  /\ now < MaxTime
  /\ now' = now + 1
  /\ UNCHANGED <<attempts, issued, sessions, admitted>>

Within(tried) == {x \in tried : x.at > now - Window}

\* allow: the list is pruned at every attempt, and takes those it lets through.
Allow ==
  LET this == [at |-> now, nth |-> Cardinality(admitted)] IN
  /\ Cardinality(Within(attempts)) < Limit
  /\ attempts' = Within(attempts) \union {this}
  /\ admitted' = admitted \union {this}

\* Mutant: an attempt counts although it is refused.
RefuseAndCount ==
  /\ Cardinality(Within(attempts)) >= Limit
  /\ attempts' = Within(attempts) \union
                   {[at |-> now, nth |-> Cardinality(admitted) + Cardinality(attempts)]}
  /\ UNCHANGED admitted

Refuse ==
  /\ Cardinality(Within(attempts)) >= Limit
  /\ attempts' = Within(attempts)
  /\ UNCHANGED admitted

LoginRefused == Refuse /\ UNCHANGED <<now, issued, sessions>>

\* A wrong password, or a session the store does not take.
LoginFails == Allow /\ UNCHANGED <<now, issued, sessions>>

Login(u, t) ==
  /\ t \in Tokens \ issued
  /\ Allow
  /\ issued' = issued \union {t}
  /\ sessions' = [sessions EXCEPT ![t] = [user |-> u, expires |-> now + Lifetime]]
  /\ UNCHANGED now

Authenticated(t) == sessions[t].user # NoUser /\ sessions[t].expires > now

\* Mutant: the paths of the settings are not in adminMutation.
MayMutateAny(t, isAdminPath) ==
  /\ Authenticated(t)
  /\ RoleOf[sessions[t].user] # "viewer"

\* The middleware on a mutation: no viewer, and an administrator on the paths
\* of adminMutation.
MayMutate(t, isAdminPath) ==
  /\ Authenticated(t)
  /\ RoleOf[sessions[t].user] # "viewer"
  /\ isAdminPath => RoleOf[sessions[t].user] = "admin"

\* Logout is a mutation: a viewer has none.
Logout(t) ==
  /\ MayMutate(t, FALSE)
  /\ sessions' = [sessions EXCEPT ![t] = NoSession]
  /\ UNCHANGED <<now, attempts, issued, admitted>>

\* Sessions are in the store; the limiter starts empty.
AccessRestart ==
  /\ attempts' = {} /\ admitted' = {}
  /\ UNCHANGED <<now, issued, sessions>>

AccessNext ==
  \/ Tick
  \/ LoginRefused
  \/ LoginFails
  \/ \E u \in Users, t \in Tokens : Login(u, t)
  \/ \E t \in Tokens : Logout(t)
----------------------------------------------------------------------------
\* The limiter refuses a login exactly when Limit logins were let through in
\* the last Window: never more, and whoever keeps trying is not locked out.
LimiterExact ==
  /\ Cardinality(Within(admitted)) <= Limit
  /\ Cardinality(Within(attempts)) >= Limit => Cardinality(Within(admitted)) = Limit
=============================================================================
