------------------------------ MODULE Accounts ------------------------------
(* One account and its sessions (service/user_service.go, token_service.go,
   auth/*, api/handlers/auth.go): logins with a password, through LDAP, OIDC or
   SAML, the API token and its exchange for a registry session, the
   administrator's changes and the cutoff that ends the sessions issued before
   them.

   Data: a session is what its JWT carries, the account's row id, the roles, the
   scope and the second it was issued in; the cutoff of the row is finer than a
   second.  gen counts the changes of a row that must end its sessions.  Profiles, claims and group names are left out: what an identity
   provider says of a user is the roles it maps to. *)
EXTENDS Naturals, FiniteSets

CONSTANTS Logins,       \* login requests that may be under way
          Providers,    \* "ldap", "oidc", "saml": the configured ones
          RoleNames,
          TokenScopes,  \* scopes API tokens are created with
          Second,       \* ticks of the clock in one second
          MaxTime,      \* bound on the clock
          MaxIds,       \* bound on the rows the account has had
          MaxSessions,  \* bound on the sessions issued
          MaxFaults,    \* bound on failed writes
          None

VARIABLES user,      \* the account's row, or None
          ids,       \* rows there have been
          sessions,  \* issued JWTs
          apiToken,  \* the scope of the account's API token, or None
          login,     \* login -> its progress
          change,    \* the administrator's change under way, or None
          clock, faults

vars == <<user, ids, sessions, apiToken, login, change, clock, faults>>

Sources == {"local"} \cup Providers
Roles == SUBSET RoleNames
ScopeSet == {"all", "read"}
Idle == [pc |-> "idle", via |-> "local", saw |-> None, raced |-> FALSE]

TypeOK ==
  /\ user = None \/ (user.status \in {"active", "disabled"} /\ user.source \in Sources
                     /\ user.roles \in Roles /\ user.cutoff \in 0..MaxTime /\ user.id \in 1..MaxIds)
  /\ ids \in 0..MaxIds /\ Cardinality(sessions) <= MaxSessions /\ apiToken \in ScopeSet \cup {None}
  /\ \A l \in Logins : login[l].pc \in {"idle", "check", "sync", "roles", "mint"} /\ login[l].via \in Sources
  /\ change = None \/ change \in 1..MaxIds
  /\ clock \in 0..MaxTime /\ faults \in 0..MaxFaults

Init ==
  /\ user = None /\ ids = 0 /\ sessions = {} /\ apiToken = None
  /\ login = [l \in Logins |-> Idle] /\ change = None /\ clock = 0 /\ faults = 0

Tick == clock < MaxTime /\ clock' = clock + 1 /\ UNCHANGED <<user, ids, sessions, apiToken, login, change, faults>>

Row(source, roles) == [id |-> ids + 1, status |-> "active", source |-> source, roles |-> roles, cutoff |-> 0, gen |-> 0]
\* A login does not look at the cutoff of the row it reads.
Seen == IF user = None THEN None ELSE [user EXCEPT !.cutoff = 0]
Raced == [l \in Logins |-> [login[l] EXCEPT !.raced = TRUE]]
Advance(l, pc) == login' = [login EXCEPT ![l].pc = pc]
End(l) == login' = [login EXCEPT ![l] = Idle]
IssuedAt == clock - (clock % Second)

(* The administrator: UserService.Create, Update, SetUserRoles, SetPassword,
   Delete.  Each writes the row; a change that must end the sessions bumps the
   cutoff in a second statement, whose failure is logged only. *)
CreateUser ==
  /\ user = None /\ ids < MaxIds /\ change = None
  /\ \E r \in Roles : user' = Row("local", r)
  /\ ids' = ids + 1 /\ UNCHANGED <<sessions, apiToken, login, change, clock, faults>>

\* Fault: the change is written and the cutoff is not moved.
Fault_NoRevoke(u) ==
  /\ user' = [u EXCEPT !.gen = @ + 1] /\ login' = Raced
  /\ UNCHANGED <<ids, sessions, apiToken, change, clock, faults>>

Changed(u) ==
  /\ user' = [u EXCEPT !.gen = @ + 1] /\ change' = u.id /\ login' = Raced
  /\ UNCHANGED <<ids, sessions, apiToken, clock, faults>>
Disable == user # None /\ change = None /\ user.status = "active" /\ Changed([user EXCEPT !.status = "disabled"])
Enable ==
  /\ user # None /\ change = None /\ user.status = "disabled"
  /\ user' = [user EXCEPT !.status = "active"] /\ login' = Raced
  /\ UNCHANGED <<ids, sessions, apiToken, change, clock, faults>>
\* The roles endpoint writes the table itself; UserService.SetUserRoles, which
\* moves the cutoff as well, has no caller.
SetUserRoles ==
  /\ user # None /\ change = None
  /\ \E r \in Roles \ {user.roles} : user' = [user EXCEPT !.roles = r]
  /\ login' = Raced /\ UNCHANGED <<ids, sessions, apiToken, change, clock, faults>>
ChangePassword == user # None /\ change = None /\ Changed(user)
BumpTokensValidAfter ==
  /\ change # None /\ change' = None /\ clock < MaxTime /\ clock' = clock + 1
  /\ \/ /\ user' = IF user # None /\ user.id = change THEN [user EXCEPT !.cutoff = clock'] ELSE user
        /\ UNCHANGED faults
     \/ /\ faults < MaxFaults /\ faults' = faults + 1 /\ UNCHANGED user
  /\ UNCHANGED <<ids, sessions, apiToken, login>>
DeleteUser ==                            \* the row, its roles and its API tokens
  /\ user # None /\ change = None /\ user' = None /\ apiToken' = None /\ login' = Raced
  /\ UNCHANGED <<ids, sessions, change, clock, faults>>

(* A login reads the row first.  The password form goes to LDAP for its own users
   and for unknown ones; OIDC and SAML answer for their own users and for unknown
   ones, and conflict with a name another source has. *)
Start(l, via, pc) ==
  /\ login[l].pc = "idle"
  /\ login' = [login EXCEPT ![l] = [pc |-> pc, via |-> via, saw |-> Seen, raced |-> FALSE]]
  /\ UNCHANGED <<user, ids, sessions, apiToken, change, clock, faults>>
Its(via) == via \in Providers /\ (user # None => user.source = via)
Login(l) == user # None /\ user.source # "ldap" /\ user.status = "active" /\ Start(l, "local", "check")
loginLDAP(l) == Its("ldap") /\ Start(l, "ldap", "sync")
LoginOIDC(l) == Its("oidc") /\ Start(l, "oidc", "sync")
LoginSAML(l) == Its("saml") /\ Start(l, "saml", "sync")
LoginRefused(l) ==                       \* a wrong password, claims or assertion; provisioning
  /\ login[l].pc \in {"check", "sync"} /\ End(l)
  /\ UNCHANGED <<user, ids, sessions, apiToken, change, clock, faults>>
CheckPassword(l) ==
  /\ login[l].pc = "check" /\ login[l].saw.source = "local" /\ Advance(l, "mint")
  /\ UNCHANGED <<user, ids, sessions, apiToken, change, clock, faults>>

\* Fault: the provisioned row replaces one of the same name.
Fault_Upsert(l) ==
  /\ login[l].pc = "sync" /\ login[l].saw = None /\ ids < MaxIds
  /\ user' = IF user = None THEN Row(login[l].via, {}) ELSE [user EXCEPT !.source = login[l].via]
  /\ ids' = ids + 1
  /\ login' = [login EXCEPT ![l].pc = "roles", ![l].saw = Seen']
  /\ UNCHANGED <<sessions, apiToken, change, clock, faults>>

\* The name is unique: provisioning fails when a row has appeared meanwhile.
Provision(l) ==
  /\ login[l].pc = "sync" /\ login[l].saw = None /\ ids < MaxIds
  /\ IF user # None THEN End(l) /\ UNCHANGED <<user, ids>>
     ELSE /\ user' = Row(login[l].via, {})
          /\ ids' = ids + 1 /\ login' = [login EXCEPT ![l].pc = "roles", ![l].saw = Seen']
  /\ UNCHANGED <<sessions, apiToken, change, clock, faults>>
\* The profile is written back by name with the status read before, which decides
\* as well.
SyncProfile(l) ==
  /\ login[l].pc = "sync" /\ login[l].saw # None
  /\ user' = IF user = None THEN user ELSE [user EXCEPT !.status = login[l].saw.status]
  /\ IF login[l].saw.status = "active" THEN Advance(l, "roles") ELSE End(l)
  /\ UNCHANGED <<ids, sessions, apiToken, change, clock, faults>>
\* syncLDAPRoles, syncOIDCRoles, syncSAMLRoles: best effort, then the roles are
\* read again for the session.
SyncRoles(l) ==
  /\ login[l].pc = "roles"
  /\ LET mine == user # None /\ user.id = login[l].saw.id
     IN  \E r \in Roles :
           /\ user' = IF mine THEN [user EXCEPT !.roles = r] ELSE user
           /\ login' = [login EXCEPT ![l].pc = "mint", ![l].saw.roles = IF mine THEN r ELSE @]
  /\ UNCHANGED <<ids, sessions, apiToken, change, clock, faults>>
Issue(s) == Cardinality(sessions) < MaxSessions /\ sessions' = sessions \cup {s}
GenerateToken(l) ==
  /\ login[l].pc = "mint" /\ End(l)
  /\ Issue([id |-> login[l].saw.id, iat |-> IssuedAt, roles |-> login[l].saw.roles,
            gen |-> login[l].saw.gen, scope |-> "all", key |-> "all", raced |-> login[l].raced])
  /\ UNCHANGED <<user, ids, apiToken, change, clock, faults>>

(* API tokens: created and revoked by their owner; the registry's token endpoint
   exchanges one for a session of the same scope. *)
CreateToken ==
  /\ user # None /\ apiToken = None /\ apiToken' \in TokenScopes
  /\ UNCHANGED <<user, ids, sessions, login, change, clock, faults>>
DeleteToken ==
  /\ apiToken # None /\ apiToken' = None
  /\ UNCHANGED <<user, ids, sessions, login, change, clock, faults>>
Authenticate == apiToken # None /\ user # None /\ user.status = "active"

\* Fault: the exchange issues the session any login gets.
Fault_Widened ==
  /\ Authenticate
  /\ Issue([id |-> user.id, iat |-> IssuedAt, roles |-> user.roles, gen |-> user.gen,
            scope |-> "all", key |-> apiToken, raced |-> FALSE])
  /\ UNCHANGED <<user, ids, apiToken, login, change, clock, faults>>

DockerToken ==
  /\ Authenticate
  /\ Issue([id |-> user.id, iat |-> IssuedAt, roles |-> user.roles, gen |-> user.gen,
            scope |-> apiToken, key |-> apiToken, raced |-> change # None])
  /\ UNCHANGED <<user, ids, apiToken, login, change, clock, faults>>

Next ==
  \/ Tick \/ CreateUser \/ Disable \/ Enable \/ SetUserRoles \/ ChangePassword \/ BumpTokensValidAfter \/ DeleteUser
  \/ \E l \in Logins : Login(l) \/ loginLDAP(l) \/ LoginOIDC(l) \/ LoginSAML(l) \/ LoginRefused(l)
                       \/ CheckPassword(l) \/ Provision(l) \/ SyncProfile(l)
                       \/ SyncRoles(l) \/ GenerateToken(l)
  \/ CreateToken \/ DeleteToken \/ DockerToken
Spec == Init /\ [][Next]_vars

(* The middlewares.  A credential stands for at most one identity: who it is and
   the scope it acts in. *)
jwtNotRevoked(s) == user # None /\ user.id = s.id /\ s.iat >= user.cutoff
authenticateBearer(s) == IF jwtNotRevoked(s) THEN {[id |-> s.id, scope |-> s.scope]} ELSE {}
Token == IF Authenticate THEN {[id |-> user.id, scope |-> apiToken]} ELSE {}
Basic == IF user # None /\ user.status = "active" THEN {[id |-> user.id, scope |-> "all"]} ELSE {}
scopesAllow(w, action) == w.scope = "all" \/ action = "read"
\* Nobody is let in: 401 for no identity, 403 for a scope that does not reach.
AuthMiddleware(who, action) == {w \in who : scopesAllow(w, action)}
\* On the repository routes nobody is anonymous, for the access check to judge.
OptionalAuth(who) == IF who = {} THEN {[id |-> None, scope |-> "all"]} ELSE who
Requests == {authenticateBearer(s) : s \in sessions} \cup {Token, Basic}
----------------------------------------------------------------------------
(* Disabling an account and changing its password end its sessions: a session that
   is let in was issued since, unless its login overlapped the change or the write
   of the cutoff failed; no session, however it was obtained, lets in more than
   the API token it was exchanged for; and whoever is named by a middleware is a
   row that exists. *)
SessionsCurrent ==
  /\ \A s \in sessions, action \in {"read", "write"} :
       AuthMiddleware(authenticateBearer(s), action) # {} =>
         /\ s.key = "read" => action = "read"
         /\ (change = None /\ faults = 0 /\ ~s.raced) => s.gen = user.gen
  /\ \A who \in Requests : \A w \in OptionalAuth(who) : w.id # None => user # None /\ user.id = w.id

(* "a JWT issued before the user's tokens_valid_after cutoff (set on disable,
   password, or role change) is rejected": a session that is let in carries the
   roles of its account. *)
RolesTakeEffect ==
  \A s \in sessions :
    (authenticateBearer(s) # {} /\ user.source = "local" /\ change = None /\ faults = 0 /\ ~s.raced)
      => s.roles = user.roles

(* An account stays with the source it came from, and of a local one only an
   administrator touches the roles: a login through a provider that found no such
   user never takes over one created meanwhile. *)
KeepsSource ==
  (user # None /\ user' # None /\ user.id = user'.id) =>
    /\ user'.source = user.source
    /\ (user.source = "local" /\ ~SetUserRoles) => user'.roles = user.roles
SourceKept == [][KeepsSource]_vars
=============================================================================
