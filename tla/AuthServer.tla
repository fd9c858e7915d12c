------------------------------ MODULE AuthServer ------------------------------
(***************************************************************************)
(* AuthServer of src/services/auth/auth_server.cpp with its four stores:   *)
(* users (user_repository.cpp), refresh tokens (token_store.cpp), revoked  *)
(* access tokens (token_blacklist.cpp) and login attempts                  *)
(* (rate_limiter.cpp).  Each store has a mutex, the operations hold none   *)
(* of them for longer than one access: every access is an action, and      *)
(* Callers are the threads in between.                                     *)
(*                                                                         *)
(* Tokens are numbers in the order of their issue: signatures and random   *)
(* strings are taken to be sound.  Whether a name, an address or a         *)
(* password is well formed is decided before anything is touched; such     *)
(* calls change nothing and are left out.                                  *)
(***************************************************************************)
EXTENDS Naturals, Sequences, FiniteSets

CONSTANTS Callers,           \* threads calling the service
          Names, Emails,     \* user names and addresses to register
          Ips,               \* client addresses
          AccessExpiry, RefreshExpiry,       \* AuthConfig
          RateLimitMaxAttempts, RateLimitWindow,
          MaxUsers, MaxTokens, MaxTime       \* bounds

ASSUME AuthAssumption ==
  /\ AccessExpiry \in Nat /\ RefreshExpiry \in Nat
  /\ RateLimitMaxAttempts \in Nat /\ RateLimitWindow \in Nat
  /\ MaxUsers \in Nat /\ MaxTokens \in Nat /\ MaxTime \in Nat

VARIABLES now,               \* the clock
          users,             \* InMemoryUserRepository::users_, by id from 1
          tokens,            \* InMemoryTokenStore::tokens_: by token number
          issued,            \* token pairs issued so far
          accessExpires,     \* when the access token of each pair expires
          blacklist,         \* TokenBlacklist::entries_
          attempts,          \* RateLimiter::attempts_: times of the attempts
          caller,            \* where each thread is
          spent,             \* ghost: refresh tokens that have been revoked
          revoked            \* ghost: access tokens whose revocation has returned

userVars == <<users>>
tokenVars == <<tokens, issued, accessExpires, spent>>
blackVars == <<blacklist, revoked>>
authVars == <<now, users, tokens, issued, accessExpires, blacklist, attempts, caller, spent,
              revoked>>

\* A thread: its operation, the user or token it is about, the address or name it
\* came with, and ghosts: the users it has seen and whether its token was unspent.
IdleCaller == [op |-> "idle", user |-> 0, token |-> 0, name |-> "none", email |-> "none",
               seen |-> {}, unspent |-> TRUE]

\* The service with some users registered.
AuthInit(registered) ==
  /\ now = 0 /\ users = registered /\ issued = 0
  /\ tokens = [t \in 1..MaxTokens |-> [live |-> FALSE, user |-> 0, revoked |-> FALSE,
                                       expires |-> 0]]
  /\ accessExpires = [t \in 1..MaxTokens |-> 0]
  /\ blacklist = {} /\ attempts = [ip \in Ips |-> <<>>]
  /\ caller = [c \in Callers |-> IdleCaller]
  /\ spent = {} /\ revoked = {}

AuthGoto(c, next) == caller' = [caller EXCEPT ![c] = next]
Leave(c) == AuthGoto(c, IdleCaller)

(***************************************************************************)
(* registerUser().                                                         *)
(***************************************************************************)

Known(field, value) == \E id \in DOMAIN users : users[id][field] = value

\* findByUsername(): taken, or on to the address.
CheckName(c, name, email) ==
  /\ caller[c].op = "idle" /\ Len(users) < MaxUsers
  /\ ~Known("name", name)
  /\ AuthGoto(c, [IdleCaller EXCEPT !.op = "email", !.name = name, !.email = email,
                                !.seen = DOMAIN users])
  /\ UNCHANGED <<now, userVars, tokenVars, blackVars, attempts>>

\* Mutant of the second check: the address is not looked up.
CheckEmailNever(c) ==
  /\ caller[c].op = "email"
  /\ AuthGoto(c, [caller[c] EXCEPT !.op = "create"])
  /\ UNCHANGED <<now, userVars, tokenVars, blackVars, attempts>>

\* findByEmail().
CheckEmail(c) ==
  /\ caller[c].op = "email"
  /\ IF Known("email", caller[c].email) THEN Leave(c)
     ELSE AuthGoto(c, [caller[c] EXCEPT !.op = "create"])
  /\ UNCHANGED <<now, userVars, tokenVars, blackVars, attempts>>

\* create(): a new id, no look at the names.
CreateUser(c) ==
  /\ caller[c].op = "create" /\ Len(users) < MaxUsers
  /\ users' = Append(users, [name |-> caller[c].name, email |-> caller[c].email,
                             active |-> TRUE, seen |-> caller[c].seen, checked |-> TRUE])
  /\ Leave(c)
  /\ UNCHANGED <<now, tokenVars, blackVars, attempts>>

\* update(): the record is replaced, and nothing of it is looked at.
UpdateUser(id, name, email, active) ==
  /\ users' = [users EXCEPT ![id] =
       [name |-> name, email |-> email, active |-> active, seen |-> @.seen,
        checked |-> @.checked /\ name = @.name /\ email = @.email]]
  /\ UNCHANGED <<now, tokenVars, blackVars, attempts, caller>>

(***************************************************************************)
(* login().                                                                *)
(***************************************************************************)

\* purgeExpired(): what is older than the window goes.
Purged(ip) == SelectSeq(attempts[ip], LAMBDA at : at + RateLimitWindow >= now)

\* RateLimiter::allow(), then the user: found, active and with the right password, or
\* the login fails.  Only logins look at the attempts, so the two are one step.
LoginAttempt(c, ip) ==
  /\ caller[c].op = "idle" /\ issued < MaxTokens
  /\ IF Len(Purged(ip)) >= RateLimitMaxAttempts
     THEN attempts' = [attempts EXCEPT ![ip] = Purged(ip)] /\ UNCHANGED caller
     ELSE /\ attempts' = [attempts EXCEPT ![ip] = Append(Purged(ip), now)]
          /\ \/ UNCHANGED caller
             \/ \E id \in DOMAIN users :
                  /\ users[id].active
                  /\ AuthGoto(c, [IdleCaller EXCEPT !.op = "issue", !.name = ip, !.user = id])
  /\ UNCHANGED <<now, userVars, tokenVars, blackVars>>

\* A new pair: the access token is signed, the refresh token stored.
Issue(user) ==
  /\ issued < MaxTokens
  /\ issued' = issued + 1
  /\ tokens' = [tokens EXCEPT ![issued'] = [live |-> TRUE, user |-> user, revoked |-> FALSE,
                                            expires |-> now + RefreshExpiry]]
  /\ accessExpires' = [accessExpires EXCEPT ![issued'] = now + AccessExpiry]

\* The tokens go out, and RateLimiter::reset() forgets the attempts.
LoginIssue(c) ==
  /\ caller[c].op = "issue" /\ Issue(caller[c].user)
  /\ attempts' = [attempts EXCEPT ![caller[c].name] = <<>>]
  /\ Leave(c)
  /\ UNCHANGED <<now, userVars, spent, blackVars>>

(***************************************************************************)
(* refreshToken() and logout().                                            *)
(***************************************************************************)

\* find(), and the checks of the record it copies.
RefreshFind(c, t) ==
  /\ caller[c].op = "idle" /\ t <= issued
  /\ tokens[t].live /\ ~tokens[t].revoked /\ now <= tokens[t].expires
  /\ tokens[t].user \in DOMAIN users
  /\ AuthGoto(c, [IdleCaller EXCEPT !.op = "revoke", !.token = t, !.user = tokens[t].user,
                                !.unspent = t \notin spent])
  /\ UNCHANGED <<now, userVars, tokenVars, blackVars, attempts>>

\* Mutant of the rotation: the old token stays as it is.
RefreshKeepsOld(c) ==
  /\ caller[c].op = "revoke"
  /\ spent' = spent \cup {caller[c].token}
  /\ AuthGoto(c, [caller[c] EXCEPT !.op = "renew"])
  /\ UNCHANGED <<now, userVars, tokens, issued, accessExpires, blackVars, attempts>>

\* revoke(): the old token is spent.
RefreshRevoke(c) ==
  /\ caller[c].op = "revoke"
  /\ tokens' = [tokens EXCEPT ![caller[c].token].revoked = @ \/ tokens[caller[c].token].live]
  /\ spent' = spent \cup {caller[c].token}
  /\ AuthGoto(c, [caller[c] EXCEPT !.op = "renew"])
  /\ UNCHANGED <<now, userVars, issued, accessExpires, blackVars, attempts>>

RefreshIssue(c) ==
  /\ caller[c].op = "renew" /\ Issue(caller[c].user)
  /\ Leave(c)
  /\ UNCHANGED <<now, userVars, spent, blackVars, attempts>>

\* logout(): find() for the user ...
LogoutFind(c, t) ==
  /\ caller[c].op = "idle" /\ t <= issued /\ tokens[t].live
  /\ AuthGoto(c, [IdleCaller EXCEPT !.op = "logout", !.user = tokens[t].user])
  /\ UNCHANGED <<now, userVars, tokenVars, blackVars, attempts>>

\* ... and revokeAllForUser().
LogoutAll(c) ==
  LET all == {t \in 1..issued : tokens[t].live /\ tokens[t].user = caller[c].user} IN
  /\ caller[c].op = "logout"
  /\ tokens' = [t \in 1..MaxTokens |->
                 IF t \in all THEN [tokens[t] EXCEPT !.revoked = TRUE] ELSE tokens[t]]
  /\ spent' = spent \cup all
  /\ Leave(c)
  /\ UNCHANGED <<now, userVars, issued, accessExpires, blackVars, attempts>>

\* removeExpired(): expired and revoked tokens are forgotten.
RemoveExpired ==
  /\ tokens' = [t \in 1..MaxTokens |->
                 IF tokens[t].expires <= now \/ tokens[t].revoked
                 THEN [tokens[t] EXCEPT !.live = FALSE] ELSE tokens[t]]
  /\ tokens' # tokens
  /\ UNCHANGED <<now, userVars, issued, accessExpires, spent, blackVars, attempts, caller>>

(***************************************************************************)
(* Access tokens.                                                          *)
(***************************************************************************)

\* validateAccessToken(), which validateToken() and revokeAccessToken() begin with: an
\* access token that has not expired ...
CheckExpiry(c, t) ==
  /\ caller[c].op = "idle" /\ t <= issued
  /\ now <= accessExpires[t]
  /\ AuthGoto(c, [IdleCaller EXCEPT !.op = "lookup", !.token = t])
  /\ UNCHANGED <<now, userVars, tokenVars, blackVars, attempts>>

\* ... and is not on the blacklist, which is looked up later, is accepted, or to be revoked.
CheckBlacklist(c) ==
  /\ caller[c].op = "lookup"
  /\ \/ Leave(c)
     \/ /\ caller[c].token \notin blacklist
        /\ AuthGoto(c, [caller[c] EXCEPT !.op = "blacklist"])
  /\ UNCHANGED <<now, userVars, tokenVars, blackVars, attempts>>

\* Mutant of the sweep: entries go by the age of the token, not by its expiry.
SweptByAge(entries) == {t \in entries : accessExpires[t] > now + AccessExpiry}

\* The entries a sweep leaves.
Swept(entries) == {t \in entries : accessExpires[t] > now}

\* TokenBlacklist::revoke(), with the sweep when its interval has passed.
RevokeAdd(c) ==
  /\ caller[c].op = "blacklist"
  /\ \/ blacklist' = blacklist \cup {caller[c].token}
     \/ blacklist' = Swept(blacklist \cup {caller[c].token})
  /\ revoked' = revoked \cup {caller[c].token}
  /\ Leave(c)
  /\ UNCHANGED <<now, userVars, tokenVars, attempts>>

\* cleanup().
CleanupBlacklist ==
  /\ blacklist' = Swept(blacklist) /\ blacklist' # blacklist
  /\ UNCHANGED <<now, userVars, tokenVars, revoked, attempts, caller>>

AuthTick ==
  /\ now < MaxTime /\ now' = now + 1
  /\ UNCHANGED <<userVars, tokenVars, blackVars, attempts, caller>>

UpdateNext ==
  \E id \in DOMAIN users, name \in Names, email \in Emails, active \in BOOLEAN :
    UpdateUser(id, name, email, active)

RegisterNext ==
  \/ UpdateNext
  \/ \E c \in Callers :
       \/ \E name \in Names, email \in Emails : CheckName(c, name, email)
       \/ CheckEmail(c) \/ CreateUser(c)

TokenNext ==
  \/ AuthTick \/ RemoveExpired \/ CleanupBlacklist
  \/ \E c \in Callers :
       \/ \E ip \in Ips : LoginAttempt(c, ip)
       \/ LoginIssue(c)
       \/ \E t \in 1..MaxTokens : RefreshFind(c, t) \/ LogoutFind(c, t) \/ CheckExpiry(c, t)
       \/ CheckBlacklist(c)
       \/ RefreshRevoke(c) \/ RefreshIssue(c) \/ LogoutAll(c) \/ RevokeAdd(c)

\* The service as a whole, beginning without users.
AuthNext == RegisterNext \/ TokenNext
AuthSpec == AuthInit(<<>>) /\ [][AuthNext]_authVars

AuthUser == [name : Names, email : Emails, active : BOOLEAN, seen : SUBSET Nat,
             checked : BOOLEAN]
TokenRecord == [live : BOOLEAN, user : 0..MaxUsers, revoked : BOOLEAN, expires : Nat]
AuthCaller ==
  [op : {"idle", "email", "create", "issue", "revoke", "renew", "logout", "lookup",
         "blacklist"},
   user : 0..MaxUsers, token : 0..MaxTokens, name : Names \cup Ips \cup {"none"},
   email : Emails \cup {"none"}, seen : SUBSET Nat, unspent : BOOLEAN]

AuthTypeOK ==
  /\ now \in 0..MaxTime /\ issued \in 0..MaxTokens
  /\ users \in Seq(AuthUser) /\ Len(users) <= MaxUsers
  /\ tokens \in [1..MaxTokens -> TokenRecord]
  /\ accessExpires \in [1..MaxTokens -> Nat]
  /\ blacklist \subseteq 1..issued /\ revoked \subseteq 1..issued /\ spent \subseteq 1..issued
  /\ caller \in [Callers -> AuthCaller]
  /\ \A c \in Callers : caller[c].op \in {"email", "create"} =>
       caller[c].name \in Names /\ caller[c].email \in Emails
  /\ \A c \in Callers : caller[c].op \in {"revoke", "renew", "lookup", "blacklist"} =>
       caller[c].token \in 1..issued

\* registerUser() checks and creates under separate locks: two users who bear what they
\* registered with share a name or an address only if the later one's check came before
\* the earlier one was created.  (What update() gives a user is checked by nobody.)
DuplicateOnlyByRace ==
  \A i, j \in DOMAIN users :
    /\ i < j /\ users[i].checked /\ users[j].checked
    /\ users[i].name = users[j].name \/ users[i].email = users[j].email
    => i \notin users[j].seen

\* A refresh token that has been rotated, or was there when its user logged out, is
\* never good for a new pair again: no call that begins later gets past the checks,
\* whatever sweeps, logins and other refreshes have done since.
SpentTokenRefused ==
  \A c \in Callers : caller[c].op \in {"revoke", "renew"} => caller[c].unspent

\* A revoked access token stays rejected until it has expired: the sweeps of the
\* blacklist forget none that validateToken() could accept and that has not expired by
\* the time the blacklist is asked.  (At the very instant of the expiry it can be: the
\* two comparisons differ, now > exp in the one and exp <= now in the other.)
RevokedStaysRejected ==
  \A c \in Callers :
    caller[c].op = "lookup" /\ caller[c].token \in revoked /\ now < accessExpires[caller[c].token] =>
      caller[c].token \in blacklist
=============================================================================
