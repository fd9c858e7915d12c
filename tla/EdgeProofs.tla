------------------------------ MODULE EdgeProofs ------------------------------
(***************************************************************************)
(* The authentication service, the gateway and the network manager's       *)
(* sessions, for every number of users, tokens, sessions and threads.      *)
(***************************************************************************)
EXTENDS AuthServer, GatewayServer, NetworkManager, TLAPS

(***************************************************************************)
(* Authentication.                                                         *)
(***************************************************************************)

\* What a thread in registerUser() has seen does not have the name it asks for, nor,
\* once that has been looked up, the address, unless update() has given it that since.
SeenDiffer ==
  \A c \in Callers :
    /\ caller[c].op \in {"email", "create"} =>
         \A id \in caller[c].seen :
           id \in DOMAIN users /\ (users[id].checked => users[id].name # caller[c].name)
    /\ caller[c].op = "create" =>
         \A id \in caller[c].seen : users[id].checked => users[id].email # caller[c].email

\* A spent refresh token is revoked or no longer stored.
SpentDead == \A t \in spent : tokens[t].revoked \/ ~tokens[t].live

\* A revoked access token is on the blacklist until it expires.
RevokedKept == \A t \in revoked : t \in blacklist \/ accessExpires[t] <= now

AuthInv == AuthTypeOK /\ SeenDiffer /\ DuplicateOnlyByRace /\ SpentDead /\ SpentTokenRefused
           /\ RevokedKept

\* A thread between two calls.
LEMMA AuthIdle == IdleCaller \in AuthCaller /\ IdleCaller.op = "idle"
BY AuthAssumption DEF IdleCaller, AuthCaller

\* A service without users satisfies the invariant.
LEMMA AuthInvInit == AuthInit(<<>>) => AuthInv
<1> SUFFICES ASSUME AuthInit(<<>>) PROVE AuthInv
  OBVIOUS
<1>1. tokens \in [1..MaxTokens -> TokenRecord]
  BY AuthAssumption DEF AuthInit, TokenRecord
<1>2. AuthTypeOK
  BY <1>1, AuthIdle, AuthAssumption DEF AuthInit, AuthTypeOK
<1>. QED BY <1>2, AuthIdle DEF AuthInit, AuthInv, SeenDiffer, DuplicateOnlyByRace, SpentDead,
                            SpentTokenRefused, RevokedKept

\* registerUser() preserves the invariant.
LEMMA RegisterInv == ASSUME AuthInv, RegisterNext PROVE AuthInv'
<1> USE AuthAssumption, AuthIdle DEF AuthInv
<1> DEFINE rest == <<now, tokens, issued, accessExpires, blacklist, spent, revoked>>
<1>1. ASSUME NEW id \in DOMAIN users, NEW name \in Names, NEW email \in Emails, NEW active \in BOOLEAN,
             UpdateUser(id, name, email, active)
      PROVE  AuthInv'
  <2> DEFINE old == users[id]
             checked == old.checked /\ name = old.name /\ email = old.email
             new == [name |-> name, email |-> email, active |-> active, seen |-> old.seen,
                     checked |-> checked]
  <2>1. users' = [users EXCEPT ![id] = new] /\ UNCHANGED <<rest, caller>>
    BY <1>1 DEF UpdateUser, tokenVars, blackVars
  <2>2. users \in Seq(AuthUser) /\ Len(users) <= MaxUsers /\ old \in AuthUser
    BY DEF AuthTypeOK
  <2>a. checked \in BOOLEAN
    BY <2>2, Zenon DEF AuthUser
  <2>b. checked => old.checked /\ name = old.name /\ email = old.email
    BY Zenon
  <2> HIDE DEF checked
  <2>c. /\ new \in AuthUser /\ new.seen = old.seen /\ new.name = name /\ new.email = email
        /\ new.checked = checked
    BY <2>2, <2>a DEF AuthUser
  <2> HIDE DEF new
  <2>3. users' \in Seq(AuthUser) /\ Len(users') = Len(users) /\ DOMAIN users' = DOMAIN users
    BY <2>1, <2>2, <2>c
  <2>4. \A i \in DOMAIN users :
          /\ users'[i].seen = users[i].seen
          /\ users'[i].checked => users[i].checked /\ users'[i].name = users[i].name
                                                  /\ users'[i].email = users[i].email
    <3> SUFFICES ASSUME NEW i \in DOMAIN users
                 PROVE  /\ users'[i].seen = users[i].seen
                        /\ users'[i].checked => users[i].checked /\ users'[i].name = users[i].name
                                                                /\ users'[i].email = users[i].email
      OBVIOUS
    <3>1. CASE i = id
      <4>1. users'[i] = new /\ users[i] = old
        BY <2>1, <2>2, <3>1
      <4>. QED BY <2>b, <2>c, <4>1, Zenon
    <3>2. CASE i # id
      BY <2>1, <2>2, <3>2
    <3>. QED BY <3>1, <3>2
  <2>5. AuthTypeOK'
    BY <2>1, <2>2, <2>3 DEF AuthTypeOK
  <2>6. SeenDiffer' /\ DuplicateOnlyByRace'
    BY <2>1, <2>3, <2>4 DEF SeenDiffer, DuplicateOnlyByRace
  <2>. QED BY <2>1, <2>5, <2>6 DEF SpentDead, SpentTokenRefused, RevokedKept
<1>2. ASSUME NEW c \in Callers, NEW name \in Names, NEW email \in Emails,
             CheckName(c, name, email)
      PROVE  AuthInv'
  <2> DEFINE next == [IdleCaller EXCEPT !.op = "email", !.name = name, !.email = email,
                                        !.seen = DOMAIN users]
  <2>1. caller' = [caller EXCEPT ![c] = next] /\ UNCHANGED <<rest, users>>
    BY <1>2 DEF CheckName, AuthGoto, userVars, tokenVars, blackVars
  <2>2. \A i \in DOMAIN users : users[i].name # name
    BY <1>2 DEF CheckName, Known
  <2>3. next \in AuthCaller /\ next.op = "email" /\ next.name = name /\ next.email = email
        /\ next.seen = DOMAIN users
    <3>1. DOMAIN users \in SUBSET Nat
      BY DEF AuthTypeOK
    <3>. QED BY <3>1 DEF IdleCaller, AuthCaller
  <2> HIDE DEF next
  <2>4. AuthTypeOK'
    BY <2>1, <2>3 DEF AuthTypeOK
  <2>5. SeenDiffer' /\ SpentTokenRefused'
    BY <2>1, <2>2, <2>3 DEF SeenDiffer, SpentTokenRefused, AuthTypeOK
  <2>. QED BY <2>1, <2>4, <2>5 DEF DuplicateOnlyByRace, SpentDead, RevokedKept
<1>3. ASSUME NEW c \in Callers, CheckEmail(c) PROVE AuthInv'
  <2> DEFINE next == IF Known("email", caller[c].email) THEN IdleCaller
                     ELSE [caller[c] EXCEPT !.op = "create"]
  <2>1. caller' = [caller EXCEPT ![c] = next] /\ UNCHANGED <<rest, users>>
    BY <1>3 DEF CheckEmail, AuthGoto, Leave, userVars, tokenVars, blackVars
  <2>2. caller[c] \in AuthCaller /\ caller[c].op = "email"
    BY <1>3 DEF CheckEmail, AuthTypeOK
  <2>3. /\ next \in AuthCaller /\ next.op \in {"idle", "create"}
        /\ next.op = "create" => /\ next.name = caller[c].name /\ next.email = caller[c].email
                                 /\ next.seen = caller[c].seen
                                 /\ \A i \in DOMAIN users : users[i].email # next.email
    BY <2>2 DEF IdleCaller, AuthCaller, Known
  <2> HIDE DEF next
  <2>4. AuthTypeOK'
    BY <2>1, <2>2, <2>3 DEF AuthTypeOK
  <2>5. SeenDiffer' /\ SpentTokenRefused'
    BY <2>1, <2>2, <2>3 DEF SeenDiffer, SpentTokenRefused, AuthTypeOK
  <2>. QED BY <2>1, <2>4, <2>5 DEF DuplicateOnlyByRace, SpentDead, RevokedKept
<1>4. ASSUME NEW c \in Callers, CreateUser(c) PROVE AuthInv'
  <2> DEFINE new == [name |-> caller[c].name, email |-> caller[c].email,
                     active |-> TRUE, seen |-> caller[c].seen, checked |-> TRUE]
             n == Len(users)
  <2>1. /\ users' = Append(users, new) /\ caller' = [caller EXCEPT ![c] = IdleCaller]
        /\ caller[c].op = "create" /\ n < MaxUsers /\ UNCHANGED rest
    BY <1>4 DEF CreateUser, Leave, AuthGoto, tokenVars, blackVars
  <2>2. new \in AuthUser /\ caller[c] \in AuthCaller
    BY <2>1 DEF AuthTypeOK, AuthUser, AuthCaller
  <2>3. /\ new.name = caller[c].name /\ new.email = caller[c].email /\ new.seen = caller[c].seen
    OBVIOUS
  <2> HIDE DEF new
  <2>4. /\ users' \in Seq(AuthUser) /\ Len(users') = n + 1 /\ users'[n + 1] = new
        /\ \A i \in 1..n : users'[i] = users[i]
        /\ n \in Nat /\ DOMAIN users = 1..n /\ DOMAIN users' = 1..(n + 1)
    BY <2>1, <2>2 DEF AuthTypeOK
  <2>5. AuthTypeOK'
    <3>1. Len(users') <= MaxUsers
      BY <2>1, <2>4
    <3>2. caller' \in [Callers -> AuthCaller]
      BY <2>1 DEF AuthTypeOK
    <3>. QED BY <2>1, <2>4, <3>1, <3>2 DEF AuthTypeOK
  <2>6. SeenDiffer'
    <3> SUFFICES ASSUME NEW d \in Callers, d # c, caller[d].op \in {"email", "create"},
                        NEW id \in caller[d].seen
                 PROVE  /\ id \in 1..(n + 1) /\ (users'[id].checked => users'[id].name # caller[d].name)
                        /\ caller[d].op = "create" /\ users'[id].checked => users'[id].email # caller[d].email
      BY <2>1, <2>4 DEF SeenDiffer, AuthTypeOK
    <3>1. id \in 1..n /\ users'[id] = users[id]
      BY <2>4 DEF SeenDiffer
    <3>. QED BY <2>4, <3>1 DEF SeenDiffer
  <2>8. SpentTokenRefused'
    BY <2>1 DEF SpentTokenRefused, AuthTypeOK
  <2>7. DuplicateOnlyByRace'
    <3> SUFFICES ASSUME NEW i \in 1..(n + 1), NEW j \in 1..(n + 1), i < j,
                        users'[i].checked, users'[j].checked,
                        users'[i].name = users'[j].name \/ users'[i].email = users'[j].email
                 PROVE  i \notin users'[j].seen
      BY <2>4 DEF DuplicateOnlyByRace
    <3>1. i \in 1..n
      BY <2>4
    <3>2. CASE j = n + 1
      BY <2>1, <2>3, <2>4, <3>1, <3>2 DEF SeenDiffer
    <3>3. CASE j \in 1..n
      BY <2>4, <3>1, <3>3 DEF DuplicateOnlyByRace
    <3>. QED BY <2>4, <3>2, <3>3
  <2>. QED BY <2>1, <2>5, <2>6, <2>7, <2>8 DEF SpentDead, RevokedKept
<1>. QED BY <1>1, <1>2, <1>3, <1>4, RegisterNext DEF RegisterNext, UpdateNext

\* A step on threads that leaves the stores alone.
LEMMA CallerStep ==
  ASSUME AuthInv, NEW c \in Callers, NEW next \in AuthCaller,
         next.op \notin {"email", "create"},
         next.op \in {"revoke", "renew", "lookup", "blacklist"} => next.token \in 1..issued,
         next.op \in {"revoke", "renew"} => next.unspent,
         caller' = [caller EXCEPT ![c] = next],
         UNCHANGED <<now, users, tokens, issued, accessExpires, blacklist, spent, revoked>>
  PROVE  AuthInv'
<1>1. AuthTypeOK'
  BY DEF AuthInv, AuthTypeOK
<1>2. SeenDiffer' /\ SpentTokenRefused'
  BY DEF AuthInv, SeenDiffer, SpentTokenRefused, AuthTypeOK
<1>. QED BY <1>1, <1>2 DEF AuthInv, DuplicateOnlyByRace, SpentDead, RevokedKept

\* A new pair takes a number that no set knows yet.
LEMMA IssueInv ==
  ASSUME AuthInv, NEW c \in Callers, Issue(caller[c].user),
         caller' = [caller EXCEPT ![c] = IdleCaller],
         UNCHANGED <<now, users, blacklist, spent, revoked>>
  PROVE  AuthInv'
<1> USE AuthAssumption, AuthIdle DEF AuthInv
<1> DEFINE pair == [live |-> TRUE, user |-> caller[c].user, revoked |-> FALSE,
                    expires |-> now + RefreshExpiry]
<1>1. /\ issued \in Nat /\ issued < MaxTokens /\ issued' = issued + 1 /\ now \in Nat
      /\ tokens' = [tokens EXCEPT ![issued + 1] = pair]
      /\ accessExpires' = [accessExpires EXCEPT ![issued + 1] = now + AccessExpiry]
  BY DEF Issue, AuthTypeOK
<1>2. pair \in TokenRecord
  <2>1. caller[c] \in AuthCaller /\ now + RefreshExpiry \in Nat
    BY <1>1 DEF AuthTypeOK
  <2>. QED BY <2>1 DEF AuthCaller, TokenRecord
<1> HIDE DEF pair
<1>3. \A t \in 1..issued : tokens'[t] = tokens[t] /\ accessExpires'[t] = accessExpires[t]
  BY <1>1 DEF AuthTypeOK
<1>4. caller' \in [Callers -> AuthCaller]
  BY DEF AuthTypeOK
<1>5. tokens' \in [1..MaxTokens -> TokenRecord]
      /\ accessExpires' \in [1..MaxTokens -> Nat]
  BY <1>1, <1>2 DEF AuthTypeOK
<1>6. AuthTypeOK'
  <2>1. issued' \in 0..MaxTokens /\ 1..issued \subseteq 1..issued'
    BY <1>1
  <2>2. \A d \in Callers : d = c \/ caller'[d] = caller[d]
    BY DEF AuthTypeOK
  <2>3. caller'[c].op = "idle"
    BY DEF AuthTypeOK
  <2>4. users \in Seq(AuthUser) /\ Len(users) <= MaxUsers /\ now \in 0..MaxTime
        /\ blacklist \subseteq 1..issued /\ revoked \subseteq 1..issued /\ spent \subseteq 1..issued
    BY DEF AuthTypeOK
  <2>5. \A d \in Callers :
          /\ caller'[d].op \in {"email", "create"} =>
               caller'[d].name \in Names /\ caller'[d].email \in Emails
          /\ caller'[d].op \in {"revoke", "renew", "blacklist"} => caller'[d].token \in 1..issued
    BY <2>2, <2>3 DEF AuthTypeOK
  <2>. QED BY <1>4, <1>5, <2>1, <2>4, <2>5 DEF AuthTypeOK
<1>7. SeenDiffer' /\ SpentTokenRefused'
  BY DEF SeenDiffer, SpentTokenRefused, AuthTypeOK
<1>8. SpentDead' /\ RevokedKept'
  BY <1>3 DEF SpentDead, RevokedKept, AuthTypeOK
<1>. QED BY <1>6, <1>7, <1>8 DEF DuplicateOnlyByRace

\* Logins, refreshes, logouts, revocations, the sweeps and the clock preserve the invariant.
LEMMA TokenInv == ASSUME AuthInv, TokenNext PROVE AuthInv'
<1> USE AuthAssumption, AuthIdle DEF AuthInv
<1>1. CASE AuthTick
  <2>1. /\ now \in 0..MaxTime /\ now < MaxTime /\ now' = now + 1
        /\ UNCHANGED <<users, tokens, issued, accessExpires, blacklist, caller, spent, revoked>>
    BY <1>1 DEF AuthTick, userVars, tokenVars, blackVars, AuthTypeOK
  <2>2. AuthTypeOK'
    BY <2>1 DEF AuthTypeOK
  <2>3. RevokedKept'
    BY <2>1 DEF RevokedKept, AuthTypeOK
  <2>. QED BY <2>1, <2>2, <2>3 DEF SeenDiffer, DuplicateOnlyByRace, SpentDead, SpentTokenRefused
<1>2. CASE RemoveExpired
  <2>1. /\ tokens' = [t \in 1..MaxTokens |->
                 IF tokens[t].expires <= now \/ tokens[t].revoked
                 THEN [tokens[t] EXCEPT !.live = FALSE] ELSE tokens[t]]
        /\ UNCHANGED <<now, users, issued, accessExpires, blacklist, caller, spent, revoked>>
    BY <1>2 DEF RemoveExpired, userVars, blackVars
  <2>2. \A t \in 1..MaxTokens :
          /\ tokens'[t] \in TokenRecord
          /\ tokens'[t].revoked = tokens[t].revoked
          /\ tokens'[t].live => tokens[t].live
    BY <2>1 DEF AuthTypeOK, TokenRecord
  <2>3. AuthTypeOK'
    BY <2>1, <2>2 DEF AuthTypeOK
  <2>4. SpentDead'
    BY <2>1, <2>2 DEF SpentDead, AuthTypeOK
  <2>. QED BY <2>1, <2>3, <2>4 DEF SeenDiffer, DuplicateOnlyByRace, SpentTokenRefused, RevokedKept
<1>3. CASE CleanupBlacklist
  <2>1. /\ blacklist' = {t \in blacklist : accessExpires[t] > now}
        /\ UNCHANGED <<now, users, tokens, issued, accessExpires, caller, spent, revoked>>
    BY <1>3 DEF CleanupBlacklist, Swept, userVars, tokenVars
  <2>2. AuthTypeOK'
    BY <2>1 DEF AuthTypeOK
  <2>3. RevokedKept'
    BY <2>1 DEF RevokedKept, AuthTypeOK
  <2>. QED BY <2>1, <2>2, <2>3 DEF SeenDiffer, DuplicateOnlyByRace, SpentDead, SpentTokenRefused
<1>5. ASSUME NEW c \in Callers, NEW ip \in Ips, LoginAttempt(c, ip) PROVE AuthInv'
  <2>1. UNCHANGED <<now, users, tokens, issued, accessExpires, blacklist, spent, revoked>>
    BY <1>5 DEF LoginAttempt, userVars, tokenVars, blackVars
  <2>2. CASE UNCHANGED caller
    BY <2>1, <2>2 DEF AuthTypeOK, SeenDiffer, DuplicateOnlyByRace, SpentDead, SpentTokenRefused,
                      RevokedKept
  <2>3. ASSUME NEW id \in DOMAIN users,
               AuthGoto(c, [IdleCaller EXCEPT !.op = "issue", !.name = ip, !.user = id])
        PROVE  AuthInv'
    <3> DEFINE next == [IdleCaller EXCEPT !.op = "issue", !.name = ip, !.user = id]
    <3>1. id \in 0..MaxUsers
      BY DEF AuthTypeOK
    <3>2. next \in AuthCaller /\ next.op = "issue"
      BY <3>1 DEF IdleCaller, AuthCaller
    <3>3. caller' = [caller EXCEPT ![c] = next]
      BY <2>3 DEF AuthGoto
    <3>. QED BY <2>1, <3>2, <3>3, CallerStep
  <2>. QED BY <1>5, <2>2, <2>3 DEF LoginAttempt
<1>6. ASSUME NEW c \in Callers, LoginIssue(c) PROVE AuthInv'
  BY <1>6, IssueInv DEF LoginIssue, Leave, AuthGoto, userVars, blackVars
<1>7. ASSUME NEW c \in Callers, NEW t \in 1..MaxTokens, RefreshFind(c, t) PROVE AuthInv'
  <2> DEFINE next == [IdleCaller EXCEPT !.op = "revoke", !.token = t, !.user = tokens[t].user,
                                        !.unspent = t \notin spent]
  <2>1. /\ caller' = [caller EXCEPT ![c] = next] /\ t <= issued
        /\ tokens[t].live /\ ~tokens[t].revoked
        /\ UNCHANGED <<now, users, tokens, issued, accessExpires, blacklist, spent, revoked>>
    BY <1>7 DEF RefreshFind, AuthGoto, userVars, tokenVars, blackVars
  <2>2. t \notin spent
    BY <2>1 DEF SpentDead
  <2>3. next \in AuthCaller /\ next.op = "revoke" /\ next.token = t
    <3>1. tokens[t].user \in 0..MaxUsers /\ t \in 0..MaxTokens
      BY DEF AuthTypeOK, TokenRecord
    <3>2. (t \notin spent) = TRUE
      BY <2>2
    <3>. QED BY <3>1, <3>2 DEF IdleCaller, AuthCaller
  <2>4. next.unspent
    BY <2>2 DEF IdleCaller
  <2>5. t \in 1..issued
    BY <2>1 DEF AuthTypeOK
  <2> HIDE DEF next
  <2>. QED BY <2>1, <2>3, <2>4, <2>5, CallerStep
<1>8. ASSUME NEW c \in Callers, NEW t \in 1..MaxTokens, LogoutFind(c, t) PROVE AuthInv'
  <2> DEFINE next == [IdleCaller EXCEPT !.op = "logout", !.user = tokens[t].user]
  <2>1. /\ caller' = [caller EXCEPT ![c] = next]
        /\ UNCHANGED <<now, users, tokens, issued, accessExpires, blacklist, spent, revoked>>
    BY <1>8 DEF LogoutFind, AuthGoto, userVars, tokenVars, blackVars
  <2>2. next \in AuthCaller /\ next.op = "logout"
    <3>1. tokens[t].user \in 0..MaxUsers
      BY DEF AuthTypeOK, TokenRecord
    <3>. QED BY <3>1 DEF IdleCaller, AuthCaller
  <2> HIDE DEF next
  <2>. QED BY <2>1, <2>2, CallerStep
<1>9. ASSUME NEW c \in Callers, NEW t \in 1..MaxTokens, CheckExpiry(c, t) PROVE AuthInv'
  <2> DEFINE next == [IdleCaller EXCEPT !.op = "lookup", !.token = t]
  <2>1. /\ caller' = [caller EXCEPT ![c] = next] /\ t <= issued
        /\ UNCHANGED <<now, users, tokens, issued, accessExpires, blacklist, spent, revoked>>
    BY <1>9 DEF CheckExpiry, AuthGoto, userVars, tokenVars, blackVars
  <2>2. next \in AuthCaller /\ next.op = "lookup" /\ next.token = t
    <3>1. t \in 0..MaxTokens
      OBVIOUS
    <3>. QED BY <3>1 DEF IdleCaller, AuthCaller
  <2>3. t \in 1..issued
    BY <2>1 DEF AuthTypeOK
  <2> HIDE DEF next
  <2>. QED BY <2>1, <2>2, <2>3, CallerStep
<1>4. ASSUME NEW c \in Callers, CheckBlacklist(c) PROVE AuthInv'
  <2>1. /\ caller[c].op = "lookup"
        /\ UNCHANGED <<now, users, tokens, issued, accessExpires, blacklist, spent, revoked>>
    BY <1>4 DEF CheckBlacklist, userVars, tokenVars, blackVars
  <2>2. CASE Leave(c)
    BY <2>1, <2>2, CallerStep DEF Leave, AuthGoto
  <2>3. CASE AuthGoto(c, [caller[c] EXCEPT !.op = "blacklist"])
    <3> DEFINE next == [caller[c] EXCEPT !.op = "blacklist"]
    <3>1. caller' = [caller EXCEPT ![c] = next]
      BY <2>3 DEF AuthGoto
    <3>2. caller[c] \in AuthCaller /\ caller[c].token \in 1..issued
      BY <2>1 DEF AuthTypeOK
    <3>3. next \in AuthCaller /\ next.op = "blacklist" /\ next.token = caller[c].token
      BY <3>2 DEF AuthCaller
    <3> HIDE DEF next
    <3>. QED BY <2>1, <3>1, <3>2, <3>3, CallerStep
  <2>. QED BY <1>4, <2>2, <2>3 DEF CheckBlacklist
<1>10. ASSUME NEW c \in Callers, RefreshRevoke(c) PROVE AuthInv'
  <2> DEFINE next == [caller[c] EXCEPT !.op = "renew"]
             k == caller[c].token
  <2>0. tokens' = [tokens EXCEPT ![k].revoked = @ \/ tokens[k].live]
    BY <1>10 DEF RefreshRevoke
  <2>1. /\ caller' = [caller EXCEPT ![c] = next] /\ caller[c].op = "revoke"
        /\ spent' = spent \cup {k}
        /\ UNCHANGED <<now, users, issued, accessExpires, blacklist, revoked>>
    BY <1>10 DEF RefreshRevoke, AuthGoto, userVars, blackVars
  <2>2. caller[c] \in AuthCaller /\ k \in 1..issued /\ caller[c].unspent /\ k \in 1..MaxTokens
    BY <2>1 DEF AuthTypeOK, SpentTokenRefused
  <2>3. /\ next \in AuthCaller /\ next.op = "renew" /\ next.token = k
        /\ next.unspent = caller[c].unspent
    BY <2>2 DEF AuthCaller
  <2> HIDE DEF next
  <2> DEFINE dead == tokens[k].revoked \/ tokens[k].live
             record == [tokens[k] EXCEPT !.revoked = dead]
  <2>4. tokens[k] \in TokenRecord /\ dead \in BOOLEAN
    <3>1. tokens[k] \in TokenRecord
      BY <2>2 DEF AuthTypeOK
    <3>. QED BY <3>1, Zenon
  <2>5. tokens' = [tokens EXCEPT ![k] = record]
    BY <2>0, Zenon
  <2>6. record \in TokenRecord /\ (record.revoked \/ ~record.live)
    <3>1. tokens[k].live => dead
      BY Zenon
    <3> HIDE DEF dead
    <3>2. record \in TokenRecord /\ record.revoked = dead /\ record.live = tokens[k].live
      BY <2>4 DEF TokenRecord
    <3>. QED BY <3>1, <3>2, Zenon
  <2> HIDE DEF record, k
  <2>7. AuthTypeOK'
    BY <2>1, <2>2, <2>3, <2>5, <2>6 DEF AuthTypeOK
  <2>8. SpentDead'
    BY <2>1, <2>2, <2>5, <2>6 DEF SpentDead, AuthTypeOK
  <2>9. SeenDiffer' /\ SpentTokenRefused'
    BY <2>1, <2>2, <2>3 DEF SeenDiffer, SpentTokenRefused, AuthTypeOK
  <2>. QED BY <2>1, <2>7, <2>8, <2>9 DEF DuplicateOnlyByRace, RevokedKept
<1>11. ASSUME NEW c \in Callers, RefreshIssue(c) PROVE AuthInv'
  BY <1>11, IssueInv DEF RefreshIssue, Leave, AuthGoto, userVars, blackVars
<1>12. ASSUME NEW c \in Callers, LogoutAll(c) PROVE AuthInv'
  <2> DEFINE all == {t \in 1..issued : tokens[t].live /\ tokens[t].user = caller[c].user}
  <2>1. /\ caller' = [caller EXCEPT ![c] = IdleCaller]
        /\ tokens' = [t \in 1..MaxTokens |->
                        IF t \in all THEN [tokens[t] EXCEPT !.revoked = TRUE] ELSE tokens[t]]
        /\ spent' = spent \cup all
        /\ UNCHANGED <<now, users, issued, accessExpires, blacklist, revoked>>
    BY <1>12 DEF LogoutAll, Leave, AuthGoto, userVars, blackVars
  <2>2. all \subseteq 1..issued
    OBVIOUS
  <2> HIDE DEF all
  <2>3. \A t \in 1..MaxTokens :
          /\ tokens'[t] \in TokenRecord
          /\ tokens[t].revoked \/ t \in all => tokens'[t].revoked
          /\ tokens'[t].live = tokens[t].live
    BY <2>1 DEF AuthTypeOK, TokenRecord
  <2>4. AuthTypeOK'
    BY <2>1, <2>2, <2>3 DEF AuthTypeOK
  <2>5. SpentDead'
    BY <2>1, <2>2, <2>3 DEF SpentDead, AuthTypeOK
  <2>6. SeenDiffer' /\ SpentTokenRefused'
    BY <2>1 DEF SeenDiffer, SpentTokenRefused, AuthTypeOK
  <2>. QED BY <2>1, <2>4, <2>5, <2>6 DEF DuplicateOnlyByRace, RevokedKept
<1>13. ASSUME NEW c \in Callers, RevokeAdd(c) PROVE AuthInv'
  <2> DEFINE t == caller[c].token
  <2>1. /\ caller' = [caller EXCEPT ![c] = IdleCaller] /\ caller[c].op = "blacklist"
        /\ revoked' = revoked \cup {t}
        /\ UNCHANGED <<now, users, tokens, issued, accessExpires, spent>>
    BY <1>13 DEF RevokeAdd, Leave, AuthGoto, userVars, tokenVars
  <2>2. t \in 1..issued
    BY <2>1 DEF AuthTypeOK
  <2>3. /\ blacklist' \subseteq blacklist \cup {t}
        /\ \A u \in blacklist \cup {t} : u \in blacklist' \/ ~(accessExpires[u] > now)
    BY <1>13 DEF RevokeAdd, Swept
  <2>4. AuthTypeOK'
    BY <2>1, <2>2, <2>3 DEF AuthTypeOK
  <2>5. RevokedKept'
    BY <2>1, <2>2, <2>3 DEF RevokedKept, AuthTypeOK
  <2>6. SeenDiffer' /\ SpentTokenRefused'
    BY <2>1 DEF SeenDiffer, SpentTokenRefused, AuthTypeOK
  <2>. QED BY <2>1, <2>4, <2>5, <2>6 DEF DuplicateOnlyByRace, SpentDead
<1>. QED
  BY TokenNext, <1>1, <1>2, <1>3, <1>4, <1>5, <1>6, <1>7, <1>8, <1>9, <1>10, <1>11, <1>12, <1>13
  DEF TokenNext

\* A step of the service, or none, preserves the invariant.
LEMMA AuthStep == ASSUME AuthInv, [AuthNext]_authVars PROVE AuthInv'
<1>1. CASE RegisterNext
  BY <1>1, RegisterInv
<1>2. CASE TokenNext
  BY <1>2, TokenInv
<1>3. CASE UNCHANGED authVars
  BY <1>3 DEF authVars, AuthInv, AuthTypeOK, SeenDiffer, DuplicateOnlyByRace, SpentDead,
              SpentTokenRefused, RevokedKept
<1>. QED BY <1>1, <1>2, <1>3 DEF AuthNext

\* The invariant holds in every state the service reaches.
LEMMA AuthInvariant == AuthSpec => []AuthInv
BY AuthInvInit, AuthStep, PTL DEF AuthSpec

\* The stores of the authentication service and the threads in it keep their types: a
\* thread on its way to a token has one that was issued.
THEOREM AuthTypeCorrect == AuthSpec => []AuthTypeOK
BY AuthInvariant, PTL DEF AuthInv

\* Two users share a name or an address only if the later registration had looked
\* before the earlier one was stored, whatever the number of threads in registerUser().
THEOREM DuplicatesNeedRace == AuthSpec => []DuplicateOnlyByRace
BY AuthInvariant, PTL DEF AuthInv

\* A refresh that gets past the checks of refreshToken() had a token that had not been
\* spent when it was looked up.
THEOREM SpentStaysRefused == AuthSpec => []SpentTokenRefused
BY AuthInvariant, PTL DEF AuthInv

\* No sweep of the blacklist lets a lookup pass a revoked access token that has not expired
\* by then.
THEOREM RevokedRejected == AuthSpec => []RevokedStaysRejected
<1>1. ASSUME AuthInv PROVE RevokedStaysRejected
  <2> SUFFICES ASSUME NEW c \in Callers, caller[c].token \in revoked, now < accessExpires[caller[c].token]
               PROVE  caller[c].token \in blacklist
    BY DEF RevokedStaysRejected
  <2>1. now \in Nat /\ accessExpires[caller[c].token] \in Nat
    <3>1. now \in 0..MaxTime /\ caller[c].token \in 1..issued /\ issued \in 0..MaxTokens
          /\ accessExpires \in [1..MaxTokens -> Nat]
      BY <1>1 DEF AuthInv, AuthTypeOK
    <3>. QED BY <3>1, AuthAssumption
  <2>. QED BY <1>1, <2>1 DEF AuthInv, RevokedKept
<1>. QED BY <1>1, AuthInvariant, PTL

(***************************************************************************)
(* The gateway.                                                            *)
(***************************************************************************)

\* A session that is there has been connected, and one without authentication has no
\* user: what makes the second half of SessionStep inductive.
SessionKnown ==
  \A s \in SessionIds :
    /\ sessions[s].state # "None" => s \in used
    /\ sessions[s].state \in {"None", "Unauthenticated"} => sessions[s].user = 0

GatewayInv == GatewayTypeOK /\ SessionKnown

\* No session, and a handler between two messages.
LEMMA GatewayIdle ==
  /\ NoSession \in ClientSession /\ NoSession.state = "None" /\ NoSession.user = 0
  /\ IdleHandler \in GatewayHandler /\ IdleHandler.op = "idle"
<1>1. (CHOOSE a \in Addresses : TRUE) \in Addresses /\ AnyService \in Services
  BY GatewayAssumption DEF AnyService
<1>2. 0 \in 0..(IdleTimeout + 1) /\ 0 \in 0..(AuthTimeout + 1)
  BY GatewayAssumption
<1>3. NoSession \in ClientSession /\ NoSession.state = "None" /\ NoSession.user = 0
      /\ NoSession.address \in Addresses
  BY <1>1, <1>2 DEF NoSession, ClientSession, ClientState
<1>. QED BY <1>3 DEF IdleHandler, GatewayHandler, ClientState

\* A gateway without sessions satisfies the invariant.
LEMMA GatewayInvInit == GatewayInit(<<>>) => GatewayInv
<1> SUFFICES ASSUME GatewayInit(<<>>) PROVE GatewayInv
  OBVIOUS
<1>1. /\ sessions \in [SessionIds -> ClientSession]
      /\ \A s \in SessionIds : sessions[s].state = "None" /\ sessions[s].user = 0
  BY GatewayIdle DEF GatewayInit
<1>2. buckets \in [Addresses -> 0..RateLimitCapacity]
  BY GatewayAssumption DEF GatewayInit
<1>3. /\ handler \in [Handlers -> GatewayHandler]
      /\ \A h \in Handlers : handler[h].op = "idle"
  BY GatewayIdle DEF GatewayInit
<1>. QED BY <1>1, <1>2, <1>3 DEF GatewayInit, GatewayInv, GatewayTypeOK, SessionKnown

\* A handler that moves and stays within its types.
LEMMA HandlerMoves ==
  ASSUME GatewayTypeOK, NEW h \in Handlers, NEW next \in GatewayHandler, HandlerGoto(h, next),
         next.op # "idle" => next.session \in SessionIds
  PROVE  /\ handler' \in [Handlers -> GatewayHandler]
         /\ \A g \in Handlers : handler'[g].op # "idle" => handler'[g].session \in SessionIds
BY DEF GatewayTypeOK, HandlerGoto

\* A change of one session that its life allows is a SessionStep and keeps the invariant.
LEMMA OneSession ==
  ASSUME GatewayInv, NEW s \in SessionIds, NEW to \in ClientSession,
         sessions' = [sessions EXCEPT ![s] = to], used \subseteq used',
         to.state # "None" => s \in used',
         to.state \in {"None", "Unauthenticated"} => to.user = 0,
         \/ sessions[s].state = to.state \/ to.state = "None"
         \/ <<sessions[s].state, to.state>> \in
               {<<"None", "Unauthenticated">>, <<"Unauthenticated", "Authenticated">>,
                <<"Authenticated", "Migrating">>, <<"Migrating", "Authenticated">>},
         sessions[s].state \in {"Authenticated", "Migrating"} =>
           to.user = sessions[s].user \/ to.state = "None",
         s \in used /\ sessions[s].state = "None" => to.state = "None"
  PROVE  sessions' \in [SessionIds -> ClientSession] /\ SessionKnown' /\ SessionStep
<1>1. sessions \in [SessionIds -> ClientSession]
  BY DEF GatewayInv, GatewayTypeOK
<1>2. sessions' \in [SessionIds -> ClientSession] /\ sessions'[s] = to
      /\ \A u \in SessionIds : u # s => sessions'[u] = sessions[u]
  BY <1>1
<1>3. SessionKnown'
  BY <1>2 DEF GatewayInv, SessionKnown
<1>4. SessionStep
  BY <1>2 DEF SessionStep
<1>. QED BY <1>2, <1>3, <1>4

\* Sessions that nothing touches.
LEMMA SameSessions ==
  ASSUME GatewayInv, UNCHANGED sessions, used \subseteq used'
  PROVE  sessions' \in [SessionIds -> ClientSession] /\ SessionKnown' /\ SessionStep
BY DEF GatewayInv, GatewayTypeOK, SessionKnown, SessionStep

\* Actions of the session manager and of the sweeps.
LEMMA SessionsInv ==
  ASSUME GatewayInv,
         \/ SwitchGateway \/ ManageRoutes \/ GatewayTick \/ SweepStep
         \/ \E s \in SessionIds, a \in Addresses : HandleConnect(s, a)
         \/ \E s \in SessionIds, service \in Services :
              InitiateServerTransfer(s, service) \/ SetCurrentService(s, service)
  PROVE  GatewayInv' /\ SessionStep
<1> USE GatewayAssumption, GatewayIdle DEF GatewayInv
<1>0. (\A s \in SessionIds : sessions[s] \in ClientSession) /\ 0 \in 0..(IdleTimeout + 1)
  BY DEF GatewayTypeOK
<1>1. CASE SwitchGateway
  BY <1>1, SameSessions DEF SwitchGateway, sweeps, GatewayTypeOK
<1>2. CASE ManageRoutes
  BY <1>2, SameSessions DEF ManageRoutes, sweeps, GatewayTypeOK
<1>3. CASE GatewayTick
  <2>1. UNCHANGED <<gwRunning, used, routes, handler, idleList, authList>>
    BY <1>3 DEF GatewayTick, sweeps
  <2>2. buckets' \in [Addresses -> 0..RateLimitCapacity]
    <3>1. \A a \in Addresses : buckets[a] \in 0..RateLimitCapacity
      BY DEF GatewayTypeOK
    <3>2. \A a \in Addresses :
            (IF buckets[a] + RateLimitRefillRate > RateLimitCapacity THEN RateLimitCapacity
             ELSE buckets[a] + RateLimitRefillRate) \in 0..RateLimitCapacity
      BY <3>1
    <3>. QED BY <1>3, <3>2 DEF GatewayTick
  <2>3. ASSUME NEW s \in SessionIds
        PROVE  /\ sessions'[s] \in ClientSession /\ sessions'[s].state = sessions[s].state
               /\ sessions'[s].user = sessions[s].user
    <3>1. sessions'[s] = IF Exists(s)
            THEN [sessions[s] EXCEPT !.idle = Later(sessions[s].idle, IdleTimeout),
                                     !.age = Later(sessions[s].age, AuthTimeout)]
            ELSE sessions[s]
      BY <1>3 DEF GatewayTick
    <3>2. /\ Later(sessions[s].idle, IdleTimeout) \in 0..(IdleTimeout + 1)
          /\ Later(sessions[s].age, AuthTimeout) \in 0..(AuthTimeout + 1)
      BY <1>0 DEF ClientSession, Later
    <3> DEFINE i == Later(sessions[s].idle, IdleTimeout)
               a == Later(sessions[s].age, AuthTimeout)
    <3> HIDE DEF i, a
    <3>3. [sessions[s] EXCEPT !.idle = i, !.age = a] \in ClientSession
      BY <1>0, <3>2 DEF ClientSession, i, a
    <3>4. [sessions[s] EXCEPT !.idle = i, !.age = a].state = sessions[s].state
          /\ [sessions[s] EXCEPT !.idle = i, !.age = a].user = sessions[s].user
      BY <1>0 DEF ClientSession
    <3>. QED BY <1>0, <3>1, <3>3, <3>4 DEF i, a
  <2>4. sessions' \in [SessionIds -> ClientSession]
    <3>1. sessions' = [s \in SessionIds |-> sessions'[s]]
      BY <1>3 DEF GatewayTick
    <3>. QED BY <2>3, <3>1
  <2>. QED BY <2>1, <2>2, <2>3, <2>4 DEF GatewayTypeOK, SessionKnown, SessionStep
<1>4. CASE CleanupIdle
  BY <1>4, SameSessions DEF CleanupIdle, GatewayTypeOK
<1>5. CASE CleanupExpiredAuth
  BY <1>5, SameSessions DEF CleanupExpiredAuth, ExpiredAuth, GatewayTypeOK
<1>6. ASSUME NEW s \in SessionIds, SweepOne(s) PROVE GatewayInv' /\ SessionStep
  <2>1. sessions' = [sessions EXCEPT ![s] = NoSession]
        /\ idleList' \subseteq idleList /\ authList' \subseteq authList
        /\ UNCHANGED <<gwRunning, used, routes, handler>>
    BY <1>6 DEF SweepOne, RemoveSession
  <2>2. buckets' \in [Addresses -> 0..RateLimitCapacity]
    <3>1. sessions[s].address \in Addresses /\ RateLimitCapacity \in 0..RateLimitCapacity
      BY <1>0 DEF ClientSession
    <3>. QED BY <1>6, <3>1 DEF SweepOne, DropBucket, GatewayTypeOK
  <2>. QED BY <2>1, <2>2, OneSession DEF GatewayTypeOK
<1>7. ASSUME NEW s \in SessionIds, NEW a \in Addresses, HandleConnect(s, a)
      PROVE  GatewayInv' /\ SessionStep
  <2> DEFINE to == [NoSession EXCEPT !.state = "Unauthenticated", !.address = a]
  <2>1. sessions' = [sessions EXCEPT ![s] = to] /\ used' = used \cup {s}
        /\ sessions[s].state = "None" /\ s \notin used
        /\ UNCHANGED <<gwRunning, buckets, routes, handler, idleList, authList>>
    BY <1>7 DEF HandleConnect, Exists, sweeps
  <2>2. to \in ClientSession /\ to.state = "Unauthenticated" /\ to.user = 0
    BY DEF ClientSession, ClientState
  <2>3. sessions[s].user = 0
    BY <2>1 DEF SessionKnown
  <2> HIDE DEF to
  <2>. QED BY <2>1, <2>2, <2>3, OneSession DEF GatewayTypeOK
<1>8. ASSUME NEW s \in SessionIds, NEW service \in Services, InitiateServerTransfer(s, service)
      PROVE  GatewayInv' /\ SessionStep
  <2> DEFINE to == [sessions[s] EXCEPT !.state = "Migrating", !.service = service, !.idle = 0]
  <2>1. sessions' = [sessions EXCEPT ![s] = to] /\ sessions[s].state = "Authenticated"
        /\ UNCHANGED <<gwRunning, used, buckets, routes, handler, idleList, authList>>
    BY <1>8, Zenon DEF InitiateServerTransfer, sweeps
  <2>2. to \in ClientSession /\ to.state = "Migrating" /\ to.user = sessions[s].user
    BY <1>0 DEF ClientSession, ClientState
  <2> HIDE DEF to
  <2>. QED BY <2>1, <2>2, OneSession DEF GatewayTypeOK, SessionKnown
<1>9. ASSUME NEW s \in SessionIds, NEW service \in Services, SetCurrentService(s, service)
      PROVE  GatewayInv' /\ SessionStep
  <2> DEFINE to == [sessions[s] EXCEPT !.service = service]
  <2>1. sessions' = [sessions EXCEPT ![s] = to]
        /\ UNCHANGED <<gwRunning, used, buckets, routes, handler, idleList, authList>>
    BY <1>9 DEF SetCurrentService, sweeps
  <2>2. to \in ClientSession /\ to.state = sessions[s].state /\ to.user = sessions[s].user
    BY <1>0 DEF ClientSession
  <2> HIDE DEF to
  <2>. QED BY <2>1, <2>2, OneSession DEF GatewayTypeOK, SessionKnown
<1>. QED BY <1>1, <1>2, <1>3, <1>4, <1>5, <1>6, <1>7, <1>8, <1>9 DEF SweepStep

\* The steps of a handler, on a copy of the session it is about.
LEMMA HandlersInv ==
  ASSUME GatewayInv, NEW h \in Handlers,
         HandlerStep(h) \/ \E s \in SessionIds : HandleMessage(h, s) \/ HandleDisconnect(h, s)
  PROVE  GatewayInv' /\ SessionStep
<1> USE GatewayAssumption, GatewayIdle DEF GatewayInv
<1>0. (\A s \in SessionIds : sessions[s] \in ClientSession) /\ handler[h] \in GatewayHandler
      /\ 0 \in 0..(IdleTimeout + 1)
  BY DEF GatewayTypeOK
<1>1. ASSUME NEW s \in SessionIds, HandleMessage(h, s) PROVE GatewayInv' /\ SessionStep
  <2> DEFINE next == [IdleHandler EXCEPT !.op = "limit", !.session = s,
                                 !.state = sessions[s].state,
                                 !.address = sessions[s].address]
  <2>1. HandlerGoto(h, next)
        /\ UNCHANGED <<gwRunning, sessions, used, buckets, routes, idleList, authList>>
    BY <1>1 DEF HandleMessage, sweeps
  <2>2. next \in GatewayHandler /\ next.session = s
    BY <1>0 DEF GatewayHandler, ClientSession
  <2> HIDE DEF next
  <2>. QED BY <2>1, <2>2, HandlerMoves, SameSessions DEF GatewayTypeOK
<1>2. ASSUME NEW s \in SessionIds, HandleDisconnect(h, s) PROVE GatewayInv' /\ SessionStep
  <2> DEFINE next == [IdleHandler EXCEPT !.op = "remove", !.session = s]
  <2>1. HandlerGoto(h, next)
        /\ UNCHANGED <<gwRunning, sessions, used, routes, idleList, authList>>
    BY <1>2 DEF HandleDisconnect, sweeps
  <2>2. next \in GatewayHandler /\ next.session = s
    BY DEF GatewayHandler
  <2> HIDE DEF next
  <2>3. buckets' \in [Addresses -> 0..RateLimitCapacity]
    <3>1. sessions[s].address \in Addresses /\ RateLimitCapacity \in 0..RateLimitCapacity
      BY <1>0 DEF ClientSession
    <3>. QED BY <1>2, <3>1 DEF HandleDisconnect, DropBucket, GatewayTypeOK
  <2>. QED BY <2>1, <2>2, <2>3, HandlerMoves, SameSessions DEF GatewayTypeOK
<1>3. CASE Admit(h)
  <2> DEFINE a == handler[h].address
             s == handler[h].session
             next == [handler[h] EXCEPT !.op = "dispatch"]
             to == [sessions[s] EXCEPT !.idle = 0]
  <2>1. s \in SessionIds /\ a \in Addresses
        /\ UNCHANGED <<gwRunning, used, routes, idleList, authList>>
    BY <1>0, <1>3 DEF Admit, sweeps, GatewayTypeOK, GatewayHandler
  <2>2. next \in GatewayHandler /\ next.session = s
    BY <1>0 DEF GatewayHandler
  <2>3. to \in ClientSession /\ to.state = sessions[s].state /\ to.user = sessions[s].user
    BY <1>0, <2>1 DEF ClientSession
  <2>4. CASE buckets[a] = 0
    <3>1. HandlerGoto(h, IdleHandler) /\ UNCHANGED <<buckets, sessions>>
      BY <1>3, <2>4 DEF Admit
    <3>. QED BY <2>1, <3>1, HandlerMoves, SameSessions DEF GatewayTypeOK
  <2>5. CASE buckets[a] # 0
    <3>1. /\ buckets' = [buckets EXCEPT ![a] = buckets[a] - 1] /\ HandlerGoto(h, next)
          /\ sessions' = IF Exists(s) THEN [sessions EXCEPT ![s] = to] ELSE sessions
      BY <1>3, <2>5 DEF Admit
    <3>2. buckets' \in [Addresses -> 0..RateLimitCapacity]
      <4>1. buckets[a] - 1 \in 0..RateLimitCapacity
        BY <2>1, <2>5 DEF GatewayTypeOK
      <4>. QED BY <3>1, <4>1 DEF GatewayTypeOK
    <3> HIDE DEF to, next, s, a
    <3>3. sessions' \in [SessionIds -> ClientSession] /\ SessionKnown' /\ SessionStep
      BY <2>1, <2>3, <3>1, OneSession, SameSessions DEF SessionKnown
    <3>. QED BY <2>1, <2>2, <3>1, <3>2, <3>3, HandlerMoves DEF GatewayTypeOK
  <2>. QED BY <2>4, <2>5
<1>4. CASE ValidateToken(h)
  <2>1. UNCHANGED <<gwRunning, sessions, used, buckets, routes, idleList, authList>>
    BY <1>4 DEF ValidateToken, sweeps
  <2>2. CASE HandlerGoto(h, IdleHandler)
    BY <2>1, <2>2, HandlerMoves, SameSessions DEF GatewayTypeOK
  <2>3. ASSUME NEW user \in UserIds \cup {0}, HandlerGoto(h, [handler[h] EXCEPT !.op = "auth", !.user = user])
        PROVE  GatewayInv' /\ SessionStep
    <3> DEFINE next == [handler[h] EXCEPT !.op = "auth", !.user = user]
    <3>1. next \in GatewayHandler /\ next.session \in SessionIds
      BY <1>0, <1>4 DEF ValidateToken, GatewayHandler, GatewayTypeOK
    <3> HIDE DEF next
    <3>2. HandlerGoto(h, next)
      BY <2>3 DEF next
    <3>. QED BY <2>1, <3>1, <3>2, HandlerMoves, SameSessions DEF GatewayTypeOK
  <2>. QED BY <1>4, <2>2, <2>3 DEF ValidateToken
<1>5. CASE Authenticate(h)
  <2> DEFINE s == handler[h].session
             to == [sessions[s] EXCEPT !.state = "Authenticated", !.user = handler[h].user,
                                       !.idle = 0]
  <2>1. /\ s \in SessionIds /\ handler[h].user \in UserIds \cup {0} /\ HandlerGoto(h, IdleHandler)
        /\ UNCHANGED <<gwRunning, used, buckets, routes, idleList, authList>>
    BY <1>0, <1>5 DEF Authenticate, sweeps, GatewayTypeOK, GatewayHandler
  <2>2. sessions' = IF sessions[s].state = "Unauthenticated" THEN [sessions EXCEPT ![s] = to]
                    ELSE sessions
    BY <1>5, Zenon DEF Authenticate, AuthenticateSession
  <2>3. to \in ClientSession /\ to.state = "Authenticated"
    BY <1>0, <2>1 DEF ClientSession, ClientState
  <2> HIDE DEF to, s
  <2>4. sessions' \in [SessionIds -> ClientSession] /\ SessionKnown' /\ SessionStep
    BY <2>1, <2>2, <2>3, OneSession, SameSessions DEF SessionKnown
  <2>. QED BY <2>1, <2>4, HandlerMoves DEF GatewayTypeOK
<1>6. CASE MigrationAck(h)
  <2> DEFINE s == handler[h].session
             to == [sessions[s] EXCEPT !.state = "Authenticated", !.idle = 0]
  <2>1. /\ s \in SessionIds /\ HandlerGoto(h, IdleHandler)
        /\ UNCHANGED <<gwRunning, used, buckets, routes, idleList, authList>>
    BY <1>0, <1>6 DEF MigrationAck, sweeps, GatewayTypeOK, GatewayHandler
  <2>2. sessions' = IF sessions[s].state = "Migrating" THEN [sessions EXCEPT ![s] = to]
                    ELSE sessions
    BY <1>6, Zenon DEF MigrationAck, CompleteMigration
  <2>3. to \in ClientSession /\ to.state = "Authenticated" /\ to.user = sessions[s].user
    BY <1>0, <2>1 DEF ClientSession, ClientState
  <2> HIDE DEF to, s
  <2>4. sessions' \in [SessionIds -> ClientSession] /\ SessionKnown' /\ SessionStep
    BY <2>1, <2>2, <2>3, OneSession, SameSessions DEF SessionKnown
  <2>. QED BY <2>1, <2>4, HandlerMoves DEF GatewayTypeOK
<1>7. CASE DropMessage(h) \/ \E op \in Opcodes : Forward(h, op)
  <2>1. /\ HandlerGoto(h, IdleHandler)
        /\ UNCHANGED <<gwRunning, sessions, used, buckets, routes, idleList, authList>>
    BY <1>7 DEF DropMessage, Forward, sweeps
  <2>. QED BY <2>1, HandlerMoves, SameSessions DEF GatewayTypeOK
<1>8. CASE FinishDisconnect(h)
  <2> DEFINE s == handler[h].session
  <2>1. /\ s \in SessionIds /\ HandlerGoto(h, IdleHandler)
        /\ sessions' = [sessions EXCEPT ![s] = NoSession]
        /\ UNCHANGED <<gwRunning, used, buckets, routes, idleList, authList>>
    BY <1>0, <1>8 DEF FinishDisconnect, RemoveSession, sweeps, GatewayTypeOK
  <2> HIDE DEF s
  <2>. QED BY <2>1, HandlerMoves, OneSession DEF GatewayTypeOK
<1>. QED BY <1>1, <1>2, <1>3, <1>4, <1>5, <1>6, <1>7, <1>8 DEF HandlerStep

\* A step of the gateway is a SessionStep and keeps the invariant.
LEMMA GatewayStepInv == ASSUME GatewayInv, [GatewayStep]_gatewayVars
                        PROVE  GatewayInv' /\ [SessionStep]_gatewayVars
<1>1. CASE GatewayStep
  BY <1>1, SessionsInv, HandlersInv DEF GatewayStep, GatewayNext
<1>2. CASE UNCHANGED gatewayVars
  BY <1>2 DEF gatewayVars, GatewayInv, GatewayTypeOK, SessionKnown
<1>. QED BY <1>1, <1>2

\* The gateway's sessions, buckets, handlers and sweeps keep their types, and a handler
\* in the middle of a message has a session id.
THEOREM GatewayTypeCorrect == GatewaySpec => []GatewayTypeOK
BY GatewayInvInit, GatewayStepInv, PTL DEF GatewaySpec, GatewayInv

\* Whatever handlers with old copies of a session do, sessions change only along their
\* life, keep their user and never come back.
THEOREM SessionsLive == GatewaySpec => SessionLifecycle
BY GatewayInvInit, GatewayStepInv, PTL DEF GatewaySpec, SessionLifecycle

(***************************************************************************)
(* The network manager.                                                    *)
(***************************************************************************)

\* No message has been cut yet, or the parser has not come to it.
Pending(c) == c.cut = 0 \/ Len(c.parsed) + 1 < c.cut

\* Until then what was parsed are the messages up to where the parser is; the chunk ends
\* with a frame, or within or behind the one that is cut.
Framed(c) ==
  /\ c.sent \in Nat /\ c.left \in Nat /\ c.left <= c.sent /\ c.parsed \in Seq(Nat)
  /\ c.cut \in 0..(Len(Boundaries) - 1)
  /\ \A i \in DOMAIN c.parsed : c.cut = 0 \/ i < c.cut => c.parsed[i] = i
  /\ Pending(c) => /\ Len(c.parsed) + 1 \in 1..Len(Boundaries)
                   /\ Boundaries[Len(c.parsed) + 1] = c.sent - c.left
                   /\ c.cut = 0 => c.sent \in ToSet(Boundaries)
                   /\ c.cut # 0 => Boundaries[c.cut] <= c.sent

\* A connection has the fields of NoConnection.
ConnectionOK(c) ==
  /\ DOMAIN c = {"at", "session", "sent", "left", "parsed", "cut", "ignored"}
  /\ c.at \in {"none", "inserted", "open", "erased"}
  /\ Framed(c)

\* Session ids are given out in order, so that the next one is new.
IdsFresh == nextSessionId \in Nat /\ \A s \in DOMAIN netSessions : s \in Nat /\ s < nextSessionId

NetInv ==
  /\ connection = [k \in Connections |-> connection[k]]
  /\ \A k \in Connections : ConnectionOK(connection[k]) /\ (connection[k].ignored => collided)
  /\ IdsFresh /\ SessionsMatch

\* Boundaries are naturals in rising order, from 0.
LEMMA Rising ==
  /\ Len(Boundaries) \in Nat /\ Len(Boundaries) > 0 /\ DOMAIN Boundaries = 1..Len(Boundaries)
  /\ \A m \in 1..Len(Boundaries) : Boundaries[m] \in Nat
  /\ \A m, n \in 1..Len(Boundaries) : m < n => Boundaries[m] < Boundaries[n]
  /\ \A x : x \in ToSet(Boundaries) <=> \E m \in 1..Len(Boundaries) : x = Boundaries[m]
  /\ Boundaries[1] = 0
BY NetAssumption DEF ToSet

\* A connection to which nothing has been sent.
LEMMA NothingSent == ConnectionOK(NoConnection) /\ NoConnection.at = "none" /\ ~NoConnection.ignored
<1>1. /\ NoConnection.sent = 0 /\ NoConnection.left = 0 /\ NoConnection.parsed = <<>> /\ NoConnection.cut = 0
      /\ NoConnection.at = "none" /\ NoConnection.ignored = FALSE
      /\ DOMAIN NoConnection = {"at", "session", "sent", "left", "parsed", "cut", "ignored"}
  BY DEF NoConnection
<1>2. Framed(NoConnection)
  <2>1. Len(<<>>) = 0 /\ DOMAIN <<>> = {} /\ <<>> \in Seq(Nat)
    OBVIOUS
  <2>2. /\ 0 \in ToSet(Boundaries) /\ Boundaries[0 + 1] = 0 /\ 0 + 1 \in 1..Len(Boundaries)
        /\ 0 \in 0..(Len(Boundaries) - 1)
    BY Rising
  <2>. QED BY <1>1, <2>1, <2>2 DEF Framed
<1>. QED BY <1>1, <1>2 DEF ConnectionOK

\* What has been received is framed in the same way whatever else becomes of a connection.
LEMMA SameFrames ==
  ASSUME NEW c, NEW d, Framed(c), d.sent = c.sent, d.left = c.left, d.parsed = c.parsed, d.cut = c.cut
  PROVE  Framed(d)
BY DEF Framed, Pending

\* Another chunk, that ends with a frame.
LEMMA ChunkFramed ==
  ASSUME NEW c, NEW d, Framed(c), c.left = 0, NEW n \in Nat,
         d.sent = c.sent + n, d.left = n, d.parsed = c.parsed, d.cut = c.cut,
         d.sent \in ToSet(Boundaries)
  PROVE  Framed(d)
<1>1. /\ d.sent \in Nat /\ d.left \in Nat /\ d.left <= d.sent /\ d.parsed \in Seq(Nat)
      /\ d.sent - d.left = c.sent - c.left /\ c.sent <= d.sent /\ c.sent \in Nat
      /\ c.cut # 0 => Boundaries[c.cut] \in Nat
  BY Rising DEF Framed
<1>2. Pending(d) <=> Pending(c)
  BY DEF Pending
<1>. QED BY <1>1, <1>2 DEF Framed

\* Another chunk, that ends within a frame.
LEMMA CutFramed ==
  ASSUME NEW c, NEW d, Framed(c), c.left = 0, NEW n \in Nat, NEW m \in Messages,
         CutAt(c, c.sent + n, m),
         d.sent = c.sent + n, d.left = n, d.parsed = c.parsed, d.cut = m
  PROVE  Framed(d)
<1>1. /\ d.sent \in Nat /\ d.left \in Nat /\ d.left <= d.sent /\ d.parsed \in Seq(Nat)
      /\ d.sent - d.left = c.sent - c.left /\ c.sent <= d.sent /\ c.sent \in Nat
  BY DEF Framed
<1>2. m # 0 /\ m \in 0..(Len(Boundaries) - 1) /\ Boundaries[m] \in Nat
  BY Rising DEF Messages
<1>3. c.cut = 0 \/ c.cut = m
  BY DEF CutAt
<1>4. Pending(d) => Pending(c)
  BY <1>2, <1>3 DEF Pending
<1>5. Pending(d) => Boundaries[m] <= d.sent
  <2>1. CASE c.cut = 0
    BY <2>1 DEF CutAt
  <2>2. CASE c.cut # 0
    BY <1>1, <1>2, <1>3, <1>4, <2>2 DEF Framed
  <2>. QED BY <2>1, <2>2
<1>6. \A i \in DOMAIN d.parsed : d.cut = 0 \/ i < d.cut => d.parsed[i] = i
  BY <1>2, <1>3 DEF Framed
<1>. QED BY <1>1, <1>2, <1>4, <1>5, <1>6 DEF Framed

\* A chunk that is ignored.
LEMMA IgnoredFramed ==
  ASSUME NEW c, NEW d, Framed(c), c.left = 0, NEW n \in Nat, NEW m \in Messages,
         CutAt(c, c.sent, m),
         d.sent = c.sent + n, d.left = c.left, d.parsed = c.parsed, d.cut = m
  PROVE  Framed(d)
<1>1. /\ d.sent \in Nat /\ d.left \in Nat /\ d.left <= d.sent /\ d.parsed \in Seq(Nat)
      /\ c.sent \in Nat /\ c.sent - c.left = c.sent /\ Len(c.parsed) \in Nat
  BY DEF Framed
<1>2. /\ m # 0 /\ m \in 0..(Len(Boundaries) - 1) /\ m \in 1..Len(Boundaries) /\ m + 1 \in 1..Len(Boundaries)
      /\ Boundaries[m] \in Nat /\ Boundaries[m + 1] \in Nat
  BY Rising DEF Messages
<1>3. c.cut = 0 \/ c.cut = m
  BY DEF CutAt
<1>4. ~Pending(d)
  <2>1. SUFFICES ASSUME Len(c.parsed) + 1 < m PROVE FALSE
    BY <1>2 DEF Pending
  <2>2. /\ Pending(c) /\ Len(c.parsed) + 1 \in 1..Len(Boundaries) /\ Boundaries[Len(c.parsed) + 1] = c.sent
    BY <1>1, <1>3, <2>1 DEF Framed, Pending
  <2>3. Boundaries[m] <= c.sent
    BY <1>3, <2>2 DEF Framed, CutAt
  <2>4. Boundaries[Len(c.parsed) + 1] < Boundaries[m]
    BY <1>2, <2>1, <2>2, Rising
  <2>. QED BY <1>1, <1>2, <2>2, <2>3, <2>4
<1>5. \A i \in DOMAIN d.parsed : d.cut = 0 \/ i < d.cut => d.parsed[i] = i
  BY <1>2, <1>3 DEF Framed
<1>. QED BY <1>1, <1>2, <1>4, <1>5 DEF Framed

\* A frame that is all there: until a message is cut it is the one behind those that were parsed.
LEMMA FrameFramed ==
  ASSUME NEW c, NEW d, Framed(c), NEW m \in Messages,
         c.sent - c.left = Boundaries[m], FrameSize(m) <= c.left,
         d.sent = c.sent, d.left = c.left - FrameSize(m), d.parsed = Append(c.parsed, m), d.cut = c.cut
  PROVE  Framed(d)
<1>1. /\ m \in 1..Len(Boundaries) /\ m + 1 \in 1..Len(Boundaries) /\ m \in Nat
      /\ Boundaries[m] \in Nat /\ Boundaries[m + 1] \in Nat /\ Boundaries[m] < Boundaries[m + 1]
  BY Rising DEF Messages
<1>2. FrameSize(m) = Boundaries[m + 1] - Boundaries[m]
  BY DEF FrameSize
<1>3. /\ c.sent \in Nat /\ c.left \in Nat /\ c.left <= c.sent /\ c.parsed \in Seq(Nat)
      /\ c.cut \in 0..(Len(Boundaries) - 1)
  BY DEF Framed
<1>4. /\ d.sent \in Nat /\ d.left \in Nat /\ d.left <= d.sent /\ d.sent - d.left = Boundaries[m + 1]
  <2>. DEFINE x == c.sent
              y == c.left
              u == Boundaries[m]
              v == Boundaries[m + 1]
  <2>1. x \in Nat /\ y \in Nat /\ u \in Nat /\ v \in Nat /\ y <= x /\ x - y = u /\ v - u <= y /\ u < v
    BY <1>1, <1>2, <1>3
  <2>2. d.sent = x /\ d.left = y - (v - u)
    BY <1>2
  <2>. HIDE DEF x, y, u, v
  <2>3. y - (v - u) \in Nat /\ y - (v - u) <= x /\ x - (y - (v - u)) = v
    BY <2>1
  <2>4. d.sent \in Nat /\ d.left \in Nat /\ d.left <= d.sent /\ d.sent - d.left = v
    BY <2>1, <2>2, <2>3
  <2>. QED BY <2>4 DEF v
<1>5. /\ d.parsed \in Seq(Nat) /\ Len(d.parsed) = Len(c.parsed) + 1 /\ d.parsed[Len(c.parsed) + 1] = m
      /\ \A i \in DOMAIN c.parsed : d.parsed[i] = c.parsed[i]
      /\ \A i \in DOMAIN d.parsed : i \in DOMAIN c.parsed \/ i = Len(c.parsed) + 1
      /\ Len(c.parsed) \in Nat
  <2>1. c.parsed \in Seq(Nat) /\ m \in Nat /\ d.parsed = Append(c.parsed, m)
    BY <1>1, <1>3
  <2> HIDE DEF Messages
  <2>2. /\ d.parsed \in Seq(Nat) /\ Len(d.parsed) = Len(c.parsed) + 1 /\ Len(c.parsed) \in Nat
        /\ DOMAIN c.parsed = 1..Len(c.parsed) /\ DOMAIN d.parsed = 1..Len(d.parsed)
    BY <2>1
  <2>3. /\ d.parsed[Len(c.parsed) + 1] = m
        /\ \A i \in 1..Len(c.parsed) : d.parsed[i] = c.parsed[i]
    BY <2>1
  <2>. QED BY <2>2, <2>3
<1>6. Pending(c) => Len(c.parsed) + 1 = m
  <2>1. SUFFICES ASSUME Pending(c) PROVE Len(c.parsed) + 1 = m
    OBVIOUS
  <2>2. Len(c.parsed) + 1 \in 1..Len(Boundaries) /\ Boundaries[Len(c.parsed) + 1] = Boundaries[m]
    BY <2>1 DEF Framed
  <2>. QED BY <1>1, <2>2, Rising
<1>7. Pending(d) => Pending(c)
  BY <1>3, <1>5 DEF Pending
<1>8. ASSUME NEW i \in DOMAIN d.parsed, d.cut = 0 \/ i < d.cut PROVE d.parsed[i] = i
  <2>1. CASE i \in DOMAIN c.parsed
    BY <1>5, <1>8, <2>1 DEF Framed
  <2>2. CASE i = Len(c.parsed) + 1
    BY <1>5, <1>6, <1>8, <2>2 DEF Pending
  <2>. QED BY <1>5, <2>1, <2>2
<1>9. Pending(d) => /\ Len(d.parsed) + 1 \in 1..Len(Boundaries)
                    /\ Boundaries[Len(d.parsed) + 1] = d.sent - d.left
                    /\ d.cut = 0 => d.sent \in ToSet(Boundaries)
                    /\ d.cut # 0 => Boundaries[d.cut] <= d.sent
  BY <1>1, <1>4, <1>5, <1>6, <1>7 DEF Framed
<1>. QED BY <1>3, <1>4, <1>5, <1>8, <1>9 DEF Framed

\* Until a message is cut the parser finds whole frames only.
LEMMA WholeFrames ==
  ASSUME NEW c, Framed(c), Pending(c), c.left > 0
  PROVE  /\ c.sent - c.left \in ToSet(Boundaries)
         /\ \A m \in Messages : c.sent - c.left = Boundaries[m] => FrameSize(m) <= c.left
<1>1. /\ c.sent \in Nat /\ c.left \in Nat /\ c.left <= c.sent /\ c.parsed \in Seq(Nat)
      /\ Len(c.parsed) + 1 \in 1..Len(Boundaries) /\ Boundaries[Len(c.parsed) + 1] = c.sent - c.left
      /\ c.cut \in 0..(Len(Boundaries) - 1)
      /\ c.cut = 0 => c.sent \in ToSet(Boundaries)
      /\ c.cut # 0 => Boundaries[c.cut] <= c.sent
  BY DEF Framed
<1>2. ASSUME NEW m \in Messages, c.sent - c.left = Boundaries[m] PROVE FrameSize(m) <= c.left
  <2>0. /\ m \in 1..Len(Boundaries) /\ m + 1 \in 1..Len(Boundaries)
        /\ Boundaries[m] \in Nat /\ Boundaries[m + 1] \in Nat
    BY Rising DEF Messages
  <2>1. PICK j \in 1..Len(Boundaries) : Boundaries[j] <= c.sent /\ m < j
    <3>1. CASE c.cut = 0
      <4>1. PICK j \in 1..Len(Boundaries) : c.sent = Boundaries[j]
        BY <1>1, <3>1, Rising
      <4>2. Boundaries[j] \in Nat /\ Boundaries[m] < Boundaries[j]
        BY <1>1, <1>2, <2>0, <4>1, Rising
      <4>3. m < j
        BY <2>0, <4>2, Rising
      <4>. QED BY <1>1, <4>1, <4>3
    <3>2. CASE c.cut # 0
      <4>1. Len(c.parsed) + 1 < c.cut /\ c.cut \in 1..Len(Boundaries) /\ Len(c.parsed) \in Nat
        BY <1>1, <3>2, Rising DEF Pending
      <4>2. Len(c.parsed) + 1 = m
        BY <1>1, <1>2, <2>0, Rising
      <4>. QED BY <1>1, <3>2, <4>1, <4>2
    <3>. QED BY <3>1, <3>2
  <2>2. Boundaries[m + 1] <= Boundaries[j] /\ Boundaries[j] \in Nat
    <3>1. m + 1 = j \/ m + 1 < j
      BY <2>0, <2>1, Rising
    <3>. QED BY <2>0, <3>1, Rising
  <2>. QED BY <1>1, <1>2, <2>0, <2>1, <2>2 DEF FrameSize
<1>. QED BY <1>1, <1>2, Rising

\* The rest of a chunk is dropped.
LEMMA DroppedFramed ==
  ASSUME NEW c, NEW d, Framed(c), ~Pending(c), d.sent = c.sent, d.left = 0, d.parsed = c.parsed, d.cut = c.cut
  PROVE  Framed(d)
BY DEF Framed, Pending

\* Something is made of a chunk that does not begin with a frame.
LEMMA MisreadFramed ==
  ASSUME NEW c, NEW d, Framed(c), ~Pending(c), NEW n \in 1..c.left,
         d.sent = c.sent, d.left = c.left - n, d.parsed = Append(c.parsed, 0), d.cut = c.cut
  PROVE  Framed(d)
<1>1. /\ d.sent \in Nat /\ d.left \in Nat /\ d.left <= d.sent /\ d.parsed \in Seq(Nat)
      /\ d.cut \in 0..(Len(Boundaries) - 1) /\ Len(d.parsed) = Len(c.parsed) + 1 /\ Len(c.parsed) \in Nat
      /\ \A i \in DOMAIN c.parsed : d.parsed[i] = c.parsed[i]
      /\ \A i \in DOMAIN d.parsed : i \in DOMAIN c.parsed \/ i = Len(c.parsed) + 1
  BY DEF Framed
<1>2. c.cut # 0 /\ c.cut <= Len(c.parsed) + 1 /\ c.cut \in Nat
  BY <1>1, Rising DEF Pending
<1>3. ~Pending(d)
  BY <1>1, <1>2 DEF Pending
<1>4. \A i \in DOMAIN d.parsed : d.cut = 0 \/ i < d.cut => d.parsed[i] = i
  BY <1>1, <1>2 DEF Framed
<1>. QED BY <1>1, <1>3, <1>4 DEF Framed

\* A step that changes at most what a connection has received.
LEMMA ConnectionStep ==
  ASSUME NetInv, NEW k \in Connections, NEW c, ConnectionOK(c), SetConnection(k, c),
         c.ignored => collided,
         \/ c.at = "none" \/ c.at = "erased"
         \/ c.at = connection[k].at /\ c.session = connection[k].session
         \/ At(k) \in {"inserted", "open"} /\ c.session = connection[k].session,
         sessionsSame
  PROVE  NetInv'
<1>1. /\ connection' = [connection EXCEPT ![k] = c] /\ connection'[k] = c
      /\ connection' = [j \in Connections |-> connection'[j]]
      /\ \A j \in Connections : j # k => connection'[j] = connection[j]
  BY DEF NetInv, SetConnection
<1>2. \A j \in Connections : ConnectionOK(connection'[j]) /\ (connection'[j].ignored => collided')
  BY <1>1 DEF NetInv, sessionsSame
<1>3. SessionsMatch'
  <2> SUFFICES ASSUME ~collided,
                      NEW j \in Connections, connection'[j].at \in {"inserted", "open"}
               PROVE  /\ connection'[j].session \in DOMAIN netSessions
                      /\ netSessions[connection'[j].session] = [protocol |-> j[1], id |-> j[2]]
    BY DEF NetInv, SessionsMatch, At, sessionsSame
  <2>. QED BY <1>1 DEF NetInv, SessionsMatch, At
<1>. QED BY <1>1, <1>2, <1>3 DEF NetInv, IdsFresh, sessionsSame

\* Listening, stopping, connecting, receiving and disconnecting preserve the invariant.
LEMMA NetStep == ASSUME NetInv, [NetNext]_netVars PROVE NetInv'
<1>0. ASSUME NEW p \in Protocols, StartServer(p) PROVE NetInv'
  BY <1>0 DEF StartServer, NetInv, IdsFresh, SessionsMatch, At
<1>1. ASSUME AddServer PROVE NetInv'
  BY <1>1 DEF AddServer, NetInv, IdsFresh, SessionsMatch, At
<1>2. ASSUME NEW P \in SUBSET Protocols, StopServers(P) PROVE NetInv'
  <2> DEFINE gone == SessionsOf(P)
  <2>1. /\ servers' = servers \ P /\ nextSessionId' = nextSessionId /\ collided' = collided
        /\ starting' = starting /\ starting = {}
        /\ connection' = [k \in Connections |-> IF k[1] \in P THEN NoConnection ELSE connection[k]]
        /\ \A s \in gone : s \in DOMAIN netSessions /\ netSessions[s].protocol \in P
        /\ \A s \in DOMAIN netSessions : netSessions[s].protocol \in P => s \in gone
    BY <1>2 DEF StopServers, SessionsOf
  <2>2. /\ DOMAIN netSessions' = DOMAIN netSessions \ gone
        /\ \A s \in DOMAIN netSessions' : netSessions'[s] = netSessions[s]
    BY <1>2 DEF StopServers, Drop
  <2>3. /\ DOMAIN reverseMap' = DOMAIN reverseMap \ {netSessions[s].id : s \in gone}
        /\ \A id \in DOMAIN reverseMap' : reverseMap'[id] = reverseMap[id]
    BY <1>2 DEF StopServers, Drop
  <2> HIDE DEF gone
  <2>4. /\ connection' = [k \in Connections |-> connection'[k]]
        /\ \A k \in Connections : ConnectionOK(connection'[k]) /\ (connection'[k].ignored => collided')
    BY <2>1, NothingSent DEF NetInv
  <2>5. IdsFresh'
    BY <2>1, <2>2 DEF NetInv, IdsFresh
  <2>6. SessionsMatch'
    <3> SUFFICES ASSUME ~collided
                 PROVE  /\ \A id \in DOMAIN reverseMap' :
                             /\ reverseMap'[id] \in DOMAIN netSessions'
                             /\ netSessions'[reverseMap'[id]].id = id
                        /\ \A s \in DOMAIN netSessions' :
                             /\ netSessions'[s].protocol \in servers' \cup starting'
                             /\ netSessions'[s].id \in DOMAIN reverseMap'
                             /\ reverseMap'[netSessions'[s].id] = s
                        /\ \A k \in Connections : connection'[k].at \in {"inserted", "open"} =>
                             /\ connection'[k].session \in DOMAIN netSessions'
                             /\ netSessions'[connection'[k].session] = [protocol |-> k[1], id |-> k[2]]
      BY <2>1 DEF SessionsMatch, At
    <3>1. \A s \in DOMAIN netSessions' :
            /\ netSessions'[s].protocol \in servers' \cup starting'
            /\ netSessions'[s].id \in DOMAIN reverseMap' /\ reverseMap'[netSessions'[s].id] = s
      BY <2>1, <2>2, <2>3 DEF NetInv, SessionsMatch
    <3>2. \A id \in DOMAIN reverseMap' :
            reverseMap'[id] \in DOMAIN netSessions' /\ netSessions'[reverseMap'[id]].id = id
      BY <2>1, <2>2, <2>3 DEF NetInv, SessionsMatch
    <3>4. ASSUME NEW k \in Connections, connection'[k].at \in {"inserted", "open"}
          PROVE  /\ connection'[k].session \in DOMAIN netSessions'
                 /\ netSessions'[connection'[k].session] = [protocol |-> k[1], id |-> k[2]]
      <4>1. k[1] \notin P /\ connection'[k] = connection[k]
        BY <2>1, <3>4 DEF NoConnection
      <4>. QED BY <2>1, <2>2, <3>4, <4>1 DEF NetInv, SessionsMatch, At
    <3>. QED BY <3>1, <3>2, <3>4
  <2>. QED BY <2>4, <2>5, <2>6 DEF NetInv
<1>3. ASSUME NEW k \in Connections, ClientConnected(k) PROVE NetInv'
  <2> DEFINE n == nextSessionId
             c == [NoConnection EXCEPT !.at = "inserted", !.session = n]
  <2>1. /\ connection' = [connection EXCEPT ![k] = c] /\ servers' = servers /\ starting' = starting
        /\ k[1] \in servers \cup starting
        /\ nextSessionId' = n + 1
        /\ collided' = (collided \/ k[2] \in DOMAIN reverseMap)
    BY <1>3 DEF ClientConnected, SetConnection
  <2>2. ConnectionOK(c) /\ c.at = "inserted" /\ c.session = n /\ ~c.ignored
    <3>1. /\ c.at = "inserted" /\ c.session = n /\ c.sent = NoConnection.sent
          /\ c.left = NoConnection.left /\ c.parsed = NoConnection.parsed
          /\ c.cut = NoConnection.cut /\ c.ignored = NoConnection.ignored /\ DOMAIN c = DOMAIN NoConnection
      BY DEF NoConnection
    <3> HIDE DEF c
    <3>2. Framed(c)
      BY <3>1, NothingSent, SameFrames DEF ConnectionOK
    <3>. QED BY <3>1, <3>2, NothingSent DEF ConnectionOK
  <2>3. n \in Nat /\ n \notin DOMAIN netSessions
    BY DEF NetInv, IdsFresh
  <2>4. /\ DOMAIN netSessions' = DOMAIN netSessions \cup {n}
        /\ netSessions'[n] = [protocol |-> k[1], id |-> k[2]]
        /\ \A s \in DOMAIN netSessions : netSessions'[s] = netSessions[s]
    BY <1>3, <2>3 DEF ClientConnected, Emplace
  <2>5. k[2] \notin DOMAIN reverseMap =>
          /\ DOMAIN reverseMap' = DOMAIN reverseMap \cup {k[2]}
          /\ reverseMap'[k[2]] = n
          /\ \A id \in DOMAIN reverseMap : reverseMap'[id] = reverseMap[id]
    BY <1>3 DEF ClientConnected, Emplace
  <2> HIDE DEF c
  <2>6. /\ connection' = [j \in Connections |-> connection'[j]] /\ connection'[k] = c
        /\ \A j \in Connections : j # k => connection'[j] = connection[j]
    BY <2>1 DEF NetInv
  <2>7. IdsFresh'
    BY <2>1, <2>3, <2>4 DEF NetInv, IdsFresh
  <2>8. SessionsMatch'
    <3> SUFFICES ASSUME ~collided, k[2] \notin DOMAIN reverseMap
                 PROVE  /\ \A id \in DOMAIN reverseMap' :
                             /\ reverseMap'[id] \in DOMAIN netSessions'
                             /\ netSessions'[reverseMap'[id]].id = id
                        /\ \A s \in DOMAIN netSessions' :
                             /\ netSessions'[s].protocol \in servers' \cup starting'
                             /\ netSessions'[s].id \in DOMAIN reverseMap'
                             /\ reverseMap'[netSessions'[s].id] = s
                        /\ \A j \in Connections : connection'[j].at \in {"inserted", "open"} =>
                             /\ connection'[j].session \in DOMAIN netSessions'
                             /\ netSessions'[connection'[j].session] = [protocol |-> j[1], id |-> j[2]]
      BY <2>1 DEF SessionsMatch, At
    <3>1. \A s \in DOMAIN netSessions' :
            /\ netSessions'[s].protocol \in servers' \cup starting'
            /\ netSessions'[s].id \in DOMAIN reverseMap' /\ reverseMap'[netSessions'[s].id] = s
      BY <2>1, <2>4, <2>5 DEF NetInv, SessionsMatch
    <3>2. \A id \in DOMAIN reverseMap' :
            reverseMap'[id] \in DOMAIN netSessions' /\ netSessions'[reverseMap'[id]].id = id
      BY <2>4, <2>5 DEF NetInv, SessionsMatch
    <3>4. \A j \in Connections : connection'[j].at \in {"inserted", "open"} =>
            /\ connection'[j].session \in DOMAIN netSessions'
            /\ netSessions'[connection'[j].session] = [protocol |-> j[1], id |-> j[2]]
      BY <2>2, <2>4, <2>6 DEF NetInv, SessionsMatch, At
    <3>. QED BY <3>1, <3>2, <3>4
  <2>. QED BY <2>1, <2>2, <2>6, <2>7, <2>8 DEF NetInv
<1>4. ASSUME NEW k \in Connections, TellConnected(k) PROVE NetInv'
  <2> DEFINE c == [connection[k] EXCEPT !.at = "open"]
  <2>1. /\ ConnectionOK(c) /\ c.at = "open" /\ c.session = connection[k].session
        /\ c.ignored => collided
    <3>0. ConnectionOK(connection[k])
      BY DEF NetInv
    <3>1. /\ c.at = "open" /\ c.session = connection[k].session /\ c.sent = connection[k].sent
          /\ c.left = connection[k].left /\ c.parsed = connection[k].parsed
          /\ c.cut = connection[k].cut /\ c.ignored = connection[k].ignored /\ DOMAIN c = DOMAIN connection[k]
      BY <3>0 DEF ConnectionOK
    <3> HIDE DEF c
    <3>2. Framed(c)
      BY <3>0, <3>1, SameFrames DEF ConnectionOK
    <3>. QED BY <3>0, <3>1, <3>2 DEF ConnectionOK, NetInv
  <2>2. SetConnection(k, c) /\ At(k) = "inserted" /\ sessionsSame
    BY <1>4 DEF TellConnected
  <2> HIDE DEF c
  <2>. QED BY <2>1, <2>2, ConnectionStep
<1>5. ASSUME NEW k \in Connections, NEW n \in 1..StreamEnd, Receive(k, n) PROVE NetInv'
  <2> DEFINE old == connection[k]
             end == old.sent + n
             whole == [old EXCEPT !.sent = end, !.left = n]
             part(m) == [old EXCEPT !.sent = end, !.left = n, !.cut = m]
             none(m) == [old EXCEPT !.sent = end, !.cut = m, !.ignored = TRUE]
  <2>1. At(k) = "open" /\ old.left = 0 /\ sessionsSame
    BY <1>5, Zenon DEF Receive
  <2>2. \/ end \in ToSet(Boundaries) /\ SetConnection(k, whole)
        \/ \E m \in Messages : CutAt(old, end, m) /\ SetConnection(k, part(m))
        \/ /\ k[2] \notin DOMAIN reverseMap
           /\ \E m \in Messages : CutAt(old, old.sent, m) /\ SetConnection(k, none(m))
    BY <1>5, Zenon DEF Receive
  <2>3. ConnectionOK(old) /\ Framed(old) /\ (old.ignored => collided)
    BY DEF NetInv, ConnectionOK
  <2>4. n \in Nat
    BY Rising DEF StreamEnd
  <2>5. /\ whole.at = old.at /\ whole.session = old.session /\ whole.sent = end /\ whole.left = n
        /\ whole.parsed = old.parsed /\ whole.cut = old.cut /\ whole.ignored = old.ignored
        /\ DOMAIN whole = DOMAIN old
    BY <2>3 DEF ConnectionOK
  <2>6. ASSUME NEW m
        PROVE  /\ part(m).at = old.at /\ part(m).session = old.session /\ part(m).sent = end
               /\ part(m).left = n /\ part(m).parsed = old.parsed /\ part(m).cut = m
               /\ part(m).ignored = old.ignored /\ DOMAIN part(m) = DOMAIN old
    BY <2>3 DEF ConnectionOK
  <2>7. ASSUME NEW m
        PROVE  /\ none(m).at = old.at /\ none(m).session = old.session /\ none(m).sent = end
               /\ none(m).left = old.left /\ none(m).parsed = old.parsed /\ none(m).cut = m
               /\ DOMAIN none(m) = DOMAIN old
    BY <2>3 DEF ConnectionOK
  <2> HIDE DEF whole, part, none
  <2>8. ASSUME NEW c, Framed(c), c.at = old.at, c.session = old.session, DOMAIN c = DOMAIN old,
               c.ignored => collided, SetConnection(k, c)
        PROVE  NetInv'
    <3>1. ConnectionOK(c)
      BY <2>3, <2>8 DEF ConnectionOK
    <3>. QED BY <2>1, <2>8, <3>1, ConnectionStep
  <2> HIDE DEF old
  <2>9. ASSUME end \in ToSet(Boundaries), SetConnection(k, whole) PROVE NetInv'
    <3>1. Framed(whole)
      BY <2>1, <2>3, <2>4, <2>5, <2>9, ChunkFramed
    <3>. QED BY <2>3, <2>5, <2>8, <2>9, <3>1
  <2>10. ASSUME NEW m \in Messages, CutAt(old, end, m), SetConnection(k, part(m)) PROVE NetInv'
    <3>1. Framed(part(m))
      BY <2>1, <2>3, <2>4, <2>6, <2>10, CutFramed
    <3>. QED BY <2>3, <2>6, <2>8, <2>10, <3>1
  <2>11. ASSUME NEW m \in Messages, CutAt(old, old.sent, m), SetConnection(k, none(m)),
                k[2] \notin DOMAIN reverseMap
         PROVE  NetInv'
    <3>1. Framed(none(m))
      BY <2>1, <2>3, <2>4, <2>7, <2>11, IgnoredFramed
    <3>2. collided
      <4>1. SUFFICES ASSUME ~collided PROVE FALSE
        OBVIOUS
      <4>2. SessionsMatch /\ At(k) = "open"
        BY <2>1 DEF NetInv
      <4>3. /\ connection[k].session \in DOMAIN netSessions
            /\ netSessions[connection[k].session] = [protocol |-> k[1], id |-> k[2]]
            /\ netSessions[connection[k].session].id \in DOMAIN reverseMap
        BY <4>1, <4>2, Zenon DEF SessionsMatch
      <4>4. netSessions[connection[k].session].id = k[2]
        BY <4>3
      <4>. QED BY <2>11, <4>3, <4>4
    <3>. QED BY <2>7, <2>8, <2>11, <3>1, <3>2
  <2>. QED BY <2>2, <2>9, <2>10, <2>11
<1>6. ASSUME NEW k \in Connections, Parse(k) PROVE NetInv'
  <2> DEFINE old == connection[k]
             from == old.sent - old.left
             Taken(n, m) == [old EXCEPT !.left = @ - n, !.parsed = Append(@, m)]
             rest == [old EXCEPT !.left = 0]
  <2>1. ConnectionOK(old) /\ Framed(old) /\ (old.ignored => collided)
    BY DEF NetInv, ConnectionOK
  <2>2. old.left > 0 /\ sessionsSame
    BY <1>6 DEF Parse
  <2>3. \/ \E m \in Messages :
             /\ from = Boundaries[m]
             /\ \/ FrameSize(m) <= old.left /\ SetConnection(k, Taken(FrameSize(m), m))
                \/ FrameSize(m) > old.left /\ SetConnection(k, rest)
        \/ /\ from \notin ToSet(Boundaries)
           /\ SetConnection(k, rest) \/ \E n \in 1..old.left : SetConnection(k, Taken(n, 0))
    BY <1>6, Zenon DEF Parse
  <2>4. ASSUME NEW c, ConnectionOK(c), c.at = old.at, c.session = old.session, c.ignored = old.ignored,
               SetConnection(k, c)
        PROVE  NetInv'
    BY <2>1, <2>2, <2>4, ConnectionStep
  <2>5. /\ rest.at = old.at /\ rest.session = old.session /\ rest.sent = old.sent /\ rest.left = 0
        /\ rest.parsed = old.parsed /\ rest.cut = old.cut /\ rest.ignored = old.ignored /\ DOMAIN rest = DOMAIN old
    BY <2>1 DEF ConnectionOK
  <2>6. ASSUME NEW n, NEW m
        PROVE  /\ Taken(n, m).at = old.at /\ Taken(n, m).session = old.session
               /\ Taken(n, m).sent = old.sent /\ Taken(n, m).left = old.left - n
               /\ Taken(n, m).parsed = Append(old.parsed, m) /\ Taken(n, m).cut = old.cut
               /\ Taken(n, m).ignored = old.ignored
               /\ DOMAIN Taken(n, m) = DOMAIN old
    BY <2>1 DEF ConnectionOK
  <2> HIDE DEF rest, Taken, old
  <2>7. ASSUME NEW c, Framed(c), c.at = old.at, DOMAIN c = DOMAIN old PROVE ConnectionOK(c)
    BY <2>1, <2>7 DEF ConnectionOK
  <2>8. ASSUME SetConnection(k, rest), ~Pending(old) PROVE NetInv'
    <3>1. Framed(rest)
      BY <2>1, <2>5, <2>8, DroppedFramed
    <3>. QED BY <2>4, <2>5, <2>7, <2>8, <3>1
  <2>9. ASSUME NEW n \in 1..old.left, SetConnection(k, Taken(n, 0)), ~Pending(old) PROVE NetInv'
    <3>1. Framed(Taken(n, 0))
      <4> DEFINE d == Taken(n, 0)
      <4>1. d.sent = old.sent /\ d.left = old.left - n /\ d.parsed = Append(old.parsed, 0) /\ d.cut = old.cut
        BY <2>6
      <4> HIDE DEF d
      <4>2. Framed(d)
        BY <2>1, <2>9, <4>1, MisreadFramed
      <4>. QED BY <4>2 DEF d
    <3>. QED BY <2>4, <2>6, <2>7, <2>9, <3>1
  <2>10. ASSUME NEW m \in Messages, from = Boundaries[m], FrameSize(m) <= old.left,
                SetConnection(k, Taken(FrameSize(m), m))
         PROVE  NetInv'
    <3>1. Framed(Taken(FrameSize(m), m))
      <4> DEFINE d == Taken(FrameSize(m), m)
      <4>1. /\ d.sent = old.sent /\ d.left = old.left - FrameSize(m)
            /\ d.parsed = Append(old.parsed, m) /\ d.cut = old.cut
        BY <2>6
      <4> HIDE DEF d
      <4>2. Framed(d)
        BY <2>1, <2>10, <4>1, FrameFramed
      <4>. QED BY <4>2 DEF d
    <3>. QED BY <2>4, <2>6, <2>7, <2>10, <3>1
  <2>11. Pending(old) => /\ from \in ToSet(Boundaries)
                      /\ \A m \in Messages : from = Boundaries[m] => FrameSize(m) <= old.left
    BY <2>1, <2>2, WholeFrames
  <2>12. ASSUME NEW m \in Messages, FrameSize(m) <= old.left PROVE ~(FrameSize(m) > old.left)
    BY <2>1, <2>12, Rising DEF Framed, FrameSize, Messages
  <2>. QED BY <2>3, <2>8, <2>9, <2>10, <2>11, <2>12
<1>7. ASSUME NEW k \in Connections, TellDisconnected(k) PROVE NetInv'
  BY <1>7, NothingSent, ConnectionStep DEF TellDisconnected
<1>8. ASSUME NEW k \in Connections, Disconnected(k) PROVE NetInv'
  <2>1. CASE k[2] \notin DOMAIN reverseMap
    BY <1>8, <2>1, NothingSent, ConnectionStep DEF Disconnected, sessionsSame
  <2>2. CASE k[2] \in DOMAIN reverseMap
    <3> DEFINE s == reverseMap[k[2]]
               c == [connection[k] EXCEPT !.at = "erased", !.session = s]
    <3>1. /\ connection' = [connection EXCEPT ![k] = c] /\ connection[k].at = "open"
          /\ UNCHANGED <<servers, starting, nextSessionId, collided>>
      BY <1>8, <2>2, Zenon DEF Disconnected, SetConnection, At
    <3>2. /\ DOMAIN netSessions' = DOMAIN netSessions \ {s}
          /\ \A t \in DOMAIN netSessions' : netSessions'[t] = netSessions[t]
      BY <1>8, <2>2 DEF Disconnected, Drop
    <3>3. /\ DOMAIN reverseMap' = DOMAIN reverseMap \ {k[2]}
          /\ \A id \in DOMAIN reverseMap' : reverseMap'[id] = reverseMap[id]
      BY <1>8, <2>2 DEF Disconnected, Drop
    <3> HIDE DEF s
    <3>4. ConnectionOK(c) /\ c.at = "erased" /\ (c.ignored => collided)
      <4>1. ConnectionOK(connection[k])
        BY DEF NetInv
      <4>2. /\ c.at = "erased" /\ c.sent = connection[k].sent /\ c.left = connection[k].left
            /\ c.parsed = connection[k].parsed /\ c.cut = connection[k].cut
            /\ c.ignored = connection[k].ignored /\ DOMAIN c = DOMAIN connection[k]
        BY <4>1 DEF ConnectionOK
      <4> HIDE DEF c
      <4>3. Framed(c)
        BY <4>1, <4>2, SameFrames DEF ConnectionOK
      <4>. QED BY <4>1, <4>2, <4>3 DEF ConnectionOK, NetInv
    <3> HIDE DEF c
    <3>5. /\ connection' = [j \in Connections |-> connection'[j]] /\ connection'[k] = c
          /\ \A j \in Connections : j # k => connection'[j] = connection[j]
      BY <3>1 DEF NetInv
    <3>6. IdsFresh'
      BY <3>1, <3>2 DEF NetInv, IdsFresh
    <3>7. SessionsMatch'
      <4> SUFFICES ASSUME ~collided
                   PROVE  /\ \A id \in DOMAIN reverseMap' :
                               /\ reverseMap'[id] \in DOMAIN netSessions'
                               /\ netSessions'[reverseMap'[id]].id = id
                          /\ \A t \in DOMAIN netSessions' :
                               /\ netSessions'[t].protocol \in servers' \cup starting'
                               /\ netSessions'[t].id \in DOMAIN reverseMap'
                               /\ reverseMap'[netSessions'[t].id] = t
                          /\ \A j \in Connections : connection'[j].at \in {"inserted", "open"} =>
                               /\ connection'[j].session \in DOMAIN netSessions'
                               /\ netSessions'[connection'[j].session] = [protocol |-> j[1], id |-> j[2]]
        BY <3>1 DEF SessionsMatch, At
      <4>1. s \in DOMAIN netSessions /\ netSessions[s] = [protocol |-> k[1], id |-> k[2]]
            /\ connection[k].session = s
        <5>1. connection[k].session \in DOMAIN netSessions
              /\ netSessions[connection[k].session] = [protocol |-> k[1], id |-> k[2]]
          BY <3>1 DEF NetInv, SessionsMatch, At
        <5>. QED BY <5>1 DEF NetInv, SessionsMatch, s
      <4>2. \A t \in DOMAIN netSessions' :
              /\ netSessions'[t].protocol \in servers' \cup starting'
              /\ netSessions'[t].id \in DOMAIN reverseMap' /\ reverseMap'[netSessions'[t].id] = t
        BY <3>1, <3>2, <3>3 DEF NetInv, SessionsMatch, s
      <4>3. \A id \in DOMAIN reverseMap' :
              reverseMap'[id] \in DOMAIN netSessions' /\ netSessions'[reverseMap'[id]].id = id
        BY <3>2, <3>3, <4>1 DEF NetInv, SessionsMatch
      <4>4. ASSUME NEW j \in Connections, connection'[j].at \in {"inserted", "open"}
            PROVE  /\ connection'[j].session \in DOMAIN netSessions'
                   /\ netSessions'[connection'[j].session] = [protocol |-> j[1], id |-> j[2]]
        <5>1. j # k /\ connection'[j] = connection[j]
          BY <3>4, <3>5, <4>4
        <5>2. /\ connection[j].session \in DOMAIN netSessions
              /\ netSessions[connection[j].session] = [protocol |-> j[1], id |-> j[2]]
          BY <4>4, <5>1 DEF NetInv, SessionsMatch, At
        <5>3. connection[j].session # s
          BY <4>1, <5>1, <5>2 DEF Connections
        <5>. QED BY <3>2, <5>1, <5>2, <5>3
      <4>. QED BY <4>2, <4>3, <4>4
    <3>. QED BY <3>1, <3>4, <3>5, <3>6, <3>7 DEF NetInv
  <2>. QED BY <2>1, <2>2
<1>9. CASE UNCHANGED netVars
  BY <1>9 DEF netVars, NetInv, IdsFresh, SessionsMatch, At
<1>. QED BY <1>0, <1>1, <1>2, <1>3, <1>4, <1>5, <1>6, <1>7, <1>8, <1>9 DEF NetNext

\* While the ids of the library do not collide, sessions and reverseMap are each other's
\* inverse and every connection that is up has its session, whichever callbacks, stops
\* and disconnections interleave; and every message before the first that a chunk cuts is
\* handed on once and in order, whatever the sizes of messages and chunks.
THEOREM NetworkSound == NetSpec => []NetSound
<1>1. NetInit => NetInv
  <2> SUFFICES ASSUME NetInit PROVE NetInv
    OBVIOUS
  <2>1. /\ connection = [k \in Connections |-> connection[k]]
        /\ \A k \in Connections : ConnectionOK(connection[k]) /\ connection[k].at = "none"
           /\ ~connection[k].ignored
    BY NothingSent DEF NetInit
  <2>2. DOMAIN netSessions = {} /\ DOMAIN reverseMap = {}
    BY DEF NetInit
  <2>. QED BY <2>1, <2>2 DEF NetInit, NetInv, IdsFresh, SessionsMatch, At
<1>2. ASSUME NetInv PROVE NetSound
  <2>1. ASSUME NEW k \in Connections
        PROVE  LET c == connection[k] IN
               /\ \A i \in DOMAIN c.parsed : c.cut = 0 \/ i < c.cut => c.parsed[i] = i
               /\ c.left = 0 /\ c.cut = 0 => Boundaries[Len(c.parsed) + 1] = c.sent
               /\ c.left = 0 /\ c.cut # 0 => c.cut - 1 <= Len(c.parsed)
               /\ c.ignored => collided
    <3> DEFINE c == connection[k]
    <3>1. Framed(c) /\ (c.ignored => collided)
      BY <1>2 DEF NetInv, ConnectionOK
    <3> HIDE DEF c
    <3>2. c.sent \in Nat /\ Len(c.parsed) \in Nat /\ c.cut \in 0..(Len(Boundaries) - 1)
      BY <3>1 DEF Framed
    <3>3. c.left = 0 /\ c.cut = 0 => Boundaries[Len(c.parsed) + 1] = c.sent
      BY <3>1, <3>2 DEF Framed, Pending
    <3>4. c.left = 0 /\ c.cut # 0 => c.cut - 1 <= Len(c.parsed)
      <4>1. SUFFICES ASSUME c.left = 0, c.cut # 0, ~(c.cut - 1 <= Len(c.parsed)) PROVE FALSE
        OBVIOUS
      <4>2. Len(c.parsed) + 1 < c.cut /\ c.cut \in 1..Len(Boundaries)
        BY <3>2, <4>1, Rising
      <4>3. /\ Len(c.parsed) + 1 \in 1..Len(Boundaries) /\ Boundaries[Len(c.parsed) + 1] = c.sent
            /\ Boundaries[c.cut] <= c.sent
        BY <3>1, <3>2, <4>1, <4>2 DEF Framed, Pending
      <4>. QED BY <3>2, <4>2, <4>3, Rising
    <3>5. \A i \in DOMAIN c.parsed : c.cut = 0 \/ i < c.cut => c.parsed[i] = i
      BY <3>1 DEF Framed
    <3>. QED BY <3>1, <3>3, <3>4, <3>5 DEF c
  <2>. QED BY <1>2, <2>1, Zenon DEF NetInv, NetSound, FramesInOrder
<1>. QED BY <1>1, <1>2, NetStep, PTL DEF NetSpec
=============================================================================
