---------------------------- MODULE DatabaseProofs ----------------------------
(***************************************************************************)
(* The connection pool of a database and the proxy's query cache, for      *)
(* every number of threads, connections, statements and tables.            *)
(***************************************************************************)
EXTENDS DBProxyServer, GameDatabase, FiniteSetTheorems, SequenceTheorems, TLAPS

(***************************************************************************)
(* The connection pool.                                                    *)
(***************************************************************************)

\* A thread has a connection exactly while it works or has a transaction, one that was
\* opened, and as long as the pool knows it, it is marked as in use.
Held ==
  \A u \in Users :
    /\ user[u].conn \in 0..opened
    /\ user[u].conn # None <=> user[u].op \in {"working", "txn", "ended"}
    /\ user[u].conn \in pool => user[u].conn \in inUse

DbInv == DbTypeOK /\ Held /\ ConnectionsAccounted

\* A thread that gives back nothing and takes nothing.
LEMMA UserMoves ==
  ASSUME DbInv, NEW u \in Users, NEW next \in DbUser, next.conn = user[u].conn,
         next.conn # None <=> next.op \in {"working", "txn", "ended"},
         user' = [user EXCEPT ![u] = next], UNCHANGED <<dbConnected, pool, inUse, opened, connector>>
  PROVE  DbInv'
<1>1. \A v \in Users : user'[v].conn = user[v].conn /\ (v # u => user'[v] = user[v])
  BY DEF DbInv, DbTypeOK
<1>2. DbTypeOK'
  BY DEF DbInv, DbTypeOK, connector
<1>3. user'[u] = next
  BY DEF DbInv, DbTypeOK
<1>4. Held'
  BY <1>1, <1>3 DEF DbInv, Held
<1>5. ConnectionsAccounted'
  BY <1>1 DEF DbInv, ConnectionsAccounted
<1>. QED BY <1>2, <1>4, <1>5 DEF DbInv

\* A thread that takes a connection nobody has.
LEMMA UserTakes ==
  ASSUME DbInv, NEW u \in Users, Looking(u), NEW conn \in pool', conn # None,
         UserGoto(u, "working", conn), UNCHANGED <<dbConnected, connector>>,
         \A v \in Users : user[v].conn # conn,
         inUse' = inUse \cup {conn}, pool' = pool \cup {conn},
         opened' \in 0..MaxOpened, opened <= opened', conn \in 1..opened'
  PROVE  DbInv'
<1> USE PoolAssumption
<1> DEFINE next == [user[u] EXCEPT !.op = "working", !.conn = conn]
<1>1. user[u] \in DbUser /\ opened \in 0..MaxOpened /\ user[u].conn = None
  BY DEF DbInv, DbTypeOK, Held, Looking
<1>2. conn \in 0..MaxOpened
  BY <1>1
<1>3. next \in DbUser /\ next.op = "working" /\ next.conn = conn
  BY <1>1, <1>2 DEF DbUser, UserOps
<1>4. user' = [user EXCEPT ![u] = next]
  BY DEF UserGoto
<1> HIDE DEF next
<1>5. user'[u] = next /\ \A v \in Users : v # u => user'[v] = user[v]
  BY <1>4 DEF DbInv, DbTypeOK
<1>6. DbTypeOK'
  <2>1. user' \in [Users -> DbUser]
    BY <1>3, <1>4 DEF DbInv, DbTypeOK
  <2>2. pool' \subseteq 1..opened'
    BY <1>1 DEF DbInv, DbTypeOK
  <2>. QED BY <2>1, <2>2 DEF DbInv, DbTypeOK, connector
<1>7. Held'
  <2> SUFFICES ASSUME NEW v \in Users
               PROVE  /\ user'[v].conn \in 0..opened'
                      /\ user'[v].conn # None <=> user'[v].op \in {"working", "txn", "ended"}
                      /\ user'[v].conn \in pool' => user'[v].conn \in inUse'
    BY DEF Held
  <2>1. CASE v = u
    BY <1>2, <1>3, <1>5, <2>1
  <2>2. CASE v # u
    <3>1. user[v].conn \in 0..opened'
      BY <1>1 DEF DbInv, Held
    <3>. QED BY <1>5, <2>2, <3>1 DEF DbInv, Held
  <2>. QED BY <2>1, <2>2
<1>8. ConnectionsAccounted'
  <2>1. \A v, w \in Users : v # w /\ user'[v].conn = user'[w].conn => user'[v].conn = None
    BY <1>3, <1>5 DEF DbInv, ConnectionsAccounted
  <2>2. ASSUME NEW c \in inUse' PROVE \E v \in Users : user'[v].conn = c
    <3>1. CASE c = conn
      BY <1>3, <1>5, <3>1
    <3>2. CASE c \in inUse
      <4>1. PICK v \in Users : user[v].conn = c
        BY <3>2 DEF DbInv, ConnectionsAccounted
      <4>2. v # u
        BY <1>1, <3>2, <4>1 DEF DbInv, DbTypeOK, None
      <4>. QED BY <1>5, <4>1, <4>2
    <3>. QED BY <3>1, <3>2
  <2>. QED BY <2>1, <2>2 DEF ConnectionsAccounted
<1>. QED BY <1>6, <1>7, <1>8 DEF DbInv

\* checkin(): the connection is free again and nobody has it, and at most one thread
\* that waits is told.
LEMMA CheckinInv ==
  ASSUME DbInv, NEW u \in Users, user[u].op \in {"working", "txn", "ended"},
         Checkin(u, IdleUser), UNCHANGED <<dbConnected, pool, opened, connector>>
  PROVE  DbInv'
<1> USE PoolAssumption
<1> DEFINE conn == user[u].conn
<1>1. user[u] \in DbUser /\ user \in [Users -> DbUser]
  BY DEF DbInv, DbTypeOK
<1>2. IdleUser \in DbUser /\ IdleUser.op = "idle" /\ IdleUser.conn = None
  BY DEF IdleUser, DbUser, UserOps, None
<1>3. inUse' = IF conn \in pool THEN inUse \ {conn} ELSE inUse
  BY DEF Checkin
<1>4. /\ user' \in [Users -> DbUser] /\ user'[u].op = "idle" /\ user'[u].conn = None
      /\ \A v \in Users : v # u =>
           /\ user'[v].conn = user[v].conn
           /\ user'[v].op \in {"working", "txn", "ended"} <=>
                user[v].op \in {"working", "txn", "ended"}
  <2>1. CASE user' = [user EXCEPT ![u] = IdleUser]
    BY <1>1, <1>2, <2>1
  <2>2. ASSUME NEW w \in Waiting, user' = [user EXCEPT ![u] = IdleUser, ![w].op = "notified"]
        PROVE  <1>4
    <3>1. w \in Users /\ user[w].op = "waiting" /\ w # u /\ user[w] \in DbUser
      BY <1>1, <2>2 DEF Waiting
    <3> DEFINE next == [user[w] EXCEPT !.op = "notified"]
    <3>2. next \in DbUser /\ next.op = "notified" /\ next.conn = user[w].conn
      BY <3>1 DEF DbUser, UserOps
    <3>3. user' = [[user EXCEPT ![u] = IdleUser] EXCEPT ![w] = next]
      BY <1>1, <2>2, <3>1
    <3> HIDE DEF next
    <3>. QED BY <1>1, <1>2, <3>1, <3>2, <3>3
  <2>. QED BY <2>1, <2>2 DEF Checkin
<1>5. DbTypeOK'
  BY <1>3, <1>4 DEF DbInv, DbTypeOK, connector
<1>6. Held'
  <2> SUFFICES ASSUME NEW v \in Users
               PROVE  /\ user'[v].conn \in 0..opened
                      /\ user'[v].conn # None <=> user'[v].op \in {"working", "txn", "ended"}
                      /\ user'[v].conn \in pool => user'[v].conn \in inUse'
    BY DEF Held
  <2>1. CASE v = u
    BY <1>4, <2>1 DEF DbInv, DbTypeOK, None
  <2>2. CASE v # u
    <3>1. user[v].conn \in pool => user[v].conn # conn
      BY <2>2 DEF DbInv, DbTypeOK, ConnectionsAccounted, None
    <3>. QED BY <1>3, <1>4, <2>2, <3>1 DEF DbInv, Held
  <2>. QED BY <2>1, <2>2
<1>7. ConnectionsAccounted'
  <2>1. \A v, w \in Users : v # w /\ user'[v].conn = user'[w].conn => user'[v].conn = None
    BY <1>4 DEF DbInv, ConnectionsAccounted
  <2>2. ASSUME NEW c \in inUse' PROVE \E v \in Users : user'[v].conn = c
    <3>1. PICK v \in Users : user[v].conn = c
      BY <1>3, <2>2 DEF DbInv, ConnectionsAccounted
    <3>2. v # u
      BY <1>3, <2>2, <3>1 DEF DbInv, DbTypeOK
    <3>. QED BY <1>4, <3>1, <3>2
  <2>. QED BY <2>1, <2>2 DEF ConnectionsAccounted
<1>. QED BY <1>5, <1>6, <1>7 DEF DbInv

\* Every step of the pool and of the threads using it preserves the invariant.
LEMMA DbStep == ASSUME DbInv, [DbNext]_dbVars PROVE DbInv'
<1> USE PoolAssumption
<1>1. CASE OpenOne
  <2>1. /\ opened' = opened + 1 /\ opened' \in 0..MaxOpened /\ pool' = pool \cup {opened'}
        /\ opened \in Nat /\ toOpen' \in Nat /\ UNCHANGED <<dbConnected, inUse, user, connecting>>
    BY <1>1 DEF OpenOne, DbInv, DbTypeOK
  <2>2. DbTypeOK'
    BY <2>1 DEF DbInv, DbTypeOK
  <2>3. Held'
    BY <2>1 DEF DbInv, Held
  <2>. QED BY <2>1, <2>2, <2>3 DEF DbInv, ConnectionsAccounted
<1>2. ASSUME ThrowAway, UNCHANGED <<opened, user>>, connecting' \in BOOLEAN, toOpen' \in Nat
      PROVE  DbInv'
  BY <1>2 DEF ThrowAway, DbInv, DbTypeOK, Held, ConnectionsAccounted
<1>11. CASE Disconnect \/ ConnectFails
  <2>1. ThrowAway /\ UNCHANGED <<opened, user>> /\ toOpen' \in Nat
    BY <1>11 DEF Disconnect, ConnectFails, connector, DbInv, DbTypeOK
  <2>2. connecting' = connecting \/ connecting' = FALSE
    BY <1>11, Zenon DEF Disconnect, ConnectFails, connector
  <2>3. connecting' \in BOOLEAN
    BY <2>2, Zenon DEF DbInv, DbTypeOK
  <2>. QED BY <1>2, <2>1, <2>3, Zenon
<1>12. CASE BeginConnect \/ EndConnect
  <2>1. /\ UNCHANGED <<pool, inUse, opened, user>> /\ dbConnected' \in BOOLEAN
        /\ connecting' \in BOOLEAN /\ toOpen' \in Nat
    BY <1>12 DEF BeginConnect, EndConnect, DbInv, DbTypeOK
  <2>. QED BY <2>1 DEF DbInv, DbTypeOK, Held, ConnectionsAccounted
<1>3. ASSUME NEW u \in Users, NEW txn \in BOOLEAN, BeginCall(u, txn) PROVE DbInv'
  <2> DEFINE next == [op |-> "checkout", txn |-> txn, conn |-> None]
  <2>1. next \in DbUser /\ next.op = "checkout" /\ next.conn = None
    BY DEF DbUser, UserOps, None
  <2>2. user' = [user EXCEPT ![u] = next] /\ user[u].conn = None
        /\ UNCHANGED <<dbConnected, pool, inUse, opened, connector>>
    BY <1>3 DEF BeginCall, DbInv, Held
  <2> HIDE DEF next
  <2>. QED BY <2>1, <2>2, UserMoves
<1>4. ASSUME NEW u \in Users, NEW conn \in pool, TakeFree(u, conn) PROVE DbInv'
  <2>1. /\ \A v \in Users : user[v].conn # conn
        /\ conn \in 1..opened /\ opened \in 0..MaxOpened /\ conn # None
        /\ pool = pool \cup {conn}
    BY <1>4 DEF TakeFree, DbInv, DbTypeOK, Held, None
  <2>. QED BY <1>4, <2>1, UserTakes DEF TakeFree
<1>5. ASSUME NEW u \in Users, Grow(u) PROVE DbInv'
  <2>1. opened \in Nat /\ opened < MaxOpened /\ opened' = opened + 1
    BY <1>5 DEF Grow, DbInv, DbTypeOK
  <2>2. \A v \in Users : user[v].conn # opened'
    BY <2>1 DEF DbInv, Held
  <2>3. opened' # None /\ opened' \in 0..MaxOpened /\ opened' \in 1..opened'
    BY <2>1 DEF None
  <2>. QED BY <1>5, <2>1, <2>2, <2>3, UserTakes DEF Grow
<1>6. ASSUME NEW u \in Users, Wait(u) PROVE DbInv'
  <2> DEFINE next == [user[u] EXCEPT !.op = "waiting", !.conn = None]
  <2>1. user[u] \in DbUser /\ user[u].conn = None
    BY <1>6 DEF Wait, Looking, DbInv, DbTypeOK, Held
  <2>2. next \in DbUser /\ next.op = "waiting" /\ next.conn = None
    BY <2>1 DEF DbUser, UserOps, None
  <2>3. user' = [user EXCEPT ![u] = next] /\ UNCHANGED <<dbConnected, pool, inUse, opened, connector>>
    BY <1>6 DEF Wait, UserGoto
  <2> HIDE DEF next
  <2>. QED BY <2>1, <2>2, <2>3, UserMoves
<1>7. ASSUME NEW u \in Users, Deadline(u) PROVE DbInv'
  <2>1. IdleUser \in DbUser /\ IdleUser.op = "idle" /\ IdleUser.conn = None
    BY DEF IdleUser, DbUser, UserOps, None
  <2>2. user[u].conn = None
    BY <1>7 DEF Deadline, DbInv, Held
  <2>. QED BY <1>7, <2>1, <2>2, UserMoves DEF Deadline
<1>8. ASSUME NEW u \in Users, NEW op \in {"txn", "ended"}, user[u].op \in {"working", "txn"},
             UserGoto(u, op, user[u].conn), UNCHANGED <<dbConnected, pool, inUse, opened, connector>>
      PROVE  DbInv'
  <2> DEFINE next == [user[u] EXCEPT !.op = op, !.conn = user[u].conn]
  <2>1. user[u] \in DbUser /\ user[u].conn # None
    BY <1>8 DEF DbInv, DbTypeOK, Held
  <2>2. next \in DbUser /\ next.op = op /\ next.conn = user[u].conn
    BY <2>1 DEF DbUser, UserOps
  <2>3. user' = [user EXCEPT ![u] = next]
    BY <1>8 DEF UserGoto
  <2> HIDE DEF next
  <2>. QED BY <1>8, <2>1, <2>2, <2>3, UserMoves
<1>9. ASSUME NEW u \in Users, Finish(u) \/ Destroy(u) PROVE DbInv'
  BY <1>9, CheckinInv DEF Finish, Destroy
<1>10. CASE UNCHANGED dbVars
  BY <1>10 DEF dbVars, DbInv, DbTypeOK, Held, ConnectionsAccounted
<1>. QED
  BY <1>1, <1>11, <1>12, <1>3, <1>4, <1>5, <1>6, <1>7, <1>8, <1>9, <1>10
  DEF DbNext, UserStep, Transact, EndTransaction

\* A pool that has not been connected satisfies the invariant.
LEMMA DbStart == DbInit => DbInv
<1> SUFFICES ASSUME DbInit PROVE DbInv
  OBVIOUS
<1>1. IdleUser \in DbUser /\ IdleUser.op = "idle" /\ IdleUser.conn = None
  BY PoolAssumption DEF IdleUser, DbUser, UserOps, None
<1>2. user \in [Users -> DbUser] /\ \A u \in Users : user[u].op = "idle" /\ user[u].conn = None
  BY <1>1 DEF DbInit
<1>3. DbTypeOK
  <2>1. opened \in 0..MaxOpened /\ pool = {} /\ inUse = {}
    BY PoolAssumption DEF DbInit
  <2>2. dbConnected \in BOOLEAN /\ connecting \in BOOLEAN
    BY Zenon DEF DbInit
  <2>3. toOpen \in Nat
    BY DEF DbInit
  <2>. QED BY <1>2, <2>1, <2>2, <2>3 DEF DbTypeOK
<1>. QED BY <1>2, <1>3 DEF DbInit, DbInv, Held, ConnectionsAccounted, None

\* The pool holds connections that were opened, those in use are among them, and threads
\* are in one of the stages of a call.
THEOREM PoolTypeCorrect == DbSpec => []DbTypeOK
BY DbStart, DbStep, PTL DEF DbSpec, DbInv

\* Whatever the number of threads, no two of them have the same connection and none in
\* use is lost, through growth, waiting, deadlines, transactions and disconnect().
THEOREM PoolAccounted == DbSpec => []ConnectionsAccounted
BY DbStart, DbStep, PTL DEF DbSpec, DbInv

(***************************************************************************)
(* Sequences: taking one element out, and putting one in front.            *)
(***************************************************************************)

\* list::erase().
LEMMA RemoveAtProperties ==
  ASSUME NEW S, NEW s \in Seq(S), NEW i \in 1..Len(s)
  PROVE  /\ RemoveAt(s, i) \in Seq(S) /\ Len(RemoveAt(s, i)) = Len(s) - 1
         /\ \A j \in 1..(Len(s) - 1) : RemoveAt(s, i)[j] = IF j < i THEN s[j] ELSE s[j + 1]
<1> DEFINE a == SubSeq(s, 1, i - 1)
           b == SubSeq(s, i + 1, Len(s))
<1>1. a \in Seq(S) /\ Len(a) = i - 1 /\ \A j \in 1..(i - 1) : a[j] = s[j]
  OBVIOUS
<1>2. b \in Seq(S) /\ Len(b) = Len(s) - i /\ \A j \in 1..(Len(s) - i) : b[j] = s[i + j]
  OBVIOUS
<1>3. RemoveAt(s, i) = a \o b
  BY DEF RemoveAt
<1> HIDE DEF a, b
<1>4. a \o b \in Seq(S) /\ Len(a \o b) = Len(s) - 1
  <2>1. a \o b \in Seq(S) /\ Len(a \o b) = Len(a) + Len(b)
    BY <1>1, <1>2, ConcatProperties, Zenon
  <2>2. Len(s) \in Nat
    OBVIOUS
  <2>. QED BY <1>1, <1>2, <2>1, <2>2
<1>5. ASSUME NEW j \in 1..(Len(s) - 1) PROVE (a \o b)[j] = IF j < i THEN s[j] ELSE s[j + 1]
  <2>1. CASE j < i
    BY <1>1, <1>2, <2>1
  <2>2. CASE ~(j < i)
    <3>1. j - Len(a) \in 1..(Len(s) - i) /\ (a \o b)[j] = b[j - Len(a)]
      BY <1>1, <1>2, <2>2
    <3>. QED BY <1>1, <1>2, <2>2, <3>1
  <2>. QED BY <2>1, <2>2
<1>. QED BY <1>3, <1>4, <1>5

\* list::push_front().
LEMMA PushFront ==
  ASSUME NEW S, NEW s \in Seq(S), NEW e \in S
  PROVE  /\ <<e>> \o s \in Seq(S) /\ Len(<<e>> \o s) = Len(s) + 1 /\ (<<e>> \o s)[1] = e
         /\ \A j \in 1..Len(s) : (<<e>> \o s)[j + 1] = s[j]
         /\ \A j \in 2..(Len(s) + 1) : (<<e>> \o s)[j] = s[j - 1]
OBVIOUS

\* list::pop_back().
LEMMA PopBack ==
  ASSUME NEW S, NEW s \in Seq(S), s # <<>>
  PROVE  /\ Front(s) \in Seq(S) /\ Len(Front(s)) = Len(s) - 1 /\ Len(s) \in Nat \ {0}
         /\ \A j \in 1..(Len(s) - 1) : Front(s)[j] = s[j]
<1>1. PICK i \in 1..Len(s) : i = Len(s)
  OBVIOUS
<1>2. /\ SubSeq(s, 1, i - 1) \in Seq(S) /\ Len(SubSeq(s, 1, i - 1)) = i - 1
      /\ \A j \in 1..(i - 1) : SubSeq(s, 1, i - 1)[j] = s[j]
  OBVIOUS
<1>. QED BY <1>1, <1>2 DEF Front

(***************************************************************************)
(* The query cache.                                                        *)
(***************************************************************************)

Distinct(s) == \A i, j \in DOMAIN s : s[i].sql = s[j].sql => i = j
Keys(s) == {s[i].sql : i \in DOMAIN s}

\* The entries of one list come from another.
Within(new, old) == \A i \in DOMAIN new : \E j \in DOMAIN old : new[i] = old[j]

CacheInv == lruList \in Seq(CacheRecord) /\ CacheConsistent

\* The invariant in terms of keys.
LEMMA CacheKeys ==
  CacheInv <=> /\ lruList \in Seq(CacheRecord) /\ Distinct(lruList) /\ index = Keys(lruList)
               /\ Len(lruList) <= MaxEntries \/ Len(lruList) = 1
BY DEF CacheInv, CacheConsistent, Distinct, Keys

\* Erasing one of distinct entries leaves the other keys.
LEMMA Erased ==
  ASSUME NEW s \in Seq(CacheRecord), Distinct(s), NEW i \in 1..Len(s)
  PROVE  /\ RemoveAt(s, i) \in Seq(CacheRecord) /\ Len(RemoveAt(s, i)) = Len(s) - 1
         /\ Distinct(RemoveAt(s, i)) /\ Keys(RemoveAt(s, i)) = Keys(s) \ {s[i].sql}
         /\ Within(RemoveAt(s, i), s)
<1> DEFINE r == RemoveAt(s, i)
<1>1. /\ r \in Seq(CacheRecord) /\ Len(r) = Len(s) - 1 /\ Len(s) \in Nat
      /\ \A j \in 1..(Len(s) - 1) : r[j] = IF j < i THEN s[j] ELSE s[j + 1]
  <2>1. Len(s) \in Nat
    OBVIOUS
  <2>. QED BY <2>1, RemoveAtProperties, Zenon
<1> HIDE DEF r
<1>2. DOMAIN r = 1..(Len(s) - 1) /\ DOMAIN s = 1..Len(s)
  BY <1>1
<1>3. \A j \in DOMAIN r : \E k \in DOMAIN s : k # i /\ r[j] = s[k]
  BY <1>1, <1>2
<1>4. \A k \in DOMAIN s : k # i => \E j \in DOMAIN r : r[j] = s[k]
  <2> SUFFICES ASSUME NEW k \in 1..Len(s), k # i PROVE \E j \in DOMAIN r : r[j] = s[k]
    BY <1>2
  <2>1. CASE k < i
    BY <1>1, <1>2, <2>1
  <2>2. CASE k > i
    <3>1. k - 1 \in DOMAIN r /\ r[k - 1] = s[k]
      BY <1>1, <1>2, <2>2
    <3>. QED BY <3>1
  <2>. QED BY <2>1, <2>2
<1>5. Keys(r) = Keys(s) \ {s[i].sql}
  <2>1. ASSUME NEW k \in Keys(r) PROVE k \in Keys(s) \ {s[i].sql}
    BY <1>2, <1>3 DEF Keys, Distinct
  <2>2. ASSUME NEW k \in Keys(s) \ {s[i].sql} PROVE k \in Keys(r)
    BY <1>2, <1>4 DEF Keys
  <2>. QED BY <2>1, <2>2
<1>6. Distinct(r)
  <2> SUFFICES ASSUME NEW j \in 1..(Len(s) - 1), NEW k \in 1..(Len(s) - 1), r[j].sql = r[k].sql
               PROVE  j = k
    BY <1>2 DEF Distinct
  <2> DEFINE At1(n) == IF n < i THEN n ELSE n + 1
  <2>1. At1(j) \in DOMAIN s /\ At1(k) \in DOMAIN s /\ r[j] = s[At1(j)] /\ r[k] = s[At1(k)]
    BY <1>1, <1>2
  <2>2. At1(j) = At1(k)
    BY <2>1 DEF Distinct
  <2>. QED BY <2>2
<1>7. Within(r, s)
  BY <1>3 DEF Within
<1>. QED BY <1>1, <1>5, <1>6, <1>7 DEF r

\* A new key in front.
LEMMA Pushed ==
  ASSUME NEW s \in Seq(CacheRecord), Distinct(s), NEW e \in CacheRecord, e.sql \notin Keys(s)
  PROVE  /\ <<e>> \o s \in Seq(CacheRecord) /\ Len(<<e>> \o s) = Len(s) + 1
         /\ Distinct(<<e>> \o s) /\ Keys(<<e>> \o s) = Keys(s) \cup {e.sql}
         /\ \A i \in DOMAIN (<<e>> \o s) :
              (<<e>> \o s)[i] = e \/ \E j \in DOMAIN s : (<<e>> \o s)[i] = s[j]
<1> DEFINE r == <<e>> \o s
<1>1. /\ r \in Seq(CacheRecord) /\ Len(r) = Len(s) + 1 /\ r[1] = e /\ Len(s) \in Nat
      /\ \A j \in 1..Len(s) : r[j + 1] = s[j]
      /\ \A j \in 2..(Len(s) + 1) : r[j] = s[j - 1]
  BY PushFront
<1> HIDE DEF r
<1>2. DOMAIN r = 1..(Len(s) + 1) /\ DOMAIN s = 1..Len(s)
  BY <1>1
<1>3. \A i \in DOMAIN r : i = 1 \/ (i - 1 \in DOMAIN s /\ r[i] = s[i - 1])
  <2>1. ASSUME NEW i \in DOMAIN r, i # 1 PROVE i - 1 \in DOMAIN s /\ r[i] = s[i - 1]
    <3>1. i \in 2..(Len(s) + 1) /\ i - 1 \in 1..Len(s)
      BY <1>1, <1>2, <2>1
    <3>. QED BY <1>1, <1>2, <3>1
  <2>. QED BY <2>1, Zenon
<1>4. \A j \in DOMAIN s : j + 1 \in DOMAIN r /\ r[j + 1] = s[j]
  BY <1>1, <1>2
<1>5. Keys(r) = Keys(s) \cup {e.sql}
  <2>1. 1 \in DOMAIN r
    BY <1>1, <1>2
  <2>2. ASSUME NEW k \in Keys(r) PROVE k \in Keys(s) \cup {e.sql}
    <3>1. PICK i \in DOMAIN r : k = r[i].sql
      BY DEF Keys
    <3>2. CASE i = 1
      BY <1>1, <3>1, <3>2
    <3>3. CASE i # 1
      BY <1>3, <3>1, <3>3 DEF Keys
    <3>. QED BY <3>2, <3>3
  <2>3. ASSUME NEW k \in Keys(s) \cup {e.sql} PROVE k \in Keys(r)
    BY <1>1, <1>4, <2>1 DEF Keys
  <2>. QED BY <2>2, <2>3
<1>6. Distinct(r)
  <2> SUFFICES ASSUME NEW i \in DOMAIN r, NEW j \in DOMAIN r, r[i].sql = r[j].sql PROVE i = j
    BY DEF Distinct
  <2>1. CASE i = 1 /\ j # 1
    BY <1>1, <1>3, <2>1 DEF Keys
  <2>2. CASE j = 1 /\ i # 1
    BY <1>1, <1>3, <2>2 DEF Keys
  <2>3. CASE i # 1 /\ j # 1
    BY <1>2, <1>3, <2>3 DEF Distinct
  <2>. QED BY <2>1, <2>2, <2>3
<1>7. \A i \in DOMAIN r : r[i] = e \/ \E j \in DOMAIN s : r[i] = s[j]
  BY <1>1, <1>3
<1>. QED BY <1>1, <1>5, <1>6, <1>7 DEF r

\* The last of distinct entries goes.
LEMMA Popped ==
  ASSUME NEW s \in Seq(CacheRecord), Distinct(s), s # <<>>
  PROVE  /\ Front(s) \in Seq(CacheRecord) /\ Len(Front(s)) = Len(s) - 1 /\ Distinct(Front(s))
         /\ Keys(Front(s)) = Keys(s) \ {Last(s).sql} /\ Within(Front(s), s)
<1> DEFINE r == Front(s)
<1>1. /\ r \in Seq(CacheRecord) /\ Len(r) = Len(s) - 1 /\ Len(s) \in Nat \ {0}
      /\ \A j \in 1..(Len(s) - 1) : r[j] = s[j]
  BY PopBack
<1> HIDE DEF r
<1>2. DOMAIN r = 1..(Len(s) - 1) /\ DOMAIN s = 1..Len(s) /\ Last(s) = s[Len(s)]
  BY <1>1 DEF Last
<1>3. \A i \in DOMAIN s : i = Len(s) \/ i \in DOMAIN r
  BY <1>1, <1>2
<1>4. \A i \in DOMAIN r : i \in DOMAIN s /\ i # Len(s) /\ r[i] = s[i]
  BY <1>1, <1>2
<1>5. Len(s) \in DOMAIN s
  BY <1>1, <1>2
<1>6. Keys(r) = Keys(s) \ {Last(s).sql}
  BY <1>2, <1>3, <1>4, <1>5 DEF Keys, Distinct
<1>7. Distinct(r) /\ Within(r, s)
  BY <1>4 DEF Distinct, Within
<1>. QED BY <1>1, <1>6, <1>7 DEF r

\* The position a key of the index leads to.
LEMMA Located ==
  ASSUME CacheInv, NEW q \in index
  PROVE  PositionOf(q) \in 1..Len(lruList) /\ EntryOf(q).sql = q
<1>1. lruList \in Seq(CacheRecord) /\ q \in Keys(lruList)
  BY CacheKeys
<1>2. \E i \in DOMAIN lruList : lruList[i].sql = q
  BY <1>1 DEF Keys
<1>3. PositionOf(q) \in DOMAIN lruList /\ lruList[PositionOf(q)].sql = q
  BY <1>2 DEF PositionOf
<1>. QED BY <1>1, <1>3 DEF EntryOf

\* Taking out a key of the index.
LEMMA TakenOut ==
  ASSUME CacheInv, NEW q \in index
  PROVE  /\ Without(q) \in Seq(CacheRecord) /\ Len(Without(q)) = Len(lruList) - 1
         /\ Distinct(Without(q)) /\ Keys(Without(q)) = index \ {q} /\ Within(Without(q), lruList)
         /\ EntryOf(q) \in CacheRecord /\ EntryOf(q).sql = q
         /\ \E j \in DOMAIN lruList : EntryOf(q) = lruList[j]
<1>1. PositionOf(q) \in 1..Len(lruList) /\ EntryOf(q).sql = q
  BY Located
<1>2. lruList \in Seq(CacheRecord) /\ Distinct(lruList) /\ index = Keys(lruList)
  BY CacheKeys
<1>3. EntryOf(q) \in CacheRecord /\ \E j \in DOMAIN lruList : EntryOf(q) = lruList[j]
  BY <1>1, <1>2 DEF EntryOf
<1>4. lruList[PositionOf(q)].sql = q
  BY <1>1 DEF EntryOf
<1>. QED BY <1>1, <1>2, <1>3, <1>4, Erased DEF Without

\* A key leaves list and index together.
LEMMA WithoutInv ==
  ASSUME CacheInv, NEW q \in index, lruList' = Without(q), index' = index \ {q}
  PROVE  CacheInv' /\ Within(lruList', lruList)
<1>1. /\ lruList' \in Seq(CacheRecord) /\ Len(lruList') = Len(lruList) - 1 /\ Distinct(lruList')
      /\ Keys(lruList') = index' /\ Within(lruList', lruList)
  BY TakenOut
<1>2. Len(lruList') <= MaxEntries \/ Len(lruList') = 1
  <2>1. Len(lruList) \in Nat /\ MaxEntries \in Nat
        /\ (Len(lruList) <= MaxEntries \/ Len(lruList) = 1)
    BY CacheKeys, CacheAssumption
  <2>. QED BY <1>1, <2>1
<1>3. CacheInv'
  BY <1>1, <1>2 DEF CacheInv, CacheConsistent, Distinct, Keys
<1>. QED BY <1>1, <1>3

\* get() keeps list and index together, and every entry is one that was there.
LEMMA GetInv == ASSUME CacheInv, NEW q, Get(q) PROVE CacheInv' /\ Within(lruList', lruList)
<1>1. CASE CacheHit(q) /\ Touch(q) /\ UNCHANGED index
  <2>1. q \in index
    BY <1>1 DEF CacheHit
  <2> DEFINE e == EntryOf(q)
             s == Without(q)
  <2>2. /\ s \in Seq(CacheRecord) /\ Len(s) = Len(lruList) - 1 /\ Distinct(s)
        /\ Keys(s) = index \ {q} /\ Within(s, lruList)
        /\ e \in CacheRecord /\ e.sql = q /\ \E j \in DOMAIN lruList : e = lruList[j]
    BY <2>1, TakenOut
  <2>3. lruList' = <<e>> \o s /\ index' = index
    BY <1>1 DEF Touch
  <2> HIDE DEF e, s
  <2>4. /\ lruList' \in Seq(CacheRecord) /\ Len(lruList') = Len(s) + 1 /\ Distinct(lruList')
        /\ Keys(lruList') = Keys(s) \cup {q}
        /\ \A i \in DOMAIN lruList' : lruList'[i] = e \/ \E j \in DOMAIN s : lruList'[i] = s[j]
    BY <2>2, <2>3, Pushed
  <2>5. Len(lruList') = Len(lruList) /\ Keys(lruList') = index'
    <3>1. lruList \in Seq(CacheRecord)
      BY CacheKeys
    <3>2. Len(lruList') = Len(lruList)
      BY <2>2, <2>4, <3>1
    <3>3. (index \ {q}) \cup {q} = index
      BY <2>1
    <3>. QED BY <2>2, <2>3, <2>4, <3>2, <3>3, Zenon
  <2>6. Len(lruList) <= MaxEntries \/ Len(lruList) = 1
    BY CacheKeys
  <2>7. CacheInv'
    BY <2>4, <2>5, <2>6 DEF CacheInv, CacheConsistent, Distinct, Keys
  <2>8. Within(lruList', lruList)
    BY <2>2, <2>4 DEF Within
  <2>. QED BY <2>7, <2>8
<1>2. CASE q \in index /\ lruList' = Without(q) /\ index' = index \ {q}
  BY <1>2, WithoutInv
<1>3. CASE UNCHANGED cacheVars
  BY <1>3 DEF cacheVars, CacheInv, CacheConsistent, Within
<1>. QED BY <1>1, <1>2, <1>3 DEF Get

\* invalidate().
LEMMA InvalidateInv ==
  ASSUME CacheInv, NEW q, Invalidate(q) PROVE CacheInv' /\ Within(lruList', lruList)
<1>1. CASE q \in index /\ lruList' = Without(q) /\ index' = index \ {q}
  BY <1>1, WithoutInv
<1>2. CASE UNCHANGED cacheVars
  BY <1>2 DEF cacheVars, CacheInv, CacheConsistent, Within
<1>. QED BY <1>1, <1>2 DEF Invalidate

\* put(): the entry is new, every other one was there.
LEMMA PutInv ==
  ASSUME CacheInv, NEW q \in Queries, NEW r \in Results, NEW raced \in BOOLEAN, Put(q, r, raced)
  PROVE  /\ CacheInv'
         /\ \A i \in DOMAIN lruList' : \/ lruList'[i] = CacheEntry(q, r, raced)
                                       \/ \E j \in DOMAIN lruList : lruList'[i] = lruList[j]
<1> DEFINE e == CacheEntry(q, r, raced)
<1>1. e \in CacheRecord /\ e.sql = q
  BY CacheAssumption DEF CacheEntry, CacheRecord
<1> HIDE DEF e
<1>2. /\ lruList \in Seq(CacheRecord) /\ Len(lruList) \in Nat /\ Distinct(lruList)
      /\ index = Keys(lruList) /\ (Len(lruList) <= MaxEntries \/ Len(lruList) = 1)
      /\ MaxEntries \in Nat
  BY CacheKeys, CacheAssumption
<1>3. ASSUME NEW s \in Seq(CacheRecord), Distinct(s), q \notin Keys(s), Within(s, lruList),
             lruList' = <<e>> \o s, index' = Keys(s) \cup {q},
             Len(s) + 1 <= MaxEntries \/ Len(s) = 0
      PROVE  /\ CacheInv'
             /\ \A i \in DOMAIN lruList' : \/ lruList'[i] = e
                                           \/ \E j \in DOMAIN lruList : lruList'[i] = lruList[j]
  <2>1. /\ lruList' \in Seq(CacheRecord) /\ Len(lruList') = Len(s) + 1 /\ Distinct(lruList')
        /\ Keys(lruList') = index'
        /\ \A i \in DOMAIN lruList' : lruList'[i] = e \/ \E j \in DOMAIN s : lruList'[i] = s[j]
    BY <1>1, <1>3, Pushed
  <2>2. Len(lruList') <= MaxEntries \/ Len(lruList') = 1
    BY <1>3, <2>1
  <2>3. CacheInv'
    BY <2>1, <2>2 DEF CacheInv, CacheConsistent, Distinct, Keys
  <2>. QED BY <1>3, <2>1, <2>3 DEF Within
<1>4. CASE q \in index /\ lruList' = <<e>> \o Without(q) /\ UNCHANGED index
  <2> DEFINE s == Without(q)
  <2>1. /\ s \in Seq(CacheRecord) /\ Len(s) = Len(lruList) - 1 /\ Distinct(s)
        /\ Keys(s) = index \ {q} /\ Within(s, lruList)
    BY <1>4, TakenOut
  <2> HIDE DEF s
  <2>2. Len(s) + 1 <= MaxEntries \/ Len(s) = 0
    BY <1>2, <2>1
  <2>3. lruList' = <<e>> \o s /\ index' = Keys(s) \cup {q} /\ q \notin Keys(s)
    BY <1>4, <2>1 DEF s
  <2>. QED BY <1>3, <2>1, <2>2, <2>3 DEF e
<1>5. ASSUME q \notin index, Len(lruList) >= MaxEntries, lruList # <<>>,
             lruList' = <<e>> \o Front(lruList), index' = (index \ {Last(lruList).sql}) \cup {q}
      PROVE  /\ CacheInv'
             /\ \A i \in DOMAIN lruList' : \/ lruList'[i] = e
                                           \/ \E j \in DOMAIN lruList : lruList'[i] = lruList[j]
  <2> DEFINE s == Front(lruList)
  <2>1. /\ s \in Seq(CacheRecord) /\ Len(s) = Len(lruList) - 1 /\ Distinct(s)
        /\ Keys(s) = index \ {Last(lruList).sql} /\ Within(s, lruList)
    BY <1>2, <1>5, Popped
  <2> HIDE DEF s
  <2>2. Len(s) + 1 <= MaxEntries \/ Len(s) = 0
    BY <1>2, <2>1
  <2>3. lruList' = <<e>> \o s /\ index' = Keys(s) \cup {q} /\ q \notin Keys(s)
    BY <1>5, <2>1 DEF s
  <2>. QED BY <1>3, <2>1, <2>2, <2>3
<1>6. ASSUME q \notin index, ~(Len(lruList) >= MaxEntries /\ lruList # <<>>),
             lruList' = <<e>> \o lruList, index' = index \cup {q}
      PROVE  /\ CacheInv'
             /\ \A i \in DOMAIN lruList' : \/ lruList'[i] = e
                                           \/ \E j \in DOMAIN lruList : lruList'[i] = lruList[j]
  <2>1. Len(lruList) + 1 <= MaxEntries \/ Len(lruList) = 0
    BY <1>2, <1>6
  <2>2. Within(lruList, lruList)
    BY DEF Within
  <2>. QED BY <1>2, <1>3, <1>6, <2>1, <2>2
<1>. QED BY <1>4, <1>5, <1>6 DEF Put, e

\* invalidateByTable(): the statements that mention the table go, all others stay once.
LEMMA ByTableInv ==
  ASSUME CacheInv, NEW t, InvalidateByTable(t)
  PROVE  /\ CacheInv' /\ Within(lruList', lruList)
         /\ \A i \in DOMAIN lruList' : t \notin Mentions[lruList'[i].sql]
<1> DEFINE P == {i \in DOMAIN lruList : t \notin Mentions[lruList[i].sql]}
           n == Cardinality(P)
<1>1. /\ lruList \in Seq(CacheRecord) /\ Len(lruList) \in Nat /\ Distinct(lruList)
      /\ index = Keys(lruList) /\ (Len(lruList) <= MaxEntries \/ Len(lruList) = 1)
      /\ MaxEntries \in Nat /\ DOMAIN lruList = 1..Len(lruList)
  BY CacheKeys, CacheAssumption
<1>2. IsFiniteSet(P) /\ n \in Nat /\ n <= Len(lruList) /\ P \subseteq 1..Len(lruList)
  <2>1. P \subseteq 1..Len(lruList)
    BY <1>1
  <2>2. IsFiniteSet(1..Len(lruList)) /\ Cardinality(1..Len(lruList)) = Len(lruList)
    <3>1. 1 \in Int /\ Len(lruList) \in Int /\ Len(lruList) - 1 + 1 = Len(lruList)
      BY <1>1
    <3>2. IsFiniteSet(1..Len(lruList))
          /\ Cardinality(1..Len(lruList)) = IF 1 > Len(lruList) THEN 0 ELSE Len(lruList) - 1 + 1
      BY <3>1, FS_Interval, Zenon
    <3>. QED BY <1>1, <3>2
  <2> HIDE DEF P
  <2>3. IsFiniteSet(P) /\ n <= Len(lruList)
    BY <2>1, <2>2, FS_Subset
  <2>. QED BY <2>1, <2>3, FS_CardinalityType
<1>3. PICK f \in [1..n -> P] :
        /\ \A i, j \in DOMAIN f : i < j => f[i] < f[j]
        /\ lruList' = [i \in DOMAIN f |-> lruList[f[i]]]
  BY DEF InvalidateByTable, Keep
<1>4. /\ DOMAIN f = 1..n /\ \A i \in 1..n : f[i] \in P
      /\ \A i, j \in 1..n : f[i] = f[j] => i = j
  <2>1. DOMAIN f = 1..n /\ \A i \in 1..n : f[i] \in P
    BY <1>3
  <2>2. \A i \in P : i \in Nat
    BY <1>2
  <2> HIDE DEF P, n
  <2>3. ASSUME NEW i \in 1..n, NEW j \in 1..n, f[i] = f[j] PROVE i = j
    <3>1. f[i] \in Nat /\ f[j] \in Nat /\ i \in Nat /\ j \in Nat
      BY <2>1, <2>2
    <3>2. (i < j => f[i] < f[j]) /\ (j < i => f[j] < f[i])
      BY <1>3, <2>1
    <3>. QED BY <2>3, <3>1, <3>2
  <2>. QED BY <2>1, <2>3
<1>5. \A p \in P : \E i \in 1..n : f[i] = p
  <2>1. IsFiniteSet(1..n) /\ Cardinality(1..n) = n
    <3>1. 1 \in Int /\ n \in Int
      BY <1>2
    <3>2. IsFiniteSet(1..n) /\ Cardinality(1..n) = IF 1 > n THEN 0 ELSE n - 1 + 1
      BY <3>1, FS_Interval, Zenon
    <3> HIDE DEF n
    <3>. QED BY <1>2, <3>2
  <2>2. f \in Injection(1..n, P)
    BY <1>3, <1>4 DEF Injection, IsInjective
  <2> HIDE DEF P
  <2>3. f \in Surjection(1..n, P)
    BY <1>2, <2>1, <2>2, FS_Injection
  <2>. QED BY <2>3 DEF Surjection
<1>6. /\ lruList' \in Seq(CacheRecord) /\ Len(lruList') = n /\ DOMAIN lruList' = 1..n
      /\ \A i \in 1..n : lruList'[i] = lruList[f[i]]
  <2>1. lruList' = [i \in 1..n |-> lruList[f[i]]] /\ \A i \in 1..n : lruList[f[i]] \in CacheRecord
    BY <1>1, <1>2, <1>3, <1>4
  <2> HIDE DEF n
  <2>. QED BY <1>2, <2>1
<1>7. Distinct(lruList')
  BY <1>1, <1>4, <1>6 DEF Distinct
<1>8. index' = Keys(lruList')
  <2>1. index' = {q \in index : t \notin Mentions[q]}
    BY DEF InvalidateByTable
  <2>2. ASSUME NEW q \in index' PROVE q \in Keys(lruList')
    <3>1. PICK p \in DOMAIN lruList : lruList[p].sql = q
      BY <1>1, <2>1, <2>2 DEF Keys
    <3>2. PICK i \in 1..n : f[i] = p
      BY <1>5, <2>1, <2>2, <3>1
    <3>. QED BY <1>6, <3>1, <3>2 DEF Keys
  <2>3. ASSUME NEW q \in Keys(lruList') PROVE q \in index'
    <3>1. PICK i \in 1..n : lruList'[i].sql = q
      BY <1>6 DEF Keys
    <3>. QED BY <1>1, <1>4, <1>6, <2>1, <3>1 DEF Keys
  <2>. QED BY <2>2, <2>3
<1>9. CacheInv'
  <2>1. Len(lruList') <= MaxEntries \/ Len(lruList') = 1
    BY <1>1, <1>2, <1>6
  <2>. QED BY <1>6, <1>7, <1>8, <2>1 DEF CacheInv, CacheConsistent, Distinct, Keys
<1>10. Within(lruList', lruList) /\ \A i \in DOMAIN lruList' : t \notin Mentions[lruList'[i].sql]
  BY <1>4, <1>6 DEF Within
<1>. QED BY <1>9, <1>10

\* clear().
LEMMA ClearInv == ASSUME CacheClear PROVE CacheInv' /\ lruList' = <<>> /\ DOMAIN lruList' = {}
<1>1. lruList' = <<>> /\ index' = {}
  BY DEF CacheClear
<1>2. lruList' \in Seq(CacheRecord) /\ Len(lruList') = 0 /\ DOMAIN lruList' = {}
  BY <1>1
<1>. QED BY <1>1, <1>2, CacheAssumption DEF CacheInv, CacheConsistent

\* A change within the entries that leaves their keys alone.
LEMMA SameKeysInv ==
  ASSUME CacheInv, lruList' \in Seq(CacheRecord), DOMAIN lruList' = DOMAIN lruList,
         \A i \in DOMAIN lruList : lruList'[i].sql = lruList[i].sql, UNCHANGED index
  PROVE  CacheInv'
<1>1. Len(lruList') = Len(lruList)
  BY DEF CacheInv
<1>2. CacheConsistent'
  BY <1>1 DEF CacheInv, CacheConsistent
<1>. QED BY <1>2 DEF CacheInv

(***************************************************************************)
(* The proxy.                                                              *)
(***************************************************************************)

\* A thread that is about to put a result knows whether it is out of date.
PutsMarked ==
  \A c \in Clients :
    client[c].op = "put" /\ Outdated(client[c].key, client[c].result) => client[c].raced

ProxyInv == ProxyTypeOK /\ CacheConsistent /\ PutsMarked /\ StaleOnlyByRace

\* The fields of an entry.
LEMMA EntryFields ==
  ASSUME NEW s \in Seq(CacheRecord), NEW i \in DOMAIN s
  PROVE  s[i] \in CacheRecord /\ s[i].sql \in Queries /\ s[i].left \in Nat
<1>1. s[i] \in CacheRecord
  OBVIOUS
<1>. QED BY <1>1 DEF CacheRecord

\* An idle thread.
LEMMA ProxyIdle == ClientOK(Idle) /\ Idle.op = "idle"
BY DEF Idle, ClientOK

\* A step that does not write to the primary: the entries after it are old ones, or have a
\* result that is marked when it is out of date, and a thread that ends an invalidation
\* leaves no entry that mentions its table.
LEMMA ReadingStep ==
  ASSUME ProxyInv, CacheInv', UNCHANGED primary,
         connected' \subseteq Replicas, replica' \in [Replicas -> Contents],
         DOMAIN client' = Clients,
         \A c \in Clients :
           \/ client'[c] = client[c]
           \/ /\ client[c].op = "invalidate" =>
                   \A i \in DOMAIN lruList' : client[c].key \notin Mentions[lruList'[i].sql]
              /\ ClientOK(client'[c])
              /\ client'[c].op = "put" =>
                   CacheEnabled /\ (Outdated(client'[c].key, client'[c].result) => client'[c].raced)
              /\ client'[c].op # "invalidate",
         \A i \in DOMAIN lruList' :
           \/ \E j \in DOMAIN lruList : /\ lruList'[i].sql = lruList[j].sql
                                       /\ lruList'[i].result = lruList[j].result
                                       /\ Explained(lruList'[i]) = Explained(lruList[j])
           \/ /\ CacheEnabled
              /\ lruList'[i].result \in [Mentions[lruList'[i].sql] -> Nat]
              /\ Outdated(lruList'[i].sql, lruList'[i].result) => Explained(lruList'[i])
  PROVE  ProxyInv'
<1>1. primary' = primary
  OBVIOUS
<1>2. /\ lruList' \in Seq(CacheRecord) /\ index' \subseteq Queries /\ CacheConsistent'
      /\ primary' \in Contents
  <2>1. lruList' \in Seq(CacheRecord) /\ CacheConsistent'
    BY DEF CacheInv
  <2>2. \A i \in DOMAIN lruList' : lruList'[i].sql \in Queries
    BY <2>1, EntryFields, Zenon
  <2>3. index' \subseteq Queries
    BY <2>1, <2>2 DEF CacheConsistent
  <2>4. primary' \in Contents
    BY DEF ProxyInv, ProxyTypeOK
  <2>. QED BY <2>1, <2>3, <2>4
<1>3. \A i \in DOMAIN lruList' : lruList'[i].result \in [Mentions[lruList'[i].sql] -> Nat]
  BY DEF ProxyInv, ProxyTypeOK
<1>4. \A c \in Clients : ClientOK(client'[c])
  BY DEF ProxyInv, ProxyTypeOK
<1>5. ASSUME ~CacheEnabled
      PROVE  lruList' = <<>> /\ \A c \in Clients : client'[c].op \notin {"put", "invalidate"}
  <2>0. lruList = <<>>
    BY <1>5 DEF ProxyInv, ProxyTypeOK
  <2>00. DOMAIN lruList = {}
    BY <2>0
  <2>1. DOMAIN lruList' = {}
    BY <1>5, <2>00
  <2>2. lruList' = <<>>
    BY <1>2, <2>1
  <2>. QED BY <1>5, <2>2 DEF ProxyInv, ProxyTypeOK
<1>6. ProxyTypeOK'
  BY <1>2, <1>3, <1>4, <1>5 DEF ProxyTypeOK, ClientOK
<1>7. PutsMarked'
  <2> SUFFICES ASSUME NEW c \in Clients, client'[c].op = "put",
                      \E t \in Mentions[client'[c].key] : client'[c].result[t] < primary'[t]
               PROVE  client'[c].raced
    BY Zenon DEF PutsMarked, Outdated
  <2>0. Outdated(client'[c].key, client'[c].result)
    BY <1>1 DEF Outdated
  <2>1. CASE client'[c] = client[c]
    BY <2>0, <2>1 DEF ProxyInv, PutsMarked
  <2>. QED BY <2>0, <2>1
<1>8. StaleOnlyByRace'
  <2> SUFFICES ASSUME NEW i \in DOMAIN lruList',
                      \E t \in Mentions[lruList'[i].sql] : lruList'[i].result[t] < primary'[t]
               PROVE  \/ Explained(lruList'[i])
                      \/ \E c \in Clients : client'[c].op = "invalidate"
                                           /\ client'[c].key \in Mentions[lruList'[i].sql]
    BY Zenon DEF StaleOnlyByRace, Outdated
  <2>0. Outdated(lruList'[i].sql, lruList'[i].result)
    BY <1>1 DEF Outdated
  <2>1. CASE Outdated(lruList'[i].sql, lruList'[i].result) => Explained(lruList'[i])
    BY <2>0, <2>1
  <2>2. ASSUME NEW j \in DOMAIN lruList, lruList'[i].sql = lruList[j].sql,
               lruList'[i].result = lruList[j].result, Explained(lruList'[i]) = Explained(lruList[j])
        PROVE  \/ Explained(lruList'[i])
               \/ \E c \in Clients : client'[c].op = "invalidate"
                                    /\ client'[c].key \in Mentions[lruList'[i].sql]
    <3>1. \/ Explained(lruList[j])
          \/ \E c \in Clients : client[c].op = "invalidate"
                               /\ client[c].key \in Mentions[lruList[j].sql]
      BY <2>0, <2>2 DEF ProxyInv, StaleOnlyByRace
    <3>2. \A c \in Clients :
            client[c].op = "invalidate" /\ client[c].key \in Mentions[lruList'[i].sql]
              => client'[c] = client[c]
      OBVIOUS
    <3>. QED BY <2>2, <3>1, <3>2
  <2>. QED BY <2>1, <2>2
<1>. QED BY <1>2, <1>6, <1>7, <1>8 DEF ProxyInv

\* What the cache's lemmas need.
LEMMA ProxyCache == ASSUME ProxyInv PROVE CacheInv
BY DEF ProxyInv, ProxyTypeOK, CacheInv

\* A step of the cache, or of nothing, that brings no new entry.
LEMMA ShrinkingStep ==
  ASSUME ProxyInv, CacheInv', Within(lruList', lruList), UNCHANGED <<primary, client>>,
         connected' \subseteq Replicas, replica' \in [Replicas -> Contents]
  PROVE  ProxyInv'
<1>1. DOMAIN client' = Clients /\ \A c \in Clients : client'[c] = client[c]
  BY DEF ProxyInv, ProxyTypeOK
<1>2. \A i \in DOMAIN lruList' : \E j \in DOMAIN lruList : lruList'[i] = lruList[j]
  BY DEF Within
<1>3. primary' = primary
  OBVIOUS
<1>. QED BY <1>1, <1>2, <1>3, ReadingStep

\* start(), stop(), the administrative calls, replication.
LEMMA ManagementStep ==
  ASSUME ProxyInv, Start \/ StopFlag \/ StopPools \/ StopCache \/ ManageCache \/ \E r \in Replicas : Replicate(r)
  PROVE  ProxyInv'
<1>1. CacheInv
  BY ProxyCache
<1>2. connected \subseteq Replicas /\ replica \in [Replicas -> Contents] /\ primary \in Contents
  BY DEF ProxyInv, ProxyTypeOK
<1>3. ASSUME UNCHANGED cacheVars PROVE CacheInv' /\ Within(lruList', lruList)
  BY <1>1, <1>3 DEF cacheVars, CacheInv, CacheConsistent, Within
<1>4. ASSUME CacheClear PROVE CacheInv' /\ Within(lruList', lruList)
  BY <1>4, ClearInv DEF Within
<1>5. CASE Start
  BY <1>2, <1>3, <1>5, ShrinkingStep DEF Start, databases
<1>6. CASE StopFlag
  BY <1>2, <1>3, <1>6, ShrinkingStep DEF StopFlag, databases
<1>7. CASE StopPools
  BY <1>2, <1>3, <1>7, ShrinkingStep DEF StopPools, databases
<1>10. CASE StopCache
  BY <1>2, <1>4, <1>10, ShrinkingStep DEF StopCache, databases
<1>8. CASE ManageCache
  <2>1. CacheInv' /\ Within(lruList', lruList)
    BY <1>1, <1>4, <1>8, ByTableInv, InvalidateInv DEF ManageCache
  <2>. QED BY <1>2, <1>8, <2>1, ShrinkingStep DEF ManageCache, databases, pools
<1>9. ASSUME NEW r \in Replicas, Replicate(r) PROVE ProxyInv'
  <2>1. replica' = [replica EXCEPT ![r] = primary] /\ UNCHANGED <<cacheVars, pools, primary, client>>
    BY <1>9 DEF Replicate
  <2>2. replica' \in [Replicas -> Contents]
    BY <1>2, <2>1
  <2>. QED BY <1>2, <1>3, <2>1, <2>2, ShrinkingStep DEF pools
<1>. QED BY <1>5, <1>6, <1>7, <1>8, <1>9, <1>10

\* Time passes.
LEMMA TickStep == ASSUME ProxyInv, ProxyTick PROVE ProxyInv'
<1>1. CacheInv /\ lruList \in Seq(CacheRecord)
  BY ProxyCache DEF CacheInv
<1> DEFINE Older(e) == [e EXCEPT !.left = IF e.left > 0 THEN e.left - 1 ELSE 0]
<1>2. \A e \in CacheRecord : /\ Older(e) \in CacheRecord /\ Older(e).sql = e.sql
                             /\ Older(e).result = e.result /\ Explained(Older(e)) = Explained(e)
  <2> TAKE e \in CacheRecord
  <2>1. e.left \in Nat
    BY DEF CacheRecord
  <2>2. (IF e.left > 0 THEN e.left - 1 ELSE 0) \in Nat
    BY <2>1
  <2>. QED BY <2>2 DEF CacheRecord, Explained
<1>3. lruList' = [i \in DOMAIN lruList |-> Older(lruList[i])] /\ UNCHANGED index
  BY DEF ProxyTick, CacheTick
<1> HIDE DEF Older
<1>4. \A i \in DOMAIN lruList : lruList[i] \in CacheRecord
  BY <1>1, EntryFields
<1>5. DOMAIN lruList' = DOMAIN lruList /\ \A i \in DOMAIN lruList : lruList'[i] = Older(lruList[i])
  BY <1>3
<1>6. lruList' \in Seq(CacheRecord)
  BY <1>1, <1>2, <1>3, <1>4
<1>7. \A i \in DOMAIN lruList : /\ lruList'[i].sql = lruList[i].sql
                                /\ lruList'[i].result = lruList[i].result
                                /\ Explained(lruList'[i]) = Explained(lruList[i])
  BY <1>2, <1>4, <1>5
<1>8. CacheInv'
  BY <1>1, <1>3, <1>5, <1>6, <1>7, SameKeysInv
<1>9. UNCHANGED <<primary, replica, connected, client>>
  BY DEF ProxyTick, databases, pools
<1>10. /\ connected' \subseteq Replicas /\ replica' \in [Replicas -> Contents]
       /\ DOMAIN client' = Clients /\ (\A c \in Clients : client'[c] = client[c]) /\ primary' = primary
  BY <1>9 DEF ProxyInv, ProxyTypeOK
<1>. QED BY <1>5, <1>7, <1>8, <1>10, ReadingStep

\* query() up to the pool manager: an answer from the cache, or a thread on its way.
LEMMA BeginStep ==
  ASSUME ProxyInv, NEW c \in Clients, NEW q \in Queries, BeginQuery(c, q) PROVE ProxyInv'
<1>1. CacheInv
  BY ProxyCache
<1> DEFINE since == [t \in Mentions[q] |-> Returned(t)]
           next == [Idle EXCEPT !.op = "read", !.key = q, !.since = since]
<1>2. ClientOK(next) /\ next.op = "read"
  BY DEF ClientOK, Idle
<1>3. client[c].op = "idle" /\ UNCHANGED <<primary, replica, connected>>
  BY DEF BeginQuery, databases, pools
<1>4. CacheInv' /\ Within(lruList', lruList)
  <2>1. CASE Get(q)
    BY <1>1, <2>1, GetInv
  <2>2. CASE UNCHANGED cacheVars
    BY <1>1, <2>2 DEF cacheVars, CacheInv, CacheConsistent, Within
  <2>. QED BY <2>1, <2>2 DEF BeginQuery
<1>5. client' = client \/ client' = [client EXCEPT ![c] = next]
  BY DEF BeginQuery
<1> HIDE DEF next
<1>6. /\ DOMAIN client' = Clients /\ connected' \subseteq Replicas
      /\ replica' \in [Replicas -> Contents] /\ primary' = primary
  BY <1>3, <1>5 DEF ProxyInv, ProxyTypeOK
<1>7. \A d \in Clients : \/ client'[d] = client[d]
                         \/ /\ client[d].op # "invalidate" /\ ClientOK(client'[d])
                            /\ client'[d].op # "put" /\ client'[d].op # "invalidate"
  BY <1>2, <1>3, <1>5 DEF ProxyInv, ProxyTypeOK
<1>8. \A i \in DOMAIN lruList' : \E j \in DOMAIN lruList : lruList'[i] = lruList[j]
  BY <1>4 DEF Within
<1>. QED BY <1>4, <1>6, <1>7, <1>8, ReadingStep

\* The pool manager's answer arrives and is marked when it is out of date already.
LEMMA PoolStep == ASSUME ProxyInv, NEW c \in Clients, PoolQuery(c) PROVE ProxyInv'
<1> DEFINE q == client[c].key
<1>1. /\ client[c].op = "read" /\ q \in Queries /\ ClientOK(client[c])
      /\ UNCHANGED <<primary, replica, connected, lruList, index>>
      /\ primary \in Contents /\ replica \in [Replicas -> Contents] /\ connected \subseteq Replicas
      /\ DOMAIN client = Clients
  BY DEF PoolQuery, databases, pools, cacheVars, ProxyInv, ProxyTypeOK, ClientOK
<1>2. \A db \in Contents : Select(q, db) \in [Mentions[q] -> Nat]
  BY <1>1, CacheAssumption, ProxyAssumption DEF Select, Contents
<1>3. \/ client' = [client EXCEPT ![c] = Idle]
      \/ \E db \in Contents : Answer(c, q, Select(q, db))
  BY <1>1 DEF PoolQuery
<1>4. CacheInv'
  BY <1>1, ProxyCache DEF CacheInv, CacheConsistent
<1>5. DOMAIN client' = Clients /\ \A d \in Clients \ {c} : client'[d] = client[d]
  BY <1>1, <1>3 DEF Answer
<1>6. \/ client'[c] = Idle
      \/ /\ CacheEnabled /\ ClientOK(client'[c]) /\ client'[c].op = "put"
         /\ Outdated(client'[c].key, client'[c].result) => client'[c].raced
  <2>1. ASSUME NEW db \in Contents, Answer(c, q, Select(q, db)), CacheEnabled
        PROVE  /\ ClientOK(client'[c]) /\ client'[c].op = "put"
               /\ Outdated(client'[c].key, client'[c].result) => client'[c].raced
    <3> DEFINE r == Select(q, db)
               late == Outdated(q, r)
               next == [client[c] EXCEPT !.op = "put", !.result = r, !.raced = late]
    <3>1. late \in BOOLEAN
      BY Zenon DEF Outdated
    <3>2. r \in [Mentions[q] -> Nat]
      BY <1>2
    <3>3. client' = [client EXCEPT ![c] = next]
      BY <2>1 DEF Answer
    <3> HIDE DEF late, r
    <3>4. /\ DOMAIN next = {"op", "key", "result", "raced", "since"} /\ next.op = "put"
          /\ next.result = r /\ next.key = q /\ next.raced = late
      BY <1>1 DEF ClientOK
    <3>5. client'[c] = next
      BY <1>1, <3>3, Zenon
    <3> HIDE DEF next, q
    <3>6. ClientOK(next)
      BY <1>1, <3>1, <3>2, <3>4 DEF ClientOK
    <3>7. Outdated(next.key, next.result) => next.raced
      BY <3>4 DEF late
    <3>. QED BY <3>4, <3>5, <3>6, <3>7
  <2>2. ASSUME NEW db \in Contents, Answer(c, q, Select(q, db)), ~CacheEnabled PROVE client'[c] = Idle
    BY <1>1, <2>2 DEF Answer
  <2>. QED BY <1>1, <1>3, <2>1, <2>2
<1>7. \A d \in Clients :
        \/ client'[d] = client[d]
        \/ /\ client[d].op # "invalidate" /\ ClientOK(client'[d])
           /\ client'[d].op = "put" =>
                CacheEnabled /\ (Outdated(client'[d].key, client'[d].result) => client'[d].raced)
           /\ client'[d].op # "invalidate"
  BY <1>1, <1>5, <1>6, ProxyIdle
<1>. QED BY <1>1, <1>4, <1>5, <1>7, ReadingStep

\* The result goes into the cache with its mark.
LEMMA PutStep == ASSUME ProxyInv, NEW c \in Clients, PutResult(c) PROVE ProxyInv'
<1> DEFINE q == client[c].key
           r == client[c].result
           late == client[c].raced
<1>1. /\ client[c].op = "put" /\ q \in Queries /\ r \in [Mentions[q] -> Nat] /\ late \in BOOLEAN
      /\ UNCHANGED <<primary, replica, connected>> /\ CacheEnabled
      /\ replica \in [Replicas -> Contents] /\ connected \subseteq Replicas
      /\ DOMAIN client = Clients
  BY DEF PutResult, databases, pools, ProxyInv, ProxyTypeOK, ClientOK
<1>2. r \in Results
  BY <1>1, CacheAssumption DEF Results
<1>3. Outdated(q, r) => late
  BY <1>1 DEF ProxyInv, PutsMarked
<1>4. Put(q, r, late) /\ client' = [client EXCEPT ![c] = Idle]
  BY DEF PutResult
<1> HIDE DEF q, r, late
<1>5. /\ CacheInv'
      /\ \A i \in DOMAIN lruList' : \/ lruList'[i] = CacheEntry(q, r, late)
                                    \/ \E j \in DOMAIN lruList : lruList'[i] = lruList[j]
  BY <1>1, <1>2, <1>4, ProxyCache, PutInv
<1>6. /\ CacheEntry(q, r, late).sql = q /\ CacheEntry(q, r, late).result = r
      /\ late => Explained(CacheEntry(q, r, late))
  BY DEF CacheEntry, Explained
<1>7. DOMAIN client' = Clients /\ client'[c] = Idle /\ \A d \in Clients \ {c} : client'[d] = client[d]
  BY <1>1, <1>4
<1>8. \A i \in DOMAIN lruList' :
        \/ \E j \in DOMAIN lruList : lruList'[i] = lruList[j]
        \/ /\ lruList'[i].result \in [Mentions[lruList'[i].sql] -> Nat]
           /\ Outdated(lruList'[i].sql, lruList'[i].result) => Explained(lruList'[i])
  BY <1>1, <1>3, <1>5, <1>6
<1>9. \A d \in Clients :
        \/ client'[d] = client[d]
        \/ /\ client[d].op # "invalidate" /\ ClientOK(client'[d])
           /\ client'[d].op # "put" /\ client'[d].op # "invalidate"
  BY <1>1, <1>7, ProxyIdle
<1>. QED BY <1>1, <1>5, <1>7, <1>8, <1>9, ReadingStep

\* The end of execute(): no entry that mentions the table is left.
LEMMA InvalidateStep == ASSUME ProxyInv, NEW c \in Clients, InvalidateWritten(c) PROVE ProxyInv'
<1>1. /\ UNCHANGED <<primary, replica, connected>> /\ client' = [client EXCEPT ![c] = Idle]
      /\ replica \in [Replicas -> Contents] /\ connected \subseteq Replicas
      /\ DOMAIN client = Clients
  BY DEF InvalidateWritten, databases, pools, ProxyInv, ProxyTypeOK
<1>2. /\ CacheInv' /\ Within(lruList', lruList)
      /\ \A i \in DOMAIN lruList' : client[c].key \notin Mentions[lruList'[i].sql]
  BY ProxyCache, ByTableInv DEF InvalidateWritten
<1>3. DOMAIN client' = Clients /\ client'[c] = Idle /\ \A d \in Clients \ {c} : client'[d] = client[d]
  BY <1>1
<1>4. \A d \in Clients :
        \/ client'[d] = client[d]
        \/ /\ \A i \in DOMAIN lruList' : client[d].key \notin Mentions[lruList'[i].sql]
           /\ ClientOK(client'[d]) /\ client'[d].op # "put" /\ client'[d].op # "invalidate"
  BY <1>2, <1>3, ProxyIdle
<1>5. \A i \in DOMAIN lruList' : \E j \in DOMAIN lruList : lruList'[i] = lruList[j]
  BY <1>2 DEF Within
<1>. QED BY <1>1, <1>2, <1>3, <1>4, <1>5, ReadingStep

\* A write: what it makes out of date is marked, or about to be invalidated by its thread.
LEMMA WriteStep ==
  ASSUME ProxyInv, NEW c \in Clients, NEW t \in Tables, NEW form, NEW next, Apply(c, t, form, next),
         client[c].op = "idle", primary[t] < MaxWrites, UNCHANGED <<index, connected>>,
         ClientOK(next), next.op # "put", ~CacheEnabled => next.op # "invalidate",
         ~Unnoticed(form) /\ CacheEnabled => next.op = "invalidate" /\ next.key = t
  PROVE  ProxyInv'
<1> DEFINE Marked(e) == IF Unnoticed(form) /\ t \in Mentions[e.sql]
                        THEN [e EXCEPT !.missed = TRUE] ELSE e
           Late(d) == IF client[d].op = "put" /\ t \in Mentions[client[d].key]
                      THEN [client[d] EXCEPT !.raced = TRUE] ELSE client[d]
<1>1. /\ lruList \in Seq(CacheRecord) /\ primary \in Contents /\ replica \in [Replicas -> Contents]
      /\ connected \subseteq Replicas /\ \A d \in Clients : ClientOK(client[d])
      /\ \A i \in DOMAIN lruList : lruList[i] \in CacheRecord
  BY EntryFields DEF ProxyInv, ProxyTypeOK
<1>2. client[c].op = "idle" /\ primary[t] < MaxWrites /\ UNCHANGED <<index, connected>>
  OBVIOUS
<1>3. /\ primary' = [primary EXCEPT ![t] = @ + 1]
      /\ replica' = IF Lag THEN replica ELSE [r \in Replicas |-> primary']
      /\ client' = [d \in Clients |-> IF d = c THEN next ELSE Late(d)]
      /\ lruList' = [i \in DOMAIN lruList |-> Marked(lruList[i])]
  BY DEF Apply
<1>4. /\ ClientOK(next) /\ next.op # "put"
      /\ ~CacheEnabled => next.op # "invalidate"
      /\ ~Unnoticed(form) /\ CacheEnabled => next.op = "invalidate" /\ next.key = t
  OBVIOUS
<1>5. \A d \in Clients :
        /\ ClientOK(Late(d)) /\ Late(d).op = client[d].op /\ Late(d).key = client[d].key
        /\ Late(d).result = client[d].result
        /\ (client[d].op = "put" /\ t \in Mentions[client[d].key]) => Late(d).raced
        /\ client[d].raced => Late(d).raced
  <2> TAKE d \in Clients
  <2> DEFINE n == [client[d] EXCEPT !.raced = TRUE]
  <2>1. DOMAIN client[d] = {"op", "key", "result", "raced", "since"} /\ ClientOK(client[d])
    BY <1>1 DEF ClientOK
  <2>2. /\ DOMAIN n = {"op", "key", "result", "raced", "since"} /\ n.op = client[d].op
        /\ n.key = client[d].key /\ n.result = client[d].result /\ n.raced = TRUE
    BY <2>1
  <2>3. n.raced \in BOOLEAN
    BY <2>2
  <2> HIDE DEF n
  <2>4. ClientOK(n)
    BY <2>1, <2>2, <2>3 DEF ClientOK
  <2>5. Late(d) = IF client[d].op = "put" /\ t \in Mentions[client[d].key] THEN n ELSE client[d]
    BY DEF n
  <2>. QED BY <2>1, <2>2, <2>4, <2>5
<1>6. \A e \in CacheRecord :
        /\ Marked(e) \in CacheRecord /\ Marked(e).sql = e.sql /\ Marked(e).result = e.result
        /\ (Unnoticed(form) /\ t \in Mentions[e.sql]) => Explained(Marked(e))
        /\ Explained(e) => Explained(Marked(e))
  BY DEF CacheRecord, Explained
<1> HIDE DEF Marked, Late
<1>7. DOMAIN client' = Clients /\ client'[c] = next /\ \A d \in Clients : d # c => client'[d] = Late(d)
  BY <1>3
<1>8. DOMAIN lruList' = DOMAIN lruList /\ \A i \in DOMAIN lruList : lruList'[i] = Marked(lruList[i])
  BY <1>3
<1>9. lruList' \in Seq(CacheRecord)
  BY <1>1, <1>3, <1>6
<1>10. \A i \in DOMAIN lruList : lruList'[i].sql = lruList[i].sql /\ lruList'[i].result = lruList[i].result
  BY <1>1, <1>6, <1>8
<1>11. CacheInv'
  BY <1>2, <1>8, <1>9, <1>10, ProxyCache, SameKeysInv
<1>12. primary' \in Contents /\ \A u \in Tables : u # t => primary'[u] = primary[u]
  <2>1. primary[t] + 1 \in 0..MaxWrites
    BY <1>1, <1>2, ProxyAssumption DEF Contents
  <2>. QED BY <1>1, <1>3, <2>1 DEF Contents
<1>13. ~CacheEnabled => /\ DOMAIN lruList' = {}
                        /\ \A d \in Clients : client[d].op \notin {"put", "invalidate"}
  <2>1. ~CacheEnabled => /\ lruList = <<>>
                         /\ \A d \in Clients : client[d].op \notin {"put", "invalidate"}
    BY DEF ProxyInv, ProxyTypeOK
  <2>. QED BY <1>8, <2>1
<1>14. ProxyTypeOK'
  <2>1. index' \subseteq Queries
    BY <1>2 DEF ProxyInv, ProxyTypeOK
  <2>2. \A i \in DOMAIN lruList' : lruList'[i].result \in [Mentions[lruList'[i].sql] -> Nat]
    BY <1>8, <1>10 DEF ProxyInv, ProxyTypeOK
  <2>3. replica' \in [Replicas -> Contents]
    BY <1>1, <1>3, <1>12
  <2>4. \A d \in Clients : ClientOK(client'[d])
    BY <1>4, <1>5, <1>7
  <2>5. ~CacheEnabled => /\ lruList' = <<>>
                         /\ \A d \in Clients : client'[d].op \notin {"put", "invalidate"}
    <3>1. ASSUME ~CacheEnabled, NEW d \in Clients PROVE client'[d].op \notin {"put", "invalidate"}
      BY <1>4, <1>5, <1>7, <1>13, <3>1
    <3>2. ~CacheEnabled => lruList' = <<>>
      BY <1>9, <1>13
    <3>. QED BY <3>1, <3>2
  <2>6. connected' \subseteq Replicas
    BY <1>1, <1>2
  <2>. QED BY <1>7, <1>9, <1>12, <2>1, <2>2, <2>3, <2>4, <2>5, <2>6 DEF ProxyTypeOK, ClientOK
<1>15. PutsMarked'
  <2> SUFFICES ASSUME NEW d \in Clients, client'[d].op = "put",
                      NEW u \in Mentions[client'[d].key], client'[d].result[u] < primary'[u]
               PROVE  client'[d].raced
    BY Zenon DEF PutsMarked, Outdated
  <2>1. /\ d # c /\ client[d].op = "put" /\ client'[d].key = client[d].key
        /\ client'[d].result = client[d].result /\ client'[d] = Late(d)
    BY <1>4, <1>5, <1>7
  <2>2. client[d].key \in Queries
    BY <1>1, <2>1 DEF ClientOK
  <2>3. CASE t \in Mentions[client[d].key]
    BY <1>5, <2>1, <2>3
  <2>4. CASE t \notin Mentions[client[d].key]
    <3>1. u \in Tables /\ u # t
      BY <2>1, <2>2, <2>4, CacheAssumption
    <3>2. Outdated(client[d].key, client[d].result)
      BY <1>12, <2>1, <3>1 DEF Outdated
    <3>. QED BY <1>5, <2>1, <3>2 DEF ProxyInv, PutsMarked
  <2>. QED BY <2>3, <2>4
<1>16. StaleOnlyByRace'
  <2> SUFFICES ASSUME NEW i \in DOMAIN lruList', NEW u \in Mentions[lruList'[i].sql],
                      lruList'[i].result[u] < primary'[u], ~Explained(lruList'[i])
               PROVE  \E d \in Clients : client'[d].op = "invalidate"
                                        /\ client'[d].key \in Mentions[lruList'[i].sql]
    BY Zenon DEF StaleOnlyByRace, Outdated
  <2>1. /\ i \in DOMAIN lruList /\ lruList'[i] = Marked(lruList[i]) /\ lruList'[i].sql = lruList[i].sql
        /\ lruList'[i].result = lruList[i].result /\ lruList[i] \in CacheRecord
        /\ lruList[i].sql \in Queries /\ ~Explained(lruList[i])
    <3>1. /\ i \in DOMAIN lruList /\ lruList'[i] = Marked(lruList[i])
          /\ lruList'[i].sql = lruList[i].sql
          /\ lruList'[i].result = lruList[i].result /\ lruList[i] \in CacheRecord
      BY <1>1, <1>8, <1>10
    <3>2. lruList[i].sql \in Queries
      BY <3>1 DEF CacheRecord
    <3>. QED BY <1>6, <3>1, <3>2
  <2>2. CASE t \in Mentions[lruList[i].sql]
    <3>1. ~Unnoticed(form) /\ CacheEnabled
      BY <1>6, <1>13, <2>1, <2>2
    <3>. QED BY <1>4, <1>7, <2>1, <2>2, <3>1
  <2>3. CASE t \notin Mentions[lruList[i].sql]
    <3>1. u \in Tables /\ u # t
      BY <2>1, <2>3, CacheAssumption
    <3>2. Outdated(lruList[i].sql, lruList[i].result)
      BY <1>12, <2>1, <3>1 DEF Outdated
    <3>3. PICK d \in Clients : client[d].op = "invalidate" /\ client[d].key \in Mentions[lruList[i].sql]
      BY <2>1, <3>2 DEF ProxyInv, StaleOnlyByRace
    <3>4. d # c /\ client'[d] = Late(d) /\ client'[d].op = "invalidate" /\ client'[d].key = client[d].key
      BY <1>2, <1>5, <1>7, <3>3
    <3>. QED BY <2>1, <3>3, <3>4
  <2>. QED BY <2>2, <2>3
<1>. QED BY <1>11, <1>14, <1>15, <1>16 DEF ProxyInv, CacheInv

\* execute() and a write through query().
LEMMA ExecuteStep ==
  ASSUME ProxyInv, NEW c \in Clients, NEW t \in Tables,
         \/ \E form \in WriteForms \ {"query"} : Execute(c, t, form)
         \/ QueryWrite(c, t)
  PROVE  ProxyInv'
<1>1. ASSUME NEW form \in WriteForms \ {"query"}, Execute(c, t, form) PROVE ProxyInv'
  <2> DEFINE writing == [Idle EXCEPT !.op = "invalidate", !.key = t]
             next == IF ExtractTableName(t, form) # "none" /\ CacheEnabled THEN writing ELSE Idle
  <2>1. ClientOK(writing) /\ writing.op = "invalidate" /\ writing.key = t
    BY DEF ClientOK, Idle
  <2>2. ~Unnoticed(form) => ExtractTableName(t, form) # "none"
    BY ProxyAssumption DEF ExtractTableName, Unnoticed
  <2>3. /\ client[c].op = "idle" /\ primary[t] < MaxWrites /\ UNCHANGED <<index, connected>>
        /\ Apply(c, t, form, next)
    BY <1>1 DEF Execute, pools
  <2> HIDE DEF writing
  <2>4. /\ ClientOK(next) /\ next.op # "put"
        /\ ~CacheEnabled => next.op # "invalidate"
        /\ ~Unnoticed(form) /\ CacheEnabled => next.op = "invalidate" /\ next.key = t
    BY <2>1, <2>2, ProxyIdle
  <2> HIDE DEF next
  <2>. QED BY <2>3, <2>4, WriteStep
<1>2. CASE QueryWrite(c, t)
  <2>1. /\ client[c].op = "idle" /\ primary[t] < MaxWrites /\ UNCHANGED <<index, connected>>
        /\ Apply(c, t, "query", Idle)
    BY <1>2 DEF QueryWrite, pools
  <2>2. Unnoticed("query")
    BY DEF Unnoticed
  <2>. QED BY <2>1, <2>2, ProxyIdle, WriteStep
<1>. QED BY <1>1, <1>2

\* Every step of the proxy preserves the invariant.
LEMMA ProxyStep == ProxyInv /\ [ProxyNext]_proxyVars => ProxyInv'
<1> SUFFICES ASSUME ProxyInv, [ProxyNext]_proxyVars PROVE ProxyInv'
  OBVIOUS
<1>1. ASSUME NEW c \in Clients, ClientCall(c) PROVE ProxyInv'
  BY <1>1, BeginStep, PoolStep, PutStep, InvalidateStep, ExecuteStep DEF ClientCall, ClientStep
<1>2. CASE UNCHANGED proxyVars
  BY <1>2 DEF proxyVars, ProxyInv, ProxyTypeOK, CacheConsistent, PutsMarked, StaleOnlyByRace, Outdated,
              ClientOK, Explained
<1>. QED BY <1>1, <1>2, ManagementStep, TickStep DEF ProxyNext

\* A proxy that has not been started satisfies it.
LEMMA ProxyBegins == ProxyInit => ProxyInv
<1> SUFFICES ASSUME ProxyInit PROVE ProxyInv
  OBVIOUS
<1>1. lruList = <<>> /\ index = {} /\ lruList \in Seq(CacheRecord) /\ DOMAIN lruList = {} /\ Len(lruList) = 0
  BY DEF ProxyInit, CacheInit
<1>2. CacheConsistent /\ StaleOnlyByRace
  BY <1>1, CacheAssumption DEF CacheConsistent, StaleOnlyByRace
<1>3. DOMAIN client = Clients /\ \A c \in Clients : ClientOK(client[c]) /\ client[c].op = "idle"
  BY ProxyIdle DEF ProxyInit
<1>4. primary \in Contents /\ replica \in [Replicas -> Contents] /\ connected = {}
  <2>1. 0 \in 0..MaxWrites
    BY ProxyAssumption
  <2>. QED BY <2>1 DEF ProxyInit, Contents
<1>5. ProxyTypeOK
  BY <1>1, <1>3, <1>4 DEF ProxyTypeOK
<1>6. PutsMarked
  BY <1>3 DEF PutsMarked
<1>. QED BY <1>2, <1>5, <1>6 DEF ProxyInv

\* Cached results fit their statements, threads are in one of the stages of a call, and
\* with the cache disabled nothing enters it.
THEOREM ProxyTypeCorrect == ProxySpec => []ProxyTypeOK
BY ProxyBegins, ProxyStep, PTL DEF ProxySpec, ProxyInv

\* Whatever the capacity of the cache and the number of threads, the index and the list
\* name the same keys, each once, and the list stays within its limit.
THEOREM CacheStaysConsistent == ProxySpec => []CacheConsistent
BY ProxyBegins, ProxyStep, PTL DEF ProxySpec, ProxyInv

\* Whatever the number of threads, tables and replicas, a cached result that is out of date
\* was overtaken by the write while it was read or came from a replica that was behind, or
\* the write invalidates nothing, being made through query() or naming its table in a way
\* extractTableName() does not see, or its writer is on its way to invalidate it.
THEOREM StaleNeedsRace == ProxySpec => []StaleOnlyByRace
BY ProxyBegins, ProxyStep, PTL DEF ProxySpec, ProxyInv
=============================================================================
