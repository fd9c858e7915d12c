----------------------------- MODULE GameDatabase -----------------------------
(***************************************************************************)
(* GameDatabase of src/foundation/database/game_database.cpp: a pool of    *)
(* connections behind poolMutex, handed out to the threads inside query(), *)
(* execute() and beginTransaction().  checkout() takes a free connection,  *)
(* opens another one below maxConnections, or waits for checkin() to       *)
(* notify it until its deadline.  disconnect() throws the pool away while  *)
(* connections are out.  connect() fills the pool without the lock, one    *)
(* connection per step; that its push_back() races with a reader of the    *)
(* vector is left out.  One thread at a time is in connect(), as under the *)
(* pool manager's mutex.  What the statements do is left to the database.  *)
(***************************************************************************)
EXTENDS Naturals, FiniteSets

CONSTANTS Users,           \* threads using the database
          MinConnections, MaxDbConnections,  \* DatabaseConfig's limits
          MaxOpened        \* bound: connections opened over the whole run

ASSUME PoolAssumption ==
  /\ MinConnections \in Nat /\ MaxDbConnections \in Nat /\ MaxOpened \in Nat
  /\ MinConnections <= MaxDbConnections

VARIABLES dbConnected,     \* Impl::connected
          pool,            \* Impl::pool: the connections
          inUse,           \* PooledConnection::inUse: those checked out
          opened,          \* connections opened so far; the next one's name
          user,            \* what each thread is doing, and its connection
          connecting,      \* whether a thread is in connect() ...
          toOpen           \* ... and how many connections it has still to open

dbVars == <<dbConnected, pool, inUse, opened, user, connecting, toOpen>>
connector == <<connecting, toOpen>>

None == 0

\* "checkout": about to look for a connection; "waiting": in wait_until();
\* "notified": woken up; "working": has a connection; "txn": has an active
\* transaction, "ended": one that was committed or rolled back.
UserOps == {"idle", "checkout", "waiting", "notified", "working", "txn", "ended"}
IdleUser == [op |-> "idle", txn |-> FALSE, conn |-> None]

DbInit ==
  /\ dbConnected = FALSE /\ pool = {} /\ inUse = {} /\ opened = 0
  /\ user = [u \in Users |-> IdleUser]
  /\ connecting = FALSE /\ toOpen = 0

\* connect(), refused when connected already.
BeginConnect ==
  /\ ~dbConnected /\ ~connecting
  /\ connecting' = TRUE /\ toOpen' = MinConnections
  /\ UNCHANGED <<dbConnected, pool, inUse, opened, user>>

\* One round of its loop, which takes no lock: a thread that has been in checkout() since
\* before the last disconnect() may get the connection at once.
OpenOne ==
  /\ connecting /\ toOpen > 0 /\ opened < MaxOpened
  /\ opened' = opened + 1 /\ pool' = pool \cup {opened'} /\ toOpen' = toOpen - 1
  /\ UNCHANGED <<dbConnected, inUse, user, connecting>>

EndConnect ==
  /\ connecting /\ toOpen = 0
  /\ connecting' = FALSE /\ dbConnected' = TRUE
  /\ UNCHANGED <<pool, inUse, opened, user, toOpen>>

\* disconnect(): connections that are out leave the pool as well.
ThrowAway == dbConnected' = FALSE /\ pool' = {} /\ inUse' = {}

Disconnect == ThrowAway /\ UNCHANGED <<opened, user, connector>>

\* A connection cannot be opened: connect() throws away what there is.
ConnectFails ==
  /\ connecting /\ toOpen > 0
  /\ ThrowAway /\ connecting' = FALSE /\ toOpen' = 0
  /\ UNCHANGED <<opened, user>>

UserGoto(u, op, conn) == user' = [user EXCEPT ![u] = [@ EXCEPT !.op = op, !.conn = conn]]

\* query(), execute() and, with txn, beginTransaction(): refused when not connected.
BeginCall(u, txn) ==
  /\ user[u].op = "idle" /\ dbConnected
  /\ user' = [user EXCEPT ![u] = [op |-> "checkout", txn |-> txn, conn |-> None]]
  /\ UNCHANGED <<dbConnected, pool, inUse, opened, connector>>

Looking(u) == user[u].op \in {"checkout", "notified"}

\* checkout(): the first free connection ...
TakeFree(u, conn) ==
  /\ Looking(u) /\ conn \in pool \ inUse
  /\ \A other \in pool \ inUse : conn <= other
  /\ inUse' = inUse \cup {conn}
  /\ UserGoto(u, "working", conn)
  /\ UNCHANGED <<dbConnected, pool, opened, connector>>

\* ... or a new one, while there are fewer than maxConnections ...
Grow(u) ==
  /\ Looking(u) /\ pool \subseteq inUse
  /\ Cardinality(pool) < MaxDbConnections /\ opened < MaxOpened
  /\ opened' = opened + 1
  /\ pool' = pool \cup {opened'} /\ inUse' = inUse \cup {opened'}
  /\ UserGoto(u, "working", opened')
  /\ UNCHANGED <<dbConnected, connector>>

\* ... or, when the pool is full or the database refuses, the condition variable.
Wait(u) ==
  /\ Looking(u) /\ pool \subseteq inUse
  /\ UserGoto(u, "waiting", None)
  /\ UNCHANGED <<dbConnected, pool, inUse, opened, connector>>

\* The deadline: ConnectionPoolExhausted, also for a thread whose notification and
\* whose deadline come together.
Deadline(u) ==
  /\ user[u].op \in {"waiting", "notified"}
  /\ user' = [user EXCEPT ![u] = IdleUser]
  /\ UNCHANGED <<dbConnected, pool, inUse, opened, connector>>

Waiting == {u \in Users : user[u].op = "waiting"}

\* checkin(): the connection is free and one waiting thread is told; one that
\* disconnect() has thrown away is not in the pool and nothing happens.
Checkin(u, next) ==
  LET known == user[u].conn \in pool IN
  /\ inUse' = IF known THEN inUse \ {user[u].conn} ELSE inUse
  /\ \/ /\ ~known \/ Waiting = {}
        /\ user' = [user EXCEPT ![u] = next]
     \/ \E w \in Waiting :
          /\ known
          /\ user' = [user EXCEPT ![u] = next, ![w].op = "notified"]

\* The statement is done, or begin_transaction() has failed: the connection goes back.
Finish(u) ==
  /\ user[u].op = "working"
  /\ Checkin(u, IdleUser)
  /\ UNCHANGED <<dbConnected, pool, opened, connector>>

\* begin_transaction() succeeds: the Transaction keeps the connection.
Transact(u) ==
  /\ user[u].op = "working" /\ user[u].txn
  /\ UserGoto(u, "txn", user[u].conn)
  /\ UNCHANGED <<dbConnected, pool, inUse, opened, connector>>

\* commit() or rollback(), whether they succeed or not: no longer active, the
\* connection is kept.
EndTransaction(u) ==
  /\ user[u].op = "txn"
  /\ UserGoto(u, "ended", user[u].conn)
  /\ UNCHANGED <<dbConnected, pool, inUse, opened, connector>>

\* Mutant of ~Transaction(): only an active one gives its connection back.
DestroyEndedKeeps(u) ==
  /\ \/ user[u].op = "txn" /\ Checkin(u, IdleUser)
     \/ user[u].op = "ended" /\ user' = [user EXCEPT ![u] = IdleUser] /\ UNCHANGED inUse
  /\ UNCHANGED <<dbConnected, pool, opened, connector>>

\* ~Transaction(), and the assignment of another one over it: rolls back what is
\* active and gives the connection back in any case.
Destroy(u) ==
  /\ user[u].op \in {"txn", "ended"}
  /\ Checkin(u, IdleUser)
  /\ UNCHANGED <<dbConnected, pool, opened, connector>>

UserStep(u) ==
  \/ \E conn \in pool : TakeFree(u, conn)
  \/ Grow(u) \/ Wait(u) \/ Deadline(u) \/ Finish(u) \/ Transact(u) \/ EndTransaction(u)
  \/ Destroy(u)

DbNext ==
  \/ BeginConnect \/ OpenOne \/ EndConnect \/ ConnectFails \/ Disconnect
  \/ \E u \in Users : UserStep(u) \/ \E txn \in BOOLEAN : BeginCall(u, txn)

DbSpec == DbInit /\ [][DbNext]_dbVars

DbUser == [op : UserOps, txn : BOOLEAN, conn : 0..MaxOpened]
DbTypeOK ==
  /\ dbConnected \in BOOLEAN /\ opened \in 0..MaxOpened
  /\ pool \subseteq 1..opened /\ inUse \subseteq pool
  /\ user \in [Users -> DbUser]
  /\ connecting \in BOOLEAN /\ toOpen \in Nat

\* Connections are neither shared nor lost: two threads never have the same one, and
\* one that is marked as in use is in the hands of a thread that will return it, also
\* when the pool is thrown away meanwhile, a transaction cannot begin or is dropped.
ConnectionsAccounted ==
  /\ \A u, v \in Users : u # v /\ user[u].conn = user[v].conn => user[u].conn = None
  /\ \A conn \in inUse : \E u \in Users : user[u].conn = conn
=============================================================================
