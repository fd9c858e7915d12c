------------------------------ MODULE MCDBProxy ------------------------------
(***************************************************************************)
(* The database proxy on its own for TLC.                                  *)
(***************************************************************************)
EXTENDS DBProxyServer

TwoTables == {"items", "players"}
TwoQueries == {"SELECT items", "SELECT items, players"}
TablesOf == [q \in TwoQueries |-> IF q = "SELECT items" THEN {"items"} ELSE TwoTables]
=============================================================================
