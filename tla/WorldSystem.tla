----------------------------- MODULE WorldSystem -----------------------------
(***************************************************************************)
(* WorldSystem and SpatialIndex (src/game/world_system): one grid index    *)
(* per map, brought up to date by Execute(), and the ObjectUpdateSystem    *)
(* that moves entities in between (src/game/object_system).                *)
(*                                                                         *)
(* The index is keyed by entity handles, the storages by entity ids.       *)
(* synchronizePositions() makes its handles with version 0, a caller of    *)
(* TransferEntity() passes the handle it has.  Destroying an entity takes  *)
(* its components away and leaves the index alone, and so does             *)
(* GameServer::transferPlayer(), which sets the membership.  The height is *)
(* left out; a position is a pair of integers.                             *)
(***************************************************************************)
EXTENDS Integers, FiniteSets

CONSTANTS Bodies,           \* entity ids
          Versions,         \* versions an id goes through, from 0
          Maps,
          Places,           \* positions
          CellSize,
          Ranges,           \* radii of queries
          MaxRecycled       \* bound: ids that are used again

ASSUME WorldSystemAssumption ==
  /\ CellSize \in Nat \ {0} /\ 0 \in Versions /\ Versions \subseteq Nat
  /\ Places \subseteq Int \X Int /\ Places # {} /\ Ranges \subseteq Int /\ "none" \notin Maps

VARIABLES version,          \* of each id
          onMap,            \* MapMembership, or "none"
          place,            \* Transform
          entityCells,      \* per map: handle -> cell, as a set of pairs
          cells,            \* per map: cell -> handles, as a set of pairs
          synced,           \* ghost: nothing has moved since Execute()
          strays            \* ghost: <<map, id>> where the index was not told that the id left

spatialVars == <<version, onMap, place, entityCells, cells, synced, strays>>

Nowhere == CHOOSE p \in Places : TRUE  \* of no meaning: the entity has no Transform

SpatialInit ==
  /\ version = [b \in Bodies |-> 0]
  /\ onMap = [b \in Bodies |-> "none"]
  /\ place = [b \in Bodies |-> Nowhere]
  /\ entityCells = [m \in Maps |-> {}] /\ cells = [m \in Maps |-> {}]
  /\ synced = TRUE /\ strays = {}

\* WorldToCell(): TLA+'s \div rounds down, as floor does.
WorldToCell(p) == <<p[1] \div CellSize, p[2] \div CellSize>>

Tracked(ec, h) == \E c \in {e[2] : e \in ec} : <<h, c>> \in ec
CellOf(ec, h) == CHOOSE c \in {e[2] : e \in ec} : <<h, c>> \in ec

\* Mutant of Update(): the entity stays in its old cell's list, too.
UpdatedKeepsOld(ec, cs, h, p) ==
  LET cell == WorldToCell(p)
  IN  IF Tracked(ec, h) /\ CellOf(ec, h) = cell THEN [ec |-> ec, cs |-> cs]
      ELSE [ec |-> {e \in ec : e[1] # h} \cup {<<h, cell>>}, cs |-> cs \cup {<<cell, h>>}]

\* Update() and Insert(): into its cell, out of the cell it was in.
Updated(ec, cs, h, p) ==
  LET cell == WorldToCell(p)
      old == CellOf(ec, h)
  IN  IF ~Tracked(ec, h) THEN [ec |-> ec \cup {<<h, cell>>}, cs |-> cs \cup {<<cell, h>>}]
      ELSE IF old = cell THEN [ec |-> ec, cs |-> cs]
      ELSE [ec |-> (ec \ {<<h, old>>}) \cup {<<h, cell>>},
            cs |-> (cs \ {<<old, h>>}) \cup {<<cell, h>>}]

\* SpatialIndex::Remove()
Untracked(ec, cs, h) ==
  IF ~Tracked(ec, h) THEN [ec |-> ec, cs |-> cs]
  ELSE [ec |-> ec \ {<<h, CellOf(ec, h)>>}, cs |-> cs \ {<<CellOf(ec, h), h>>}]

\* An entity is given its components.
Spawn(b, m, p) ==
  /\ onMap[b] = "none"
  /\ onMap' = [onMap EXCEPT ![b] = m] /\ place' = [place EXCEPT ![b] = p]
  /\ synced' = FALSE
  /\ UNCHANGED <<version, entityCells, cells, strays>>

\* The EntityManager destroys it and may use its id again.
Despawn(b) ==
  /\ onMap[b] # "none" /\ version[b] + 1 \in Versions
  /\ Cardinality({d \in Bodies : version[d] > 0} \cup {b}) <= MaxRecycled
  /\ onMap' = [onMap EXCEPT ![b] = "none"] /\ place' = [place EXCEPT ![b] = Nowhere]
  /\ version' = [version EXCEPT ![b] = @ + 1]
  /\ strays' = strays \cup {<<onMap[b], b>>}
  /\ UNCHANGED <<entityCells, cells, synced>>

\* ObjectUpdateSystem::Execute() on an entity that is not idle.
Move(b, p) ==
  /\ onMap[b] # "none" /\ p # place[b]
  /\ place' = [place EXCEPT ![b] = p] /\ synced' = FALSE
  /\ UNCHANGED <<version, onMap, entityCells, cells, strays>>

\* transferPlayer() of the game server changes the membership alone.
ChangeMembership(b, m) ==
  /\ onMap[b] \notin {"none", m}
  /\ onMap' = [onMap EXCEPT ![b] = m] /\ synced' = FALSE
  /\ strays' = strays \cup {<<onMap[b], b>>}
  /\ UNCHANGED <<version, place, entityCells, cells>>

\* The entities synchronizePositions() updates on a map.
ToSync(m, b) == onMap[b] = m

\* synchronizePositions(): one handle per entity, so the order does not matter.
Synchronize ==
  LET After(m) ==
        LET Moved == {b \in Bodies : ToSync(m, b)}
            Up(b) == Updated(entityCells[m], cells[m], <<b, 0>>, place[b])
        IN  [ec |-> {e \in entityCells[m] : \A b \in Moved : e \in Up(b).ec}
                    \cup UNION {Up(b).ec \ entityCells[m] : b \in Moved},
             cs |-> {e \in cells[m] : \A b \in Moved : e \in Up(b).cs}
                    \cup UNION {Up(b).cs \ cells[m] : b \in Moved}]
  IN  /\ entityCells' = [m \in Maps |-> After(m).ec]
      /\ cells' = [m \in Maps |-> After(m).cs]
      /\ synced' = TRUE
      /\ UNCHANGED <<version, onMap, place, strays>>

\* TransferEntity(): with the handle its caller holds, which is not the one that
\* synchronizePositions() made if the id was used before.
TransferEntity(b, m, p) ==
  LET h == <<b, version[b]>>
      from == onMap[b]
      out == Untracked(entityCells[from], cells[from], h)
      ec == [entityCells EXCEPT ![from] = out.ec]
      cs == [cells EXCEPT ![from] = out.cs]
      in == Updated(ec[m], cs[m], h, p)
  IN  /\ from # "none"
      /\ entityCells' = [ec EXCEPT ![m] = in.ec] /\ cells' = [cs EXCEPT ![m] = in.cs]
      /\ onMap' = [onMap EXCEPT ![b] = m] /\ place' = [place EXCEPT ![b] = p]
      /\ strays' = IF version[b] = 0 THEN strays \ {<<from, b>>} ELSE strays \cup {<<from, b>>}
      /\ UNCHANGED <<version, synced>>

SpatialNext ==
  \/ Synchronize
  \/ \E b \in Bodies : \/ Despawn(b)
                       \/ \E m \in Maps : ChangeMembership(b, m)
                       \/ \E p \in Places : \/ Move(b, p)
                                            \/ \E m \in Maps : Spawn(b, m, p) \/ TransferEntity(b, m, p)

SpatialSpec == SpatialInit /\ [][SpatialNext]_spatialVars

\* Entities and the entries of the index are well formed.
SpatialTypeOK ==
  /\ version \in [Bodies -> Versions] /\ onMap \in [Bodies -> Maps \cup {"none"}]
  /\ place \in [Bodies -> Places] /\ synced \in BOOLEAN /\ strays \subseteq Maps \X Bodies
  /\ entityCells \in [Maps -> SUBSET ((Bodies \X Versions) \X (Int \X Int))]
  /\ cells \in [Maps -> SUBSET ((Int \X Int) \X (Bodies \X Versions))]
-----------------------------------------------------------------------------
DistSq(p, q) == (p[1] - q[1]) * (p[1] - q[1]) + (p[2] - q[2]) * (p[2] - q[2])

\* The cells SpatialIndex::QueryRadius() looks into.
CellRange(c, r) ==
  ((c[1] - r) \div CellSize .. (c[1] + r) \div CellSize)
    \X ((c[2] - r) \div CellSize .. (c[2] + r) \div CellSize)

\* WorldSystem::QueryRadius(): the grid's candidates, none for a radius that is not
\* positive, filtered by their transforms.
QueryRadius(m, c, r) ==
  {h \in {e[2] : e \in {f \in cells[m] : r > 0 /\ f[1] \in CellRange(c, r)}} :
     onMap[h[1]] # "none" /\ DistSq(place[h[1]], c) <= r * r}

\* Once Execute() has seen everybody, a query with a positive radius finds all the entities
\* of the map that are in range: the cells searched cover the circle, negative coordinates
\* included, and the two maps of an index agree.  What else it finds are ids that left this
\* map behind the index's back: destroyed on it and used again, moved away from it by
\* transferPlayer(), or transferred with a handle other than the index had
\* (synchronizePositions, QueryRadius, TransferEntity, GameServer::transferPlayer).
VisibleExact ==
  \A m \in Maps :
    /\ cells[m] = {<<e[2], e[1]>> : e \in entityCells[m]}
    /\ \A e, f \in entityCells[m] : e[1] = f[1] => e = f
    /\ synced => \A c \in Places, r \in Ranges :
         LET found == {h[1] : h \in QueryRadius(m, c, r)}
             there == {b \in Bodies : onMap[b] = m /\ r > 0 /\ DistSq(place[b], c) <= r * r}
         IN  there \subseteq found /\ \A b \in found \ there : <<m, b>> \in strays
=============================================================================
