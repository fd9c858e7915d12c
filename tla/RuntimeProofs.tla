----------------------------- MODULE RuntimeProofs -----------------------------
(***************************************************************************)
(* Structures of the servers' inner loops, for any number of entities,     *)
(* threads, events and callers: the spatial index of WorldSystem, the      *)
(* EventBus, the CircuitBreaker, the BehaviorTree, the GameLoop and the    *)
(* JobScheduler.                                                           *)
(*                                                                         *)
(* VisibleExact is not inductive: it says what queries return after        *)
(* Execute(), not what the index holds in between.  The invariant below    *)
(* adds that the entries of an id that was never destroyed are on its map  *)
(* under version 0 (AtHome), and where somebody who is indexed lies (Seen).*)
(***************************************************************************)
EXTENDS WorldSystem, BehaviorTree, EventBus, CircuitBreaker, GameLoop, JobScheduler,
        FiniteSetTheorems, SequenceTheorems, WellFoundedInduction, TLAPS

(***************************************************************************)
(* Arithmetic of the grid.                                                 *)
(***************************************************************************)

\* A leg of a right triangle is no longer than its hypotenuse.
LEMMA SquareBound ==
  ASSUME NEW a \in Int, NEW b \in Int, NEW r \in Nat, a * a + b * b <= r * r
  PROVE  -r <= a /\ a <= r
<1>1. b * b >= 0
  OBVIOUS
<1>2. a * a <= r * r
  BY <1>1
<1>3. ASSUME a > r PROVE FALSE
  BY <1>2, <1>3
<1>4. ASSUME a < -r PROVE FALSE
  <2>1. (-a) * (-a) = a * a
    OBVIOUS
  <2>. QED BY <1>2, <1>4, <2>1
<1>. QED BY <1>3, <1>4

\* Rounding down keeps the order, on either side of zero.
LEMMA DivMonotone ==
  ASSUME NEW x \in Int, NEW y \in Int, NEW n \in Nat \ {0}, x <= y
  PROVE  x \div n \in Int /\ y \div n \in Int /\ x \div n <= y \div n
OBVIOUS

\* The cells a query looks into cover its circle.
LEMMA CircleCovered ==
  ASSUME NEW p \in Places, NEW c \in Places, NEW r \in Ranges, r > 0, DistSq(p, c) <= r * r
  PROVE  WorldToCell(p) \in CellRange(c, r)
<1>1. p[1] \in Int /\ p[2] \in Int /\ c[1] \in Int /\ c[2] \in Int /\ r \in Nat /\ CellSize \in Nat \ {0}
  BY WorldSystemAssumption
<1> PICK x \in Int, y \in Int, u \in Int, v \in Int : x = p[1] /\ y = p[2] /\ u = c[1] /\ v = c[2]
  BY <1>1
<1> PICK dx \in Int, dy \in Int : dx = x - u /\ dy = y - v
  OBVIOUS
<1>2. dx * dx + dy * dy <= r * r
  BY DEF DistSq
<1>3. dy * dy + dx * dx <= r * r
  BY <1>1, <1>2
<1>4. -r <= dx /\ dx <= r
  BY <1>1, <1>2, SquareBound
<1>5. -r <= dy /\ dy <= r
  BY <1>1, <1>3, SquareBound
<1> PICK left \in Int, right \in Int : left = u - r /\ right = u + r
  <2>1. u - r \in Int /\ u + r \in Int
    BY <1>1
  <2>. QED BY <2>1
<1> PICK low \in Int, high \in Int : low = v - r /\ high = v + r
  <2>1. v - r \in Int /\ v + r \in Int
    BY <1>1
  <2>. QED BY <2>1
<1>6. left <= x /\ x <= right /\ low <= y /\ y <= high
  BY <1>1, <1>4, <1>5
<1>7. x \div CellSize \in left \div CellSize .. right \div CellSize
  <2>1. left \div CellSize <= x \div CellSize /\ x \div CellSize <= right \div CellSize
    BY <1>1, <1>6, DivMonotone, Zenon
  <2>2. left \div CellSize \in Int /\ x \div CellSize \in Int /\ right \div CellSize \in Int
    BY <1>1, <1>6, DivMonotone, Zenon
  <2>. QED BY <2>1, <2>2
<1>8. y \div CellSize \in low \div CellSize .. high \div CellSize
  <2>1. low \div CellSize <= y \div CellSize /\ y \div CellSize <= high \div CellSize
    BY <1>1, <1>6, DivMonotone, Zenon
  <2>2. low \div CellSize \in Int /\ y \div CellSize \in Int /\ high \div CellSize \in Int
    BY <1>1, <1>6, DivMonotone, Zenon
  <2>. QED BY <2>1, <2>2
<1>. QED BY <1>7, <1>8 DEF WorldToCell, CellRange

(***************************************************************************)
(* The two maps of one index.                                              *)
(***************************************************************************)

IndexHandles == Bodies \X Versions
Coords == Int \X Int

\* entityCells_ and cells_ hold the same entries, one for a handle.
Mirrored(ec, cs) ==
  /\ ec \subseteq IndexHandles \X Coords /\ cs \subseteq Coords \X IndexHandles
  /\ \A h \in IndexHandles, c \in Coords : <<c, h>> \in cs <=> <<h, c>> \in ec
  /\ \A h \in IndexHandles, c, d \in Coords : <<h, c>> \in ec /\ <<h, d>> \in ec => c = d

\* A place has a cell.
LEMMA CellType == \A p \in Places : WorldToCell(p) \in Coords
<1> TAKE p \in Places
<1>1. p[1] \in Int /\ p[2] \in Int /\ CellSize \in Nat \ {0}
  BY WorldSystemAssumption
<1>2. p[1] \div CellSize \in Int /\ p[2] \div CellSize \in Int
  BY <1>1
<1>. QED BY <1>2 DEF WorldToCell, Coords

\* The cell a handle is looked up with is the one it has.
LEMMA Lookup ==
  ASSUME NEW ec, NEW cs, Mirrored(ec, cs), NEW h \in IndexHandles
  PROVE  /\ Tracked(ec, h) <=> \E c \in Coords : <<h, c>> \in ec
         /\ Tracked(ec, h) => CellOf(ec, h) \in Coords /\ <<h, CellOf(ec, h)>> \in ec
<1>1. ec \subseteq IndexHandles \X Coords
  BY DEF Mirrored
<1>2. \A c : <<h, c>> \in ec => c \in Coords /\ c \in {e[2] : e \in ec}
  <2> TAKE c
  <2> HAVE <<h, c>> \in ec
  <2>1. c \in Coords
    BY <1>1
  <2>2. <<h, c>>[2] = c
    OBVIOUS
  <2>. QED BY <2>1, <2>2
<1>3. Tracked(ec, h) => <<h, CellOf(ec, h)>> \in ec
  BY Zenon DEF Tracked, CellOf
<1>. QED BY <1>2, <1>3 DEF Tracked

\* Insert() and Update() leave the handle in the one cell of its place.
LEMMA UpdatedEntries ==
  ASSUME NEW ec, NEW cs, Mirrored(ec, cs), NEW h \in IndexHandles, NEW p \in Places,
         NEW u, u = Updated(ec, cs, h, p)
  PROVE  /\ Mirrored(u.ec, u.cs)
         /\ \A g \in IndexHandles, c \in Coords :
              <<g, c>> \in u.ec <=> IF g = h THEN c = WorldToCell(p) ELSE <<g, c>> \in ec
         /\ \A g \in IndexHandles, c \in Coords :
              <<c, g>> \in u.cs <=> IF g = h THEN c = WorldToCell(p) ELSE <<g, c>> \in ec
<1> DEFINE cell == WorldToCell(p)
           old == CellOf(ec, h)
<1>1. cell \in Coords
  BY CellType
<1>2. Tracked(ec, h) <=> \E c \in Coords : <<h, c>> \in ec
  BY Lookup
<1>3. Tracked(ec, h) => old \in Coords /\ <<h, old>> \in ec
  BY Lookup
<1>a. ec \subseteq IndexHandles \X Coords /\ cs \subseteq Coords \X IndexHandles
      /\ (\A g \in IndexHandles, c \in Coords : <<c, g>> \in cs <=> <<g, c>> \in ec)
      /\ (\A g \in IndexHandles, c, d \in Coords : <<g, c>> \in ec /\ <<g, d>> \in ec => c = d)
  BY DEF Mirrored
<1>4. u = IF ~Tracked(ec, h) THEN [ec |-> ec \cup {<<h, cell>>}, cs |-> cs \cup {<<cell, h>>}]
          ELSE IF old = cell THEN [ec |-> ec, cs |-> cs]
          ELSE [ec |-> (ec \ {<<h, old>>}) \cup {<<h, cell>>},
                cs |-> (cs \ {<<old, h>>}) \cup {<<cell, h>>}]
  BY DEF Updated
<1> HIDE DEF cell, old
<1>5. /\ u.ec \subseteq IndexHandles \X Coords /\ u.cs \subseteq Coords \X IndexHandles
      /\ \A g \in IndexHandles, c \in Coords :
           <<g, c>> \in u.ec <=> IF g = h THEN c = cell ELSE <<g, c>> \in ec
      /\ \A g \in IndexHandles, c \in Coords :
           <<c, g>> \in u.cs <=> IF g = h THEN c = cell ELSE <<g, c>> \in ec
  <2>1. CASE ~Tracked(ec, h)
    <3>1. u.ec = ec \cup {<<h, cell>>} /\ u.cs = cs \cup {<<cell, h>>}
      BY <1>4, <2>1
    <3>. QED BY <1>1, <1>2, <1>a, <2>1, <3>1
  <2>2. CASE Tracked(ec, h) /\ old = cell
    <3>1. u.ec = ec /\ u.cs = cs
      BY <1>4, <2>2
    <3>. QED BY <1>1, <1>3, <1>a, <2>2, <3>1
  <2>3. CASE Tracked(ec, h) /\ old # cell
    <3>1. u.ec = (ec \ {<<h, old>>}) \cup {<<h, cell>>} /\ u.cs = (cs \ {<<old, h>>}) \cup {<<cell, h>>}
      BY <1>4, <2>3
    <3>. QED BY <1>1, <1>3, <1>a, <2>3, <3>1
  <2>. QED BY <2>1, <2>2, <2>3
<1>6. Mirrored(u.ec, u.cs)
  BY <1>5, <1>a DEF Mirrored
<1>. QED BY <1>5, <1>6 DEF cell

\* Remove() takes out the handle's only entry.
LEMMA UntrackedEntries ==
  ASSUME NEW ec, NEW cs, Mirrored(ec, cs), NEW h \in IndexHandles,
         NEW u, u = Untracked(ec, cs, h)
  PROVE  /\ Mirrored(u.ec, u.cs)
         /\ \A g \in IndexHandles, c \in Coords : <<g, c>> \in u.ec <=> g # h /\ <<g, c>> \in ec
<1> DEFINE old == CellOf(ec, h)
<1>1. Tracked(ec, h) <=> \E c \in Coords : <<h, c>> \in ec
  BY Lookup
<1>2. Tracked(ec, h) => old \in Coords /\ <<h, old>> \in ec
  BY Lookup
<1>a. ec \subseteq IndexHandles \X Coords /\ cs \subseteq Coords \X IndexHandles
      /\ (\A g \in IndexHandles, c \in Coords : <<c, g>> \in cs <=> <<g, c>> \in ec)
      /\ (\A g \in IndexHandles, c, d \in Coords : <<g, c>> \in ec /\ <<g, d>> \in ec => c = d)
  BY DEF Mirrored
<1>3. u = IF ~Tracked(ec, h) THEN [ec |-> ec, cs |-> cs]
          ELSE [ec |-> ec \ {<<h, old>>}, cs |-> cs \ {<<old, h>>}]
  BY DEF Untracked
<1> HIDE DEF old
<1>4. CASE ~Tracked(ec, h)
  <2>1. u.ec = ec /\ u.cs = cs
    BY <1>3, <1>4
  <2>. QED BY <1>1, <1>4, <2>1
<1>5. CASE Tracked(ec, h)
  <2>1. u.ec = ec \ {<<h, old>>} /\ u.cs = cs \ {<<old, h>>}
    BY <1>3, <1>5
  <2>2. \A g \in IndexHandles, c \in Coords : <<g, c>> \in u.ec <=> g # h /\ <<g, c>> \in ec
    BY <1>2, <1>a, <1>5, <2>1
  <2>3. \A g \in IndexHandles, c \in Coords : <<c, g>> \in u.cs <=> g # h /\ <<g, c>> \in ec
    BY <1>2, <1>a, <1>5, <2>1
  <2>4. u.ec \subseteq IndexHandles \X Coords /\ u.cs \subseteq Coords \X IndexHandles
    BY <1>a, <2>1
  <2>. QED BY <1>a, <2>2, <2>3, <2>4 DEF Mirrored
<1>. QED BY <1>4, <1>5

(***************************************************************************)
(* The spatial index under every operation.                                *)
(***************************************************************************)

\* An entry's version is one its id has, or had.
Aged ==
  \A m \in Maps, b \in Bodies, v \in Versions, c \in Coords :
    <<<<b, v>>, c>> \in entityCells[m] => v <= version[b]

\* An entry is on the map its id is on, or the id left that map behind the index's back.
AtHome ==
  \A m \in Maps, b \in Bodies, v \in Versions, c \in Coords :
    <<<<b, v>>, c>> \in entityCells[m] => onMap[b] = m \/ <<m, b>> \in strays

\* After Execute() everybody on a map is in the cell of its place.
Seen ==
  synced => \A m \in Maps, b \in Bodies : onMap[b] = m =>
    \E v \in Versions : <<<<b, v>>, WorldToCell(place[b])>> \in entityCells[m]

SpatialInv ==
  /\ SpatialTypeOK
  /\ \A m \in Maps : Mirrored(entityCells[m], cells[m])
  /\ Aged /\ AtHome /\ Seen

\* Nobody is indexed at first.
LEMMA SpatialInvInit == SpatialInit => SpatialInv
<1> SUFFICES ASSUME SpatialInit PROVE SpatialInv
  OBVIOUS
<1>1. Nowhere \in Places
  BY WorldSystemAssumption DEF Nowhere
<1>2. synced \in BOOLEAN
  BY Zenon DEF SpatialInit
<1>3. SpatialTypeOK
  BY <1>1, <1>2, WorldSystemAssumption DEF SpatialInit, SpatialTypeOK
<1>4. \A m \in Maps : Mirrored(entityCells[m], cells[m])
  BY DEF SpatialInit, Mirrored
<1>5. Aged /\ AtHome
  BY DEF SpatialInit, Aged, AtHome
<1>6. Seen
  BY WorldSystemAssumption DEF SpatialInit, Seen
<1>. QED BY <1>3, <1>4, <1>5, <1>6 DEF SpatialInv

\* Entities that come, go, move and change maps leave the index alone.
LEMMA BodiesInv ==
  ASSUME SpatialInv, NEW b \in Bodies, NEW p \in Places, NEW m \in Maps,
         Spawn(b, m, p) \/ Despawn(b) \/ Move(b, p) \/ ChangeMembership(b, m)
  PROVE  SpatialInv'
<1> USE DEF SpatialInv, SpatialTypeOK
<1>0. entityCells' = entityCells /\ cells' = cells
  BY DEF Spawn, Despawn, Move, ChangeMembership
<1>1. \A k \in Maps : Mirrored(entityCells'[k], cells'[k])
  BY <1>0
<1>2. CASE Spawn(b, m, p)
  <2>1. synced' \in BOOLEAN /\ ~synced'
    BY <1>2, Zenon DEF Spawn
  <2>2. SpatialTypeOK'
    BY <1>0, <1>2, <2>1 DEF Spawn
  <2>3. Aged' /\ Seen'
    BY <1>0, <1>2, <2>1 DEF Spawn, Aged, Seen
  <2>4. AtHome'
    <3> SUFFICES ASSUME NEW k \in Maps, NEW d \in Bodies, NEW v \in Versions, NEW c \in Coords,
                        <<<<d, v>>, c>> \in entityCells'[k], <<k, d>> \notin strays'
                 PROVE  onMap'[d] = k
      BY DEF AtHome
    <3>1. onMap[d] = k
      BY <1>0, <1>2 DEF Spawn, AtHome
    <3>2. d # b
      BY <1>2, <3>1, WorldSystemAssumption DEF Spawn
    <3>. QED BY <1>2, <3>1, <3>2 DEF Spawn
  <2>. QED BY <1>1, <2>2, <2>3, <2>4
<1>3. CASE Despawn(b)
  <2>0. Nowhere \in Places /\ synced' = synced /\ onMap[b] \in Maps
    BY <1>3, WorldSystemAssumption DEF Nowhere, Despawn
  <2>1. SpatialTypeOK'
    BY <1>0, <1>3, <2>0 DEF Despawn
  <2>2. Aged'
    <3> SUFFICES ASSUME NEW k \in Maps, NEW d \in Bodies, NEW v \in Versions, NEW c \in Coords,
                        <<<<d, v>>, c>> \in entityCells[k]
                 PROVE  v <= version'[d]
      BY <1>0 DEF Aged
    <3>1. v <= version[d] /\ version[d] \in Nat /\ v \in Nat
      BY WorldSystemAssumption DEF Aged
    <3>2. version'[d] = version[d] \/ version'[d] = version[d] + 1
      BY <1>3 DEF Despawn
    <3>. QED BY <3>1, <3>2
  <2>3. AtHome'
    <3> SUFFICES ASSUME NEW k \in Maps, NEW d \in Bodies, NEW v \in Versions, NEW c \in Coords,
                        <<<<d, v>>, c>> \in entityCells[k], <<k, d>> \notin strays'
                 PROVE  onMap'[d] = k
      BY <1>0 DEF AtHome
    <3>1. onMap[d] = k /\ d # b
      BY <1>3 DEF Despawn, AtHome
    <3>. QED BY <1>3, <3>1 DEF Despawn
  <2>4. Seen'
    <3> SUFFICES ASSUME synced, NEW k \in Maps, NEW d \in Bodies, onMap'[d] = k
                 PROVE  \E v \in Versions : <<<<d, v>>, WorldToCell(place'[d])>> \in entityCells'[k]
      BY <2>0 DEF Seen, WorldToCell
    <3>1. d # b /\ onMap[d] = k /\ place'[d] = place[d]
      BY <1>3, WorldSystemAssumption DEF Despawn
    <3>. QED BY <1>0, <3>1 DEF Seen
  <2>. QED BY <1>1, <2>1, <2>2, <2>3, <2>4
<1>4. CASE Move(b, p)
  <2>1. synced' \in BOOLEAN /\ ~synced'
    BY <1>4, Zenon DEF Move
  <2>2. SpatialTypeOK'
    BY <1>0, <1>4, <2>1 DEF Move
  <2>3. Aged' /\ AtHome' /\ Seen'
    BY <1>0, <1>4, <2>1 DEF Move, Aged, AtHome, Seen
  <2>. QED BY <1>1, <2>2, <2>3
<1>5. CASE ChangeMembership(b, m)
  <2>1. synced' \in BOOLEAN /\ ~synced' /\ onMap[b] \in Maps
    <3>1. synced' \in BOOLEAN /\ ~synced'
      BY <1>5, Zenon DEF ChangeMembership
    <3>. QED BY <1>5, <3>1 DEF ChangeMembership
  <2>2. SpatialTypeOK'
    BY <1>0, <1>5, <2>1 DEF ChangeMembership
  <2>3. Aged' /\ Seen'
    BY <1>0, <1>5, <2>1 DEF ChangeMembership, Aged, Seen
  <2>4. AtHome'
    <3> SUFFICES ASSUME NEW k \in Maps, NEW d \in Bodies, NEW v \in Versions, NEW c \in Coords,
                        <<<<d, v>>, c>> \in entityCells[k], <<k, d>> \notin strays'
                 PROVE  onMap'[d] = k
      BY <1>0 DEF AtHome
    <3>1. onMap[d] = k /\ d # b
      BY <1>5 DEF ChangeMembership, AtHome
    <3>. QED BY <1>5, <3>1 DEF ChangeMembership
  <2>. QED BY <1>1, <2>2, <2>3, <2>4
<1>. QED BY <1>2, <1>3, <1>4, <1>5

\* What Execute() makes of the index of a map.
LEMMA SyncEntries ==
  ASSUME SpatialInv, Synchronize, NEW m \in Maps
  PROVE  /\ Mirrored(entityCells'[m], cells'[m])
         /\ \A b \in Bodies, v \in Versions, c \in Coords :
              <<<<b, v>>, c>> \in entityCells'[m] <=>
                IF v = 0 /\ onMap[b] = m THEN c = WorldToCell(place[b])
                ELSE <<<<b, v>>, c>> \in entityCells[m]
<1> DEFINE ec == entityCells[m]
           cs == cells[m]
           moved == {b \in Bodies : ToSync(m, b)}
           up(b) == Updated(ec, cs, <<b, 0>>, place[b])
           entry(b, v, c) == IF v = 0 /\ onMap[b] = m THEN c = WorldToCell(place[b])
                             ELSE <<<<b, v>>, c>> \in ec
<1>0. Mirrored(ec, cs) /\ 0 \in Versions /\ place \in [Bodies -> Places]
  BY WorldSystemAssumption DEF SpatialInv, SpatialTypeOK
<1>1. entityCells'[m] = {e \in ec : \A b \in moved : e \in up(b).ec} \cup UNION {up(b).ec \ ec : b \in moved}
  BY DEF Synchronize
<1>2. cells'[m] = {e \in cs : \A b \in moved : e \in up(b).cs} \cup UNION {up(b).cs \ cs : b \in moved}
  BY DEF Synchronize
<1>3. ASSUME NEW b \in Bodies
      PROVE  /\ up(b).ec \subseteq IndexHandles \X Coords /\ up(b).cs \subseteq Coords \X IndexHandles
             /\ \A g \in IndexHandles, c \in Coords :
                  <<g, c>> \in up(b).ec <=> IF g = <<b, 0>> THEN c = WorldToCell(place[b]) ELSE <<g, c>> \in ec
             /\ \A g \in IndexHandles, c \in Coords :
                  <<c, g>> \in up(b).cs <=> IF g = <<b, 0>> THEN c = WorldToCell(place[b]) ELSE <<g, c>> \in ec
  <2>1. <<b, 0>> \in IndexHandles /\ place[b] \in Places
    BY <1>0 DEF IndexHandles
  <2>2. Mirrored(ec, cs)
    BY <1>0
  <2>3. ASSUME NEW x, NEW y, Mirrored(x, y), NEW h \in IndexHandles, NEW q \in Places
        PROVE  /\ Mirrored(Updated(x, y, h, q).ec, Updated(x, y, h, q).cs)
               /\ \A g \in IndexHandles, c \in Coords :
                    <<g, c>> \in Updated(x, y, h, q).ec <=> IF g = h THEN c = WorldToCell(q) ELSE <<g, c>> \in x
               /\ \A g \in IndexHandles, c \in Coords :
                    <<c, g>> \in Updated(x, y, h, q).cs <=> IF g = h THEN c = WorldToCell(q) ELSE <<g, c>> \in x
    BY <2>3, UpdatedEntries
  <2> HIDE DEF ec, cs
  <2>4. /\ Mirrored(up(b).ec, up(b).cs)
        /\ \A g \in IndexHandles, c \in Coords :
             <<g, c>> \in up(b).ec <=> IF g = <<b, 0>> THEN c = WorldToCell(place[b]) ELSE <<g, c>> \in ec
        /\ \A g \in IndexHandles, c \in Coords :
             <<c, g>> \in up(b).cs <=> IF g = <<b, 0>> THEN c = WorldToCell(place[b]) ELSE <<g, c>> \in ec
    BY <2>1, <2>2, <2>3, Zenon
  <2>. QED BY <2>4 DEF Mirrored
<1>a. ec \subseteq IndexHandles \X Coords /\ cs \subseteq Coords \X IndexHandles
      /\ (\A g \in IndexHandles, c \in Coords : <<c, g>> \in cs <=> <<g, c>> \in ec)
      /\ (\A g \in IndexHandles, c, d \in Coords : <<g, c>> \in ec /\ <<g, d>> \in ec => c = d)
  BY <1>0 DEF Mirrored
<1>b. \A b : b \in moved <=> b \in Bodies /\ onMap[b] = m
  BY DEF ToSync
<1> HIDE DEF up, ec, cs, moved
<1>4. ASSUME NEW b \in Bodies, NEW v \in Versions, NEW c \in Coords
      PROVE  /\ <<<<b, v>>, c>> \in entityCells'[m] <=> entry(b, v, c)
             /\ <<c, <<b, v>>>> \in cells'[m] <=> entry(b, v, c)
  <2> PICK g \in IndexHandles : g = <<b, v>>
    BY DEF IndexHandles
  <2>1. \A d \in Bodies : g = <<d, 0>> <=> d = b /\ v = 0
    OBVIOUS
  <2>2. <<g, c>> \in entityCells'[m] <=>
          \/ <<g, c>> \in ec /\ \A d \in moved : <<g, c>> \in up(d).ec
          \/ \E d \in moved : <<g, c>> \in up(d).ec /\ <<g, c>> \notin ec
    BY <1>1
  <2>3. <<c, g>> \in cells'[m] <=>
          \/ <<c, g>> \in cs /\ \A d \in moved : <<c, g>> \in up(d).cs
          \/ \E d \in moved : <<c, g>> \in up(d).cs /\ <<c, g>> \notin cs
    BY <1>2
  <2>4. CASE v = 0 /\ onMap[b] = m
    <3>1. b \in moved /\ \A d \in moved : d # b => g # <<d, 0>>
      BY <1>b, <2>1, <2>4
    <3>2. <<g, c>> \in up(b).ec <=> c = WorldToCell(place[b])
      BY <1>3, <2>1, <2>4
    <3>3. <<c, g>> \in up(b).cs <=> c = WorldToCell(place[b])
      BY <1>3, <2>1, <2>4
    <3>4. \A d \in moved : d # b => (<<g, c>> \in up(d).ec <=> <<g, c>> \in ec)
      BY <1>3, <1>b, <3>1
    <3>5. \A d \in moved : d # b => (<<c, g>> \in up(d).cs <=> <<g, c>> \in ec)
      BY <1>3, <1>b, <3>1
    <3>6. <<c, g>> \in cs <=> <<g, c>> \in ec
      BY <1>a
    <3>7. <<g, c>> \in entityCells'[m] <=> c = WorldToCell(place[b])
      BY <2>2, <3>1, <3>2, <3>4
    <3>8. <<c, g>> \in cells'[m] <=> c = WorldToCell(place[b])
      BY <2>3, <3>1, <3>3, <3>5, <3>6
    <3>. QED BY <2>4, <3>7, <3>8
  <2>5. CASE ~(v = 0 /\ onMap[b] = m)
    <3>1. \A d \in moved : g # <<d, 0>>
      BY <1>b, <2>1, <2>5
    <3>2. \A d \in moved : <<g, c>> \in up(d).ec <=> <<g, c>> \in ec
      BY <1>3, <1>b, <3>1
    <3>3. \A d \in moved : <<c, g>> \in up(d).cs <=> <<g, c>> \in ec
      BY <1>3, <1>b, <3>1
    <3>4. <<c, g>> \in cs <=> <<g, c>> \in ec
      BY <1>a
    <3>5. <<g, c>> \in entityCells'[m] <=> <<g, c>> \in ec
      BY <2>2, <3>2
    <3>6. <<c, g>> \in cells'[m] <=> <<g, c>> \in ec
      BY <2>3, <3>3, <3>4
    <3>. QED BY <2>5, <3>5, <3>6
  <2>. QED BY <2>4, <2>5
<1>5. entityCells'[m] \subseteq IndexHandles \X Coords
  BY <1>1, <1>3, <1>a, <1>b
<1>6. cells'[m] \subseteq Coords \X IndexHandles
  BY <1>2, <1>3, <1>a, <1>b
<1>7. ASSUME NEW g \in IndexHandles, NEW c \in Coords
      PROVE  /\ <<c, g>> \in cells'[m] <=> <<g, c>> \in entityCells'[m]
             /\ \A d \in Coords : <<g, c>> \in entityCells'[m] /\ <<g, d>> \in entityCells'[m] => c = d
  <2> PICK b \in Bodies, v \in Versions : g = <<b, v>>
    BY DEF IndexHandles
  <2>1. <<c, g>> \in cells'[m] <=> <<g, c>> \in entityCells'[m]
    BY <1>4
  <2>2. ASSUME NEW d \in Coords, <<g, c>> \in entityCells'[m], <<g, d>> \in entityCells'[m] PROVE c = d
    <3>1. entry(b, v, c) /\ entry(b, v, d)
      BY <1>4, <2>2
    <3>. QED BY <1>a, <3>1
  <2>. QED BY <2>1, <2>2
<1>8. Mirrored(entityCells'[m], cells'[m])
  BY <1>5, <1>6, <1>7 DEF Mirrored
<1>. QED BY <1>4, <1>8 DEF ec

\* The index has its type as long as its two maps mirror each other.
LEMMA IndexTyped ==
  ASSUME NEW f, NEW g, f = [m \in Maps |-> f[m]], g = [m \in Maps |-> g[m]],
         \A m \in Maps : Mirrored(f[m], g[m])
  PROVE  /\ f \in [Maps -> SUBSET ((Bodies \X Versions) \X (Int \X Int))]
         /\ g \in [Maps -> SUBSET ((Int \X Int) \X (Bodies \X Versions))]
BY DEF Mirrored, IndexHandles, Coords

\* Execute() puts everybody where it is.
LEMMA SyncInv == ASSUME SpatialInv, Synchronize PROVE SpatialInv'
<1>0. /\ UNCHANGED <<version, onMap, place, strays>> /\ synced'
      /\ entityCells' = [m \in Maps |-> entityCells'[m]] /\ cells' = [m \in Maps |-> cells'[m]]
  BY DEF Synchronize
<1>1. \A m \in Maps : Mirrored(entityCells'[m], cells'[m])
  BY SyncEntries
<1>2. SpatialTypeOK'
  <2>1. synced' \in BOOLEAN
    BY Zenon DEF Synchronize
  <2> PICK f, g : f = entityCells' /\ g = cells'
    OBVIOUS
  <2>2. /\ f \in [Maps -> SUBSET ((Bodies \X Versions) \X (Int \X Int))]
        /\ g \in [Maps -> SUBSET ((Int \X Int) \X (Bodies \X Versions))]
    BY <1>0, <1>1, IndexTyped
  <2>. QED BY <1>0, <2>1, <2>2 DEF SpatialInv, SpatialTypeOK
<1>3. ASSUME NEW m \in Maps, NEW b \in Bodies, NEW v \in Versions, NEW c \in Coords,
             <<<<b, v>>, c>> \in entityCells'[m]
      PROVE  v <= version[b] /\ (onMap[b] = m \/ <<m, b>> \in strays)
  <2>1. IF v = 0 /\ onMap[b] = m THEN c = WorldToCell(place[b]) ELSE <<<<b, v>>, c>> \in entityCells[m]
    BY <1>3, SyncEntries
  <2>2. version[b] \in Nat
    BY WorldSystemAssumption DEF SpatialInv, SpatialTypeOK
  <2>. QED BY <2>1, <2>2 DEF SpatialInv, Aged, AtHome
<1>4. Aged' /\ AtHome'
  BY <1>0, <1>3 DEF Aged, AtHome
<1>5. Seen'
  <2> SUFFICES ASSUME NEW m \in Maps, NEW b \in Bodies, onMap[b] = m
               PROVE  \E v \in Versions : <<<<b, v>>, WorldToCell(place[b])>> \in entityCells'[m]
    BY <1>0 DEF Seen, WorldToCell
  <2>1. 0 \in Versions /\ WorldToCell(place[b]) \in Coords
    BY WorldSystemAssumption, CellType DEF SpatialInv, SpatialTypeOK
  <2>2. <<<<b, 0>>, WorldToCell(place[b])>> \in entityCells'[m]
    BY <2>1, SyncEntries
  <2>. QED BY <2>1, <2>2
<1>. QED BY <1>1, <1>2, <1>3, <1>4, <1>5 DEF SpatialInv

\* What TransferEntity() makes of the indices: the handle leaves the map it
\* was on and lies in one cell of the other.
LEMMA TransferEntries ==
  ASSUME SpatialInv, NEW b \in Bodies, NEW m \in Maps, NEW p \in Places, TransferEntity(b, m, p),
         NEW k \in Maps
  PROVE  /\ Mirrored(entityCells'[k], cells'[k])
         /\ \A g \in IndexHandles, c \in Coords :
              <<g, c>> \in entityCells'[k] <=>
                IF g = <<b, version[b]>> /\ k = m THEN c = WorldToCell(p)
                ELSE ~(g = <<b, version[b]>> /\ k = onMap[b]) /\ <<g, c>> \in entityCells[k]
<1> PICK h \in IndexHandles : h = <<b, version[b]>>
  BY DEF SpatialInv, SpatialTypeOK, IndexHandles
<1> PICK from \in Maps : from = onMap[b]
  BY DEF TransferEntity, SpatialInv, SpatialTypeOK
<1> DEFINE out == Untracked(entityCells[from], cells[from], h)
           ec == [entityCells EXCEPT ![from] = out.ec]
           cs == [cells EXCEPT ![from] = out.cs]
           in == Updated(ec[m], cs[m], h, p)
<1>1. entityCells' = [ec EXCEPT ![m] = in.ec] /\ cells' = [cs EXCEPT ![m] = in.cs]
  BY DEF TransferEntity
<1>2. \A j \in Maps : Mirrored(entityCells[j], cells[j])
  BY DEF SpatialInv
<1>3. entityCells \in [Maps -> SUBSET ((Bodies \X Versions) \X (Int \X Int))]
      /\ cells \in [Maps -> SUBSET ((Int \X Int) \X (Bodies \X Versions))]
  BY DEF SpatialInv, SpatialTypeOK
<1>4. /\ Mirrored(out.ec, out.cs)
      /\ \A g \in IndexHandles, c \in Coords : <<g, c>> \in out.ec <=> g # h /\ <<g, c>> \in entityCells[from]
  <2>1. ASSUME NEW x, NEW y, Mirrored(x, y)
        PROVE  /\ Mirrored(Untracked(x, y, h).ec, Untracked(x, y, h).cs)
               /\ \A g \in IndexHandles, c \in Coords :
                    <<g, c>> \in Untracked(x, y, h).ec <=> g # h /\ <<g, c>> \in x
    BY <2>1, UntrackedEntries
  <2>. QED BY <1>2, <2>1, Zenon
<1> HIDE DEF out
<1>5. ASSUME NEW j \in Maps
      PROVE  /\ ec[j] = IF j = from THEN out.ec ELSE entityCells[j]
             /\ cs[j] = IF j = from THEN out.cs ELSE cells[j]
  BY <1>3
<1>6. DOMAIN ec = Maps /\ DOMAIN cs = Maps
  BY <1>3
<1>7. ASSUME NEW j \in Maps
      PROVE  /\ Mirrored(ec[j], cs[j])
             /\ \A g \in IndexHandles, c \in Coords :
                  <<g, c>> \in ec[j] <=> ~(g = h /\ j = from) /\ <<g, c>> \in entityCells[j]
  <2>1. CASE j = from
    BY <1>4, <1>5, <2>1
  <2>2. CASE j # from
    BY <1>2, <1>5, <2>2
  <2>. QED BY <2>1, <2>2
<1> HIDE DEF ec, cs
<1>8. /\ Mirrored(in.ec, in.cs)
      /\ \A g \in IndexHandles, c \in Coords :
           <<g, c>> \in in.ec <=> IF g = h THEN c = WorldToCell(p) ELSE <<g, c>> \in ec[m]
  <2>1. ASSUME NEW x, NEW y, Mirrored(x, y)
        PROVE  /\ Mirrored(Updated(x, y, h, p).ec, Updated(x, y, h, p).cs)
               /\ \A g \in IndexHandles, c \in Coords :
                    <<g, c>> \in Updated(x, y, h, p).ec <=> IF g = h THEN c = WorldToCell(p) ELSE <<g, c>> \in x
    BY <2>1, UpdatedEntries
  <2>. QED BY <1>7, <2>1, Zenon
<1> HIDE DEF in
<1>9. /\ entityCells'[k] = IF k = m THEN in.ec ELSE ec[k]
      /\ cells'[k] = IF k = m THEN in.cs ELSE cs[k]
  BY <1>1, <1>6
<1>10. CASE k = m
  BY <1>7, <1>8, <1>9, <1>10
<1>11. CASE k # m
  BY <1>7, <1>9, <1>11
<1>. QED BY <1>10, <1>11

\* TransferEntity() keeps the invariant.
LEMMA TransferInv ==
  ASSUME SpatialInv, NEW b \in Bodies, NEW m \in Maps, NEW p \in Places, TransferEntity(b, m, p)
  PROVE  SpatialInv'
<1>0. /\ onMap' = [onMap EXCEPT ![b] = m] /\ place' = [place EXCEPT ![b] = p]
      /\ UNCHANGED <<version, synced>> /\ onMap[b] # "none"
      /\ strays' = IF version[b] = 0 THEN strays \ {<<onMap[b], b>>} ELSE strays \cup {<<onMap[b], b>>}
  BY DEF TransferEntity
<1>a. SpatialTypeOK
  BY DEF SpatialInv
<1>1. \A k \in Maps : Mirrored(entityCells'[k], cells'[k])
  BY TransferEntries
<1>2. SpatialTypeOK'
  <2> PICK f, g : f = entityCells' /\ g = cells'
    OBVIOUS
  <2>1. f = [k \in Maps |-> f[k]] /\ g = [k \in Maps |-> g[k]]
    BY <1>a DEF TransferEntity, SpatialTypeOK
  <2>2. /\ f \in [Maps -> SUBSET ((Bodies \X Versions) \X (Int \X Int))]
        /\ g \in [Maps -> SUBSET ((Int \X Int) \X (Bodies \X Versions))]
    BY <1>1, <2>1, IndexTyped
  <2>3. onMap[b] \in Maps /\ strays' \subseteq Maps \X Bodies
    BY <1>0, <1>a DEF SpatialTypeOK
  <2>. QED BY <1>0, <1>a, <2>2, <2>3 DEF SpatialTypeOK
<1>3. ASSUME NEW k \in Maps, NEW d \in Bodies, NEW v \in Versions, NEW c \in Coords,
             <<<<d, v>>, c>> \in entityCells'[k]
      PROVE  v <= version[d] /\ (onMap'[d] = k \/ <<k, d>> \in strays')
  <2> PICK g \in IndexHandles : g = <<d, v>>
    BY DEF IndexHandles
  <2>1. IF g = <<b, version[b]>> /\ k = m THEN c = WorldToCell(p)
        ELSE ~(g = <<b, version[b]>> /\ k = onMap[b]) /\ <<g, c>> \in entityCells[k]
    BY <1>3, TransferEntries
  <2>2. version[d] \in Nat /\ v \in Nat
    BY <1>a, WorldSystemAssumption DEF SpatialTypeOK
  <2>3. CASE g = <<b, version[b]>> /\ k = m
    <3>1. d = b /\ v = version[b]
      BY <2>3
    <3>. QED BY <1>0, <1>a, <2>2, <2>3, <3>1 DEF SpatialTypeOK
  <2>4. CASE ~(g = <<b, version[b]>> /\ k = m)
    <3>1. <<<<d, v>>, c>> \in entityCells[k] /\ ~(g = <<b, version[b]>> /\ k = onMap[b])
      BY <2>1, <2>4
    <3>2. v <= version[d] /\ (onMap[d] = k \/ <<k, d>> \in strays)
      BY <3>1 DEF SpatialInv, Aged, AtHome
    <3>3. CASE d # b
      <4>1. onMap'[d] = onMap[d] /\ <<k, d>> # <<onMap[b], b>>
        BY <1>0, <1>a, <3>3 DEF SpatialTypeOK
      <4>. QED BY <1>0, <3>2, <4>1
    <3>4. CASE d = b
      <4>1. CASE k = onMap[b]
        <5>1. version[b] # 0
          BY <2>2, <3>1, <3>2, <3>4, <4>1
        <5>. QED BY <1>0, <3>2, <3>4, <4>1, <5>1
      <4>2. CASE k # onMap[b]
        <5>1. <<k, d>> # <<onMap[b], b>> /\ <<k, d>> \in strays
          BY <3>2, <3>4, <4>2
        <5>. QED BY <1>0, <3>2, <5>1
      <4>. QED BY <4>1, <4>2
    <3>. QED BY <3>3, <3>4
  <2>. QED BY <2>3, <2>4
<1>4. Aged' /\ AtHome'
  BY <1>0, <1>3 DEF Aged, AtHome
<1>5. Seen'
  <2> SUFFICES ASSUME synced, NEW k \in Maps, NEW d \in Bodies, onMap'[d] = k
               PROVE  \E v \in Versions : <<<<d, v>>, WorldToCell(place'[d])>> \in entityCells'[k]
    BY <1>0 DEF Seen, WorldToCell
  <2>1. CASE d = b
    <3>1. k = m /\ place'[d] = p /\ version[b] \in Versions /\ WorldToCell(p) \in Coords
          /\ <<b, version[b]>> \in IndexHandles
      BY <1>0, <1>a, <2>1, CellType DEF SpatialTypeOK, IndexHandles
    <3>2. <<<<b, version[b]>>, WorldToCell(p)>> \in entityCells'[k]
      BY <3>1, TransferEntries
    <3>. QED BY <2>1, <3>1, <3>2
  <2>2. CASE d # b
    <3>1. onMap[d] = k /\ place'[d] = place[d] /\ place[d] \in Places
      BY <1>0, <1>a, <2>2 DEF SpatialTypeOK
    <3>2. PICK v \in Versions : <<<<d, v>>, WorldToCell(place[d])>> \in entityCells[k]
      BY <3>1 DEF SpatialInv, Seen
    <3>3. <<d, v>> \in IndexHandles /\ <<d, v>> # <<b, version[b]>> /\ WorldToCell(place[d]) \in Coords
      BY <2>2, <3>1, CellType DEF IndexHandles
    <3>4. <<<<d, v>>, WorldToCell(place[d])>> \in entityCells'[k]
      BY <3>2, <3>3, TransferEntries
    <3>. QED BY <3>1, <3>4
  <2>. QED BY <2>1, <2>2
<1>. QED BY <1>1, <1>2, <1>3, <1>4, <1>5 DEF SpatialInv

\* Every operation of the world keeps the invariant.
LEMMA SpatialInvNext == SpatialInv /\ [SpatialNext]_spatialVars => SpatialInv'
<1> SUFFICES ASSUME SpatialInv, [SpatialNext]_spatialVars PROVE SpatialInv'
  OBVIOUS
<1>1. CASE Synchronize
  BY <1>1, SyncInv
<1>2. ASSUME NEW b \in Bodies, Despawn(b) PROVE SpatialInv'
  <2>1. onMap[b] \in Maps /\ place[b] \in Places
    BY <1>2 DEF Despawn, SpatialInv, SpatialTypeOK
  <2>. QED BY <1>2, <2>1, BodiesInv
<1>3. ASSUME NEW b \in Bodies, NEW p \in Places, Move(b, p) PROVE SpatialInv'
  <2>1. onMap[b] \in Maps
    BY <1>3 DEF Move, SpatialInv, SpatialTypeOK
  <2>. QED BY <1>3, <2>1, BodiesInv
<1>4. ASSUME NEW b \in Bodies, NEW p \in Places, NEW m \in Maps, Spawn(b, m, p) PROVE SpatialInv'
  BY <1>4, BodiesInv
<1>5. ASSUME NEW b \in Bodies, NEW p \in Places, NEW m \in Maps, TransferEntity(b, m, p) PROVE SpatialInv'
  BY <1>5, TransferInv
<1>6. CASE UNCHANGED spatialVars
  BY <1>6 DEF spatialVars, SpatialInv, SpatialTypeOK, Aged, AtHome, Seen
<1>7. ASSUME NEW b \in Bodies, NEW m \in Maps, ChangeMembership(b, m) PROVE SpatialInv'
  <2>1. place[b] \in Places
    BY DEF SpatialInv, SpatialTypeOK
  <2>. QED BY <1>7, <2>1, BodiesInv
<1>. QED BY <1>1, <1>2, <1>3, <1>4, <1>5, <1>6, <1>7 DEF SpatialNext

\* What a query finds follows from where entries lie.
LEMMA InvVisible == SpatialInv => VisibleExact
<1> SUFFICES ASSUME SpatialInv, NEW m \in Maps
             PROVE  /\ cells[m] = {<<e[2], e[1]>> : e \in entityCells[m]}
                    /\ \A e, f \in entityCells[m] : e[1] = f[1] => e = f
                    /\ synced => \A c \in Places, r \in Ranges :
                         LET found == {h[1] : h \in QueryRadius(m, c, r)}
                             there == {b \in Bodies : onMap[b] = m /\ r > 0 /\ DistSq(place[b], c) <= r * r}
                         IN  there \subseteq found /\ \A b \in found \ there : <<m, b>> \in strays
  BY DEF VisibleExact
<1>0. entityCells[m] \subseteq IndexHandles \X Coords /\ cells[m] \subseteq Coords \X IndexHandles
      /\ (\A h \in IndexHandles, c \in Coords : <<c, h>> \in cells[m] <=> <<h, c>> \in entityCells[m])
      /\ (\A h \in IndexHandles, c, d \in Coords :
            <<h, c>> \in entityCells[m] /\ <<h, d>> \in entityCells[m] => c = d)
  BY DEF SpatialInv, Mirrored
<1>a. SpatialTypeOK /\ AtHome
  BY DEF SpatialInv
<1>1. cells[m] = {<<e[2], e[1]>> : e \in entityCells[m]}
  <2>1. ASSUME NEW x \in cells[m] PROVE x \in {<<e[2], e[1]>> : e \in entityCells[m]}
    <3> PICK c \in Coords, h \in IndexHandles : x = <<c, h>>
      BY <1>0
    <3>1. <<h, c>> \in entityCells[m]
      BY <1>0
    <3>. QED BY <3>1
  <2>2. ASSUME NEW e \in entityCells[m] PROVE <<e[2], e[1]>> \in cells[m]
    <3> PICK h \in IndexHandles, c \in Coords : e = <<h, c>>
      BY <1>0
    <3>. QED BY <1>0
  <2>. QED BY <2>1, <2>2
<1>2. ASSUME NEW e \in entityCells[m], NEW f \in entityCells[m], e[1] = f[1] PROVE e = f
  <2> PICK h \in IndexHandles, c \in Coords : e = <<h, c>>
    BY <1>0
  <2> PICK g \in IndexHandles, d \in Coords : f = <<g, d>>
    BY <1>0
  <2>. QED BY <1>0, <1>2
<1>3. ASSUME synced, NEW c \in Places, NEW r \in Ranges,
             NEW b \in Bodies, onMap[b] = m, r > 0, DistSq(place[b], c) <= r * r
      PROVE  \E h \in QueryRadius(m, c, r) : h[1] = b
  <2>1. place[b] \in Places
    BY <1>a DEF SpatialTypeOK
  <2>2. WorldToCell(place[b]) \in CellRange(c, r) /\ WorldToCell(place[b]) \in Coords
    BY <1>3, <2>1, CircleCovered, CellType
  <2>3. PICK v \in Versions : <<<<b, v>>, WorldToCell(place[b])>> \in entityCells[m]
    BY <1>3 DEF SpatialInv, Seen
  <2> PICK h \in IndexHandles, q \in Coords : h = <<b, v>> /\ q = WorldToCell(place[b])
    BY <2>2 DEF IndexHandles
  <2>4. <<q, h>> \in cells[m] /\ q \in CellRange(c, r)
    BY <1>0, <2>2, <2>3
  <2>5. h \in {e[2] : e \in {f \in cells[m] : r > 0 /\ f[1] \in CellRange(c, r)}}
    <3>1. <<q, h>>[1] = q /\ <<q, h>>[2] = h
      OBVIOUS
    <3>. QED BY <1>3, <2>4, <3>1
  <2>6. h[1] = b /\ onMap[b] # "none"
    BY <1>3, WorldSystemAssumption
  <2>. QED BY <1>3, <2>5, <2>6 DEF QueryRadius
<1>4. ASSUME NEW c \in Places, NEW r \in Ranges, NEW h \in QueryRadius(m, c, r), <<m, h[1]>> \notin strays
      PROVE  h[1] \in Bodies /\ onMap[h[1]] = m /\ r > 0 /\ DistSq(place[h[1]], c) <= r * r
  <2>1. PICK e \in cells[m] : h = e[2]
    BY DEF QueryRadius
  <2> PICK q \in Coords, g \in IndexHandles : e = <<q, g>>
    BY <1>0
  <2> PICK b \in Bodies, v \in Versions : g = <<b, v>>
    BY DEF IndexHandles
  <2>2. h = <<b, v>> /\ h[1] = b /\ <<<<b, v>>, q>> \in entityCells[m]
    BY <1>0, <2>1
  <2>3. onMap[b] = m
    BY <1>4, <1>a, <2>2 DEF AtHome
  <2>. QED BY <2>2, <2>3 DEF QueryRadius
<1>5. ASSUME synced, NEW c \in Places, NEW r \in Ranges
      PROVE  LET found == {h[1] : h \in QueryRadius(m, c, r)}
                 there == {b \in Bodies : onMap[b] = m /\ r > 0 /\ DistSq(place[b], c) <= r * r}
             IN  there \subseteq found /\ \A b \in found \ there : <<m, b>> \in strays
  <2> DEFINE found == {h[1] : h \in QueryRadius(m, c, r)}
             there == {b \in Bodies : onMap[b] = m /\ r > 0 /\ DistSq(place[b], c) <= r * r}
  <2>1. there \subseteq found
    BY <1>3, <1>5
  <2>2. \A b \in found \ there : <<m, b>> \in strays
    BY <1>4
  <2>. QED BY <2>1, <2>2
<1>. QED BY <1>1, <1>2, <1>5

\* Entities and entries of the spatial index stay well formed.
THEOREM SpatialTypeCorrect == SpatialSpec => []SpatialTypeOK
<1>1. SpatialInv => SpatialTypeOK
  BY DEF SpatialInv
<1>. QED BY <1>1, SpatialInvInit, SpatialInvNext, PTL DEF SpatialSpec

\* For any cell size, places and radii: once Execute() has run, a query with a positive
\* radius returns every entity of the map in range, and whatever else it returns is an id
\* that left the map without the index being told: destroyed, moved by transferPlayer(), or
\* transferred with another handle; the two maps of the index agree at all times.
THEOREM QueriesExact == SpatialSpec => []VisibleExact
BY InvVisible, SpatialInvInit, SpatialInvNext, PTL DEF SpatialSpec

(***************************************************************************)
(* EventBus: deferred events are published exactly once.  "Exactly one of  *)
(* the places" is easier to carry through a step than a sum of counts, so  *)
(* the invariant says Settled and the counts follow from it at the end.    *)
(***************************************************************************)

\* Where an event stands in a queue.
Standing(e, s) == {i \in DOMAIN s : s[i] = e}

\* The threads that have taken an event and not yet published it.
Holders(e) == {t \in BusThreads : e \in ToSet(dispatching[t])}

\* One of three sets has one element and the others have none.
ExactlyOne(A, B, C) ==
  \/ (\E x : A = {x}) /\ B = {} /\ C = {}
  \/ A = {} /\ (\E x : B = {x}) /\ C = {}
  \/ A = {} /\ B = {} /\ (\E x : C = {x})

\* A queue in the order its events were deferred.
InOrder(s) == \A i, j \in DOMAIN s : i < j => s[i] < s[j]

\* Handler a is called before handler b.
Before(a, b) == a.priority < b.priority \/ (a.priority = b.priority /\ a.id < b.id)

Settled == \A e \in 1..deferrals :
             ExactlyOne(Standing(e, deferredQueue), Standing(e, dispatched), Holders(e))

CalledInOrder == \A i, j \in DOMAIN subscribed : i < j => Before(subscribed[i], subscribed[j])

FreshIds == \A i \in DOMAIN subscribed : subscribed[i].id < nextSubscription

QueuesInOrder == InOrder(deferredQueue) /\ \A t \in BusThreads : InOrder(dispatching[t])

BusInv == BusTypeOK /\ FreshIds /\ CalledInOrder /\ Settled /\ QueuesInOrder

\* The elements of two lists, one behind the other.
LEMMA Joined ==
  ASSUME NEW S, NEW q \in Seq(S), NEW r \in Seq(S)
  PROVE  /\ q \o r \in Seq(S) /\ Len(q \o r) = Len(q) + Len(r)
         /\ \A i \in 1..Len(q) : (q \o r)[i] = q[i]
         /\ \A i \in 1..Len(r) : (q \o r)[Len(q) + i] = r[i]
OBVIOUS

\* What inserting a handler does to a list.
LEMMA Inserted ==
  ASSUME NEW S, NEW s \in Seq(S), NEW x \in S, NEW at \in 1..(Len(s) + 1)
  PROVE  /\ InsertAt(s, at, x) \in Seq(S) /\ Len(InsertAt(s, at, x)) = Len(s) + 1
         /\ \A i \in 1..(at - 1) : InsertAt(s, at, x)[i] = s[i]
         /\ InsertAt(s, at, x)[at] = x
         /\ \A i \in at..Len(s) : InsertAt(s, at, x)[i + 1] = s[i]
<1>0. Len(s) \in Nat /\ at \in Nat /\ at >= 1 /\ at <= Len(s) + 1
  OBVIOUS
<1>1. ASSUME NEW p \in Seq(S), NEW r \in Seq(S), Len(p) = at - 1, Len(r) = Len(s) - at + 1,
             \A i \in 1..(at - 1) : p[i] = s[i],
             \A i \in 1..(Len(s) - at + 1) : r[i] = s[at + i - 1]
      PROVE  /\ p \o <<x>> \o r \in Seq(S) /\ Len(p \o <<x>> \o r) = Len(s) + 1
             /\ \A i \in 1..(at - 1) : (p \o <<x>> \o r)[i] = s[i]
             /\ (p \o <<x>> \o r)[at] = x
             /\ \A i \in at..Len(s) : (p \o <<x>> \o r)[i + 1] = s[i]
  <2>1. /\ p \o <<x>> \in Seq(S) /\ Len(p \o <<x>>) = at /\ (p \o <<x>>)[at] = x
        /\ \A i \in 1..(at - 1) : (p \o <<x>>)[i] = s[i]
    <3>1. <<x>> \in Seq(S) /\ Len(<<x>>) = 1 /\ <<x>>[1] = x
      OBVIOUS
    <3>2. ASSUME NEW o \in Seq(S), Len(o) = 1, o[1] = x
          PROVE  /\ p \o o \in Seq(S) /\ Len(p \o o) = at /\ (p \o o)[at] = x
                 /\ \A i \in 1..(at - 1) : (p \o o)[i] = s[i]
      <4>1. /\ p \o o \in Seq(S) /\ Len(p \o o) = Len(p) + Len(o)
            /\ \A i \in 1..Len(p) : (p \o o)[i] = p[i]
            /\ \A i \in 1..Len(o) : (p \o o)[Len(p) + i] = o[i]
        BY Joined
      <4>2. Len(p) + 1 = at /\ 1 \in 1..Len(o)
        BY <1>0, <1>1, <3>2
      <4>3. (p \o o)[Len(p) + 1] = o[1]
        BY <4>1, <4>2
      <4>. QED BY <4>1, <4>2, <4>3, <3>2, <1>1, <1>0
    <3>. QED BY <3>1, <3>2, Zenon
  <2>2. ASSUME NEW q \in Seq(S), Len(q) = at, q[at] = x, \A i \in 1..(at - 1) : q[i] = s[i]
        PROVE  /\ q \o r \in Seq(S) /\ Len(q \o r) = Len(s) + 1
               /\ \A i \in 1..(at - 1) : (q \o r)[i] = s[i]
               /\ (q \o r)[at] = x
               /\ \A i \in at..Len(s) : (q \o r)[i + 1] = s[i]
    <3>1. /\ q \o r \in Seq(S) /\ Len(q \o r) = Len(q) + Len(r)
          /\ \A i \in 1..Len(q) : (q \o r)[i] = q[i]
          /\ \A i \in 1..Len(r) : (q \o r)[Len(q) + i] = r[i]
      BY Joined
    <3>2. Len(q \o r) = Len(s) + 1
      BY <3>1, <2>2, <1>1, <1>0
    <3>3. (q \o r)[at] = x /\ \A i \in 1..(at - 1) : (q \o r)[i] = s[i]
      BY <3>1, <2>2, <1>0
    <3>4. ASSUME NEW i \in at..Len(s) PROVE (q \o r)[i + 1] = s[i]
      <4>1. i + 1 - at \in 1..Len(r) /\ at + (i + 1 - at) - 1 = i /\ at + (i + 1 - at) = i + 1
        BY <1>0, <1>1
      <4>2. (q \o r)[at + (i + 1 - at)] = r[i + 1 - at]
        BY <4>1, <3>1, <2>2
      <4>3. r[i + 1 - at] = s[at + (i + 1 - at) - 1]
        BY <4>1, <1>1
      <4>. QED BY <4>1, <4>2, <4>3
    <3>. QED BY <3>1, <3>2, <3>3, <3>4
  <2>. QED BY <2>1, <2>2, Zenon
<1>2. /\ SubSeq(s, 1, at - 1) \in Seq(S) /\ Len(SubSeq(s, 1, at - 1)) = at - 1
      /\ \A i \in 1..(at - 1) : SubSeq(s, 1, at - 1)[i] = s[i]
  BY <1>0
<1>3. /\ SubSeq(s, at, Len(s)) \in Seq(S) /\ Len(SubSeq(s, at, Len(s))) = Len(s) - at + 1
      /\ \A i \in 1..(Len(s) - at + 1) : SubSeq(s, at, Len(s))[i] = s[at + i - 1]
  BY <1>0
<1>. QED BY <1>1, <1>2, <1>3, Zenon DEF InsertAt

\* What removing a handler does to a list.
LEMMA Removed ==
  ASSUME NEW S, NEW s \in Seq(S), NEW at \in 1..Len(s)
  PROVE  /\ RemoveAt(s, at) \in Seq(S) /\ Len(RemoveAt(s, at)) = Len(s) - 1
         /\ \A i \in 1..(at - 1) : RemoveAt(s, at)[i] = s[i]
         /\ \A i \in at..(Len(s) - 1) : RemoveAt(s, at)[i] = s[i + 1]
<1>0. Len(s) \in Nat /\ at \in Nat /\ at >= 1 /\ at <= Len(s)
  OBVIOUS
<1>1. ASSUME NEW p \in Seq(S), NEW r \in Seq(S), Len(p) = at - 1, Len(r) = Len(s) - at,
             \A i \in 1..(at - 1) : p[i] = s[i],
             \A i \in 1..(Len(s) - at) : r[i] = s[at + i]
      PROVE  /\ p \o r \in Seq(S) /\ Len(p \o r) = Len(s) - 1
             /\ \A i \in 1..(at - 1) : (p \o r)[i] = s[i]
             /\ \A i \in at..(Len(s) - 1) : (p \o r)[i] = s[i + 1]
  <2>1. /\ p \o r \in Seq(S) /\ Len(p \o r) = Len(p) + Len(r)
        /\ \A i \in 1..Len(p) : (p \o r)[i] = p[i]
        /\ \A i \in 1..Len(r) : (p \o r)[Len(p) + i] = r[i]
    BY Joined
  <2>2. Len(p \o r) = Len(s) - 1
    BY <2>1, <1>1, <1>0
  <2>3. ASSUME NEW i \in at..(Len(s) - 1) PROVE (p \o r)[i] = s[i + 1]
    <3>1. i - at + 1 \in 1..Len(r) /\ at + (i - at + 1) = i + 1 /\ Len(p) + (i - at + 1) = i
      BY <1>0, <1>1
    <3>2. (p \o r)[Len(p) + (i - at + 1)] = r[i - at + 1]
      BY <3>1, <2>1
    <3>3. r[i - at + 1] = s[at + (i - at + 1)]
      BY <3>1, <1>1
    <3>. QED BY <3>1, <3>2, <3>3
  <2>. QED BY <2>1, <2>2, <2>3, <1>1
<1>2. /\ SubSeq(s, 1, at - 1) \in Seq(S) /\ Len(SubSeq(s, 1, at - 1)) = at - 1
      /\ \A i \in 1..(at - 1) : SubSeq(s, 1, at - 1)[i] = s[i]
  BY <1>0
<1>3. /\ SubSeq(s, at + 1, Len(s)) \in Seq(S) /\ Len(SubSeq(s, at + 1, Len(s))) = Len(s) - at
      /\ \A i \in 1..(Len(s) - at) : SubSeq(s, at + 1, Len(s))[i] = s[at + i]
  BY <1>0
<1>. QED BY <1>1, <1>2, <1>3, Zenon DEF RemoveAt

\* Where events stand after one more has joined a queue.
LEMMA StandingAppended ==
  ASSUME NEW S, NEW s \in Seq(S), NEW x \in S, NEW e
  PROVE  Standing(e, Append(s, x)) =
           IF e = x THEN Standing(e, s) \cup {Len(s) + 1} ELSE Standing(e, s)
BY DEF Standing

\* The rest of a queue in order is in order, and its head is not in it.
LEMMA TailInOrder ==
  ASSUME NEW s \in Seq(Nat), s # <<>>, InOrder(s)
  PROVE  /\ InOrder(Tail(s)) /\ Head(s) \notin ToSet(Tail(s))
         /\ \A e : e \in ToSet(s) <=> e = Head(s) \/ e \in ToSet(Tail(s))
<1>1. /\ Len(Tail(s)) = Len(s) - 1 /\ Tail(s) \in Seq(Nat) /\ Head(s) = s[1] /\ Len(s) > 0
      /\ \A i \in 1..Len(Tail(s)) : Tail(s)[i] = s[i + 1]
  OBVIOUS
<1>2. InOrder(Tail(s))
  BY <1>1 DEF InOrder
<1>3. Head(s) \notin ToSet(Tail(s))
  BY <1>1 DEF InOrder, ToSet
<1>4. ASSUME NEW e PROVE e \in ToSet(s) <=> e = Head(s) \/ e \in ToSet(Tail(s))
  <2>1. ASSUME e \in ToSet(s) PROVE e = Head(s) \/ e \in ToSet(Tail(s))
    <3>1. PICK i \in 1..Len(s) : s[i] = e
      BY <2>1 DEF ToSet
    <3>2. CASE i = 1
      BY <1>1, <3>1, <3>2
    <3>3. CASE i # 1
      <4>1. i - 1 \in 1..Len(Tail(s)) /\ Tail(s)[i - 1] = e
        BY <1>1, <3>1, <3>3
      <4>2. DOMAIN Tail(s) = 1..Len(Tail(s))
        BY <1>1
      <4>. QED BY <4>1, <4>2 DEF ToSet
    <3>. QED BY <3>2, <3>3
  <2>2. ASSUME e \in ToSet(Tail(s)) PROVE e \in ToSet(s)
    <3>1. PICK i \in 1..Len(Tail(s)) : Tail(s)[i] = e
      BY <2>2, <1>1 DEF ToSet
    <3>2. i + 1 \in 1..Len(s) /\ s[i + 1] = e
      BY <1>1, <3>1
    <3>. QED BY <3>2 DEF ToSet
  <2>3. Head(s) \in ToSet(s)
    BY <1>1 DEF ToSet
  <2>. QED BY <2>1, <2>2, <2>3
<1>. QED BY <1>2, <1>3, <1>4

\* An event of a queue in order stands at one place of it.
LEMMA StandsOnce ==
  ASSUME NEW s \in Seq(Nat), InOrder(s), NEW e \in ToSet(s)
  PROVE  \E i : Standing(e, s) = {i}
<1>1. PICK i \in DOMAIN s : s[i] = e
  BY DEF ToSet
<1>2. ASSUME NEW j \in DOMAIN s, s[j] = e PROVE j = i
  BY <1>1, <1>2 DEF InOrder
<1>3. Standing(e, s) = {i}
  BY <1>1, <1>2 DEF Standing
<1>. QED BY <1>3

\* The counts of the property follow from Settled.
LEMMA SettledCounts ==
  ASSUME NEW A, NEW B, NEW C, ExactlyOne(A, B, C)
  PROVE  Cardinality(A) + Cardinality(B) + Cardinality(C) = 1
<1>1. Cardinality({}) = 0
  BY FS_EmptySet, Zenon
<1>2. \A x : Cardinality({x}) = 1
  BY FS_Singleton, Zenon
<1>3. CASE (\E x : A = {x}) /\ B = {} /\ C = {}
  <2>1. Cardinality(A) = 1 /\ Cardinality(B) = 0 /\ Cardinality(C) = 0
    BY <1>1, <1>2, <1>3, Zenon
  <2>. QED BY <2>1
<1>4. CASE A = {} /\ (\E x : B = {x}) /\ C = {}
  <2>1. Cardinality(A) = 0 /\ Cardinality(B) = 1 /\ Cardinality(C) = 0
    BY <1>1, <1>2, <1>4, Zenon
  <2>. QED BY <2>1
<1>5. CASE A = {} /\ B = {} /\ (\E x : C = {x})
  <2>1. Cardinality(A) = 0 /\ Cardinality(B) = 0 /\ Cardinality(C) = 1
    BY <1>1, <1>2, <1>5, Zenon
  <2>. QED BY <2>1
<1>. QED BY <1>3, <1>4, <1>5 DEF ExactlyOne

\* The invariant is the property in other words.
LEMMA BusInvSound == BusInv => EventsSound
<1>. SUFFICES ASSUME BusInv PROVE EventsSound
  OBVIOUS
<1>1. \A i, j \in DOMAIN subscribed : i < j => Before(subscribed[i], subscribed[j])
  BY DEF BusInv, CalledInOrder
<1>2. ASSUME NEW e \in 1..deferrals
      PROVE  Cardinality({i \in DOMAIN deferredQueue : deferredQueue[i] = e})
               + Cardinality({i \in DOMAIN dispatched : dispatched[i] = e})
               + Cardinality({t \in BusThreads : e \in ToSet(dispatching[t])}) = 1
  <2>1. ExactlyOne(Standing(e, deferredQueue), Standing(e, dispatched), Holders(e))
    BY DEF BusInv, Settled
  <2>2. Cardinality(Standing(e, deferredQueue)) + Cardinality(Standing(e, dispatched))
          + Cardinality(Holders(e)) = 1
    BY <2>1, SettledCounts, Zenon
  <2>. QED BY <2>2, Zenon DEF Standing, Holders
<1>. QED BY <1>1, <1>2, Zenon DEF EventsSound, BusInv, Before, QueuesInOrder, InOrder

\* An empty bus is sound.
LEMMA BusInvInit == BusInit => BusInv
<1>. SUFFICES ASSUME BusInit PROVE BusInv
  OBVIOUS
<1>1. BusTypeOK
  BY BusAssumption DEF BusInit, BusTypeOK
<1>2. FreshIds /\ CalledInOrder /\ Settled /\ QueuesInOrder
  BY DEF BusInit, FreshIds, CalledInOrder, Settled, QueuesInOrder, InOrder
<1>. QED BY <1>1, <1>2 DEF BusInv

\* Subscribe() puts the handler behind the last one of at most its priority, and its id is
\* the greatest so far: the calling order stays the order of (priority, id).
LEMMA SubscribeStep ==
  ASSUME BusInv, NEW p \in HandlerPriorities, Subscribe(p)
  PROVE  BusInv'
<1>0. /\ subscribed \in Seq(Handler) /\ nextSubscription \in Nat /\ p \in Nat
      /\ \A i \in 1..Len(subscribed) : subscribed[i].id \in Nat /\ subscribed[i].priority \in Nat
  <2>1. subscribed \in Seq(Handler) /\ nextSubscription \in Nat /\ p \in Nat
    BY BusAssumption DEF BusInv, BusTypeOK
  <2>2. ASSUME NEW i \in 1..Len(subscribed)
        PROVE  subscribed[i].id \in Nat /\ subscribed[i].priority \in Nat
    <3>1. subscribed[i] \in Handler
      BY <2>1
    <3>. QED BY <3>1, BusAssumption DEF Handler
  <2>. QED BY <2>1, <2>2
<1>. DEFINE h == [id |-> nextSubscription, priority |-> p]
<1>1. h \in Handler /\ h.id = nextSubscription /\ h.priority = p
  BY <1>0 DEF Handler
<1>2. PICK at \in 1..(Len(subscribed) + 1) :
        /\ \A i \in DOMAIN subscribed : subscribed[i].priority <= p <=> i < at
        /\ subscribed' = InsertAt(subscribed, at, h)
  BY DEF Subscribe
<1>. HIDE DEF h
<1>3. /\ subscribed' \in Seq(Handler) /\ Len(subscribed') = Len(subscribed) + 1
      /\ \A i \in 1..(at - 1) : subscribed'[i] = subscribed[i]
      /\ subscribed'[at] = h
      /\ \A i \in at..Len(subscribed) : subscribed'[i + 1] = subscribed[i]
  <2>. DEFINE t == InsertAt(subscribed, at, h)
  <2>1. /\ t \in Seq(Handler) /\ Len(t) = Len(subscribed) + 1
        /\ \A i \in 1..(at - 1) : t[i] = subscribed[i]
        /\ t[at] = h
        /\ \A i \in at..Len(subscribed) : t[i + 1] = subscribed[i]
    <3>1. ASSUME NEW x \in Handler
          PROVE  /\ InsertAt(subscribed, at, x) \in Seq(Handler)
                 /\ Len(InsertAt(subscribed, at, x)) = Len(subscribed) + 1
                 /\ \A i \in 1..(at - 1) : InsertAt(subscribed, at, x)[i] = subscribed[i]
                 /\ InsertAt(subscribed, at, x)[at] = x
                 /\ \A i \in at..Len(subscribed) : InsertAt(subscribed, at, x)[i + 1] = subscribed[i]
      <4>1. subscribed \in Seq(Handler)
        BY <1>0
      <4>. QED BY <4>1, Inserted
    <3>2. h \in Handler
      BY <1>1
    <3>. QED BY <3>1, <3>2, Zenon
  <2>. HIDE DEF t
  <2>2. subscribed' = t
    BY <1>2 DEF t
  <2>. QED BY <2>1, <2>2
<1>4. /\ nextSubscription' = nextSubscription + 1
      /\ UNCHANGED <<deferredQueue, dispatching, calls, deferrals, dispatched>>
  BY DEF Subscribe
<1>5. Len(subscribed) \in Nat /\ at \in Nat /\ at >= 1 /\ at <= Len(subscribed) + 1
  BY <1>0
<1>6. ASSUME NEW j \in DOMAIN subscribed'
      PROVE  \/ j \in 1..(at - 1) /\ j \in DOMAIN subscribed /\ subscribed'[j] = subscribed[j]
             \/ j = at /\ subscribed'[j] = h
             \/ j - 1 \in at..Len(subscribed) /\ j - 1 \in DOMAIN subscribed
                /\ subscribed'[j] = subscribed[j - 1]
  <2>1. j \in Nat /\ j >= 1 /\ j <= Len(subscribed) + 1
    BY <1>3, <1>5
  <2>2. CASE j < at
    BY <2>1, <2>2, <1>3, <1>5, <1>0
  <2>3. CASE j = at
    BY <2>3, <1>3
  <2>4. CASE j > at
    <3>1. j - 1 \in at..Len(subscribed) /\ (j - 1) + 1 = j /\ j - 1 \in 1..Len(subscribed)
      BY <2>1, <2>4, <1>5
    <3>2. subscribed'[(j - 1) + 1] = subscribed[j - 1]
      BY <3>1, <1>3
    <3>. QED BY <3>1, <3>2, <1>0
  <2>. QED BY <2>1, <2>2, <2>3, <2>4, <1>5
<1>7. BusTypeOK'
  BY <1>0, <1>3, <1>4 DEF BusInv, BusTypeOK
<1>8. FreshIds'
  <2>. SUFFICES ASSUME NEW j \in DOMAIN subscribed' PROVE subscribed'[j].id < nextSubscription'
    BY DEF FreshIds
  <2>1. CASE j \in DOMAIN subscribed /\ subscribed'[j] = subscribed[j]
    BY <2>1, <1>0, <1>4 DEF BusInv, FreshIds
  <2>2. CASE subscribed'[j] = h
    BY <2>2, <1>0, <1>1, <1>4
  <2>3. CASE j - 1 \in DOMAIN subscribed /\ subscribed'[j] = subscribed[j - 1]
    <3>1. subscribed[j - 1].id < nextSubscription /\ subscribed[j - 1].id \in Nat
      BY <2>3, <1>0 DEF BusInv, FreshIds
    <3>. QED BY <3>1, <2>3, <1>0, <1>4
  <2>. QED BY <1>6, <2>1, <2>2, <2>3
<1>9. CalledInOrder'
  <2>. SUFFICES ASSUME NEW i \in DOMAIN subscribed', NEW j \in DOMAIN subscribed', i < j
                PROVE  Before(subscribed'[i], subscribed'[j])
    BY DEF CalledInOrder, Before
  <2>0. i \in Nat /\ j \in Nat /\ DOMAIN subscribed = 1..Len(subscribed)
    BY <1>3, <1>0
  <2>1. ASSUME NEW k \in DOMAIN subscribed, NEW l \in DOMAIN subscribed, k < l
        PROVE  Before(subscribed[k], subscribed[l])
    BY <2>1 DEF BusInv, CalledInOrder
  <2>2. ASSUME NEW k \in DOMAIN subscribed, k < at PROVE Before(subscribed[k], h)
    <3>1. subscribed[k].priority <= p /\ subscribed[k].id < nextSubscription
      BY <2>2, <1>2 DEF BusInv, FreshIds
    <3>. QED BY <3>1, <2>0, <1>0, <1>1 DEF Before
  <2>3. ASSUME NEW l \in DOMAIN subscribed, l >= at PROVE Before(h, subscribed[l])
    <3>1. ~ (subscribed[l].priority <= p) /\ subscribed[l].priority \in Nat
      BY <2>3, <2>0, <1>0, <1>2, <1>5
    <3>. QED BY <3>1, <1>0, <1>1 DEF Before
  <2>4. CASE j \in 1..(at - 1) /\ j \in DOMAIN subscribed /\ subscribed'[j] = subscribed[j]
    <3>1. i \in DOMAIN subscribed /\ subscribed'[i] = subscribed[i]
      BY <2>4, <2>0, <1>5, <1>6
    <3>. QED BY <3>1, <2>4, <2>1
  <2>5. CASE j = at /\ subscribed'[j] = h
    <3>1. i \in DOMAIN subscribed /\ i < at /\ subscribed'[i] = subscribed[i]
      BY <2>5, <2>0, <1>5, <1>6
    <3>. QED BY <3>1, <2>5, <2>2
  <2>6. CASE /\ j - 1 \in at..Len(subscribed) /\ j - 1 \in DOMAIN subscribed
             /\ subscribed'[j] = subscribed[j - 1]
    <3>1. CASE i \in 1..(at - 1) /\ i \in DOMAIN subscribed /\ subscribed'[i] = subscribed[i]
      <4>1. i < j - 1
        BY <3>1, <2>6, <2>0, <1>5
      <4>. QED BY <4>1, <3>1, <2>6, <2>1
    <3>2. CASE i = at /\ subscribed'[i] = h
      <4>1. j - 1 >= at
        BY <2>6, <1>5, <2>0
      <4>. QED BY <4>1, <3>2, <2>6, <2>3
    <3>3. CASE i - 1 \in DOMAIN subscribed /\ subscribed'[i] = subscribed[i - 1]
      <4>1. i - 1 < j - 1
        BY <2>0
      <4>. QED BY <4>1, <3>3, <2>6, <2>1
    <3>. QED BY <1>6, <3>1, <3>2, <3>3
  <2>. QED BY <1>6, <2>4, <2>5, <2>6
<1>10. Settled' /\ QueuesInOrder'
  BY <1>4 DEF BusInv, Settled, QueuesInOrder, Holders
<1>. QED BY <1>7, <1>8, <1>9, <1>10 DEF BusInv

\* Unsubscribe() closes the gap it leaves.
LEMMA UnsubscribeStep ==
  ASSUME BusInv, NEW id, Unsubscribe(id)
  PROVE  BusInv'
<1>0. subscribed \in Seq(Handler)
  BY DEF BusInv, BusTypeOK
<1>1. PICK at \in DOMAIN subscribed : subscribed' = RemoveAt(subscribed, at)
  BY DEF Unsubscribe
<1>2. at \in 1..Len(subscribed) /\ at \in Nat /\ Len(subscribed) \in Nat
  BY <1>0
<1>3. /\ subscribed' \in Seq(Handler) /\ Len(subscribed') = Len(subscribed) - 1
      /\ \A i \in 1..(at - 1) : subscribed'[i] = subscribed[i]
      /\ \A i \in at..(Len(subscribed) - 1) : subscribed'[i] = subscribed[i + 1]
  BY <1>0, <1>1, <1>2, Removed, Zenon
<1>4. UNCHANGED <<nextSubscription, deferredQueue, dispatching, calls, deferrals, dispatched>>
  BY DEF Unsubscribe
<1>. DEFINE Was(j) == IF j < at THEN j ELSE j + 1
<1>5. ASSUME NEW j \in DOMAIN subscribed'
      PROVE  j \in Nat /\ Was(j) \in DOMAIN subscribed /\ subscribed'[j] = subscribed[Was(j)]
  <2>1. j \in Nat /\ j >= 1 /\ j <= Len(subscribed) - 1
    BY <1>2, <1>3
  <2>2. CASE j < at
    BY <2>1, <2>2, <1>0, <1>2, <1>3
  <2>3. CASE j >= at
    <3>1. j \in at..(Len(subscribed) - 1) /\ j + 1 \in 1..Len(subscribed)
      BY <2>1, <2>3, <1>2
    <3>2. subscribed'[j] = subscribed[j + 1] /\ Was(j) = j + 1
      BY <3>1, <1>3, <2>3, <2>1, <1>2
    <3>. QED BY <3>1, <3>2, <2>1, <1>0
  <2>. QED BY <2>1, <2>2, <2>3, <1>2
<1>6. ASSUME NEW i \in DOMAIN subscribed', NEW j \in DOMAIN subscribed', i < j PROVE Was(i) < Was(j)
  BY <1>2, <1>5, <1>6
<1>. HIDE DEF Was
<1>7. BusTypeOK'
  BY <1>3, <1>4 DEF BusInv, BusTypeOK
<1>8. FreshIds'
  BY <1>4, <1>5 DEF BusInv, FreshIds
<1>9. CalledInOrder'
  <2>. SUFFICES ASSUME NEW i \in DOMAIN subscribed', NEW j \in DOMAIN subscribed', i < j
                PROVE  Before(subscribed'[i], subscribed'[j])
    BY DEF CalledInOrder, Before
  <2>1. Before(subscribed[Was(i)], subscribed[Was(j)])
    BY <1>5, <1>6 DEF BusInv, CalledInOrder
  <2>. QED BY <2>1, <1>5
<1>10. Settled' /\ QueuesInOrder'
  BY <1>4 DEF BusInv, Settled, QueuesInOrder, Holders
<1>. QED BY <1>7, <1>8, <1>9, <1>10 DEF BusInv

\* UnsubscribeAll() leaves no handler.
LEMMA UnsubscribeAllStep ==
  ASSUME BusInv, UnsubscribeAll
  PROVE  BusInv'
<1>1. /\ subscribed' = <<>>
      /\ UNCHANGED <<nextSubscription, deferredQueue, dispatching, calls, deferrals, dispatched>>
  BY DEF UnsubscribeAll
<1>2. BusTypeOK'
  BY <1>1 DEF BusInv, BusTypeOK
<1>3. FreshIds' /\ CalledInOrder'
  BY <1>1 DEF FreshIds, CalledInOrder
<1>4. Settled' /\ QueuesInOrder'
  BY <1>1 DEF BusInv, Settled, QueuesInOrder, Holders
<1>. QED BY <1>2, <1>3, <1>4 DEF BusInv

\* A copy of the handlers is a list of handlers.
LEMMA SnapshotType ==
  ASSUME BusInv, NEW t \in BusThreads, Snapshot(t)
  PROVE  calls' \in [BusThreads -> Seq(Handler)]
BY DEF Snapshot, BusInv, BusTypeOK

\* Publish() and the calls of handlers touch only the calls that are due.
LEMMA HandlerStep ==
  ASSUME BusInv, NEW t \in BusThreads, Publish(t) \/ CallHandler(t)
  PROVE  BusInv'
<1>1. UNCHANGED <<subscribed, nextSubscription, deferredQueue, dispatching, deferrals, dispatched>>
  BY DEF Publish, CallHandler
<1>2. calls' \in [BusThreads -> Seq(Handler)]
  <2>1. CASE Publish(t)
    BY <2>1, SnapshotType DEF Publish
  <2>2. CASE CallHandler(t)
    <3>1. calls[t] \in Seq(Handler) /\ calls[t] # <<>>
      BY <2>2 DEF CallHandler, BusInv, BusTypeOK
    <3>2. Tail(calls[t]) \in Seq(Handler)
      BY <3>1
    <3>. QED BY <3>2, <2>2 DEF CallHandler, BusInv, BusTypeOK
  <2>. QED BY <2>1, <2>2
<1>3. BusTypeOK'
  BY <1>1, <1>2 DEF BusInv, BusTypeOK
<1>4. FreshIds' /\ CalledInOrder' /\ Settled' /\ QueuesInOrder'
  BY <1>1 DEF BusInv, FreshIds, CalledInOrder, Settled, QueuesInOrder, Holders
<1>. QED BY <1>3, <1>4 DEF BusInv

\* PublishDeferred(): the event is the newest and stands nowhere else.
LEMMA PublishDeferredStep ==
  ASSUME BusInv, PublishDeferred
  PROVE  BusInv'
<1>0. /\ deferrals \in Nat /\ deferredQueue \in Seq(1..deferrals) /\ dispatched \in Seq(1..deferrals)
      /\ dispatching \in [BusThreads -> Seq(1..deferrals)]
  BY DEF BusInv, BusTypeOK
<1>1. /\ deferrals' = deferrals + 1 /\ deferredQueue' = Append(deferredQueue, deferrals + 1)
      /\ UNCHANGED <<subscribed, nextSubscription, dispatching, calls, dispatched>>
  BY DEF PublishDeferred
<1>2. 1..deferrals \subseteq 1..deferrals' /\ deferrals' \in Nat /\ deferrals + 1 \in 1..deferrals'
  BY <1>0, <1>1
<1>3. ASSUME NEW s \in Seq(1..deferrals) PROVE s \in Seq(1..deferrals')
  BY <1>2, SeqMonotonic, Zenon
<1>4. deferredQueue' \in Seq(1..deferrals')
  BY <1>0, <1>1, <1>2, <1>3
<1>5. BusTypeOK'
  <2>1. dispatching' \in [BusThreads -> Seq(1..deferrals')]
    BY <1>0, <1>1, <1>3
  <2>. QED BY <1>0, <1>1, <1>2, <1>3, <1>4, <2>1 DEF BusInv, BusTypeOK
<1>6. FreshIds' /\ CalledInOrder'
  BY <1>1 DEF BusInv, FreshIds, CalledInOrder
<1>7. QueuesInOrder'
  <2>1. InOrder(deferredQueue')
    <3>. SUFFICES ASSUME NEW i \in DOMAIN deferredQueue', NEW j \in DOMAIN deferredQueue', i < j
                  PROVE  deferredQueue'[i] < deferredQueue'[j]
      BY DEF InOrder
    <3>1. i \in 1..Len(deferredQueue) /\ deferredQueue'[i] = deferredQueue[i] /\ deferredQueue[i] \in 1..deferrals
      BY <1>0, <1>1
    <3>2. CASE j = Len(deferredQueue) + 1
      BY <3>1, <3>2, <1>0, <1>1
    <3>3. CASE j # Len(deferredQueue) + 1
      <4>1. j \in 1..Len(deferredQueue) /\ deferredQueue'[j] = deferredQueue[j]
        BY <3>3, <1>0, <1>1
      <4>. QED BY <4>1, <3>1, <1>0 DEF BusInv, QueuesInOrder, InOrder
    <3>. QED BY <3>2, <3>3
  <2>. QED BY <2>1, <1>1 DEF BusInv, QueuesInOrder
<1>8. Settled'
  <2>. SUFFICES ASSUME NEW e \in 1..deferrals'
                PROVE  ExactlyOne(Standing(e, deferredQueue'), Standing(e, dispatched'), Holders(e)')
    BY DEF Settled
  <2>1. Holders(e)' = Holders(e) /\ Standing(e, dispatched') = Standing(e, dispatched)
    BY <1>1 DEF Holders
  <2>2. Standing(e, deferredQueue') =
          IF e = deferrals + 1 THEN Standing(e, deferredQueue) \cup {Len(deferredQueue) + 1}
                               ELSE Standing(e, deferredQueue)
    <3>1. ASSUME NEW q \in Seq(Nat), NEW x \in Nat
          PROVE  Standing(e, Append(q, x)) =
                   IF e = x THEN Standing(e, q) \cup {Len(q) + 1} ELSE Standing(e, q)
      BY StandingAppended
    <3>2. deferredQueue \in Seq(Nat) /\ deferrals + 1 \in Nat
      BY <1>0
    <3>. QED BY <3>1, <3>2, <1>1
  <2>3. CASE e = deferrals + 1
    <3>1. Standing(e, deferredQueue) = {}
      BY <2>3, <1>0 DEF Standing
    <3>2. Standing(e, dispatched) = {}
      BY <2>3, <1>0 DEF Standing
    <3>3. Holders(e) = {}
      <4>1. ASSUME NEW t \in BusThreads PROVE e \notin ToSet(dispatching[t])
        <5>1. dispatching[t] \in Seq(1..deferrals)
          BY <1>0
        <5>. QED BY <5>1, <2>3, <1>0 DEF ToSet
      <4>. QED BY <4>1 DEF Holders
    <3>. QED BY <2>1, <2>2, <2>3, <3>1, <3>2, <3>3 DEF ExactlyOne
  <2>4. CASE e # deferrals + 1
    <3>1. e \in 1..deferrals
      BY <2>4, <1>0, <1>1
    <3>. QED BY <3>1, <2>1, <2>2, <2>4 DEF BusInv, Settled
  <2>. QED BY <2>3, <2>4
<1>. QED BY <1>5, <1>6, <1>7, <1>8 DEF BusInv

\* ProcessDeferred(): what stood in the queue is held by the thread that took it.
LEMMA ProcessDeferredStep ==
  ASSUME BusInv, NEW t \in BusThreads, ProcessDeferred(t)
  PROVE  BusInv'
<1>0. /\ deferrals \in Nat /\ deferredQueue \in Seq(1..deferrals) /\ dispatched \in Seq(1..deferrals)
      /\ dispatching \in [BusThreads -> Seq(1..deferrals)] /\ deferredQueue \in Seq(Nat)
  BY DEF BusInv, BusTypeOK
<1>1. /\ dispatching[t] = <<>> /\ deferredQueue' = <<>>
      /\ dispatching' = [dispatching EXCEPT ![t] = deferredQueue]
      /\ UNCHANGED <<subscribed, nextSubscription, calls, deferrals, dispatched>>
  BY DEF ProcessDeferred
<1>2. BusTypeOK'
  BY <1>0, <1>1 DEF BusInv, BusTypeOK
<1>3. FreshIds' /\ CalledInOrder'
  BY <1>1 DEF BusInv, FreshIds, CalledInOrder
<1>4. dispatching'[t] = deferredQueue /\ \A u \in BusThreads \ {t} : dispatching'[u] = dispatching[u]
  BY <1>0, <1>1
<1>5. QueuesInOrder'
  <2>1. InOrder(<<>>)
    BY DEF InOrder
  <2>. QED BY <1>1, <1>4, <2>1 DEF BusInv, QueuesInOrder
<1>6. Settled'
  <2>. SUFFICES ASSUME NEW e \in 1..deferrals
                PROVE  ExactlyOne(Standing(e, deferredQueue'), Standing(e, dispatched'), Holders(e)')
    BY <1>1 DEF Settled
  <2>1. ExactlyOne(Standing(e, deferredQueue), Standing(e, dispatched), Holders(e))
    BY DEF BusInv, Settled
  <2>2. Standing(e, deferredQueue') = {} /\ Standing(e, dispatched') = Standing(e, dispatched)
    BY <1>1 DEF Standing
  <2>3. t \notin Holders(e)
    BY <1>1 DEF Holders, ToSet
  <2>4. Holders(e)' = IF e \in ToSet(deferredQueue) THEN Holders(e) \cup {t} ELSE Holders(e)
    BY <1>4, <2>3 DEF Holders
  <2>5. CASE e \in ToSet(deferredQueue)
    <3>1. \E i : Standing(e, deferredQueue) = {i}
      BY <2>5, <1>0, StandsOnce DEF BusInv, QueuesInOrder
    <3>2. Standing(e, deferredQueue) # {}
      BY <3>1
    <3>3. Standing(e, dispatched) = {} /\ Holders(e) = {}
      BY <2>1, <3>2 DEF ExactlyOne
    <3>. QED BY <2>2, <2>4, <2>5, <3>3 DEF ExactlyOne
  <2>6. CASE e \notin ToSet(deferredQueue)
    <3>1. Standing(e, deferredQueue) = {}
      BY <2>6 DEF Standing, ToSet
    <3>2. Standing(e, deferredQueue') = Standing(e, deferredQueue) /\ Holders(e)' = Holders(e)
      BY <3>1, <2>2, <2>4, <2>6
    <3>. QED BY <3>2, <2>1, <2>2
  <2>. QED BY <2>5, <2>6
<1>. QED BY <1>2, <1>3, <1>5, <1>6 DEF BusInv

\* A step of the loop of ProcessDeferred(): its first event is published and no thread
\* holds it any more.
LEMMA DispatchStep ==
  ASSUME BusInv, NEW t \in BusThreads, DispatchNext(t)
  PROVE  BusInv'
<1>. DEFINE q == dispatching[t]
<1>0. /\ deferrals \in Nat /\ deferredQueue \in Seq(1..deferrals) /\ dispatched \in Seq(1..deferrals)
      /\ dispatching \in [BusThreads -> Seq(1..deferrals)] /\ q \in Seq(1..deferrals) /\ q \in Seq(Nat)
  BY DEF BusInv, BusTypeOK
<1>1. /\ q # <<>> /\ dispatched' = Append(dispatched, Head(q))
      /\ dispatching' = [dispatching EXCEPT ![t] = Tail(q)] /\ Snapshot(t)
      /\ UNCHANGED <<subscribed, nextSubscription, deferredQueue, deferrals>>
  BY DEF DispatchNext
<1>2. dispatching'[t] = Tail(q) /\ \A u \in BusThreads \ {t} : dispatching'[u] = dispatching[u]
  BY <1>0, <1>1
<1>3. InOrder(q)
  BY DEF BusInv, QueuesInOrder
<1>. HIDE DEF q
<1>4. /\ InOrder(Tail(q)) /\ Head(q) \notin ToSet(Tail(q))
      /\ \A e : e \in ToSet(q) <=> e = Head(q) \/ e \in ToSet(Tail(q))
  BY <1>0, <1>1, <1>3, TailInOrder
<1>5. Head(q) \in 1..deferrals /\ Tail(q) \in Seq(1..deferrals)
  BY <1>0, <1>1
<1>6. BusTypeOK'
  <2>1. dispatched' \in Seq(1..deferrals) /\ dispatching' \in [BusThreads -> Seq(1..deferrals)]
    BY <1>0, <1>1, <1>5
  <2>2. calls' \in [BusThreads -> Seq(Handler)]
    BY <1>1, SnapshotType
  <2>. QED BY <2>1, <2>2, <1>1 DEF BusInv, BusTypeOK
<1>7. FreshIds' /\ CalledInOrder'
  BY <1>1 DEF BusInv, FreshIds, CalledInOrder
<1>8. QueuesInOrder'
  BY <1>1, <1>2, <1>4 DEF BusInv, QueuesInOrder
<1>9. Settled'
  <2>. SUFFICES ASSUME NEW e \in 1..deferrals
                PROVE  ExactlyOne(Standing(e, deferredQueue'), Standing(e, dispatched'), Holders(e)')
    BY <1>1 DEF Settled
  <2>1. ExactlyOne(Standing(e, deferredQueue), Standing(e, dispatched), Holders(e))
    BY DEF BusInv, Settled
  <2>2. Standing(e, dispatched') =
          IF e = Head(q) THEN Standing(e, dispatched) \cup {Len(dispatched) + 1}
                         ELSE Standing(e, dispatched)
    <3>1. ASSUME NEW s \in Seq(Nat), NEW x \in Nat
          PROVE  Standing(e, Append(s, x)) =
                   IF e = x THEN Standing(e, s) \cup {Len(s) + 1} ELSE Standing(e, s)
      BY StandingAppended
    <3>2. dispatched \in Seq(Nat) /\ Head(q) \in Nat
      BY <1>0, <1>5
    <3>. QED BY <3>1, <3>2, <1>1
  <2>3. Standing(e, deferredQueue') = Standing(e, deferredQueue)
    BY <1>1
  <2>4. CASE e = Head(q)
    <3>1. t \in Holders(e)
      BY <2>4, <1>4 DEF Holders, q
    <3>2. /\ Standing(e, deferredQueue) = {} /\ Standing(e, dispatched) = {}
          /\ Holders(e) = {t}
      BY <2>1, <3>1 DEF ExactlyOne
    <3>3. Holders(e)' = {}
      <4>1. ASSUME NEW u \in BusThreads PROVE e \notin ToSet(dispatching'[u])
        <5>1. CASE u = t
          BY <5>1, <2>4, <1>2, <1>4
        <5>2. CASE u # t
          BY <5>2, <3>2, <1>2 DEF Holders
        <5>. QED BY <5>1, <5>2
      <4>. QED BY <4>1 DEF Holders
    <3>. QED BY <2>2, <2>3, <2>4, <3>2, <3>3 DEF ExactlyOne
  <2>5. CASE e # Head(q)
    <3>1. ASSUME NEW u \in BusThreads
          PROVE  e \in ToSet(dispatching'[u]) <=> e \in ToSet(dispatching[u])
      <4>1. CASE u = t
        BY <4>1, <2>5, <1>2, <1>4 DEF q
      <4>2. CASE u # t
        BY <4>2, <1>2
      <4>. QED BY <4>1, <4>2
    <3>2. Holders(e)' = Holders(e)
      BY <3>1 DEF Holders
    <3>. QED BY <3>2, <2>1, <2>2, <2>3, <2>5
  <2>. QED BY <2>4, <2>5
<1>. QED BY <1>6, <1>7, <1>8, <1>9 DEF BusInv

\* Every operation of the bus keeps the invariant.
LEMMA BusInvStep == BusInv /\ [BusNext]_busVars => BusInv'
<1>. SUFFICES ASSUME BusInv, [BusNext]_busVars PROVE BusInv'
  OBVIOUS
<1>1. ASSUME NEW p \in HandlerPriorities, Subscribe(p) PROVE BusInv'
  BY <1>1, SubscribeStep
<1>2. ASSUME NEW h \in ToSet(subscribed), Unsubscribe(h.id) PROVE BusInv'
  BY <1>2, UnsubscribeStep
<1>3. CASE UnsubscribeAll
  BY <1>3, UnsubscribeAllStep
<1>4. CASE PublishDeferred
  BY <1>4, PublishDeferredStep
<1>5. ASSUME NEW t \in BusThreads, Publish(t) \/ CallHandler(t) PROVE BusInv'
  BY <1>5, HandlerStep
<1>6. ASSUME NEW t \in BusThreads, ProcessDeferred(t) PROVE BusInv'
  BY <1>6, ProcessDeferredStep
<1>7. ASSUME NEW t \in BusThreads, DispatchNext(t) PROVE BusInv'
  BY <1>7, DispatchStep
<1>8. CASE UNCHANGED busVars
  BY <1>8 DEF busVars, BusInv, BusTypeOK, FreshIds, CalledInOrder, Settled, QueuesInOrder, Holders
<1>9. CASE BusExhausted
  BY <1>8, <1>9 DEF BusExhausted
<1>. QED BY <1>1, <1>2, <1>3, <1>4, <1>5, <1>6, <1>7, <1>8, <1>9 DEF BusNext

\* The event bus keeps its tables well formed.
THEOREM BusTypeCorrect == BusSpec => []BusTypeOK
<1>1. BusInv => BusTypeOK
  BY DEF BusInv
<1>. QED BY <1>1, BusInvInit, BusInvStep, PTL DEF BusSpec

\* Handlers stay in the order of priority and subscription, and every deferred event is in
\* exactly one place, the queue, one thread's hands or the published ones, in its order,
\* for any number of threads, handlers and events and any interleaving of them.
THEOREM EventsDeliveredOnce == BusSpec => []EventsSound
BY BusInvInit, BusInvStep, BusInvSound, PTL DEF BusSpec

(***************************************************************************)
(* CircuitBreaker, for every number of callers and all thresholds.         *)
(* OpenShields is not inductive by itself: allowRequest() looks at the     *)
(* time since the last failure, the property speaks of the time since the  *)
(* opening.  ClockBehind relates the two clocks.                           *)
(***************************************************************************)

\* While the circuit is open, the last failure is no older than the opening.
ClockBehind == state = "Open" => sinceFailure <= openFor

\* The code's counter of half-open successes counts those of this half-open
\* state.
ProbesCounted == state = "HalfOpen" => halfOpenSuccesses = probes

BreakerInv == TypeOK /\ ThresholdsActed /\ ClockBehind /\ ProbesCounted

\* Every transition lands in range, on the right side of the thresholds and
\* with both clocks started together.
LEMMA TransitionInv ==
  ASSUME NEW s \in States, NEW f \in 0..FailureThreshold, NEW h \in 0..SuccessThreshold,
         NEW t \in 0..RecoveryTimeout, TransitionTo(s, f, h, t)
  PROVE  /\ state' = s /\ state' \in States
         /\ consecutiveFailures' \in 0..FailureThreshold
         /\ halfOpenSuccesses' \in 0..SuccessThreshold
         /\ sinceFailure' \in 0..RecoveryTimeout /\ openFor' \in 0..RecoveryTimeout
         /\ probes' \in Nat
         /\ ThresholdsActed' /\ ClockBehind' /\ ProbesCounted'
BY ThresholdsAssumption DEF TransitionTo, States, ThresholdsActed, ClockBehind, ProbesCounted, ghosts

\* A new object satisfies the invariant.
LEMMA BreakerBegins == Init => BreakerInv
BY ThresholdsAssumption DEF Init, BreakerInv, TypeOK, ThresholdsActed, ClockBehind, ProbesCounted, ghosts, States, CallStates

\* Every operation preserves it.
LEMMA BreakerStep == BreakerInv /\ [Next]_vars => BreakerInv'
<1> SUFFICES ASSUME BreakerInv, [Next]_vars PROVE BreakerInv'
  OBVIOUS
<1> USE ThresholdsAssumption DEF BreakerInv, TypeOK, States, CallStates
<1>1. ASSUME NEW c \in Callers, AllowRequest(c) PROVE BreakerInv'
  <2>1. CASE UNCHANGED <<breakerVars, ghosts>>
    BY <1>1, <2>1 DEF AllowRequest, breakerVars, ThresholdsActed, ClockBehind, ProbesCounted, ghosts
  <2>2. CASE TransitionTo("HalfOpen", consecutiveFailures, halfOpenSuccesses, sinceFailure)
             /\ UNCHANGED totalRejected
    BY <1>1, <2>2, TransitionInv DEF AllowRequest
  <2>. QED BY <1>1, <2>1, <2>2 DEF AllowRequest
<1>2. ASSUME NEW c \in Callers, RejectRequest(c) PROVE BreakerInv'
  BY <1>2 DEF RejectRequest, ThresholdsActed, ClockBehind, ProbesCounted, ghosts
<1>3. ASSUME NEW c \in Callers, Return(c) PROVE BreakerInv'
  BY <1>3 DEF Return, breakerVars, ThresholdsActed, ClockBehind, ProbesCounted, ghosts
<1>4. ASSUME NEW c \in Callers, RecordSuccess(c) PROVE BreakerInv'
  <2>0. call' \in [Callers -> CallStates] /\ UNCHANGED <<totalRejected, healthy, forced>>
    BY <1>4 DEF RecordSuccess
  <2>1. CASE state = "Closed"
    BY <1>4, <2>0, <2>1 DEF RecordSuccess, ThresholdsActed, ClockBehind, ProbesCounted, ghosts
  <2>2. CASE state = "HalfOpen" /\ halfOpenSuccesses + 1 >= SuccessThreshold
    <3>1. TransitionTo("Closed", consecutiveFailures, halfOpenSuccesses + 1, sinceFailure)
      BY <1>4, <2>2 DEF RecordSuccess
    <3>2. halfOpenSuccesses + 1 \in 0..SuccessThreshold
      BY <2>2 DEF ThresholdsActed
    <3>. QED BY <2>0, <3>1, <3>2, TransitionInv
  <2>3. CASE state = "HalfOpen" /\ halfOpenSuccesses + 1 < SuccessThreshold
    BY <1>4, <2>0, <2>3 DEF RecordSuccess, ThresholdsActed, ClockBehind, ProbesCounted, ghosts
  <2>4. CASE state = "Open"
    BY <1>4, <2>0, <2>4 DEF RecordSuccess, ThresholdsActed, ClockBehind, ProbesCounted, ghosts
  <2>. QED BY <2>1, <2>2, <2>3, <2>4
<1>5. ASSUME NEW c \in Callers, RecordFailure(c) PROVE BreakerInv'
  <2>0. call' \in [Callers -> CallStates] /\ UNCHANGED <<totalRejected, healthy, forced>>
    BY <1>5 DEF RecordFailure
  <2>1. CASE state = "Closed" /\ consecutiveFailures + 1 >= FailureThreshold
    <3>1. TransitionTo("Open", consecutiveFailures + 1, halfOpenSuccesses, 0)
      BY <1>5, <2>1 DEF RecordFailure
    <3>2. consecutiveFailures + 1 \in 0..FailureThreshold
      BY <2>1 DEF ThresholdsActed
    <3>. QED BY <2>0, <3>1, <3>2, TransitionInv
  <2>2. CASE state = "Closed" /\ consecutiveFailures + 1 < FailureThreshold
    BY <1>5, <2>0, <2>2 DEF RecordFailure, ThresholdsActed, ClockBehind, ProbesCounted, ghosts
  <2>3. CASE state = "HalfOpen"
    <3>1. TransitionTo("Open", consecutiveFailures, halfOpenSuccesses, 0)
      BY <1>5, <2>3 DEF RecordFailure
    <3>. QED BY <2>0, <3>1, TransitionInv
  <2>4. CASE state = "Open"
    BY <1>5, <2>0, <2>4 DEF RecordFailure, ThresholdsActed, ClockBehind, ProbesCounted, ghosts
  <2>. QED BY <2>1, <2>2, <2>3, <2>4
<1>6. ASSUME NEW s \in States, ForceState(s) PROVE BreakerInv'
  BY <1>6, TransitionInv DEF ForceState
<1>7. CASE Reset
  BY <1>7 DEF Reset, ThresholdsActed, ClockBehind, ProbesCounted, ghosts
<1>8. CASE Tick
  BY <1>8 DEF Tick, ThresholdsActed, ClockBehind, ProbesCounted, ghosts
<1>9. CASE HealthChange
  BY <1>9 DEF HealthChange, breakerVars, ThresholdsActed, ClockBehind, ProbesCounted, ghosts
<1>10. CASE UNCHANGED vars
  BY <1>10 DEF vars, breakerVars, ThresholdsActed, ClockBehind, ProbesCounted, ghosts
<1>. QED BY <1>1, <1>2, <1>3, <1>4, <1>5, <1>6, <1>7, <1>8, <1>9, <1>10 DEF Next, CallStep

\* Type correctness of the breaker, its counters and clocks included.
THEOREM TypeCorrect == Spec => []TypeOK
<1>1. BreakerInv => TypeOK
  BY DEF BreakerInv
<1>. QED BY <1>1, BreakerBegins, BreakerStep, PTL DEF Spec

\* Reaching a threshold always changes the state, for every configuration
\* and every interleaving of late results and overrides.
THEOREM ThresholdsAlwaysActed == Spec => []ThresholdsActed
<1>1. BreakerInv => ThresholdsActed
  BY DEF BreakerInv
<1>. QED BY <1>1, BreakerBegins, BreakerStep, PTL DEF Spec

\* An open circuit lets nobody through before a whole recoveryTimeout.
THEOREM OpenAlwaysShields == Spec => OpenShields
<1> DEFINE Shield == state = "Open" /\ forced' = forced
                       /\ (\E c \in Callers : call[c] = "idle" /\ call'[c] # "idle")
                     => openFor >= RecoveryTimeout
<1>1. BreakerInv /\ [Next]_vars => [Shield]_vars
  <2> SUFFICES ASSUME BreakerInv, Next, state = "Open", forced' = forced,
                      NEW c \in Callers, call[c] = "idle", call'[c] # "idle"
               PROVE  openFor >= RecoveryTimeout
    OBVIOUS
  <2>1. \A d \in Callers : ~CallStep(d) /\ ~RejectRequest(d)
    BY DEF CallStep, Return, RecordSuccess, RecordFailure, RejectRequest, BreakerInv, TypeOK
  <2>2. ~Reset /\ ~Tick /\ ~HealthChange /\ \A s \in States : ~ForceState(s)
    BY DEF Reset, Tick, HealthChange, ForceState, BreakerInv, TypeOK
  <2>3. \E d \in Callers : AllowRequest(d)
    BY <2>1, <2>2 DEF Next
  <2>4. sinceFailure >= RecoveryTimeout
    BY <2>3 DEF AllowRequest
  <2>. QED BY <2>4, ThresholdsAssumption DEF BreakerInv, ClockBehind, TypeOK
<1>. QED BY <1>1, BreakerBegins, BreakerStep, PTL DEF Spec, OpenShields

\* Only successThreshold successes of the same half-open state close it.
THEOREM ClosingIsEarned == Spec => ClosedByProbes
<1> DEFINE Earned == state = "HalfOpen" /\ state' = "Closed" /\ forced' = forced
                     => probes + 1 >= SuccessThreshold
<1>1. BreakerInv /\ [Next]_vars => [Earned]_vars
  <2> SUFFICES ASSUME BreakerInv, Next, state = "HalfOpen", state' = "Closed", forced' = forced
               PROVE  probes + 1 >= SuccessThreshold
    OBVIOUS
  <2>1. \A c \in Callers : ~AllowRequest(c) /\ ~RejectRequest(c) /\ ~Return(c)
    BY DEF AllowRequest, RejectRequest, Return, breakerVars, TransitionTo
  <2>2. \A c \in Callers : ~RecordFailure(c)
    BY DEF RecordFailure, TransitionTo
  <2>3. ~Reset /\ ~Tick /\ ~HealthChange /\ \A s \in States : ~ForceState(s)
    BY DEF Reset, Tick, HealthChange, ForceState, BreakerInv, TypeOK, breakerVars
  <2>4. \E c \in Callers : RecordSuccess(c)
    BY <2>1, <2>2, <2>3 DEF Next, CallStep
  <2>5. halfOpenSuccesses + 1 >= SuccessThreshold
    BY <2>4 DEF RecordSuccess
  <2>. QED BY <2>5 DEF BreakerInv, ProbesCounted
<1>. QED BY <1>1, BreakerBegins, BreakerStep, PTL DEF Spec, ClosedByProbes

(***************************************************************************)
(* BehaviorTree: a tree that any number of brains hold.                    *)
(*                                                                         *)
(* TreeResumes speaks of nodes that are at rest; the invariant adds where  *)
(* the calls in progress stand.  Every node on the path waits for the      *)
(* child its cursor points at (PathOK), the children before a cursor have  *)
(* answered go (CursorOK) and none but the one at the cursor is left in    *)
(* the middle (RunningOK), a parallel's tally is what its children said    *)
(* (GotOK), and a cursor that is not at the start belongs to a node that   *)
(* last answered Running (MarkOK), as then did everything above it, unless *)
(* a parallel finished around it (BranchOK).                               *)
(***************************************************************************)

Told == answers
Kind(n) == tree[n].kind
Kids(n) == tree[n].children
Owners(n) == tree[n].owners

\* The child a node that executes has called, or calls next.
Cursor(n) == IF Kind(n) = "parallel" THEN Len(statuses[n]) + 1
             ELSE IF Kind(n) \in Composites THEN mark[n] + 1 ELSE 1

TreeTypes ==
  /\ tree \in Trees
  /\ mark \in [DOMAIN tree -> Nat]
  /\ statuses \in [DOMAIN tree -> Seq(Statuses)]
  /\ answers \in [DOMAIN tree -> Statuses \cup {"none"}]
  /\ brains \in [Brains -> [state : {"Idle", "Dead"}, time : Nat]]
  /\ turn \in 0..NumBrains /\ delta \in Nat
  /\ atNode \in DOMAIN tree \cup {0}
  /\ returned \in Statuses \cup {"none"}
  /\ atNode # 0 => turn # 0
  /\ atNode = 0 => returned = "none"

PathOK(n) ==
  Ticking(n) /\ n # atNode => Cursor(n) \in DOMAIN Kids(n) /\ Ticking(Kids(n)[Cursor(n)])

ReturnOK ==
  returned # "none" =>
    /\ Cursor(atNode) \in DOMAIN Kids(atNode)
    /\ Told[Kids(atNode)[Cursor(atNode)]] = returned

CursorOK(n) ==
  Kind(n) \in Composites =>
    /\ mark[n] <= Len(Kids(n))
    /\ \A j \in 1..mark[n] : Told[Kids(n)[j]] = Goes(Kind(n))

RunningOK(n) ==
  Kind(n) \in Composites =>
    \A j \in DOMAIN Kids(n) : Told[Kids(n)[j]] = "Running" => j = mark[n] + 1

GotOK(n) ==
  /\ statuses[n] # <<>> => Kind(n) = "parallel" /\ Ticking(n)
  /\ Len(statuses[n]) <= Len(Kids(n))
  /\ \A j \in 1..Len(statuses[n]) : statuses[n][j] = Told[Kids(n)[j]]

FollowOK(n) == ~Ticking(n) /\ Told[n] # "none" => Follows(n, Told)

MarkOK(n) ==
  /\ mark[n] # 0 => Kind(n) \in Composites \cup {"repeater"}
  /\ ~Ticking(n) /\ mark[n] # 0 => Told[n] = "Running"

BranchOK(n, m) ==
  n \in Owners(m) /\ ~Ticking(n) /\ Told[m] = "Running"
    => Told[n] = "Running" \/ FinishedAround(n, m)

TreeInv ==
  /\ TreeTypes
  /\ \A n \in DOMAIN tree : PathOK(n)
  /\ ReturnOK
  /\ \A n \in DOMAIN tree : CursorOK(n)
  /\ \A n \in DOMAIN tree : RunningOK(n)
  /\ \A n \in DOMAIN tree : GotOK(n)
  /\ \A n \in DOMAIN tree : FollowOK(n)
  /\ \A n \in DOMAIN tree : MarkOK(n)
  /\ \A n \in DOMAIN tree : \A m \in DOMAIN tree : BranchOK(n, m)

(***************************************************************************)
(* The steps, seen from the invariant: Tick() of a node returns, or it     *)
(* calls a child.                                                          *)
(***************************************************************************)

\* Tick() of the node returns status: it tells it, its tally is gone, nothing outside of its
\* branch has changed, and what is below is as it was or reset.
Leaves(status) ==
  /\ atNode # 0 /\ status \in Statuses /\ tree' = tree /\ TreeTypes'
  /\ atNode' = tree[atNode].parent
  /\ atNode' # 0 => returned' = status
  /\ \A n \in DOMAIN tree : n # atNode /\ atNode \notin Owners(n)
       => mark'[n] = mark[n] /\ Told'[n] = Told[n]
  /\ Told'[atNode] = status
  /\ \A n \in DOMAIN tree : statuses'[n] = IF n = atNode THEN <<>> ELSE statuses[n]
  /\ \/ \A n \in DOMAIN tree : atNode \in Owners(n) => mark'[n] = mark[n] /\ Told'[n] = Told[n]
     \/ \A n \in DOMAIN tree : atNode \in Owners(n) => mark'[n] = 0 /\ Told'[n] = "none"
  /\ mark'[atNode] # 0 => status = "Running" /\ Kind(atNode) \in Composites \cup {"repeater"}
  /\ \A n \in DOMAIN tree : n = atNode => (Follows(n, Told) /\ CursorOK(n) /\ RunningOK(n))'
  /\ Kind(atNode) # "parallel" =>
       \A k \in DOMAIN Kids(atNode) : Told'[Kids(atNode)[k]] = "Running" => status = "Running"

\* Where a node stands in its tree.
LEMMA NodeFacts ==
  ASSUME NEW t, IsTree(t), NEW n \in DOMAIN t
  PROVE  /\ n # 0 /\ n \notin t[n].owners /\ t[n].owners \subseteq DOMAIN t
         /\ n = 1 => t[n].parent = 0 /\ t[n].owners = {}
         /\ t[n].parent = 0 => n = 1
         /\ t[n].children \in Seq(DOMAIN t)
<1>1. /\ DOMAIN t \subseteq Nat \ {0} /\ t[1].parent = 0 /\ t[1].owners = {}
      /\ t[n].owners \subseteq DOMAIN t \ {n} /\ t[n].children \in Seq(DOMAIN t)
      /\ n # 1 => t[n].parent \in DOMAIN t
  BY DEF IsTree
<1>. QED BY <1>1

\* The child of a node, and what owns it.
LEMMA ChildFacts ==
  ASSUME NEW t, IsTree(t), NEW n \in DOMAIN t, NEW k \in DOMAIN t[n].children
  PROVE  /\ t[n].children[k] \in DOMAIN t
         /\ t[t[n].children[k]].parent = n
         /\ t[t[n].children[k]].owners = t[n].owners \cup {n}
         /\ t[n].children[k] # n /\ t[n].children[k] # 1
         /\ \A j \in DOMAIN t[n].children : t[n].children[j] = t[n].children[k] => j = k
<1>1. t[n].children \in Seq(DOMAIN t) /\ n # 0 /\ t[1].parent = 0
  BY NodeFacts DEF IsTree
<1>2. t[n].children[k] \in DOMAIN t
  BY <1>1
<1>3. /\ t[t[n].children[k]].parent = n
      /\ t[t[n].children[k]].owners = t[n].owners \cup {n}
      /\ \A j \in DOMAIN t[n].children : t[n].children[j] = t[n].children[k] => j = k
  BY DEF IsTree
<1>4. n \notin t[n].owners
  BY NodeFacts
<1>. QED BY <1>1, <1>2, <1>3, <1>4

\* The parent of a node and what owns that one own the node.
LEMMA ParentFacts ==
  ASSUME NEW t, IsTree(t), NEW n \in DOMAIN t, n # 1
  PROVE  /\ t[n].parent \in DOMAIN t
         /\ t[n].owners = t[t[n].parent].owners \cup {t[n].parent}
<1>1. /\ t[n].parent \in DOMAIN t
      /\ \E k \in DOMAIN t[t[n].parent].children : t[t[n].parent].children[k] = n
  BY DEF IsTree
<1>. QED BY <1>1, ChildFacts

\* What owns an owner owns the node, never the other way round; the way down is a child.
LEMMA OwnerFacts ==
  ASSUME NEW t, IsTree(t), NEW m \in DOMAIN t, NEW n \in t[m].owners
  PROVE  /\ n \in DOMAIN t /\ n # m
         /\ t[n].owners \subseteq t[m].owners /\ m \notin t[n].owners
         /\ \E k \in DOMAIN t[n].children : t[n].children[k] \in t[m].owners \cup {m}
<1>1. /\ t[m].owners \subseteq DOMAIN t \ {m} /\ t[n].owners \subseteq t[m].owners
      /\ \E k \in DOMAIN t[n].children : t[n].children[k] \in t[m].owners \cup {m}
  BY DEF IsTree
<1>. QED BY <1>1

\* The only child of a node that owns, or is, one of its children is that child.
LEMMA OneWayDown ==
  ASSUME NEW t, IsTree(t), NEW m \in DOMAIN t, m # 1, NEW k \in DOMAIN t[t[m].parent].children,
         t[t[m].parent].children[k] \in t[m].owners \cup {m}
  PROVE  t[t[m].parent].children[k] = m
<1> DEFINE p == t[m].parent
           c == t[p].children[k]
<1>1. p \in DOMAIN t /\ t[m].owners = t[p].owners \cup {p}
  BY ParentFacts
<1>2. c \in DOMAIN t /\ t[c].owners = t[p].owners \cup {p} /\ c # p
  BY <1>1, ChildFacts
<1>3. ASSUME c \in t[p].owners PROVE FALSE
  <2>1. t[c].owners \subseteq t[p].owners
    BY <1>1, <1>3, OwnerFacts
  <2>2. p \notin t[p].owners
    BY <1>1, NodeFacts
  <2>. QED BY <1>2, <2>1, <2>2
<1>. QED BY <1>1, <1>2, <1>3

\* Below a node at rest all nodes are at rest.
LEMMA RestBelow ==
  ASSUME IsTree(tree), atNode \in DOMAIN tree \cup {0}, NEW m \in DOMAIN tree,
         NEW n \in Owners(m), ~Ticking(n)
  PROVE  ~Ticking(m)
<1>1. SUFFICES ASSUME Ticking(m) PROVE FALSE
  OBVIOUS
<1>2. atNode \in DOMAIN tree /\ m \in tree[atNode].owners \cup {atNode}
  BY <1>1 DEF Ticking
<1>3. n \in tree[atNode].owners
  BY <1>2, OwnerFacts DEF Owners
<1>. QED BY <1>2, <1>3, NodeFacts DEF Ticking

\* Of the nodes outside of the branch of a node, only its parent has it for a child, and
\* none a node below it.
LEMMA ChildOutside ==
  ASSUME NEW t, IsTree(t), NEW r \in DOMAIN t, NEW n \in DOMAIN t, n # r, r \notin t[n].owners,
         NEW k \in DOMAIN t[n].children
  PROVE  /\ r \notin t[t[n].children[k]].owners
         /\ t[n].children[k] = r => n = t[r].parent
BY ChildFacts

\* A node's meaning depends on its own and its children's answers, and on its cursor.
LEMMA FollowsSame ==
  ASSUME NEW n \in DOMAIN tree, tree' = tree, mark'[n] = mark[n], Told'[n] = Told[n],
         \A k \in DOMAIN Kids(n) : Told'[Kids(n)[k]] = Told[Kids(n)[k]],
         IsTree(tree), Follows(n, Told)
  PROVE  Follows(n, Told)'
<1>1. /\ Kind(n) \in Composites \cup Decorators \cup {"leaf", "parallel"} /\ Kids(n) \in Seq(DOMAIN tree)
      /\ Kind(n) \in Decorators => 1 \in DOMAIN Kids(n)
  BY DEF IsTree, Kind, Kids
<1>2. CASE Kind(n) = "leaf"
  BY <1>2 DEF Follows, Kind, Composites
<1>3. CASE Kind(n) \in Composites
  <2> DEFINE go == Goes(Kind(n))
             Means(a) == IF a[n] = go THEN \A k \in DOMAIN Kids(n) : a[Kids(n)[k]] = go
                         ELSE \E k \in DOMAIN Kids(n) :
                                a[Kids(n)[k]] = a[n] /\ \A j \in 1..k - 1 : a[Kids(n)[j]] = go
  <2>1. Means(Told)
    BY <1>3 DEF Follows, Kind, Kids, Composites
  <2>2. \A k \in DOMAIN Kids(n) : \A j \in 1..k - 1 : j \in DOMAIN Kids(n)
    BY <1>1
  <2>3. Means(Told')
    BY <2>1, <2>2
  <2>. QED BY <1>3, <2>3 DEF Follows, Kind, Kids, Composites
<1>4. CASE Kind(n) = "parallel"
  <2>1. [k \in DOMAIN Kids(n) |-> Told'[Kids(n)[k]]] = [k \in DOMAIN Kids(n) |-> Told[Kids(n)[k]]]
    OBVIOUS
  <2>2. Told[n] = ParallelStatus(tree[n].policy, [k \in DOMAIN Kids(n) |-> Told[Kids(n)[k]]])
    BY <1>4 DEF Follows, Kind, Kids, Composites
  <2>3. Told'[n] = ParallelStatus(tree[n].policy, [k \in DOMAIN Kids(n) |-> Told'[Kids(n)[k]]])
    BY <2>1, <2>2
  <2>. QED BY <1>4, <2>3 DEF Follows, Kind, Kids, Composites
<1>5. CASE Kind(n) = "inverter"
  BY <1>1, <1>5 DEF Follows, Kind, Kids, Composites, Decorators
<1>6. CASE Kind(n) = "repeater"
  BY <1>1, <1>6 DEF Follows, Kind, Kids, Composites, Decorators
<1>. QED BY <1>1, <1>2, <1>3, <1>4, <1>5, <1>6 DEF Decorators

\* The child at the cursor decides a composite that does not go on.
LEMMA CompositeFollows ==
  ASSUME NEW r \in DOMAIN tree, tree' = tree, Kind(r) \in Composites, Kids(r) \in Seq(DOMAIN tree),
         NEW c \in Nat, c + 1 \in DOMAIN Kids(r), NEW status, status # Goes(Kind(r)),
         Told[Kids(r)[c + 1]] = status, \A j \in 1..c : Told[Kids(r)[j]] = Goes(Kind(r)),
         Told'[r] = status, \A k \in DOMAIN Kids(r) : Told'[Kids(r)[k]] = Told[Kids(r)[k]]
  PROVE  Follows(r, Told)'
<1>1. \A j \in 1..(c + 1) - 1 : j \in 1..c /\ j \in DOMAIN Kids(r)
  OBVIOUS
<1>2. \A j \in 1..(c + 1) - 1 : Told'[Kids(r)[j]] = Goes(Kind(r))
  BY <1>1
<1>3. \E k \in DOMAIN Kids(r) : Told'[Kids(r)[k]] = Told'[r] /\ \A j \in 1..k - 1 : Told'[Kids(r)[j]] = Goes(Kind(r))
  BY <1>2
<1>. QED BY <1>3 DEF Follows, Kind, Kids, Composites

\* The invariant says what trees promise.
LEMMA TreeAnswers ==
  ASSUME TreeInv
  PROVE  TreeResumes
<1>0. IsTree(tree) /\ atNode \in DOMAIN tree \cup {0}
  BY BrainAssumption DEF TreeInv, TreeTypes
<1> SUFFICES ASSUME NEW n \in DOMAIN tree, ~Ticking(n), Told[n] # "none"
             PROVE  /\ Follows(n, Told)
                    /\ Told[n] # "Running" =>
                         \A m \in Branch(n) : mark[m] = 0 \/ FinishedAround(n, m)
  BY Zenon DEF TreeResumes, Told
<1>1. Follows(n, Told)
  BY DEF TreeInv, FollowOK
<1>2. ASSUME Told[n] # "Running", NEW m \in Branch(n), mark[m] # 0
      PROVE  FinishedAround(n, m)
  <2>1. m \in DOMAIN tree /\ (m = n \/ n \in Owners(m))
    BY <1>2 DEF Branch, Owners
  <2>2. ~Ticking(m)
    BY <1>0, <2>1, RestBelow
  <2>3. Told[m] = "Running"
    BY <1>2, <2>1, <2>2 DEF TreeInv, MarkOK
  <2>4. m # n
    BY <1>2, <2>3
  <2>5. BranchOK(n, m)
    BY <2>1 DEF TreeInv
  <2>. QED BY <1>2, <2>1, <2>3, <2>4, <2>5 DEF BranchOK
<1>. QED BY <1>1, <1>2

\* What is in progress after a return: what was, without the node.
LEMMA LeavesRest ==
  ASSUME TreeInv, IsTree(tree), NEW status, Leaves(status), NEW n \in DOMAIN tree
  PROVE  Ticking(n)' <=> Ticking(n) /\ n # atNode
<1>1. atNode \in DOMAIN tree /\ tree' = tree /\ atNode' = tree[atNode].parent /\ atNode \notin tree[atNode].owners
  BY NodeFacts DEF TreeInv, TreeTypes, Leaves
<1>2. CASE atNode = 1
  <2>1. atNode' = 0 /\ tree[atNode].owners = {}
    BY <1>1, <1>2, NodeFacts
  <2>. QED BY <1>1, <2>1 DEF Ticking
<1>3. CASE atNode # 1
  <2>1. /\ atNode' \in DOMAIN tree /\ tree[atNode].owners = tree[atNode'].owners \cup {atNode'}
    BY <1>1, <1>3, ParentFacts
  <2>2. atNode' # 0 /\ atNode # 0
    BY <2>1, <1>1, NodeFacts
  <2>. QED BY <1>1, <2>1, <2>2 DEF Ticking
<1>. QED BY <1>2, <1>3

\* The nodes outside of the branch keep their tallies, cursors and answers, and those of
\* their children but for the node itself, which its parent has at its cursor.
LEMMA LeavesOutside ==
  ASSUME TreeInv, IsTree(tree), NEW status, Leaves(status),
         NEW n \in DOMAIN tree, n # atNode, atNode \notin Owners(n)
  PROVE  /\ mark'[n] = mark[n] /\ Told'[n] = Told[n] /\ statuses'[n] = statuses[n]
         /\ Cursor(n)' = Cursor(n)
         /\ \A k \in DOMAIN Kids(n) :
              \/ Told'[Kids(n)[k]] = Told[Kids(n)[k]]
              \/ Kids(n)[k] = atNode /\ n = tree[atNode].parent /\ k = Cursor(n) /\ Ticking(n)
<1>1. atNode \in DOMAIN tree /\ tree' = tree /\ atNode # 0
  BY DEF TreeInv, TreeTypes, Leaves
<1>2. mark'[n] = mark[n] /\ Told'[n] = Told[n] /\ statuses'[n] = statuses[n]
  BY DEF Leaves
<1>3. Cursor(n)' = Cursor(n)
  BY <1>1, <1>2 DEF Cursor, Kind
<1>4. ASSUME NEW k \in DOMAIN Kids(n)
      PROVE  \/ Told'[Kids(n)[k]] = Told[Kids(n)[k]]
             \/ Kids(n)[k] = atNode /\ n = tree[atNode].parent /\ k = Cursor(n) /\ Ticking(n)
  <2> DEFINE c == Kids(n)[k]
  <2>1. c \in DOMAIN tree /\ atNode \notin Owners(c) /\ (c = atNode => n = tree[atNode].parent)
    BY <1>1, ChildFacts, ChildOutside DEF Kids, Owners
  <2>2. CASE c # atNode
    BY <2>1, <2>2 DEF Leaves
  <2>3. CASE c = atNode
    <3>1. n = tree[atNode].parent /\ atNode # 1
      BY <2>1, <2>3, ChildFacts DEF Kids
    <3>2. n \in tree[atNode].owners
      BY <1>1, <3>1, ParentFacts
    <3>3. Ticking(n)
      BY <1>1, <3>2 DEF Ticking
    <3>4. Cursor(n) \in DOMAIN Kids(n) /\ Ticking(Kids(n)[Cursor(n)])
      BY <3>3 DEF TreeInv, PathOK
    <3>5. Kids(n)[Cursor(n)] = atNode
      BY <1>1, <3>1, <3>4, OneWayDown DEF Ticking, Kids
    <3>6. k = Cursor(n)
      BY <2>3, <3>4, <3>5, ChildFacts DEF Kids
    <3>. QED BY <2>3, <3>1, <3>3, <3>6
  <2>. QED BY <2>2, <2>3
<1>. QED BY <1>2, <1>3, <1>4

\* The calls still in progress wait at their cursors.
LEMMA LeavesPath ==
  ASSUME TreeInv, IsTree(tree), NEW status, Leaves(status), NEW n \in DOMAIN tree
  PROVE  PathOK(n)'
<1>1. atNode \in DOMAIN tree /\ tree' = tree /\ atNode # 0 /\ atNode' = tree[atNode].parent
  BY DEF TreeInv, TreeTypes, Leaves
<1> SUFFICES ASSUME Ticking(n)', n # atNode'
             PROVE  (Cursor(n) \in DOMAIN Kids(n) /\ Ticking(Kids(n)[Cursor(n)]))'
  BY DEF PathOK
<1>2. Ticking(n) /\ n # atNode
  BY LeavesRest
<1>3. atNode \notin Owners(n)
  BY <1>1, <1>2, OwnerFacts DEF Ticking, Owners
<1>4. Cursor(n)' = Cursor(n)
  BY <1>2, <1>3, LeavesOutside
<1>5. Cursor(n) \in DOMAIN Kids(n) /\ Ticking(Kids(n)[Cursor(n)])
  BY <1>2 DEF TreeInv, PathOK
<1>6. Kids(n)[Cursor(n)] \in DOMAIN tree /\ Kids(n)[Cursor(n)] # atNode
  BY <1>1, <1>5, ChildFacts DEF Kids
<1>7. PICK c \in DOMAIN tree : c = Kids(n)[Cursor(n)]
  BY <1>6
<1>8. Ticking(c)'
  BY <1>5, <1>6, <1>7, LeavesRest
<1>9. c = (Kids(n)[Cursor(n)])'
  BY <1>1, <1>4, <1>7 DEF Kids
<1>. QED BY <1>1, <1>4, <1>5, <1>8, <1>9 DEF Ticking, Kids

\* The parent is told what the child at its cursor answered.
LEMMA LeavesReturn ==
  ASSUME TreeInv, IsTree(tree), NEW status, Leaves(status)
  PROVE  ReturnOK'
<1>1. atNode \in DOMAIN tree /\ tree' = tree /\ atNode # 0 /\ atNode' = tree[atNode].parent
  BY DEF TreeInv, TreeTypes, Leaves
<1>2. CASE atNode' = 0
  BY <1>2 DEF Leaves, TreeTypes, ReturnOK
<1>3. CASE atNode' # 0
  <2>1. atNode # 1
    BY <1>1, <1>3, NodeFacts
  <2>9. PICK p \in DOMAIN tree : p = tree[atNode].parent
    BY <1>1, <2>1, ParentFacts
  <2>2. p \in DOMAIN tree /\ p \in tree[atNode].owners
    BY <1>1, <2>1, <2>9, ParentFacts
  <2>3. Ticking(p) /\ p # atNode /\ atNode \notin Owners(p)
    BY <1>1, <2>2, OwnerFacts DEF Ticking, Owners
  <2>4. Cursor(p) \in DOMAIN Kids(p) /\ Ticking(Kids(p)[Cursor(p)])
    BY <2>2, <2>3 DEF TreeInv, PathOK
  <2>5. Kids(p)[Cursor(p)] = atNode
    BY <1>1, <2>1, <2>4, <2>9, OneWayDown DEF Ticking, Kids
  <2>6. Cursor(p)' = Cursor(p)
    BY <2>2, <2>3, LeavesOutside
  <2>7. returned' = status /\ Told'[atNode] = status
    BY <1>3 DEF Leaves
  <2>8. Kids(p)' = Kids(p) /\ atNode' = p
    BY <1>1, <2>9 DEF Kids
  <2>. QED BY <1>1, <2>4, <2>5, <2>6, <2>7, <2>8 DEF ReturnOK, Kids, Cursor, Kind
<1>. QED BY <1>2, <1>3

\* Below the node all are at rest; they and their children are as they were, or reset.
LEMMA LeavesBelow ==
  ASSUME TreeInv, IsTree(tree), NEW status, Leaves(status),
         NEW n \in DOMAIN tree, atNode \in Owners(n)
  PROVE  /\ ~Ticking(n) /\ ~Ticking(n)' /\ n # atNode /\ statuses'[n] = statuses[n]
         /\ \/ /\ mark'[n] = mark[n] /\ Told'[n] = Told[n]
               /\ \A k \in DOMAIN Kids(n) : Told'[Kids(n)[k]] = Told[Kids(n)[k]]
            \/ /\ mark'[n] = 0 /\ Told'[n] = "none"
               /\ \A k \in DOMAIN Kids(n) : Told'[Kids(n)[k]] = "none"
<1>1. atNode \in DOMAIN tree /\ atNode # 0
  BY DEF TreeInv, TreeTypes, Leaves
<1>2. n # atNode /\ n \notin tree[atNode].owners
  BY OwnerFacts DEF Owners
<1>3. ~Ticking(n) /\ ~Ticking(n)'
  <2>1. ~Ticking(n)
    BY <1>2 DEF Ticking
  <2>. QED BY <2>1, LeavesRest
<1>4. \A k \in DOMAIN Kids(n) : Kids(n)[k] \in DOMAIN tree /\ atNode \in Owners(Kids(n)[k])
  BY ChildFacts DEF Kids, Owners
<1>5. statuses'[n] = statuses[n]
  BY <1>2 DEF Leaves
<1>6. CASE \A m \in DOMAIN tree : atNode \in Owners(m) => mark'[m] = mark[m] /\ Told'[m] = Told[m]
  BY <1>2, <1>3, <1>4, <1>5, <1>6
<1>7. CASE \A m \in DOMAIN tree : atNode \in Owners(m) => mark'[m] = 0 /\ Told'[m] = "none"
  BY <1>2, <1>3, <1>4, <1>5, <1>7
<1>. QED BY <1>6, <1>7 DEF Leaves

\* The children before a cursor still have answered go.
LEMMA LeavesCursor ==
  ASSUME TreeInv, IsTree(tree), NEW status, Leaves(status), NEW n \in DOMAIN tree
  PROVE  CursorOK(n)'
<1>1. tree' = tree /\ Kind(n)' = Kind(n) /\ Kids(n)' = Kids(n) /\ mark \in [DOMAIN tree -> Nat]
      /\ Kids(n) \in Seq(DOMAIN tree) /\ CursorOK(n) /\ atNode \in DOMAIN tree
  BY NodeFacts DEF TreeInv, TreeTypes, Leaves, Kind, Kids
<1>2. CASE n = atNode
  BY <1>2 DEF Leaves
<1>3. CASE atNode \in Owners(n)
  <2>1. CASE /\ mark'[n] = mark[n]
             /\ \A k \in DOMAIN Kids(n) : Told'[Kids(n)[k]] = Told[Kids(n)[k]]
    BY <1>1, <2>1 DEF CursorOK
  <2>2. CASE mark'[n] = 0
    BY <1>1, <2>2 DEF CursorOK
  <2>. QED BY <1>3, <2>1, <2>2, LeavesBelow
<1>4. CASE n # atNode /\ atNode \notin Owners(n)
  <2>1. mark'[n] = mark[n]
    BY <1>4, LeavesOutside
  <2>2. ASSUME Kind(n) \in Composites, NEW j \in 1..mark[n]
        PROVE  Told'[Kids(n)[j]] = Goes(Kind(n))
    <3>1. Told[Kids(n)[j]] = Goes(Kind(n)) /\ j \in DOMAIN Kids(n) /\ j # mark[n] + 1
      BY <1>1, <2>2 DEF CursorOK
    <3>2. Cursor(n) = mark[n] + 1
      BY <2>2 DEF Cursor, Composites
    <3>. QED BY <1>4, <3>1, <3>2, LeavesOutside
  <2>. QED BY <1>1, <2>1, <2>2 DEF CursorOK
<1>. QED BY <1>2, <1>3, <1>4

\* No other child than the one at a cursor is left in the middle.
LEMMA LeavesRunning ==
  ASSUME TreeInv, IsTree(tree), NEW status, Leaves(status), NEW n \in DOMAIN tree
  PROVE  RunningOK(n)'
<1>1. tree' = tree /\ Kind(n)' = Kind(n) /\ Kids(n)' = Kids(n) /\ mark \in [DOMAIN tree -> Nat]
      /\ Kids(n) \in Seq(DOMAIN tree) /\ RunningOK(n) /\ atNode \in DOMAIN tree
  BY NodeFacts DEF TreeInv, TreeTypes, Leaves, Kind, Kids
<1>2. CASE n = atNode
  BY <1>2 DEF Leaves
<1>3. CASE atNode \in Owners(n)
  <2>1. CASE /\ mark'[n] = mark[n]
             /\ \A k \in DOMAIN Kids(n) : Told'[Kids(n)[k]] = Told[Kids(n)[k]]
    BY <1>1, <2>1 DEF RunningOK
  <2>2. CASE \A k \in DOMAIN Kids(n) : Told'[Kids(n)[k]] = "none"
    BY <1>1, <2>2 DEF RunningOK
  <2>. QED BY <1>3, <2>1, <2>2, LeavesBelow
<1>4. CASE n # atNode /\ atNode \notin Owners(n)
  <2>1. mark'[n] = mark[n]
    BY <1>4, LeavesOutside
  <2>2. ASSUME Kind(n) \in Composites, NEW j \in DOMAIN Kids(n), Told'[Kids(n)[j]] = "Running"
        PROVE  j = mark[n] + 1
    <3>2. Cursor(n) = mark[n] + 1
      BY <2>2 DEF Cursor, Composites
    <3>. QED BY <1>1, <1>4, <2>2, <3>2, LeavesOutside DEF RunningOK
  <2>. QED BY <1>1, <2>1, <2>2 DEF RunningOK
<1>. QED BY <1>2, <1>3, <1>4

\* A tally still is what the children said.
LEMMA LeavesGot ==
  ASSUME TreeInv, IsTree(tree), NEW status, Leaves(status), NEW n \in DOMAIN tree
  PROVE  GotOK(n)'
<1>1. tree' = tree /\ Kind(n)' = Kind(n) /\ Kids(n)' = Kids(n) /\ statuses[n] \in Seq(Statuses)
      /\ Kids(n) \in Seq(DOMAIN tree) /\ GotOK(n) /\ atNode \in DOMAIN tree
  BY NodeFacts DEF TreeInv, TreeTypes, Leaves, Kind, Kids
<1>2. CASE n = atNode
  <2>1. statuses'[n] = <<>>
    BY <1>2 DEF Leaves
  <2>. QED BY <1>1, <2>1 DEF GotOK
<1>3. CASE atNode \in Owners(n)
  <2>1. statuses'[n] = <<>>
    BY <1>1, <1>3, LeavesBelow DEF GotOK
  <2>. QED BY <1>1, <2>1 DEF GotOK
<1>4. CASE n # atNode /\ atNode \notin Owners(n)
  <2>1. statuses'[n] = statuses[n]
    BY <1>4, LeavesOutside
  <2>2. statuses[n] # <<>> => Kind(n) = "parallel" /\ Ticking(n)'
    BY <1>1, <1>4, LeavesRest DEF GotOK
  <2>3. ASSUME NEW j \in 1..Len(statuses[n])
        PROVE  statuses[n][j] = Told'[Kids(n)[j]]
    <3>1. statuses[n] # <<>> /\ j \in DOMAIN Kids(n) /\ statuses[n][j] = Told[Kids(n)[j]]
      BY <1>1, <2>3 DEF GotOK
    <3>2. Cursor(n) = Len(statuses[n]) + 1
      BY <1>1, <3>1 DEF Cursor, GotOK
    <3>3. j # Cursor(n)
      BY <1>1, <2>3, <3>2
    <3>. QED BY <1>4, <3>1, <3>3, LeavesOutside
  <2>. QED BY <1>1, <2>1, <2>2, <2>3 DEF GotOK
<1>. QED BY <1>2, <1>3, <1>4

\* A node that is left in the middle answered Running.
LEMMA LeavesMark ==
  ASSUME TreeInv, IsTree(tree), NEW status, Leaves(status), NEW n \in DOMAIN tree
  PROVE  MarkOK(n)'
<1>1. tree' = tree /\ Kind(n)' = Kind(n) /\ MarkOK(n) /\ (Ticking(n)' <=> Ticking(n) /\ n # atNode)
  BY LeavesRest DEF TreeInv, Leaves, Kind
<1>2. CASE n = atNode
  BY <1>1, <1>2 DEF MarkOK, Leaves
<1>3. CASE atNode \in Owners(n)
  BY <1>1, <1>3, LeavesBelow DEF MarkOK
<1>4. CASE n # atNode /\ atNode \notin Owners(n)
  BY <1>1, <1>4, LeavesOutside DEF MarkOK
<1>. QED BY <1>2, <1>3, <1>4

\* Answers still follow from those of the children.
LEMMA LeavesFollow ==
  ASSUME TreeInv, IsTree(tree), NEW status, Leaves(status), NEW n \in DOMAIN tree
  PROVE  FollowOK(n)'
<1>1. tree' = tree /\ Kind(n)' = Kind(n) /\ Kids(n)' = Kids(n)
      /\ FollowOK(n) /\ (Ticking(n)' <=> Ticking(n) /\ n # atNode)
  BY LeavesRest DEF TreeInv, Leaves, Kind, Kids
<1>2. CASE n = atNode
  BY <1>2 DEF Leaves, FollowOK
<1>3. SUFFICES ASSUME n # atNode, ~Ticking(n), Told'[n] # "none" PROVE Follows(n, Told)'
  BY <1>1, <1>2 DEF FollowOK
<1>4. /\ mark'[n] = mark[n] /\ Told'[n] = Told[n]
      /\ \A k \in DOMAIN Kids(n) : Told'[Kids(n)[k]] = Told[Kids(n)[k]]
  <2>1. CASE atNode \in Owners(n)
    BY <1>3, <2>1, LeavesBelow
  <2>2. CASE atNode \notin Owners(n)
    BY <1>3, <2>2, LeavesOutside
  <2>. QED BY <2>1, <2>2
<1>5. Follows(n, Told)
  BY <1>1, <1>3, <1>4 DEF FollowOK
<1>. QED BY <1>1, <1>4, <1>5, FollowsSame

\* What is said of the way to a node that is left in the middle is still said of it.
LEMMA LeavesWay ==
  ASSUME TreeInv, IsTree(tree), NEW status, Leaves(status), NEW m \in DOMAIN tree, m # atNode,
         Told'[m] = "Running", NEW q \in Owners(m) \cup {m}, q # atNode
  PROVE  q \in DOMAIN tree /\ Told'[q] = Told[q]
<1>1. q \in DOMAIN tree /\ (atNode \in Owners(q) => atNode \in Owners(m))
  BY OwnerFacts DEF Owners
<1>2. CASE atNode \notin Owners(q)
  BY <1>1, <1>2 DEF Leaves
<1>3. CASE atNode \in Owners(q)
  <2>1. ~(\A n \in DOMAIN tree : atNode \in Owners(n) => mark'[n] = 0 /\ Told'[n] = "none")
    BY <1>1, <1>3
  <2>. QED BY <1>1, <1>3, <2>1 DEF Leaves
<1>. QED BY <1>1, <1>2, <1>3

\* A parallel that finished around a node outside of the returning one still has.
LEMMA LeavesAround ==
  ASSUME TreeInv, IsTree(tree), NEW status, Leaves(status), NEW n \in DOMAIN tree,
         NEW m \in DOMAIN tree, m # atNode, Told'[m] = "Running", FinishedAround(n, m),
         atNode \notin Branch(n)
  PROVE  FinishedAround(n, m)'
<1>1. PICK p \in Branch(n) \cap tree[m].owners :
        /\ tree[p].kind = "parallel" /\ Told[p] \in {"Success", "Failure"}
        /\ \E k \in DOMAIN tree[p].children :
             /\ tree[p].children[k] \in tree[m].owners \cup {m}
             /\ Told[tree[p].children[k]] = "Running"
  BY DEF FinishedAround, Told
<1>2. PICK k \in DOMAIN tree[p].children :
        /\ tree[p].children[k] \in tree[m].owners \cup {m}
        /\ Told[tree[p].children[k]] = "Running"
  BY <1>1
<1>3. PICK c \in DOMAIN tree : c = tree[p].children[k] /\ p \in DOMAIN tree /\ p \in tree[c].owners
  BY <1>1, <1>2, ChildFacts DEF Branch
<1>4. p # atNode /\ c # atNode
  <2>1. n = p \/ n \in tree[p].owners
    BY <1>1 DEF Branch
  <2>2. n \in tree[c].owners
    BY <1>3, <2>1, OwnerFacts
  <2>. QED BY <1>1, <1>3, <2>2 DEF Branch
<1>5. Told'[p] = Told[p] /\ Told'[c] = Told[c]
  BY <1>1, <1>2, <1>3, <1>4, LeavesWay DEF Owners
<1>6. tree' = tree /\ Branch(n)' = Branch(n)
  BY DEF Leaves, Branch
<1>. QED BY <1>1, <1>2, <1>3, <1>5, <1>6 DEF FinishedAround, Told

\* Above a node that is left in the middle all answered Running, or a parallel finished.
LEMMA LeavesBranch ==
  ASSUME TreeInv, IsTree(tree), NEW status, Leaves(status), NEW n \in DOMAIN tree, NEW m \in DOMAIN tree
  PROVE  BranchOK(n, m)'
<1>1. tree' = tree /\ atNode \in DOMAIN tree /\ atNode # 0 /\ BranchOK(n, m)
      /\ (Ticking(n)' <=> Ticking(n) /\ n # atNode)
  BY LeavesRest DEF TreeInv, TreeTypes, Leaves
<1>2. SUFFICES ASSUME n \in Owners(m), ~Ticking(n)', Told'[m] = "Running"
               PROVE  Told'[n] = "Running" \/ FinishedAround(n, m)'
  BY <1>1 DEF BranchOK, Owners
<1>3. CASE n = atNode
  <2>1. Told[m] = "Running" /\ m # atNode
    BY <1>2, <1>3, LeavesBelow, OwnerFacts DEF Owners
  <2>2. PICK k \in DOMAIN Kids(n) : Kids(n)[k] \in Owners(m) \cup {m}
    BY <1>2, OwnerFacts DEF Kids, Owners
  <2>3. PICK c \in DOMAIN tree : c = Kids(n)[k]
    BY <2>2, ChildFacts DEF Kids
  <2>4. n \in Owners(c) /\ Owners(c) = Owners(n) \cup {n} /\ c # n
    BY <2>2, <2>3, ChildFacts DEF Kids, Owners
  <2>5. Told'[c] = Told[c]
    BY <1>2, <1>3, <2>1, <2>2, <2>3, <2>4, LeavesWay
  <2>6. ~Ticking(c)
    BY <1>3, <2>3, <2>4, LeavesBelow
  <2>7. Told[c] = "Running" \/ FinishedAround(c, m)
    <3>1. BranchOK(c, m)
      BY <2>3 DEF TreeInv
    <3>. QED BY <2>1, <2>2, <2>3, <2>6, <3>1 DEF BranchOK
  <2>8. CASE FinishedAround(c, m)
    <3>1. atNode \notin Branch(c)
      BY <1>3, <2>3, <2>4, OwnerFacts DEF Branch, Owners
    <3>2. FinishedAround(c, m)'
      BY <1>2, <2>1, <2>3, <2>8, <3>1, LeavesAround
    <3>3. Branch(c)' \subseteq Branch(n)'
      <4>1. \A b \in DOMAIN tree : c \in Owners(b) => n \in Owners(b)
        BY <2>3, <2>4, OwnerFacts DEF Owners
      <4>. QED BY <1>1, <2>4, <4>1 DEF Branch, Owners
    <3>. QED BY <3>2, <3>3 DEF FinishedAround
  <2>9. CASE Told[c] = "Running" /\ Kind(n) # "parallel"
    <3>1. status = "Running"
      BY <1>3, <2>2, <2>3, <2>5, <2>9 DEF Leaves
    <3>. QED BY <1>3, <3>1 DEF Leaves
  <2>10. CASE Told[c] = "Running" /\ Kind(n) = "parallel"
    <3>1. CASE status = "Running"
      BY <1>3, <3>1 DEF Leaves
    <3>2. CASE status \in {"Success", "Failure"}
      <4>1. Told'[n] \in {"Success", "Failure"} /\ Told'[Kids(n)[k]] = "Running"
        BY <1>3, <2>3, <2>5, <2>10, <3>2 DEF Leaves
      <4>2. n \in Branch(n)'
        BY <1>1 DEF Branch
      <4>. QED BY <1>1, <1>2, <2>2, <2>10, <4>1, <4>2 DEF FinishedAround, Kids, Kind, Owners, Told
    <3>. QED BY <3>1, <3>2 DEF Leaves, Statuses
  <2>. QED BY <2>7, <2>8, <2>9, <2>10
<1>4. CASE n # atNode
  <2>1. ~Ticking(n) /\ m # atNode /\ n \notin tree[atNode].owners
    BY <1>1, <1>2, <1>4 DEF Ticking, Owners
  <2>2. Told'[m] = Told[m] /\ Told'[n] = Told[n]
    BY <1>2, <1>4, <2>1, LeavesWay
  <2>3. CASE Told[n] = "Running"
    BY <2>2, <2>3
  <2>4. CASE FinishedAround(n, m)
    <3>1. atNode \notin Branch(n)
      BY <1>4, <2>1 DEF Branch
    <3>. QED BY <1>2, <2>1, <2>4, <3>1, LeavesAround
  <2>. QED BY <1>1, <1>2, <2>1, <2>2, <2>3, <2>4 DEF BranchOK
<1>. QED BY <1>3, <1>4

\* A return keeps the invariant.
LEMMA LeavesKeeps ==
  ASSUME TreeInv, IsTree(tree), NEW status, Leaves(status)
  PROVE  TreeInv'
<1>1. TreeTypes' /\ tree' = tree
  BY DEF Leaves
<1>. QED
  BY <1>1, LeavesPath, LeavesReturn, LeavesCursor, LeavesRunning, LeavesGot, LeavesFollow,
     LeavesMark, LeavesBranch DEF TreeInv

\* A node calls the child its cursor points at.
LEMMA CallKeeps ==
  ASSUME TreeInv, IsTree(tree), tree' = tree, atNode # 0, returned = "none",
         Cursor(atNode) \in DOMAIN Kids(atNode), CallChild(Cursor(atNode))
  PROVE  TreeInv'
<1>1. PICK r \in DOMAIN tree : r = atNode
  BY DEF TreeInv, TreeTypes
<1>2. PICK c \in DOMAIN tree : c = Kids(r)[Cursor(r)]
  BY <1>1, ChildFacts DEF Kids
<1>3. /\ atNode' = c /\ returned' = "none" /\ mark' = mark /\ statuses' = statuses
      /\ answers' = answers /\ brains' = brains /\ turn' = turn /\ delta' = delta /\ Told' = Told
  BY <1>1, <1>2 DEF CallChild, Here, Kids, frameVars, toldVars, Told
<1>4. c # 0 /\ Owners(c) = Owners(r) \cup {r}
  BY <1>1, <1>2, ChildFacts, NodeFacts DEF Kids, Owners
<1>5. \A n \in DOMAIN tree : Ticking(n)' <=> Ticking(n) \/ n = c
  BY <1>1, <1>3, <1>4 DEF Ticking, Owners
<1>6. TreeTypes'
  BY <1>3 DEF TreeInv, TreeTypes
<1>7. ASSUME NEW n \in DOMAIN tree PROVE PathOK(n)'
  <2>1. SUFFICES ASSUME Ticking(n)', n # c
                 PROVE  (Cursor(n) \in DOMAIN Kids(n) /\ Ticking(Kids(n)[Cursor(n)]))'
    BY <1>3 DEF PathOK
  <2>2. Ticking(n) /\ Cursor(n)' = Cursor(n) /\ Kids(n)' = Kids(n)
    BY <1>3, <1>5, <2>1 DEF Cursor, Kind, Kids
  <2>3. Cursor(n) \in DOMAIN Kids(n)
    BY <1>1, <2>2 DEF TreeInv, PathOK
  <2>4. PICK d \in DOMAIN tree : d = Kids(n)[Cursor(n)]
    BY <2>3, ChildFacts DEF Kids
  <2>5. Ticking(d)'
    BY <1>1, <1>2, <1>5, <2>2, <2>4 DEF TreeInv, PathOK
  <2>6. d = (Kids(n)[Cursor(n)])'
    BY <2>2, <2>4
  <2>. QED BY <2>2, <2>3, <2>5, <2>6 DEF Ticking
<1>8. ReturnOK'
  BY <1>3 DEF ReturnOK
<1>9. ASSUME NEW n \in DOMAIN tree
      PROVE  (CursorOK(n) /\ RunningOK(n) /\ GotOK(n) /\ FollowOK(n) /\ MarkOK(n))'
  <2>1. CursorOK(n)' /\ RunningOK(n)'
    BY <1>3 DEF TreeInv, CursorOK, RunningOK, Kind, Kids
  <2>2. GotOK(n)'
    BY <1>3, <1>5 DEF TreeInv, GotOK, Kind, Kids
  <2>3. FollowOK(n)'
    <3>1. Follows(n, Told) => Follows(n, Told)'
      BY <1>3, FollowsSame
    <3>. QED BY <1>3, <1>5, <3>1 DEF TreeInv, FollowOK
  <2>4. MarkOK(n)'
    BY <1>3, <1>5 DEF TreeInv, MarkOK, Kind
  <2>. QED BY <2>1, <2>2, <2>3, <2>4
<1>10. ASSUME NEW n \in DOMAIN tree, NEW m \in DOMAIN tree PROVE BranchOK(n, m)'
  BY <1>3, <1>5 DEF TreeInv, BranchOK, FinishedAround, Owners, Branch, Told
<1>. QED BY <1>6, <1>7, <1>8, <1>9, <1>10 DEF TreeInv

\* Between the calls of the root only AISystem::Execute() itself moves.
LEMMA FrameKeeps ==
  ASSUME TreeInv, IsTree(tree), tree' = tree, atNode = 0, atNode' \in {0, 1}, treeUnchanged,
         TreeTypes'
  PROVE  TreeInv'
<1>1. /\ returned' = "none" /\ mark' = mark /\ statuses' = statuses /\ answers' = answers /\ Told' = Told
  BY DEF treeUnchanged, toldVars, Told, TreeInv, TreeTypes
<1>2. \A n \in DOMAIN tree : ~Ticking(n) /\ (Ticking(n)' => n = atNode')
  <2>1. tree[1].owners = {}
    BY DEF IsTree
  <2>. QED BY <2>1 DEF Ticking
<1>3. ASSUME NEW n \in DOMAIN tree
      PROVE  (PathOK(n) /\ CursorOK(n) /\ RunningOK(n) /\ GotOK(n) /\ FollowOK(n) /\ MarkOK(n))'
  <2>1. CursorOK(n)' /\ RunningOK(n)'
    BY <1>1 DEF TreeInv, CursorOK, RunningOK, Kind, Kids
  <2>2. GotOK(n)'
    BY <1>1, <1>2 DEF TreeInv, GotOK, Kind, Kids
  <2>3. FollowOK(n)'
    <3>1. Follows(n, Told) => Follows(n, Told)'
      BY <1>1, FollowsSame
    <3>. QED BY <1>1, <1>2, <3>1 DEF TreeInv, FollowOK
  <2>4. MarkOK(n)'
    BY <1>1, <1>2 DEF TreeInv, MarkOK, Kind
  <2>5. PathOK(n)'
    BY <1>2 DEF PathOK
  <2>. QED BY <2>1, <2>2, <2>3, <2>4, <2>5
<1>4. ReturnOK'
  BY <1>1 DEF ReturnOK
<1>5. ASSUME NEW n \in DOMAIN tree, NEW m \in DOMAIN tree PROVE BranchOK(n, m)'
  BY <1>1, <1>2 DEF TreeInv, BranchOK, FinishedAround, Owners, Branch, Told
<1>. QED BY <1>3, <1>4, <1>5 DEF TreeInv

\* A sequence or selector moves its cursor past a child that answered go.
LEMMA AdvanceKeeps ==
  ASSUME TreeInv, IsTree(tree), tree' = tree, atNode # 0, Kind(atNode) \in Composites,
         returned = Goes(Kind(atNode)), mark' = [mark EXCEPT ![atNode] = @ + 1], returned' = "none",
         UNCHANGED <<frameVars, atNode, statuses, bodyVars, toldVars>>
  PROVE  TreeInv'
<1>1. PICK r \in DOMAIN tree : r = atNode
  BY DEF TreeInv, TreeTypes
<1>2. /\ atNode' = r /\ statuses' = statuses /\ answers' = answers /\ brains' = brains
      /\ turn' = turn /\ delta' = delta /\ Told' = Told /\ mark \in [DOMAIN tree -> Nat]
      /\ mark' \in [DOMAIN tree -> Nat] /\ mark'[r] = mark[r] + 1
      /\ \A n \in DOMAIN tree : n # r => mark'[n] = mark[n]
  BY <1>1 DEF frameVars, toldVars, Told, TreeInv, TreeTypes
<1>3. \A n \in DOMAIN tree : Ticking(n)' <=> Ticking(n)
  BY <1>1, <1>2 DEF Ticking
<1>4. Ticking(r)
  BY <1>1 DEF Ticking
<1>5. TreeTypes'
  BY <1>1, <1>2 DEF TreeInv, TreeTypes
<1>6. /\ Kids(r) \in Seq(DOMAIN tree) /\ mark[r] + 1 \in DOMAIN Kids(r)
      /\ Told[Kids(r)[mark[r] + 1]] = Goes(Kind(r))
  <2>1. Cursor(r) = mark[r] + 1 /\ returned # "none"
    BY <1>1 DEF Cursor, Composites, Goes
  <2>. QED BY <1>1, <2>1, NodeFacts DEF TreeInv, ReturnOK, Kids
<1>7. ASSUME NEW n \in DOMAIN tree PROVE PathOK(n)'
  <2>1. SUFFICES ASSUME Ticking(n), n # r
                 PROVE  (Cursor(n) \in DOMAIN Kids(n) /\ Ticking(Kids(n)[Cursor(n)]))'
    BY <1>1, <1>2, <1>3 DEF PathOK
  <2>2. Cursor(n)' = Cursor(n) /\ Kids(n)' = Kids(n)
    BY <1>2, <2>1 DEF Cursor, Kind, Kids
  <2>3. Cursor(n) \in DOMAIN Kids(n) /\ Ticking(Kids(n)[Cursor(n)])
    BY <1>1, <2>1 DEF TreeInv, PathOK
  <2>. QED BY <1>1, <1>2, <2>2, <2>3 DEF Ticking
<1>8. ASSUME NEW n \in DOMAIN tree
      PROVE  (CursorOK(n) /\ RunningOK(n) /\ GotOK(n) /\ FollowOK(n) /\ MarkOK(n))'
  <2>1. Kind(n)' = Kind(n) /\ Kids(n)' = Kids(n) /\ mark[n] \in Nat
    BY <1>2 DEF Kind, Kids
  <2>2. CursorOK(n)'
    <3>1. CASE n = r
      <4>1. ASSUME NEW j \in 1..mark[r] + 1 PROVE Told[Kids(r)[j]] = Goes(Kind(r))
        BY <1>1, <1>6, <2>1, <3>1, <4>1 DEF TreeInv, CursorOK
      <4>. QED BY <1>2, <1>6, <2>1, <3>1, <4>1 DEF CursorOK
    <3>2. CASE n # r
      BY <1>2, <2>1, <3>2 DEF TreeInv, CursorOK
    <3>. QED BY <3>1, <3>2
  <2>3. RunningOK(n)'
    <3>1. CASE n = r
      <4>1. \A j \in DOMAIN Kids(r) : Told[Kids(r)[j]] # "Running"
        BY <1>1, <1>6 DEF TreeInv, RunningOK, Goes
      <4>. QED BY <1>2, <2>1, <3>1, <4>1 DEF RunningOK
    <3>2. CASE n # r
      BY <1>2, <2>1, <3>2 DEF TreeInv, RunningOK
    <3>. QED BY <3>1, <3>2
  <2>4. GotOK(n)'
    BY <1>2, <1>3, <2>1 DEF TreeInv, GotOK
  <2>5. FollowOK(n)'
    <3>1. n # r /\ Follows(n, Told) => Follows(n, Told)'
      BY <1>2, FollowsSame
    <3>. QED BY <1>2, <1>3, <1>4, <3>1 DEF TreeInv, FollowOK
  <2>6. MarkOK(n)'
    BY <1>1, <1>2, <1>3, <1>4, <2>1 DEF TreeInv, MarkOK
  <2>. QED BY <2>2, <2>3, <2>4, <2>5, <2>6
<1>9. ReturnOK'
  BY DEF ReturnOK
<1>10. ASSUME NEW n \in DOMAIN tree, NEW m \in DOMAIN tree PROVE BranchOK(n, m)'
  BY <1>2, <1>3 DEF TreeInv, BranchOK, FinishedAround, Owners, Branch, Told
<1>. QED BY <1>5, <1>7, <1>8, <1>9, <1>10 DEF TreeInv

\* A parallel adds a child's answer to its tally.
LEMMA AppendKeeps ==
  ASSUME TreeInv, IsTree(tree), tree' = tree, atNode # 0, Kind(atNode) = "parallel",
         returned # "none", statuses' = [statuses EXCEPT ![atNode] = Append(statuses[atNode], returned)],
         returned' = "none", UNCHANGED <<frameVars, mark, atNode, bodyVars, toldVars>>
  PROVE  TreeInv'
<1>1. PICK r \in DOMAIN tree : r = atNode
  BY DEF TreeInv, TreeTypes
<1>2. PICK got \in Seq(Statuses) : got = statuses[r]
  BY DEF TreeInv, TreeTypes
<1>3. returned \in Statuses /\ Append(got, returned) \in Seq(Statuses)
      /\ Len(Append(got, returned)) = Len(got) + 1 /\ Len(got) \in Nat
      /\ \A j \in 1..Len(got) : Append(got, returned)[j] = got[j]
      /\ Append(got, returned)[Len(got) + 1] = returned
  BY <1>2 DEF TreeInv, TreeTypes
<1>4. /\ atNode' = r /\ mark' = mark /\ answers' = answers /\ brains' = brains
      /\ turn' = turn /\ delta' = delta /\ Told' = Told
      /\ statuses' \in [DOMAIN tree -> Seq(Statuses)] /\ statuses'[r] = Append(got, returned)
      /\ \A n \in DOMAIN tree : n # r => statuses'[n] = statuses[n]
  BY <1>1, <1>2, <1>3 DEF frameVars, toldVars, Told, TreeInv, TreeTypes
<1>5. \A n \in DOMAIN tree : Ticking(n)' <=> Ticking(n)
  BY <1>1, <1>4 DEF Ticking
<1>6. Ticking(r)
  BY <1>1 DEF Ticking
<1>7. TreeTypes'
  BY <1>1, <1>4 DEF TreeInv, TreeTypes
<1>8. /\ Kids(r) \in Seq(DOMAIN tree) /\ Len(got) + 1 \in DOMAIN Kids(r)
      /\ Told[Kids(r)[Len(got) + 1]] = returned
  <2>1. Cursor(r) = Len(got) + 1
    BY <1>1, <1>2 DEF Cursor
  <2>. QED BY <1>1, <2>1, NodeFacts DEF TreeInv, ReturnOK, Kids
<1>9. ASSUME NEW n \in DOMAIN tree PROVE PathOK(n)'
  <2>1. SUFFICES ASSUME Ticking(n), n # r
                 PROVE  (Cursor(n) \in DOMAIN Kids(n) /\ Ticking(Kids(n)[Cursor(n)]))'
    BY <1>1, <1>4, <1>5 DEF PathOK
  <2>2. Cursor(n)' = Cursor(n) /\ Kids(n)' = Kids(n)
    BY <1>4, <2>1 DEF Cursor, Kind, Kids
  <2>3. Cursor(n) \in DOMAIN Kids(n) /\ Ticking(Kids(n)[Cursor(n)])
    BY <1>1, <2>1 DEF TreeInv, PathOK
  <2>. QED BY <1>1, <1>4, <2>2, <2>3 DEF Ticking
<1>10. ASSUME NEW n \in DOMAIN tree
       PROVE  (CursorOK(n) /\ RunningOK(n) /\ GotOK(n) /\ FollowOK(n) /\ MarkOK(n))'
  <2>1. Kind(n)' = Kind(n) /\ Kids(n)' = Kids(n)
    BY DEF Kind, Kids
  <2>2. CursorOK(n)' /\ RunningOK(n)'
    BY <1>4, <2>1 DEF TreeInv, CursorOK, RunningOK
  <2>3. GotOK(n)'
    <3>1. CASE n = r
      <4>1. \A j \in 1..Len(got) : got[j] = Told[Kids(r)[j]]
        BY <1>2 DEF TreeInv, GotOK
      <4>2. \A j \in 1..Len(got) + 1 : j \in 1..Len(got) \/ j = Len(got) + 1
        BY <1>3
      <4>3. \A j \in 1..Len(got) + 1 : Append(got, returned)[j] = Told[Kids(r)[j]]
        BY <1>3, <1>8, <4>1, <4>2
      <4>4. Kind(n)' = "parallel" /\ Ticking(n)'
        BY <1>1, <1>5, <1>6, <2>1, <3>1
      <4>5. Len(got) + 1 <= Len(Kids(r))
        BY <1>8
      <4> DEFINE more == Append(got, returned)
      <4>6. Len(more) = Len(got) + 1 /\ statuses'[n] = more
        BY <1>3, <1>4, <3>1
      <4> HIDE DEF more
      <4>7. \A j \in 1..Len(more) : more[j] = Told'[Kids(n)'[j]]
        BY <1>4, <2>1, <3>1, <4>3, <4>6 DEF more
      <4>8. Len(more) <= Len(Kids(n)')
        BY <2>1, <3>1, <4>5, <4>6
      <4>. QED BY <4>4, <4>6, <4>7, <4>8 DEF GotOK
    <3>2. CASE n # r
      <4>1. GotOK(n) /\ statuses'[n] = statuses[n] /\ (Ticking(n)' <=> Ticking(n))
        BY <1>4, <1>5, <3>2 DEF TreeInv
      <4>. QED BY <1>4, <2>1, <4>1 DEF GotOK
    <3>. QED BY <3>1, <3>2
  <2>4. FollowOK(n)'
    <3>1. Follows(n, Told) => Follows(n, Told)'
      BY <1>4, FollowsSame
    <3>. QED BY <1>4, <1>5, <3>1 DEF TreeInv, FollowOK
  <2>5. MarkOK(n)'
    BY <1>4, <1>5, <2>1 DEF TreeInv, MarkOK
  <2>. QED BY <2>2, <2>3, <2>4, <2>5
<1>11. ReturnOK'
  BY DEF ReturnOK
<1>12. ASSUME NEW n \in DOMAIN tree, NEW m \in DOMAIN tree PROVE BranchOK(n, m)'
  BY <1>4, <1>5 DEF TreeInv, BranchOK, FinishedAround, Owners, Branch, Told
<1>. QED BY <1>7, <1>9, <1>10, <1>11, <1>12 DEF TreeInv

\* A brain's time may be set.
LEMMA BrainTimed ==
  ASSUME brains \in [Brains -> [state : {"Idle", "Dead"}, time : Nat]], NEW b \in Brains, NEW t \in Nat
  PROVE  [brains EXCEPT ![b].time = t] \in [Brains -> [state : {"Idle", "Dead"}, time : Nat]]
<1>1. [brains[b] EXCEPT !.time = t] \in [state : {"Idle", "Dead"}, time : Nat]
  OBVIOUS
<1>. QED BY <1>1

\* What a return does, whatever the node is.
LEMMA ReturnBasics ==
  ASSUME TreeInv, IsTree(tree), tree' = tree, atNode # 0,
         NEW status \in Statuses, NEW known \in [DOMAIN tree -> Statuses \cup {"none"}],
         ReturnTelling(status, known),
         mark' \in [DOMAIN tree -> Nat], statuses' \in [DOMAIN tree -> Seq(Statuses)]
  PROVE  /\ TreeTypes' /\ atNode' = tree[atNode].parent /\ (atNode' # 0 => returned' = status)
         /\ Told' = [known EXCEPT ![atNode] = status]
         /\ Told'[atNode] = status /\ \A n \in DOMAIN tree : n # atNode => Told'[n] = known[n]
<1>1. /\ atNode \in DOMAIN tree /\ turn \in Brains /\ turn # 0 /\ NextBrain \in 0..NumBrains
      /\ brains \in [Brains -> [state : {"Idle", "Dead"}, time : Nat]] /\ delta \in Nat
      /\ answers \in [DOMAIN tree -> Statuses \cup {"none"}]
  BY BrainAssumption DEF TreeInv, TreeTypes, Brains, NextBrain
<1>2. /\ atNode' = tree[atNode].parent /\ delta' = delta
      /\ answers' = [known EXCEPT ![atNode] = status]
      /\ \/ /\ atNode' = 0 /\ returned' = "none" /\ turn' = NextBrain
            /\ brains' = [brains EXCEPT ![turn].time = 0]
         \/ atNode' # 0 /\ returned' = status /\ brains' = brains /\ turn' = turn
  BY <1>1, Zenon DEF ReturnTelling, Here
<1> DEFINE told == [known EXCEPT ![atNode] = status]
<1>3. told \in [DOMAIN tree -> Statuses \cup {"none"}]
  OBVIOUS
<1>4. answers' \in [DOMAIN tree -> Statuses \cup {"none"}] /\ answers' = told
  BY <1>2, <1>3
<1>5. brains' \in [Brains -> [state : {"Idle", "Dead"}, time : Nat]]
  <2>1. PICK zero \in Nat : zero = 0
    OBVIOUS
  <2>2. [brains EXCEPT ![turn].time = zero] \in [Brains -> [state : {"Idle", "Dead"}, time : Nat]]
    BY <1>1, BrainTimed
  <2>. QED BY <1>1, <1>2, <2>1, <2>2, Zenon
<1>6. atNode' \in DOMAIN tree \cup {0} /\ turn' \in 0..NumBrains /\ (atNode' # 0 => turn' # 0)
      /\ returned' \in Statuses \cup {"none"} /\ (atNode' = 0 => returned' = "none")
  <2>1. atNode' \in DOMAIN tree \cup {0}
    BY <1>1, <1>2, NodeFacts, ParentFacts
  <2>2. turn' \in 0..NumBrains
    <3>1. turn \in 0..NumBrains
      BY DEF TreeInv, TreeTypes
    <3>. QED BY <1>1, <1>2, <3>1
  <2>3. atNode' # 0 => turn' # 0
    BY <1>1, <1>2
  <2>. QED BY <1>2, <2>1, <2>2, <2>3
<1>7. TreeTypes'
  BY <1>2, <1>4, <1>5, <1>6 DEF TreeInv, TreeTypes
<1>8. Told' = told
  BY <1>4 DEF Told
<1>9. Told'[atNode] = status /\ \A n \in DOMAIN tree : n # atNode => Told'[n] = known[n]
  BY <1>1, <1>8
<1>. QED BY <1>2, <1>7, <1>8, <1>9

\* A node that returns and leaves what is below as it was: what remains to be shown.
LEMMA ReturnLeaves ==
  ASSUME TreeInv, IsTree(tree), tree' = tree, atNode # 0,
         NEW status \in Statuses, ReturnStatus(status),
         mark' \in [DOMAIN tree -> Nat], statuses' \in [DOMAIN tree -> Seq(Statuses)],
         \A n \in DOMAIN tree : n # atNode => mark'[n] = mark[n] /\ statuses'[n] = statuses[n],
         statuses'[atNode] = <<>>,
         mark'[atNode] # 0 => status = "Running" /\ Kind(atNode) \in Composites \cup {"repeater"},
         \A n \in DOMAIN tree : n = atNode /\ Told'[n] = status
           /\ (\A k \in DOMAIN Kids(n) : Told'[Kids(n)[k]] = Told[Kids(n)[k]])
             => (Follows(n, Told) /\ CursorOK(n) /\ RunningOK(n))',
         Kind(atNode) # "parallel" =>
           \A k \in DOMAIN Kids(atNode) : Told[Kids(atNode)[k]] = "Running" => status = "Running"
  PROVE  TreeInv'
<1>1. atNode \in DOMAIN tree /\ Told \in [DOMAIN tree -> Statuses \cup {"none"}]
  BY DEF TreeInv, TreeTypes, Told, Brains
<1>2. ReturnTelling(status, Told)
  BY <1>1 DEF ReturnStatus, Told
<1>3. /\ TreeTypes' /\ atNode' = tree[atNode].parent /\ (atNode' # 0 => returned' = status)
      /\ Told'[atNode] = status /\ \A n \in DOMAIN tree : n # atNode => Told'[n] = Told[n]
  BY <1>1, <1>2, ReturnBasics
<1>4. \A k \in DOMAIN Kids(atNode) : Told'[Kids(atNode)[k]] = Told[Kids(atNode)[k]]
  BY <1>1, <1>3, ChildFacts DEF Kids
<1>5. \A n \in DOMAIN tree : n = atNode => (Follows(n, Told) /\ CursorOK(n) /\ RunningOK(n))'
  BY <1>1, <1>3, <1>4
<1>6. \A n \in DOMAIN tree : atNode \in Owners(n) => n # atNode
  BY NodeFacts DEF Owners
<1>7. Leaves(status)
  BY <1>1, <1>3, <1>4, <1>5, <1>6 DEF Leaves
<1>. QED BY <1>7, LeavesKeeps

\* BTAction and BTCondition: a leaf answers.
LEMMA LeafKeeps ==
  ASSUME TreeInv, IsTree(tree), tree' = tree, atNode # 0, TickLeaf
  PROVE  TreeInv'
<1>1. PICK r \in DOMAIN tree : r = atNode
  BY DEF TreeInv, TreeTypes
<1>2. PICK s \in Situations[tree[r].leaf] : ReturnStatus(LeafStatus(tree[r].leaf, s))
  BY <1>1 DEF TickLeaf, Here
<1>3. Kind(r) = "leaf" /\ tree[r].leaf \in Tasks /\ Kids(r) = <<>>
  BY <1>1 DEF TickLeaf, Here, Kind, Kids, IsTree
<1>4. PICK status \in Statuses : status = LeafStatus(tree[r].leaf, s)
  BY <1>3 DEF LeafStatus, Tasks, Statuses
<1>5. /\ mark' = mark /\ statuses' = statuses /\ mark \in [DOMAIN tree -> Nat]
      /\ statuses \in [DOMAIN tree -> Seq(Statuses)]
  BY DEF TickLeaf, TreeInv, TreeTypes
<1>6. statuses[r] = <<>> /\ mark[r] = 0
  BY <1>3 DEF TreeInv, GotOK, MarkOK, Composites
<1>7. Kind(r)' = "leaf" /\ Kids(r)' = Kids(r)
  BY <1>3 DEF Kind, Kids
<1>8. (Follows(r, Told) /\ CursorOK(r) /\ RunningOK(r))'
  BY <1>7 DEF Follows, CursorOK, RunningOK, Composites, Kind
<1>9. \A k \in DOMAIN Kids(r) : Told[Kids(r)[k]] = "Running" => status = "Running"
  BY <1>3
<1>. QED BY <1>1, <1>2, <1>3, <1>4, <1>5, <1>6, <1>8, <1>9, ReturnLeaves

\* BTSequence and BTSelector.
LEMMA CompositeKeeps ==
  ASSUME TreeInv, IsTree(tree), tree' = tree, atNode # 0, TickComposite
  PROVE  TreeInv'
<1>1. PICK r \in DOMAIN tree : r = atNode
  BY DEF TreeInv, TreeTypes
<1>2. /\ Kind(r) \in Composites /\ Kind(r)' = Kind(r) /\ Kids(r)' = Kids(r)
      /\ Kids(r) \in Seq(DOMAIN tree) /\ mark \in [DOMAIN tree -> Nat]
      /\ statuses \in [DOMAIN tree -> Seq(Statuses)] /\ returned \in Statuses \cup {"none"}
  BY <1>1, NodeFacts DEF TickComposite, Here, Kind, Kids, TreeInv, TreeTypes
<1>3. Cursor(r) = mark[r] + 1 /\ statuses[r] = <<>>
  BY <1>2 DEF Cursor, Composites, TreeInv, GotOK
<1>4. /\ mark[r] <= Len(Kids(r)) /\ \A j \in 1..mark[r] : Told[Kids(r)[j]] = Goes(Kind(r))
      /\ \A j \in DOMAIN Kids(r) : Told[Kids(r)[j]] = "Running" => j = mark[r] + 1
  BY <1>2 DEF TreeInv, CursorOK, RunningOK
<1>5. returned # "none" => mark[r] + 1 \in DOMAIN Kids(r) /\ Told[Kids(r)[mark[r] + 1]] = returned
  BY <1>1, <1>3 DEF TreeInv, ReturnOK
<1>6. CASE returned = "none" /\ mark[r] < Len(Kids(r)) /\ CallChild(mark[r] + 1)
  <2>1. mark[r] + 1 \in DOMAIN Kids(r)
    BY <1>2, <1>6
  <2>. QED BY <1>1, <1>3, <1>6, <2>1, CallKeeps
<1>7. CASE /\ returned = "none" /\ mark[r] >= Len(Kids(r)) /\ mark' = Restarted(r)
           /\ ReturnStatus(Goes(Kind(r))) /\ statuses' = statuses
  <2>1. PICK status \in Statuses : status = Goes(Kind(r)) /\ status # "Running"
    BY DEF Goes, Statuses
  <2>2. mark' \in [DOMAIN tree -> Nat] /\ mark'[r] = 0 /\ \A n \in DOMAIN tree : n # r => mark'[n] = mark[n]
    BY <1>2, <1>7 DEF Restarted
  <2>3. \A k \in DOMAIN Kids(r) : Told[Kids(r)[k]] = status
    <3>1. \A k \in DOMAIN Kids(r) : k \in 1..mark[r]
      BY <1>2, <1>4, <1>7
    <3>. QED BY <1>4, <2>1, <3>1
  <2>4. ASSUME Told'[r] = status, \A k \in DOMAIN Kids(r) : Told'[Kids(r)[k]] = Told[Kids(r)[k]]
        PROVE  (Follows(r, Told) /\ CursorOK(r) /\ RunningOK(r))'
    <3>1. mark'[r] <= Len(Kids(r)) /\ 1..mark'[r] = {}
      BY <1>2, <2>2
    <3>2. CursorOK(r)'
      BY <1>2, <3>1 DEF CursorOK
    <3>3. RunningOK(r)'
      BY <1>2, <2>1, <2>3, <2>4 DEF RunningOK
    <3>4. Follows(r, Told)'
      BY <1>2, <2>1, <2>3, <2>4 DEF Follows, Kind, Kids, Composites
    <3>. QED BY <3>2, <3>3, <3>4
  <2>5. \A n \in DOMAIN tree : n # atNode => mark'[n] = mark[n] /\ statuses'[n] = statuses[n]
    BY <1>1, <1>7, <2>2
  <2>6. ReturnStatus(status) /\ mark'[atNode] = 0 /\ statuses'[atNode] = <<>>
    BY <1>1, <1>3, <1>7, <2>1, <2>2
  <2>7. \A n \in DOMAIN tree : n = atNode /\ Told'[n] = status
           /\ (\A k \in DOMAIN Kids(n) : Told'[Kids(n)[k]] = Told[Kids(n)[k]])
             => (Follows(n, Told) /\ CursorOK(n) /\ RunningOK(n))'
    BY <1>1, <2>4
  <2>8. \A k \in DOMAIN Kids(atNode) : Told[Kids(atNode)[k]] # "Running"
    BY <1>1, <2>1, <2>3
  <2>. QED BY <1>2, <1>7, <2>2, <2>5, <2>6, <2>7, <2>8, ReturnLeaves
<1>8. CASE /\ returned = "Running" /\ ReturnStatus("Running") /\ mark' = mark /\ statuses' = statuses
  <2>1. PICK status \in Statuses : status = "Running"
    BY DEF Statuses
  <2>2. mark[r] + 1 \in DOMAIN Kids(r) /\ Told[Kids(r)[mark[r] + 1]] = status
    BY <1>5, <1>8, <2>1
  <2>4. ASSUME Told'[r] = status, \A k \in DOMAIN Kids(r) : Told'[Kids(r)[k]] = Told[Kids(r)[k]]
        PROVE  (Follows(r, Told) /\ CursorOK(r) /\ RunningOK(r))'
    <3>1. CursorOK(r)' /\ RunningOK(r)'
      <4>1. mark'[r] = mark[r] /\ \A j \in 1..mark[r] : j \in DOMAIN Kids(r)
        BY <1>2, <1>4, <1>8
      <4>2. CursorOK(r)'
        BY <1>2, <1>4, <2>4, <4>1 DEF CursorOK
      <4>. QED BY <1>2, <1>4, <2>4, <4>1, <4>2 DEF RunningOK
    <3>2. Follows(r, Told)'
      <4>1. PICK c \in Nat : c = mark[r]
        BY <1>2
      <4>2. status # Goes(Kind(r))
        BY <2>1 DEF Goes
      <4>. QED BY <1>2, <1>4, <2>2, <2>4, <4>1, <4>2, CompositeFollows
    <3>. QED BY <3>1, <3>2
  <2>. QED BY <1>1, <1>2, <1>3, <1>8, <2>1, <2>4, ReturnLeaves
<1>9. CASE /\ returned \notin {"none", "Running", Goes(Kind(r))} /\ mark' = Restarted(r)
           /\ ReturnStatus(returned) /\ statuses' = statuses
  <2>1. PICK status \in Statuses : status = returned
    BY <1>2, <1>9
  <2>2. mark' \in [DOMAIN tree -> Nat] /\ mark'[r] = 0 /\ \A n \in DOMAIN tree : n # r => mark'[n] = mark[n]
    BY <1>2, <1>9 DEF Restarted
  <2>3. /\ mark[r] + 1 \in DOMAIN Kids(r) /\ Told[Kids(r)[mark[r] + 1]] = status
        /\ \A k \in DOMAIN Kids(r) : Told[Kids(r)[k]] # "Running"
    BY <1>4, <1>5, <1>9, <2>1
  <2>4. ASSUME Told'[r] = status, \A k \in DOMAIN Kids(r) : Told'[Kids(r)[k]] = Told[Kids(r)[k]]
        PROVE  (Follows(r, Told) /\ CursorOK(r) /\ RunningOK(r))'
    <3>1. mark'[r] <= Len(Kids(r)) /\ 1..mark'[r] = {}
      BY <1>2, <2>2
    <3>2. CursorOK(r)'
      BY <1>2, <3>1 DEF CursorOK
    <3>3. RunningOK(r)'
      BY <1>2, <2>3, <2>4 DEF RunningOK
    <3>4. Follows(r, Told)'
      <4>1. PICK c \in Nat : c = mark[r]
        BY <1>2
      <4>2. status # Goes(Kind(r))
        BY <1>9, <2>1
      <4>. QED BY <1>2, <1>4, <2>3, <2>4, <4>1, <4>2, CompositeFollows
    <3>. QED BY <3>2, <3>3, <3>4
  <2>5. \A n \in DOMAIN tree : n # atNode => mark'[n] = mark[n] /\ statuses'[n] = statuses[n]
    BY <1>1, <1>9, <2>2
  <2>6. ReturnStatus(status) /\ mark'[atNode] = 0 /\ statuses'[atNode] = <<>>
    BY <1>1, <1>3, <1>9, <2>1, <2>2
  <2>7. \A n \in DOMAIN tree : n = atNode /\ Told'[n] = status
           /\ (\A k \in DOMAIN Kids(n) : Told'[Kids(n)[k]] = Told[Kids(n)[k]])
             => (Follows(n, Told) /\ CursorOK(n) /\ RunningOK(n))'
    BY <1>1, <2>4
  <2>8. \A k \in DOMAIN Kids(atNode) : Told[Kids(atNode)[k]] # "Running"
    BY <1>1, <2>3
  <2>. QED BY <1>2, <1>9, <2>2, <2>5, <2>6, <2>7, <2>8, ReturnLeaves
<1>10. CASE /\ returned = Goes(Kind(r)) /\ mark' = [mark EXCEPT ![atNode] = @ + 1] /\ returned' = "none"
            /\ UNCHANGED <<frameVars, atNode, statuses, bodyVars, toldVars>>
  BY <1>1, <1>2, <1>10, AdvanceKeeps
<1>. QED BY <1>1, <1>6, <1>7, <1>8, <1>9, <1>10 DEF TickComposite, Here, Kind, Kids

\* BTParallel.
LEMMA ParallelKeeps ==
  ASSUME TreeInv, IsTree(tree), tree' = tree, atNode # 0, TickParallel
  PROVE  TreeInv'
<1>1. PICK r \in DOMAIN tree : r = atNode
  BY DEF TreeInv, TreeTypes
<1>2. /\ Kind(r) = "parallel" /\ Kind(r)' = Kind(r) /\ Kids(r)' = Kids(r)
      /\ Kids(r) \in Seq(DOMAIN tree) /\ mark \in [DOMAIN tree -> Nat]
      /\ statuses \in [DOMAIN tree -> Seq(Statuses)]
  BY <1>1, NodeFacts DEF TickParallel, Here, Kind, Kids, TreeInv, TreeTypes
<1>3. PICK got \in Seq(Statuses) : got = statuses[r]
  BY <1>2
<1>4. Cursor(r) = Len(got) + 1 /\ mark[r] = 0 /\ Len(got) <= Len(Kids(r)) /\ Len(got) \in Nat
      /\ \A j \in 1..Len(got) : got[j] = Told[Kids(r)[j]]
  <2>1. Cursor(r) = Len(got) + 1 /\ Len(got) \in Nat
    BY <1>2, <1>3 DEF Cursor
  <2>2. mark[r] = 0
    BY <1>2 DEF Composites, TreeInv, MarkOK
  <2>3. Len(got) <= Len(Kids(r)) /\ \A j \in 1..Len(got) : got[j] = Told[Kids(r)[j]]
    BY <1>3 DEF TreeInv, GotOK
  <2>. QED BY <2>1, <2>2, <2>3
<1>5. CASE returned = "none" /\ Len(got) < Len(Kids(r)) /\ CallChild(Len(got) + 1)
  <2>1. Len(got) + 1 \in DOMAIN Kids(r)
    BY <1>2, <1>4, <1>5
  <2>. QED BY <1>1, <1>4, <1>5, <2>1, CallKeeps
<1>6. CASE /\ returned # "none" /\ statuses' = [statuses EXCEPT ![atNode] = Append(got, returned)]
           /\ returned' = "none" /\ UNCHANGED <<frameVars, mark, atNode, bodyVars, toldVars>>
  BY <1>1, <1>2, <1>3, <1>6, AppendKeeps
<1>7. CASE /\ Len(got) >= Len(Kids(r)) /\ statuses' = [statuses EXCEPT ![atNode] = <<>>]
           /\ ReturnStatus(ParallelStatus(tree[r].policy, got)) /\ mark' = mark
  <2>1. PICK status \in Statuses : status = ParallelStatus(tree[r].policy, got)
    BY DEF ParallelStatus, Statuses
  <2>2. /\ statuses' \in [DOMAIN tree -> Seq(Statuses)] /\ statuses'[r] = <<>>
        /\ \A n \in DOMAIN tree : n # r => statuses'[n] = statuses[n]
    BY <1>1, <1>2, <1>7
  <2>3. ASSUME Told'[r] = status, \A k \in DOMAIN Kids(r) : Told'[Kids(r)[k]] = Told[Kids(r)[k]]
        PROVE  (Follows(r, Told) /\ CursorOK(r) /\ RunningOK(r))'
    <3>1. CursorOK(r)' /\ RunningOK(r)'
      BY <1>2 DEF CursorOK, RunningOK, Composites
    <3>2. DOMAIN got = DOMAIN Kids(r) /\ \A k \in DOMAIN got : k \in 1..Len(got)
      BY <1>2, <1>3, <1>4, <1>7
    <3>3. got = [k \in DOMAIN Kids(r) |-> Told'[Kids(r)[k]]]
      <4>1. got = [k \in DOMAIN got |-> got[k]]
        BY <1>3
      <4>. QED BY <1>4, <2>3, <3>2, <4>1
    <3>4. Told'[r] = ParallelStatus(tree[r].policy, [k \in DOMAIN Kids(r) |-> Told'[Kids(r)[k]]])
      BY <2>1, <2>3, <3>3
    <3>5. Follows(r, Told)'
      BY <1>2, <3>4 DEF Follows, Kind, Kids, Composites
    <3>. QED BY <3>1, <3>5
  <2>4. \A n \in DOMAIN tree : n # atNode => mark'[n] = mark[n] /\ statuses'[n] = statuses[n]
    BY <1>1, <1>7, <2>2
  <2>5. ReturnStatus(status) /\ mark'[atNode] = 0 /\ statuses'[atNode] = <<>> /\ Kind(atNode) = "parallel"
        /\ mark' \in [DOMAIN tree -> Nat]
    BY <1>1, <1>2, <1>4, <1>7, <2>1, <2>2
  <2>6. \A n \in DOMAIN tree : n = atNode /\ Told'[n] = status
           /\ (\A k \in DOMAIN Kids(n) : Told'[Kids(n)[k]] = Told[Kids(n)[k]])
             => (Follows(n, Told) /\ CursorOK(n) /\ RunningOK(n))'
    BY <1>1, <2>3
  <2>. QED BY <2>2, <2>4, <2>5, <2>6, ReturnLeaves
<1>. QED BY <1>1, <1>3, <1>5, <1>6, <1>7 DEF TickParallel, Here, Kind, Kids

\* BTInverter.
LEMMA InverterKeeps ==
  ASSUME TreeInv, IsTree(tree), tree' = tree, atNode # 0, TickInverter
  PROVE  TreeInv'
<1>1. PICK r \in DOMAIN tree : r = atNode
  BY DEF TreeInv, TreeTypes
<1>2. /\ Kind(r) = "inverter" /\ Kind(r)' = Kind(r) /\ Kids(r)' = Kids(r)
      /\ Kids(r) \in Seq(DOMAIN tree) /\ Len(Kids(r)) = 1 /\ mark \in [DOMAIN tree -> Nat]
      /\ statuses \in [DOMAIN tree -> Seq(Statuses)] /\ returned \in Statuses \cup {"none"}
  BY <1>1, NodeFacts DEF TickInverter, Here, Kind, Kids, TreeInv, TreeTypes, IsTree, Decorators
<1>3. Cursor(r) = 1 /\ mark[r] = 0 /\ statuses[r] = <<>> /\ 1 \in DOMAIN Kids(r)
  <2>1. Cursor(r) = 1 /\ 1 \in DOMAIN Kids(r)
    BY <1>2 DEF Cursor, Composites
  <2>2. mark[r] = 0 /\ statuses[r] = <<>>
    BY <1>2 DEF Composites, TreeInv, MarkOK, GotOK
  <2>. QED BY <2>1, <2>2
<1>4. CASE returned = "none" /\ CallChild(1)
  BY <1>1, <1>3, <1>4, CallKeeps
<1>5. CASE returned # "none" /\ ReturnStatus(Inverted(returned)) /\ mark' = mark /\ statuses' = statuses
  <2>1. PICK status \in Statuses : status = Inverted(returned)
    BY <1>2, <1>5 DEF Inverted, Statuses
  <2>2. Told[Kids(r)[1]] = returned
    BY <1>1, <1>3, <1>5 DEF TreeInv, ReturnOK
  <2>3. ASSUME Told'[r] = status, \A k \in DOMAIN Kids(r) : Told'[Kids(r)[k]] = Told[Kids(r)[k]]
        PROVE  (Follows(r, Told) /\ CursorOK(r) /\ RunningOK(r))'
    <3>1. CursorOK(r)' /\ RunningOK(r)'
      BY <1>2 DEF CursorOK, RunningOK, Composites
    <3>2. Told'[r] = Inverted(Told'[Kids(r)[1]])
      BY <1>3, <2>1, <2>2, <2>3
    <3>3. Follows(r, Told)'
      BY <1>2, <3>2 DEF Follows, Kind, Kids, Composites
    <3>. QED BY <3>1, <3>3
  <2>4. \A n \in DOMAIN tree : n # atNode => mark'[n] = mark[n] /\ statuses'[n] = statuses[n]
    BY <1>5
  <2>5. ReturnStatus(status) /\ mark'[atNode] = 0 /\ statuses'[atNode] = <<>>
        /\ mark' \in [DOMAIN tree -> Nat] /\ statuses' \in [DOMAIN tree -> Seq(Statuses)]
    BY <1>1, <1>2, <1>3, <1>5, <2>1
  <2>6. \A n \in DOMAIN tree : n = atNode /\ Told'[n] = status
           /\ (\A k \in DOMAIN Kids(n) : Told'[Kids(n)[k]] = Told[Kids(n)[k]])
             => (Follows(n, Told) /\ CursorOK(n) /\ RunningOK(n))'
    BY <1>1, <2>3
  <2>7. \A k \in DOMAIN Kids(atNode) : Told[Kids(atNode)[k]] = "Running" => status = "Running"
    <3>1. DOMAIN Kids(r) = {1}
      BY <1>2
    <3>. QED BY <1>1, <2>1, <2>2, <3>1 DEF Inverted
  <2>. QED BY <2>4, <2>5, <2>6, <2>7, ReturnLeaves
<1>. QED BY <1>4, <1>5 DEF TickInverter

\* BTRepeater: a child that has finished is reset with all below it.
LEMMA RepeaterKeeps ==
  ASSUME TreeInv, IsTree(tree), tree' = tree, atNode # 0, TickRepeater
  PROVE  TreeInv'
<1>1. PICK r \in DOMAIN tree : r = atNode
  BY DEF TreeInv, TreeTypes
<1>2. /\ Kind(r) = "repeater" /\ Kind(r)' = Kind(r) /\ Kids(r)' = Kids(r)
      /\ Kids(r) \in Seq(DOMAIN tree) /\ Len(Kids(r)) = 1 /\ mark \in [DOMAIN tree -> Nat]
      /\ statuses \in [DOMAIN tree -> Seq(Statuses)] /\ returned \in Statuses \cup {"none"}
      /\ tree[r].max \in Nat
  BY <1>1, NodeFacts DEF TickRepeater, Here, Kind, Kids, TreeInv, TreeTypes, IsTree, Decorators
<1>3. Cursor(r) = 1 /\ statuses[r] = <<>> /\ DOMAIN Kids(r) = {1} /\ 1 \in DOMAIN Kids(r)
  BY <1>2 DEF Cursor, Composites, TreeInv, GotOK, MarkOK
<1>4. ASSUME Kind(r)' = "repeater" PROVE CursorOK(r)' /\ RunningOK(r)'
  BY <1>4 DEF CursorOK, RunningOK, Composites
<1>5. CASE returned = "none" /\ CallChild(1)
  BY <1>1, <1>3, <1>5, CallKeeps
<1>6. CASE returned = "Running" /\ ReturnStatus("Running") /\ mark' = mark /\ statuses' = statuses
  <2>1. PICK status \in Statuses : status = "Running"
    BY DEF Statuses
  <2>2. Told[Kids(r)[1]] = status
    BY <1>1, <1>3, <1>6, <2>1 DEF TreeInv, ReturnOK
  <2>3. ASSUME Told'[r] = status, \A k \in DOMAIN Kids(r) : Told'[Kids(r)[k]] = Told[Kids(r)[k]]
        PROVE  (Follows(r, Told) /\ CursorOK(r) /\ RunningOK(r))'
    <3>1. Told'[r] = "Running" /\ Told'[Kids(r)[1]] = "Running"
      BY <1>3, <2>1, <2>2, <2>3
    <3>2. Follows(r, Told)'
      BY <1>2, <3>1 DEF Follows, Kind, Kids, Composites
    <3>. QED BY <1>2, <1>4, <3>2
  <2>4. \A n \in DOMAIN tree : n # atNode => mark'[n] = mark[n] /\ statuses'[n] = statuses[n]
    BY <1>6
  <2>5. ReturnStatus(status) /\ statuses'[atNode] = <<>> /\ Kind(atNode) = "repeater"
        /\ mark' \in [DOMAIN tree -> Nat] /\ statuses' \in [DOMAIN tree -> Seq(Statuses)]
    BY <1>1, <1>2, <1>3, <1>6, <2>1
  <2>6. \A n \in DOMAIN tree : n = atNode /\ Told'[n] = status
           /\ (\A k \in DOMAIN Kids(n) : Told'[Kids(n)[k]] = Told[Kids(n)[k]])
             => (Follows(n, Told) /\ CursorOK(n) /\ RunningOK(n))'
    BY <1>1, <2>3
  <2>. QED BY <2>1, <2>4, <2>5, <2>6, ReturnLeaves
<1> DEFINE count == mark[r] + 1
           through == tree[r].max > 0 /\ count >= tree[r].max
           answer == IF through THEN "Success" ELSE "Running"
           below == ResetBelow(r, "none", Told)
           counted == IF through \/ tree[r].max = 0 THEN 0 ELSE count
<1>7. CASE /\ returned \notin {"none", "Running"}
           /\ mark' = [ResetBelow(r, 0, mark) EXCEPT ![r] = counted]
           /\ ReturnTelling(answer, below) /\ statuses' = statuses
  <2>1. Told \in [DOMAIN tree -> Statuses \cup {"none"}]
    BY DEF TreeInv, TreeTypes, Told, Brains
  <2>2. /\ below \in [DOMAIN tree -> Statuses \cup {"none"}] /\ counted \in Nat
        /\ \A n \in DOMAIN tree : below[n] = IF r \in Owners(n) THEN "none" ELSE Told[n]
    BY <1>2, <2>1 DEF ResetBelow, Owners
  <2>3. /\ mark' \in [DOMAIN tree -> Nat] /\ mark'[r] = counted
        /\ \A n \in DOMAIN tree : n # r => mark'[n] = IF r \in Owners(n) THEN 0 ELSE mark[n]
    BY <1>2, <1>7, <2>2 DEF ResetBelow, Owners
  <2>4. PICK status \in Statuses : status = answer
    BY DEF Statuses
  <2>5. /\ counted # 0 => status = "Running"
        /\ status = IF tree[r].max > 0 /\ counted = 0 THEN "Success" ELSE "Running"
    BY <1>2, <2>4
  <2> HIDE DEF below, counted, answer
  <2>6. ReturnTelling(status, below)
    BY <1>7, <2>4
  <2>7. /\ TreeTypes' /\ atNode' = tree[atNode].parent /\ (atNode' # 0 => returned' = status)
        /\ Told'[r] = status /\ \A n \in DOMAIN tree : n # r => Told'[n] = below[n]
    BY <1>1, <1>2, <1>7, <2>2, <2>3, <2>6, ReturnBasics
  <2>8. r \notin Owners(r)
    BY NodeFacts DEF Owners
  <2>9. Told'[Kids(r)[1]] = "none"
    BY <1>3, <2>2, <2>7, ChildFacts DEF Kids, Owners
  <2>10. Follows(r, Told)'
    BY <1>2, <2>3, <2>5, <2>7, <2>9 DEF Follows, Kind, Kids, Composites
  <2>11. \A n \in DOMAIN tree : statuses'[n] = IF n = r THEN <<>> ELSE statuses[n]
    BY <1>3, <1>7
  <2>12. \A n \in DOMAIN tree : r \in Owners(n) => mark'[n] = 0 /\ Told'[n] = "none"
    BY <2>2, <2>3, <2>7, <2>8
  <2>13. \A n \in DOMAIN tree : n # r /\ r \notin Owners(n) => mark'[n] = mark[n] /\ Told'[n] = Told[n]
    BY <2>2, <2>3, <2>7
  <2>14. \A k \in DOMAIN Kids(r) : Told'[Kids(r)[k]] # "Running"
    BY <1>3, <2>9
  <2>15. \A n \in DOMAIN tree : n = atNode => (Follows(n, Told) /\ CursorOK(n) /\ RunningOK(n))'
    BY <1>1, <1>2, <1>4, <2>10
  <2>16. Leaves(status)
    BY <1>1, <1>2, <2>3, <2>5, <2>7, <2>11, <2>12, <2>13, <2>14, <2>15 DEF Leaves
  <2>. QED BY <2>16, LeavesKeeps
<1>. QED BY <1>1, <1>5, <1>6, <1>7 DEF TickRepeater, Here, Told

\* For every tree, of any size and depth, and any number of brains that share it: what its
\* nodes answer tick by tick, resumed in the middle as often as they like, is what the tree's
\* logic makes of the answers below, and a branch that has finished starts over, but for what
\* a parallel that finished left running (TreeResumes: BTSequence, BTSelector, BTParallel,
\* BTInverter, BTRepeater, AISystem::Execute).
THEOREM TreesResume ==
  BrainSpec => []TreeResumes
<1>1. BrainInit => TreeInv
  <2> SUFFICES ASSUME BrainInit PROVE TreeInv
    OBVIOUS
  <2>1. /\ tree \in Trees /\ IsTree(tree) /\ atNode = 0 /\ returned = "none"
        /\ \A n \in DOMAIN tree : mark[n] = 0 /\ statuses[n] = <<>> /\ Told[n] = "none"
    BY BrainAssumption DEF BrainInit, Told, Brains
  <2>2. TreeTypes
    BY BrainAssumption DEF BrainInit, TreeTypes, Brains
  <2>3. ASSUME NEW n \in DOMAIN tree
        PROVE  PathOK(n) /\ CursorOK(n) /\ RunningOK(n) /\ GotOK(n) /\ FollowOK(n) /\ MarkOK(n)
    <3>1. Kids(n) \in Seq(DOMAIN tree) /\ \A k \in DOMAIN Kids(n) : Told[Kids(n)[k]] = "none"
      BY <2>1, NodeFacts DEF Kids
    <3>2. PathOK(n) /\ MarkOK(n) /\ FollowOK(n) /\ RunningOK(n)
      BY <2>1, <3>1 DEF PathOK, MarkOK, FollowOK, RunningOK, Ticking
    <3>3. GotOK(n) /\ CursorOK(n)
      BY <2>1, <3>1 DEF GotOK, CursorOK
    <3>. QED BY <3>2, <3>3
  <2>4. \A n \in DOMAIN tree : \A m \in DOMAIN tree : BranchOK(n, m)
    BY <2>1 DEF BranchOK
  <2>. QED BY <2>1, <2>2, <2>3, <2>4 DEF TreeInv, ReturnOK
<1>2. TreeInv /\ [BrainNext]_brainVars => TreeInv'
  <2> SUFFICES ASSUME TreeInv, [BrainNext]_brainVars PROVE TreeInv'
    OBVIOUS
  <2>1. IsTree(tree) /\ NextBrain \in 0..NumBrains /\ 1 \in 0..NumBrains
    BY BrainAssumption DEF TreeInv, TreeTypes, Brains, NextBrain
  <2>2. CASE UNCHANGED brainVars
    <3>1. /\ tree' = tree /\ mark' = mark /\ statuses' = statuses /\ answers' = answers
          /\ brains' = brains /\ turn' = turn /\ delta' = delta /\ atNode' = atNode /\ returned' = returned
      BY <2>2 DEF brainVars, frameVars, toldVars
    <3>2. TreeTypes'
      BY <3>1 DEF TreeInv, TreeTypes
    <3>3. ReturnOK'
      BY <3>1 DEF TreeInv, ReturnOK, Cursor, Kind, Kids, Told
    <3>4. Told' = Told
      BY <3>1 DEF Told
    <3>5. ASSUME NEW n \in DOMAIN tree
          PROVE  (PathOK(n) /\ CursorOK(n) /\ RunningOK(n) /\ GotOK(n) /\ FollowOK(n) /\ MarkOK(n))'
      <4>1. (Ticking(n)' <=> Ticking(n)) /\ Kind(n)' = Kind(n) /\ Kids(n)' = Kids(n)
        BY <3>1 DEF Ticking, Kind, Kids
      <4>2. PathOK(n)'
        BY <3>1 DEF TreeInv, PathOK, Cursor, Kind, Kids, Ticking
      <4>3. (CursorOK(n) /\ RunningOK(n))'
        BY <3>1, <3>4, <4>1 DEF TreeInv, CursorOK, RunningOK
      <4>4. (GotOK(n) /\ MarkOK(n))'
        BY <3>1, <3>4, <4>1 DEF TreeInv, GotOK, MarkOK
      <4>5. FollowOK(n)'
        <5>1. Follows(n, Told) => Follows(n, Told)'
          BY <2>1, <3>1, <3>4, FollowsSame
        <5>. QED BY <3>4, <4>1, <5>1 DEF TreeInv, FollowOK
      <4>. QED BY <4>2, <4>3, <4>4, <4>5
    <3>6. ASSUME NEW n \in DOMAIN tree, NEW m \in DOMAIN tree PROVE BranchOK(n, m)'
      BY <3>1, <3>4 DEF TreeInv, BranchOK, FinishedAround, Owners, Branch, Told, Ticking
    <3>. QED BY <3>1, <3>2, <3>3, <3>5, <3>6 DEF TreeInv
  <2>3. CASE BrainNext
    <3>1. tree' = tree /\ BrainStep
      BY <2>3 DEF BrainNext
    <3>2. CASE TickNode
      BY <2>1, <3>1, <3>2, LeafKeeps, CompositeKeeps, ParallelKeeps, InverterKeeps, RepeaterKeeps
         DEF TickNode
    <3>3. ASSUME atNode = 0, atNode' \in {0, 1}, treeUnchanged, turn' \in 0..NumBrains, delta' \in Nat,
                 brains' \in [Brains -> [state : {"Idle", "Dead"}, time : Nat]],
                 atNode' # 0 => turn' # 0
          PROVE  TreeInv'
      <4>1. 1 \in DOMAIN tree
        BY <2>1 DEF IsTree
      <4>2. TreeTypes'
        BY <3>1, <3>3, <4>1 DEF TreeInv, TreeTypes, treeUnchanged, toldVars
      <4>. QED BY <2>1, <3>1, <3>3, <4>2, FrameKeeps
    <3> USE DEF TreeInv, TreeTypes
    <3>4. CASE BrainSkipped
      BY <2>1, <3>3, <3>4 DEF BrainSkipped
    <3>5. CASE BrainWaits
      <4>1. turn \in Brains /\ brains[turn].time + delta \in Nat
        BY <3>5 DEF BrainWaits, Brains
      <4>. QED BY <2>1, <3>3, <3>5, <4>1, BrainTimed DEF BrainWaits
    <3>6. CASE BrainTicks
      <4>1. turn \in Brains /\ brains[turn].time + delta \in Nat
        BY <3>6 DEF BrainTicks, Brains
      <4>. QED BY <2>1, <3>3, <3>6, <4>1, BrainTimed DEF BrainTicks
    <3>7. ASSUME NEW dt \in BrainTimes, BeginFrame(dt) PROVE TreeInv'
      BY <2>1, <3>3, <3>7, BrainAssumption DEF BeginFrame
    <3>8. ASSUME NEW b \in Brains, NEW s \in {"Dead", "Idle"}, SetBrainState(b, s) PROVE TreeInv'
      BY <2>1, <3>3, <3>8 DEF SetBrainState
    <3>. QED BY <3>1, <3>2, <3>4, <3>5, <3>6, <3>7, <3>8 DEF BrainStep
  <2>. QED BY <2>2, <2>3
<1>3. TreeInv => TreeResumes
  BY TreeAnswers
<1>. QED BY <1>1, <1>2, <1>3, PTL DEF BrainSpec

(***************************************************************************)
(* GameLoop, for any number of controllers.                                *)
(*                                                                         *)
(* LoopSafe needs to know that only one start() or stop() is under way,    *)
(* and that between a stop() and the next start() there is no thread       *)
(* (LoopIdle).                                                             *)
(***************************************************************************)

LoopTypeOK ==
  /\ loopRunning \in BOOLEAN /\ crashed \in BOOLEAN /\ overlapped \in BOOLEAN
  /\ loopThread \in {"none", "top", "tick", "ticking", "metrics", "ended"}
  /\ callback \in {"free", "loop", "manual"}
  /\ controller \in [Controllers -> {"idle", "start", "check", "join", "tick", "ticking"}]

\* The mutex is held by whoever ticks.
CallbackHeld ==
  /\ loopThread = "ticking" <=> callback = "loop"
  /\ \A c \in Controllers : controller[c] = "ticking" => callback = "manual"
  /\ \A c \in Controllers : \A d \in Controllers :
       controller[c] = "ticking" /\ controller[d] = "ticking" => c = d

LoopIdle ==
  ~overlapped =>
    /\ \A c \in Controlling : \A d \in Controlling : c = d
    /\ Controlling = {} /\ ~loopRunning => loopThread = "none"
    /\ loopRunning => loopThread # "ended"

LoopInv == LoopTypeOK /\ CallbackHeld /\ LoopIdle /\ LoopSafe

\* The two halves of start() and the three of stop().
LEMMA StartStopKeep ==
  ASSUME LoopInv, NEW c \in Controllers,
         \/ StartLoop(c) \/ AssignThread(c)
         \/ StopLoop(c) \/ StopCheck(c) \/ StopJoin(c)
  PROVE  LoopInv'
<1> USE DEF LoopInv
<1>1. CASE StartLoop(c)
  <2>1. LoopTypeOK' /\ CallbackHeld'
    BY <1>1 DEF StartLoop, LoopTypeOK, CallbackHeld
  <2>2. Controlling' = Controlling \cup {c} /\ controller'[c] = "start"
    BY <1>1 DEF StartLoop, Controlling, LoopTypeOK
  <2>3. LoopIdle'
    BY <1>1, <2>2 DEF StartLoop, LoopTypeOK, LoopIdle
  <2>4. LoopSafe'
    BY <1>1, <2>1, <2>2 DEF StartLoop, LoopTypeOK, CallbackHeld, LoopIdle, LoopSafe
  <2>. QED BY <2>1, <2>3, <2>4
<1>2. CASE StopLoop(c)
  <2>1. LoopTypeOK' /\ CallbackHeld'
    BY <1>2 DEF StopLoop, LoopTypeOK, CallbackHeld
  <2>2. Controlling' = Controlling \cup {c} /\ controller'[c] = "check"
    BY <1>2 DEF StopLoop, Controlling, LoopTypeOK
  <2>3. LoopIdle'
    BY <1>2, <2>2 DEF StopLoop, LoopTypeOK, LoopIdle
  <2>4. LoopSafe'
    BY <1>2, <2>1, <2>2 DEF StopLoop, LoopTypeOK, CallbackHeld, LoopIdle, LoopSafe
  <2>. QED BY <2>1, <2>3, <2>4
<1>3. CASE StopCheck(c)
  <2>1. LoopTypeOK' /\ CallbackHeld'
    BY <1>3 DEF StopCheck, LoopTypeOK, CallbackHeld
  <2>2. IF loopThread = "none" THEN Controlling' = Controlling \ {c} ELSE Controlling' = Controlling
    BY <1>3 DEF StopCheck, Controlling, LoopTypeOK
  <2>3. c \in Controlling
    BY <1>3 DEF StopCheck, Controlling
  <2>4. LoopIdle'
    BY <1>3, <2>2, <2>3 DEF StopCheck, LoopTypeOK, LoopIdle, LoopSafe
  <2>5. LoopSafe'
    BY <1>3, <2>1, <2>2, <2>3 DEF StopCheck, LoopTypeOK, CallbackHeld, LoopIdle, LoopSafe
  <2>. QED BY <2>1, <2>4, <2>5
<1>4. CASE StopJoin(c)
  <2>1. LoopTypeOK' /\ CallbackHeld'
    BY <1>4 DEF StopJoin, LoopTypeOK, CallbackHeld
  <2>2. c \in Controlling /\ controller[c] = "join"
    BY <1>4 DEF StopJoin, Controlling
  <2>3. CASE loopThread = "none"
    BY <1>4, <2>1, <2>2, <2>3 DEF StopJoin, LoopIdle, LoopSafe, CallbackHeld, LoopTypeOK
  <2>4. CASE loopThread = "ended" /\ crashed' = crashed
    <3>1. Controlling' = Controlling \ {c}
      BY <1>4, <2>4 DEF StopJoin, Controlling, LoopTypeOK
    <3>2. LoopIdle'
      BY <1>4, <2>2, <2>4, <3>1 DEF StopJoin, LoopTypeOK, LoopIdle, LoopSafe
    <3>3. LoopSafe'
      BY <1>4, <2>1, <2>2, <2>4, <3>1 DEF StopJoin, LoopTypeOK, CallbackHeld, LoopIdle, LoopSafe
    <3>. QED BY <2>1, <3>2, <3>3
  <2>. QED BY <1>4, <2>3, <2>4 DEF StopJoin
<1>5. CASE AssignThread(c)
  <2>1. LoopTypeOK' /\ CallbackHeld'
    BY <1>5 DEF AssignThread, LoopTypeOK, CallbackHeld
  <2>2. c \in Controlling /\ controller[c] = "start" /\ Controlling' = Controlling \ {c}
    BY <1>5 DEF AssignThread, Controlling, LoopTypeOK
  <2>3. LoopIdle'
    BY <1>5, <2>2 DEF AssignThread, LoopTypeOK, LoopIdle, LoopSafe
  <2>4. LoopSafe'
    BY <1>5, <2>1, <2>2 DEF AssignThread, LoopTypeOK, CallbackHeld, LoopIdle, LoopSafe
  <2>. QED BY <2>1, <2>3, <2>4
<1>. QED BY <1>1, <1>2, <1>3, <1>4, <1>5

\* run() and tick().
LEMMA TicksKeep ==
  ASSUME LoopInv, LoopTop \/ LoopTick \/ \E c \in Controllers : ManualTick(c)
  PROVE  LoopInv'
<1> USE DEF LoopInv
<1>1. CASE LoopTop
  <2>1. Controlling' = Controlling
    BY <1>1 DEF LoopTop, Controlling
  <2>. QED BY <1>1, <2>1 DEF LoopTop, LoopTypeOK, CallbackHeld, LoopIdle, LoopSafe
<1>2. CASE LoopTick
  <2>1. Controlling' = Controlling
    BY <1>2 DEF LoopTick, Controlling
  <2>. QED BY <1>2, <2>1 DEF LoopTick, LoopTypeOK, CallbackHeld, LoopIdle, LoopSafe
<1>3. ASSUME NEW c \in Controllers, ManualTick(c) PROVE LoopInv'
  <2>1. Controlling' = Controlling
    BY <1>3 DEF ManualTick, Controlling, LoopTypeOK
  <2>2. LoopTypeOK' /\ CallbackHeld'
    BY <1>3 DEF ManualTick, LoopTypeOK, CallbackHeld
  <2>3. LoopIdle'
    BY <1>3, <2>1 DEF ManualTick, LoopIdle
  <2>4. LoopSafe'
    <3>1. \A d \in Controlling : controller'[d] = controller[d]
      BY <1>3 DEF ManualTick, Controlling, LoopTypeOK
    <3>2. UNCHANGED <<loopRunning, loopThread, crashed, overlapped>>
      BY <1>3 DEF ManualTick
    <3>3. ~overlapped' =>
            /\ ~crashed'
            /\ loopRunning' /\ Controlling' = {} => loopThread' \notin {"none", "ended"}
            /\ \A d \in Controlling' : /\ loopRunning' <=> controller'[d] = "start"
                                       /\ controller'[d] = "start" => loopThread' = "none"
                                       /\ controller'[d] = "join" => loopThread' # "none"
      BY <2>1, <3>1, <3>2 DEF LoopSafe
    <3>. QED BY <2>2, <3>3 DEF LoopSafe, CallbackHeld
  <2>. QED BY <2>2, <2>3, <2>4
<1>. QED BY <1>1, <1>2, <1>3

\* However many threads start, stop and tick the loop: ticks never overlap, and the loop is
\* sound for as long as calls of start() and stop() do not (LoopSafe: GameLoop::start, stop,
\* run, GameServer::tick).
THEOREM LoopStaysSafe == LoopSpec => []LoopSafe
<1>1. LoopInit => LoopInv
  BY DEF LoopInit, LoopInv, LoopTypeOK, CallbackHeld, LoopIdle, LoopSafe, Controlling
<1>2. LoopInv /\ [LoopNext]_loopVars => LoopInv'
  <2> SUFFICES ASSUME LoopInv, [LoopNext]_loopVars PROVE LoopInv'
    OBVIOUS
  <2>1. CASE UNCHANGED loopVars
    BY <2>1 DEF loopVars, LoopInv, LoopTypeOK, CallbackHeld, LoopIdle, LoopSafe, Controlling
  <2>. QED BY <2>1, StartStopKeep, TicksKeep DEF LoopNext, LoopCrashed
<1>3. LoopInv => LoopSafe
  BY DEF LoopInv
<1>. QED BY <1>1, <1>2, <1>3, PTL DEF LoopSpec

(***************************************************************************)
(* JobScheduler, for any number of workers, clients and jobs.              *)
(*                                                                         *)
(* Of the jobs that are being executed, the one scheduled first cannot     *)
(* wait: a job depends on an earlier one (DependsBack), which is not       *)
(* queued any more if nothing was overtaken (NotOvertaken), so that it is  *)
(* done or executed itself, by a worker of its own (Held).                 *)
(***************************************************************************)

JobRecord == [dep : Nat, prio : Priorities, stage : {"queued", "started", "done"}]

JobTypeOK ==
  /\ jobs \in Seq(JobRecord) /\ futures \subseteq JobIds /\ overtaken \in BOOLEAN
  /\ worker \in [Workers -> Nat] /\ client \in [Clients -> Nat]
  /\ \A c \in Clients : client[c] # 0 => client[c] \in JobIds

DependsBack == \A j \in JobIds : jobs[j].dep < j

Held ==
  /\ \A w \in Workers : worker[w] # 0 => worker[w] \in JobIds /\ Stage(worker[w]) = "started"
  /\ \A w \in Workers : \A v \in Workers : worker[w] = worker[v] /\ worker[w] # 0 => w = v
  /\ \A j \in JobIds : Stage(j) = "started" => \E w \in Workers : worker[w] = j

NotOvertaken ==
  ~overtaken =>
    \A j \in JobIds : Stage(j) = "started" /\ jobs[j].dep # 0 => Stage(jobs[j].dep) # "queued"

DoneInOrder ==
  \A j \in JobIds :
    Stage(j) = "done" /\ j \notin cancelled /\ jobs[j].dep # 0 => Stage(jobs[j].dep) = "done"

JobInv == JobTypeOK /\ DependsBack /\ Held /\ NotOvertaken /\ DoneInOrder

\* What is known of a single job.
LEMMA JobFacts ==
  ASSUME jobs \in Seq(JobRecord), NEW j \in JobIds
  PROVE  /\ j \in Nat \ {0} /\ jobs[j].dep \in Nat /\ jobs[j].prio \in Nat
         /\ Stage(j) \in {"queued", "started", "done"}
         /\ jobs[j].dep < j /\ jobs[j].dep # 0 => jobs[j].dep \in JobIds
<1>1. JobIds = 1..Len(jobs) /\ Len(jobs) \in Nat
  BY DEF JobIds
<1>2. jobs[j] \in JobRecord
  BY DEF JobIds
<1>3. jobs[j].dep \in Nat /\ jobs[j].prio \in Nat /\ Stage(j) \in {"queued", "started", "done"}
  BY <1>2 DEF JobRecord, Priorities, Stage
<1>. QED BY <1>1, <1>3

\* A set of job ids that is not empty has a first.
LEMMA FirstOf ==
  ASSUME NEW T \in SUBSET Nat, T # {}
  PROVE  First(T) \in T /\ \A y \in T : First(T) <= y
<1>1. PICK x \in T : \A y \in T : ~ (<<y, x>> \in OpToRel(<, Nat))
  BY NatLessThanWellFounded, WFMin, Zenon
<1>2. ASSUME NEW y \in T PROVE x <= y
  <2>1. ~ (y < x)
    BY <1>1 DEF OpToRel
  <2>. QED BY <2>1
<1>. QED BY <1>2 DEF First

\* The job a worker takes is one that is queued.
LEMMA TakenQueued ==
  ASSUME JobTypeOK, Queued # {}
  PROVE  First(Queued) \in Queued /\ First(Highest) \in Queued
<1>1. JobIds \subseteq Nat /\ \A j \in JobIds : jobs[j].prio \in Nat
  BY JobFacts DEF JobTypeOK
<1>2. Queued \subseteq Nat /\ Highest \subseteq Queued
  BY <1>1 DEF Queued, Highest
<1> DEFINE prios == {jobs[j].prio : j \in Queued}
<1>3. prios \subseteq Nat /\ prios # {}
  BY <1>1 DEF Queued
<1>4. PICK j \in Queued : jobs[j].prio = First(prios)
  <2>1. First(prios) \in prios
    BY <1>3, FirstOf
  <2>. QED BY <2>1
<1>5. j \in Highest
  <2>1. \A y \in prios : First(prios) <= y
    BY <1>3, FirstOf
  <2>. QED BY <1>4, <2>1 DEF Highest
<1>. QED BY <1>2, <1>5, FirstOf

\* A job is added at the end.
LEMMA EnqueueKeeps ==
  ASSUME JobInv, NEW dep \in Nat, dep = 0 \/ dep \in JobIds, NEW prio \in Priorities, Enqueue(dep, prio),
         UNCHANGED <<futures, cancelled, worker, overtaken>>
  PROVE  /\ DependsBack' /\ Held' /\ NotOvertaken' /\ DoneInOrder' /\ jobs' \in Seq(JobRecord)
         /\ JobIds \subseteq JobIds' /\ Len(jobs) + 1 \in JobIds'
<1> DEFINE new == [dep |-> dep, prio |-> prio, stage |-> "queued"]
           n == Len(jobs) + 1
<1>1. new \in JobRecord /\ jobs \in Seq(JobRecord) /\ Len(jobs) \in Nat
  BY DEF JobInv, JobTypeOK, JobRecord
<1>2. /\ jobs' = Append(jobs, new) /\ jobs' \in Seq(JobRecord) /\ JobIds = 1..Len(jobs) /\ JobIds' = 1..n
      /\ jobs'[n] = new /\ \A j \in JobIds : jobs'[j] = jobs[j]
  BY <1>1 DEF Enqueue, JobIds
<1>3. JobIds \subseteq JobIds' /\ n \in JobIds' /\ n \notin JobIds /\ \A j \in JobIds' : j \in JobIds \/ j = n
  BY <1>1, <1>2
<1>4. \A j \in JobIds : jobs[j].dep # 0 => jobs[j].dep \in JobIds
  BY <1>1, JobFacts DEF JobInv, DependsBack
<1>5. DependsBack'
  <2>1. dep < n
    BY <1>1, <1>2
  <2>. QED BY <1>2, <1>3, <2>1 DEF JobInv, DependsBack
<1> HIDE DEF n
<1>6. Held'
  BY <1>2, <1>3 DEF JobInv, Held, Stage
<1>7. NotOvertaken'
  BY <1>2, <1>3, <1>4 DEF JobInv, NotOvertaken, Stage
<1>8. DoneInOrder'
  BY <1>2, <1>3, <1>4 DEF JobInv, DoneInOrder, Stage
<1>. QED BY <1>2, <1>3, <1>5, <1>6, <1>7, <1>8 DEF n

\* A worker begins with a job, or leaves one that is cancelled.
LEMMA TakeKeeps ==
  ASSUME JobInv, NEW w \in Workers, Take(w)
  PROVE  JobInv'
<1>1. PICK j \in Queued : BeginJob(w, j) /\ overtaken' = (overtaken \/ jobs[j].dep \in Queued)
  BY TakenQueued DEF Take, JobInv
<1>2. worker[w] = 0 /\ UNCHANGED <<futures, cancelled, client, tickJob>>
  BY DEF Take
<1>3. j \in JobIds /\ Stage(j) = "queued" /\ jobs \in Seq(JobRecord) /\ j # 0 /\ j \in Nat
  BY <1>1 DEF Queued, JobInv, JobTypeOK, JobIds
<1>4. PICK s \in {"started", "done"} :
        /\ jobs' = [jobs EXCEPT ![j].stage = s]
        /\ s = "done" => j \in cancelled /\ worker' = worker
        /\ s = "started" => worker' = [worker EXCEPT ![w] = j]
  BY <1>1 DEF BeginJob, SetStage
<1>5. /\ jobs' \in Seq(JobRecord) /\ JobIds' = JobIds /\ jobs'[j].stage = s
      /\ \A i \in JobIds : jobs'[i].dep = jobs[i].dep /\ (i # j => jobs'[i] = jobs[i])
  <2>1. jobs \in [1..Len(jobs) -> JobRecord] /\ JobIds = 1..Len(jobs)
    BY <1>3 DEF JobIds
  <2>2. jobs' \in [1..Len(jobs) -> JobRecord]
    BY <1>3, <1>4, <2>1 DEF JobRecord
  <2>3. jobs' \in Seq(JobRecord)
    BY <1>3, <2>2
  <2>. QED BY <1>3, <1>4, <2>1, <2>2, <2>3 DEF JobIds, JobRecord
<1>6. \A v \in Workers : worker[v] # j
  BY <1>3 DEF JobInv, Held
<1>7. /\ worker' \in [Workers -> Nat] /\ \A v \in Workers : v # w => worker'[v] = worker[v]
      /\ worker'[w] = IF s = "started" THEN j ELSE 0
  BY <1>2, <1>3, <1>4 DEF JobInv, JobTypeOK
<1>8. JobTypeOK'
  BY <1>1, <1>2, <1>5, <1>7 DEF JobInv, JobTypeOK
<1>9. DependsBack'
  BY <1>5 DEF JobInv, DependsBack
<1>10. Held'
  <2>1. ASSUME NEW i \in JobIds, jobs'[i].stage = "started" PROVE \E v \in Workers : worker'[v] = i
    <3>1. CASE i = j
      BY <1>5, <1>7, <2>1, <3>1 DEF Stage
    <3>2. CASE i # j
      <4>1. PICK v \in Workers : worker[v] = i
        BY <1>5, <2>1, <3>2 DEF JobInv, Held, Stage
      <4>2. v # w
        BY <1>2, <1>5, <2>1, <4>1 DEF JobIds, JobInv, JobTypeOK
      <4>. QED BY <1>7, <4>1, <4>2
    <3>. QED BY <3>1, <3>2
  <2>2. ASSUME NEW v \in Workers, worker'[v] # 0
        PROVE  worker'[v] \in JobIds /\ jobs'[worker'[v]].stage = "started"
    BY <1>3, <1>4, <1>5, <1>6, <1>7, <2>2 DEF JobInv, Held, Stage
  <2>3. \A v, u \in Workers : worker'[v] = worker'[u] /\ worker'[v] # 0 => v = u
    BY <1>6, <1>7 DEF JobInv, Held
  <2>. QED BY <1>5, <2>1, <2>2, <2>3 DEF Held, Stage
<1>11. NotOvertaken'
  <2>1. ASSUME ~overtaken', NEW i \in JobIds, Stage(i)' = "started", jobs'[i].dep # 0
        PROVE  jobs'[jobs'[i].dep].stage # "queued"
    <3>1. ~overtaken /\ jobs[j].dep \notin Queued
      BY <1>1, <2>1 DEF JobInv, JobTypeOK
    <3>2. jobs[i].dep \in JobIds
      BY <1>3, <1>5, <2>1, JobFacts DEF JobInv, DependsBack
    <3>3. CASE i = j
      BY <1>5, <2>1, <3>1, <3>2, <3>3 DEF Queued, Stage
    <3>4. CASE i # j
      <4>1. Stage(jobs[i].dep) # "queued"
        BY <1>5, <2>1, <3>1, <3>4 DEF JobInv, NotOvertaken, Stage
      <4>. QED BY <1>5, <3>2, <4>1 DEF Stage
    <3>. QED BY <3>3, <3>4
  <2>. QED BY <1>5, <2>1 DEF NotOvertaken, Stage
<1>12. DoneInOrder'
  <2>1. ASSUME NEW i \in JobIds, Stage(i)' = "done", i \notin cancelled, jobs'[i].dep # 0
        PROVE  jobs'[jobs'[i].dep].stage = "done"
    <3>1. i # j
      BY <1>3, <1>4, <1>5, <2>1 DEF Stage
    <3>2. jobs[i].dep \in JobIds
      BY <1>3, <1>5, <2>1, JobFacts DEF JobInv, DependsBack
    <3>3. Stage(jobs[i].dep) = "done"
      BY <1>5, <2>1, <3>1 DEF JobInv, DoneInOrder, Stage
    <3>. QED BY <1>3, <1>5, <3>2, <3>3 DEF Stage
  <2>. QED BY <1>2, <1>5, <2>1 DEF DoneInOrder, Stage
<1>. QED BY <1>8, <1>9, <1>10, <1>11, <1>12 DEF JobInv

\* A worker is through with its job.
LEMMA FinishKeeps ==
  ASSUME JobInv, NEW w \in Workers, Finish(w)
  PROVE  JobInv'
<1>1. PICK j \in JobIds : j = worker[w] /\ Stage(j) = "started" /\ j # 0 /\ j \in Nat
  BY DEF Finish, JobInv, JobTypeOK, Held
<1>2. /\ jobs' = [jobs EXCEPT ![j].stage = "done"] /\ worker' = [worker EXCEPT ![w] = 0]
      /\ UNCHANGED <<futures, cancelled, client, tickJob, overtaken>>
      /\ jobs[j].dep # 0 => Stage(jobs[j].dep) = "done"
  BY <1>1 DEF Finish, SetStage
<1>3. jobs \in Seq(JobRecord)
  BY DEF JobInv, JobTypeOK
<1>4. /\ jobs' \in Seq(JobRecord) /\ JobIds' = JobIds /\ jobs'[j].stage = "done"
      /\ \A i \in JobIds : jobs'[i].dep = jobs[i].dep /\ (i # j => jobs'[i] = jobs[i])
  <2>1. jobs \in [1..Len(jobs) -> JobRecord] /\ JobIds = 1..Len(jobs)
    BY <1>3 DEF JobIds
  <2>2. jobs' \in [1..Len(jobs) -> JobRecord]
    BY <1>1, <1>2, <2>1 DEF JobRecord
  <2>3. jobs' \in Seq(JobRecord)
    BY <1>3, <2>2
  <2>. QED BY <1>1, <1>2, <2>1, <2>2, <2>3 DEF JobIds, JobRecord
<1>5. /\ worker' \in [Workers -> Nat] /\ \A v \in Workers : v # w => worker'[v] = worker[v] /\ worker[v] # j
      /\ worker'[w] = 0
  BY <1>1, <1>2 DEF JobInv, JobTypeOK, Held
<1>6. JobTypeOK'
  BY <1>2, <1>4, <1>5 DEF JobInv, JobTypeOK
<1>7. DependsBack'
  BY <1>4 DEF JobInv, DependsBack
<1>8. Held'
  <2>1. ASSUME NEW i \in JobIds, jobs'[i].stage = "started" PROVE \E v \in Workers : worker'[v] = i
    <3>1. i # j
      BY <1>4, <2>1
    <3>2. PICK v \in Workers : worker[v] = i
      BY <1>4, <2>1, <3>1 DEF JobInv, Held, Stage
    <3>. QED BY <1>1, <1>5, <3>1, <3>2
  <2>2. ASSUME NEW v \in Workers, worker'[v] # 0
        PROVE  worker'[v] \in JobIds /\ jobs'[worker'[v]].stage = "started"
    BY <1>4, <1>5, <2>2 DEF JobInv, Held, Stage
  <2>3. \A v, u \in Workers : worker'[v] = worker'[u] /\ worker'[v] # 0 => v = u
    BY <1>5 DEF JobInv, Held
  <2>. QED BY <1>4, <2>1, <2>2, <2>3 DEF Held, Stage
<1>9. \A i \in JobIds : jobs[i].dep # 0 => jobs[i].dep \in JobIds
  BY <1>3, JobFacts DEF JobInv, DependsBack
<1>10. NotOvertaken'
  <2>1. ASSUME ~overtaken, NEW i \in JobIds, jobs'[i].stage = "started", jobs'[i].dep # 0
        PROVE  jobs'[jobs'[i].dep].stage # "queued"
    BY <1>4, <1>9, <2>1 DEF JobInv, NotOvertaken, Stage
  <2>. QED BY <1>2, <1>4, <2>1 DEF NotOvertaken, Stage
<1>11. DoneInOrder'
  <2>1. ASSUME NEW i \in JobIds, jobs'[i].stage = "done", i \notin cancelled, jobs'[i].dep # 0
        PROVE  jobs'[jobs'[i].dep].stage = "done"
    BY <1>2, <1>4, <1>9, <2>1 DEF JobInv, DoneInOrder, Stage
  <2>. QED BY <1>2, <1>4, <2>1 DEF DoneInOrder, Stage
<1>. QED BY <1>6, <1>7, <1>8, <1>10, <1>11 DEF JobInv

\* The steps that neither add a job nor change one.
LEMMA JobsSame ==
  ASSUME JobInv, UNCHANGED <<jobs, worker, overtaken>>, cancelled \subseteq cancelled', JobTypeOK'
  PROVE  JobInv'
<1>1. JobIds' = JobIds
  BY DEF JobIds
<1>2. DependsBack' /\ Held' /\ NotOvertaken'
  BY <1>1 DEF JobInv, DependsBack, Held, NotOvertaken, Stage
<1>3. DoneInOrder'
  BY <1>1 DEF JobInv, DoneInOrder, Stage
<1>. QED BY <1>2, <1>3 DEF JobInv

\* The invariant says that the pool is never stuck.
LEMMA SomebodyWorks ==
  ASSUME JobInv
  PROVE  JobsAdvance
<1>1. SUFFICES ASSUME ~overtaken, NEW j \in JobIds, Stage(j) # "done"
               PROVE  \E w \in Workers : IF worker[w] = 0 THEN Queued # {} ELSE ~Waits(w)
  BY DEF JobInv, DoneInOrder, JobsAdvance
<1>2. jobs \in Seq(JobRecord) /\ worker \in [Workers -> Nat]
  BY DEF JobInv, JobTypeOK
<1> DEFINE Started == {i \in JobIds : Stage(i) = "started"}
<1>3. CASE Started = {}
  <2>1. \A i \in JobIds : Stage(i) \in {"queued", "started", "done"}
    BY <1>2, JobFacts
  <2>2. Queued # {}
    BY <1>1, <1>3, <2>1 DEF Queued
  <2>3. \A w \in Workers : worker[w] = 0
    BY <1>3 DEF JobInv, Held
  <2>. QED BY <2>2, <2>3, JobAssumption
<1>4. CASE Started # {}
  <2>1. Started \subseteq Nat
    BY <1>2, JobFacts
  <2>2. PICK i \in Started : \A k \in Started : i <= k
    BY <1>4, <2>1, FirstOf
  <2>3. PICK w \in Workers : worker[w] = i
    BY DEF JobInv, Held
  <2>4. ~Waits(w)
    <3>1. SUFFICES ASSUME jobs[i].dep # 0, Stage(jobs[i].dep) # "done" PROVE FALSE
      BY <2>3 DEF Waits
    <3>2. jobs[i].dep \in JobIds /\ jobs[i].dep < i /\ i \in Nat /\ jobs[i].dep \in Nat
      BY <1>2, <3>1, JobFacts DEF JobInv, DependsBack
    <3>3. Stage(jobs[i].dep) # "queued"
      BY <1>1, <3>1 DEF JobInv, NotOvertaken
    <3>4. \A k \in JobIds : Stage(k) \in {"queued", "started", "done"}
      BY <1>2, JobFacts
    <3>5. jobs[i].dep \in Started
      BY <3>1, <3>2, <3>3, <3>4
    <3>. QED BY <2>2, <3>2, <3>5
  <2>5. worker[w] # 0
    BY <1>2, <2>3, JobFacts
  <2>. QED BY <2>4, <2>5
<1>. QED BY <1>3, <1>4

\* For any number of workers, clients and jobs and whatever is cancelled when: jobs are done
\* in the order of their dependencies, and the workers never all wait for one another while
\* the pool keeps the order of a job and the one it waits for (JobsAdvance: schedule(),
\* scheduleAfter(), cancel()).
THEOREM JobsAlwaysAdvance == JobSpec => []JobsAdvance
<1>1. JobInit => JobInv
  <2> SUFFICES ASSUME JobInit PROVE JobInv
    OBVIOUS
  <2>1. jobs = <<>> /\ JobIds = {} /\ jobs \in Seq(JobRecord)
    BY DEF JobInit, JobIds
  <2>. QED BY <2>1 DEF JobInit, JobInv, JobTypeOK, DependsBack, Held, NotOvertaken, DoneInOrder
<1>2. JobInv /\ [JobNext]_jobVars => JobInv'
  <2> SUFFICES ASSUME JobInv, [JobNext]_jobVars PROVE JobInv'
    OBVIOUS
  <2>0. Len(jobs) + 1 \in Nat
    BY DEF JobInv, JobTypeOK
  <2>1. CASE UNCHANGED jobVars
    BY <2>1, JobsSame DEF jobVars, JobInv, JobTypeOK, JobIds
  <2>2. CASE ScheduleTick \/ CancelTick
    BY <2>2, JobsSame DEF ScheduleTick, CancelTick, JobInv, JobTypeOK, JobIds
  <2>3. CASE ProcessTick
    <3>1. CASE Enqueue(0, Normal)
      <4>1. /\ DependsBack' /\ Held' /\ NotOvertaken' /\ DoneInOrder' /\ jobs' \in Seq(JobRecord)
            /\ JobIds \subseteq JobIds'
        BY <2>3, <3>1, EnqueueKeeps DEF ProcessTick, Normal, Priorities
      <4>. QED BY <2>3, <4>1 DEF ProcessTick, JobInv, JobTypeOK
    <3>2. CASE UNCHANGED jobs
      BY <2>3, <3>2, JobsSame DEF ProcessTick, JobInv, JobTypeOK, JobIds
    <3>. QED BY <2>3, <3>1, <3>2 DEF ProcessTick
  <2>4. ASSUME NEW w \in Workers, WorkerStep(w) PROVE JobInv'
    BY <2>4, TakeKeeps, FinishKeeps DEF WorkerStep
  <2>5. ASSUME NEW c \in Clients, EnterFuture(c) PROVE JobInv'
    <3>1. JobTypeOK'
      BY <2>5 DEF EnterFuture, JobInv, JobTypeOK, JobIds
    <3>. QED BY <2>5, <3>1, JobsSame DEF EnterFuture
  <2>6. ASSUME NEW c \in Clients, NEW dep \in Nat, dep = 0 \/ dep \in JobIds, NEW prio \in Priorities,
               Enqueue(dep, prio), client' = [client EXCEPT ![c] = Len(jobs) + 1],
               UNCHANGED <<futures, cancelled, worker, tickJob, overtaken>>
        PROVE  JobInv'
    <3>1. /\ DependsBack' /\ Held' /\ NotOvertaken' /\ DoneInOrder' /\ jobs' \in Seq(JobRecord)
          /\ JobIds \subseteq JobIds' /\ Len(jobs) + 1 \in JobIds'
      BY <2>6, EnqueueKeeps
    <3>2. JobTypeOK'
      BY <2>0, <2>6, <3>1 DEF JobInv, JobTypeOK
    <3>. QED BY <3>1, <3>2 DEF JobInv
  <2>7. ASSUME NEW c \in Clients, NEW p \in Priorities, Schedule(c, p) PROVE JobInv'
    <3>1. PICK none \in Nat : none = 0
      OBVIOUS
    <3>2. Enqueue(none, p)
      BY <2>7, <3>1 DEF Schedule
    <3>. QED BY <2>6, <2>7, <3>1, <3>2 DEF Schedule
  <2>8. ASSUME NEW c \in Clients, NEW j \in JobIds, ScheduleAfter(c, j) PROVE JobInv'
    <3>1. Normal \in Priorities
      BY DEF Normal, Priorities
    <3>2. j \in Nat
      BY JobFacts DEF JobInv, JobTypeOK
    <3>. QED BY <2>6, <2>8, <3>1, <3>2 DEF ScheduleAfter
  <2>9. ASSUME NEW c \in Clients, NEW j \in JobIds, Cancel(c, j) PROVE JobInv'
    BY <2>9, JobsSame DEF Cancel, JobInv, JobTypeOK, JobIds
  <2>. QED BY <2>1, <2>2, <2>3, <2>4, <2>5, <2>7, <2>8, <2>9 DEF JobNext, JobsExhausted
<1>3. JobInv => JobsAdvance
  BY SomebodyWorks
<1>. QED BY <1>1, <1>2, <1>3, PTL DEF JobSpec
=============================================================================
