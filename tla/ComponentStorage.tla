--------------------------- MODULE ComponentStorage ---------------------------
(***************************************************************************)
(* ComponentStorage<T> of include/cgs/ecs/component_storage.hpp: a sparse  *)
(* set.  A storage is a record of its members; sparse holds the dense      *)
(* position of an entity id, or 0 for kInvalidIndex (dense positions       *)
(* begin at 1 here).  A component stands for the entity it was added for.  *)
(***************************************************************************)
EXTENDS Naturals, Sequences

CONSTANTS EntityIds          \* Entity::id()

\* dense_ and entities_, which grow and shrink together, sparse_ and globalVersion_.
EmptyStorage == [dense |-> <<>>, entities |-> <<>>, sparse |-> [id \in EntityIds |-> 0],
                 version |-> 0]

Has(st, id) == st.sparse[id] # 0

\* Add(), whose precondition is ~Has.
Add(st, id, component) ==
  [dense |-> Append(st.dense, component), entities |-> Append(st.entities, id),
   sparse |-> [st.sparse EXCEPT ![id] = Len(st.dense) + 1], version |-> st.version + 1]

\* Replace() and MarkChanged().
Replace(st, id, component) ==
  [dense |-> [st.dense EXCEPT ![st.sparse[id]] = component], entities |-> st.entities,
   sparse |-> st.sparse, version |-> st.version + 1]

\* Mutant of Remove(): the version is left as it is.
RemoveQuietly(st, id) ==
  LET at == st.sparse[id]
      last == Len(st.dense)
      owner == st.entities[last] IN
  IF ~Has(st, id) THEN st
  ELSE [dense |-> SubSeq([st.dense EXCEPT ![at] = st.dense[last]], 1, last - 1),
        entities |-> SubSeq([st.entities EXCEPT ![at] = owner], 1, last - 1),
        sparse |-> [st.sparse EXCEPT ![owner] = at, ![id] = 0], version |-> st.version]

\* Remove(): the last component takes the place of the removed one.
RemoveComponent(st, id) ==
  LET at == st.sparse[id]
      last == Len(st.dense)
      owner == st.entities[last] IN
  IF ~Has(st, id) THEN st
  ELSE [dense |-> SubSeq([st.dense EXCEPT ![at] = st.dense[last]], 1, last - 1),
        entities |-> SubSeq([st.entities EXCEPT ![at] = owner], 1, last - 1),
        sparse |-> [st.sparse EXCEPT ![owner] = at, ![id] = 0], version |-> st.version + 1]

\* Clear().
Clear(st) == [EmptyStorage EXCEPT !.version = st.version + 1]

\* The sparse and the dense side say the same: every position is that of the entity
\* that owns it, and every component lies where it was put.
WellFormed(st) ==
  /\ Len(st.dense) = Len(st.entities)
  /\ \A i \in DOMAIN st.dense : st.sparse[st.entities[i]] = i /\ st.dense[i].id = st.entities[i]
  /\ \A id \in EntityIds :
       Has(st, id) => st.sparse[id] \in DOMAIN st.dense /\ st.entities[st.sparse[id]] = id
=============================================================================
