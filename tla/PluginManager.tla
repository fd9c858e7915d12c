----------------------------- MODULE PluginManager -----------------------------
(***************************************************************************)
(* PluginManager of src/plugins/plugin_manager.cpp: plugins are loaded     *)
(* from libraries, sorted by their dependencies (Kahn), initialized,       *)
(* activated, updated and shut down one by one or all together, and        *)
(* unloaded.  The manager is used from one thread; operations on all       *)
(* plugins are broken into the callbacks they make.                        *)
(*                                                                         *)
(* A version is <<major, minor>>; the patch number, the texts of reports,  *)
(* the events published and what OnUpdate() does are left out.  A call     *)
(* that returns an error before it changes anything is no step.            *)
(***************************************************************************)
EXTENDS Naturals, Sequences, FiniteSets, SequencesExt, Selection

CONSTANTS PluginNames,
          Files,             \* the contents the library of a plugin takes on over time:
                             \* [version, deps]
          StaticPlugins      \* StaticPluginRegistry(), in its order

ASSUME PluginAssumption ==
  /\ IsFiniteSet(PluginNames)
  /\ \A n \in PluginNames : Len(Files[n]) \in Nat \ {0} /\ DOMAIN Files[n] = 1..Len(Files[n])
  /\ \A i \in DOMAIN StaticPlugins : StaticPlugins[i] \in PluginNames

VARIABLES plugins,           \* plugins_: [bin, from, state] of the loaded ones
          loadOrder,         \* loadOrder_
          manager,           \* the operation in progress
          file,              \* which content each library file has
          missing,           \* libraries whose file is not there: they are being built
          outside            \* ghost: plugins were moved one by one, or OnInit() failed

pluginVars == <<plugins, loadOrder, manager, file, missing, outside>>

Loaded == DOMAIN plugins
NoOperation == [op |-> "idle", todo |-> <<>>, ready |-> <<>>, degree |-> <<>>]
ManagerIdle == manager.op = "idle"
SetState(n, s) == plugins' = [plugins EXCEPT ![n].state = s]
FreshPlugin(n) == [bin |-> Files[n][file[n]], from |-> file[n], state |-> "Loaded"]

PluginInit ==
  /\ plugins = <<>> /\ loadOrder = <<>> /\ manager = NoOperation
  /\ file = [n \in PluginNames |-> 1] /\ missing = {} /\ outside = FALSE

(***************************************************************************)
(* Versions and dependencies.                                              *)
(***************************************************************************)
VersionLess(v, w) == v[1] < w[1] \/ (v[1] = w[1] /\ v[2] < w[2])
AtLeast(v, w) == ~VersionLess(v, w)

\* VersionConstraint::IsSatisfiedBy().
Satisfied(c, v) ==
  \/ c.op = ">=" /\ AtLeast(v, c.version)
  \/ c.op = ">" /\ VersionLess(c.version, v)
  \/ c.op = "<=" /\ AtLeast(c.version, v)
  \/ c.op = "<" /\ VersionLess(v, c.version)
  \/ c.op = "==" /\ v = c.version
  \/ c.op = "~=" /\ AtLeast(v, c.version) /\ v[1] = c.version[1]

\* DependencySpec::IsSatisfiedBy().
AllSatisfied(dep, v) == \A c \in dep.constraints : Satisfied(c, v)

\* validateVersionConstraints(): a dependency that does not parse is not looked at.
ConstraintsHold ==
  \A n \in Loaded : \A dep \in plugins[n].bin.deps :
    dep.parses => dep.name \in Loaded /\ AllSatisfied(dep, plugins[dep.name].bin.version)

\* The edges of the graph: whatever is loaded, even if the rest does not parse.
Requires(n) == {dep.name : dep \in plugins[n].bin.deps} \cap Loaded

\* detectCycle(): everyone in some set of plugins requires another of the set.
HasCycle == \E S \in SUBSET Loaded : S # {} /\ \A n \in S : Requires(n) \cap S # {}

(***************************************************************************)
(* Loading.                                                                *)
(***************************************************************************)

\* LoadPlugin(), loadPluginInstance().
LoadPlugin(n) ==
  /\ ManagerIdle /\ n \notin Loaded /\ n \notin missing
  /\ plugins' = With(plugins, n, FreshPlugin(n))
  /\ UNCHANGED <<loadOrder, manager, file, missing, outside>>

\* RegisterStaticPlugins(): up to the first one that is already loaded.
RegisterStaticPlugins ==
  /\ ManagerIdle
  /\ LET known == {i \in DOMAIN StaticPlugins : StaticPlugins[i] \in Loaded}
         new == {i \in DOMAIN StaticPlugins : \A k \in known : i < k}
     IN  /\ new # {}
         /\ plugins' = [n \in Loaded \cup {StaticPlugins[i] : i \in new} |->
                          IF n \in Loaded THEN plugins[n] ELSE FreshPlugin(n)]
  /\ UNCHANGED <<loadOrder, manager, file, missing, outside>>

\* A library is built anew, which may remove it first (external).
RemoveFile(n) ==
  /\ file[n] < Len(Files[n]) /\ n \notin missing
  /\ missing' = missing \cup {n}
  /\ UNCHANGED <<plugins, loadOrder, manager, file, outside>>

WriteFile(n) ==
  /\ file[n] < Len(Files[n])
  /\ file' = [file EXCEPT ![n] = @ + 1] /\ missing' = missing \ {n}
  /\ UNCHANGED <<plugins, loadOrder, manager, outside>>

(***************************************************************************)
(* One plugin at a time.  OnInit() may fail.                               *)
(***************************************************************************)
InitPlugin(n) ==
  /\ ManagerIdle /\ n \in Loaded /\ plugins[n].state = "Loaded"
  /\ \E s \in {"Initialized", "Error"} : SetState(n, s)
  /\ outside' = TRUE
  /\ UNCHANGED <<loadOrder, manager, file, missing>>

ActivatePlugin(n) ==
  /\ ManagerIdle /\ n \in Loaded /\ plugins[n].state = "Initialized"
  /\ SetState(n, "Active")
  /\ UNCHANGED <<loadOrder, manager, file, missing, outside>>

Up(n) == plugins[n].state \in {"Initialized", "Active"}

ShutdownPlugin(n) ==
  /\ ManagerIdle /\ n \in Loaded /\ Up(n)
  /\ SetState(n, "Loaded")
  /\ outside' = TRUE
  /\ UNCHANGED <<loadOrder, manager, file, missing>>

\* The load order without a plugin.
OrderWithout(n) == KeptAt(loadOrder, {i \in DOMAIN loadOrder : loadOrder[i] # n})

UnloadPlugin(n) ==
  /\ ManagerIdle /\ n \in Loaded /\ plugins[n].state \in {"Loaded", "Error"}
  /\ plugins' = Without(plugins, n)
  /\ loadOrder' \in OrderWithout(n)
  /\ UNCHANGED <<manager, file, missing, outside>>

(***************************************************************************)
(* All plugins.                                                            *)
(***************************************************************************)
Orders == {s \in [1..Cardinality(Loaded) -> Loaded] : IsInjective(s)}

\* InitializeAll(), ValidateDependencies(): the in-degrees and the plugins without
\* dependencies, in the order of an unordered map: any.
InitializeAll ==
  /\ ManagerIdle /\ ConstraintsHold /\ ~HasCycle
  /\ \E s \in SetToSeqs({n \in Loaded : Requires(n) = {}}) :
       manager' = [op |-> "sort", todo |-> <<>>, ready |-> s,
                   degree |-> [n \in Loaded |-> Cardinality(Requires(n))]]
  /\ UNCHANGED <<plugins, loadOrder, file, missing, outside>>

\* A mutant of the sort: dependents are ready as soon as one dependency is placed.
PlaceReadyEarly ==
  /\ manager.op = "sort" /\ manager.ready # <<>>
  /\ LET n == Head(manager.ready)
         freed == {m \in Loaded : n \in Requires(m) /\ m \notin ToSet(manager.ready) \cup ToSet(manager.todo)}
     IN  \E s \in SetToSeqs(freed) :
           manager' = [manager EXCEPT !.todo = Append(@, n), !.ready = Tail(@) \o s]
  /\ UNCHANGED <<plugins, loadOrder, file, missing, outside>>

\* ... one round of the sort ...
PlaceReady ==
  /\ manager.op = "sort" /\ manager.ready # <<>>
  /\ LET n == Head(manager.ready)
         degree == [m \in Loaded |-> manager.degree[m] - (IF n \in Requires(m) THEN 1 ELSE 0)]
         freed == {m \in Loaded : n \in Requires(m) /\ degree[m] = 0}
     IN  \E s \in SetToSeqs(freed) :
           manager' = [manager EXCEPT !.todo = Append(@, n), !.ready = Tail(@) \o s,
                                      !.degree = degree]
  /\ UNCHANGED <<plugins, loadOrder, file, missing, outside>>

\* ... and the order is kept and gone through.
KeepOrder ==
  /\ manager.op = "sort" /\ manager.ready = <<>>
  /\ loadOrder' = manager.todo
  /\ manager' = IF manager.todo = <<>> THEN NoOperation
                ELSE [NoOperation EXCEPT !.op = "init", !.todo = manager.todo]
  /\ UNCHANGED <<plugins, file, missing, outside>>

\* The order of ActivateAll(), UpdateAll(), ShutdownAll(), UnloadAll().
CurrentOrders == IF loadOrder = <<>> THEN Orders ELSE {loadOrder}

Begin(op) ==
  /\ ManagerIdle /\ Loaded # {}
  /\ \E s \in CurrentOrders : manager' = [NoOperation EXCEPT !.op = op, !.todo = s]
  /\ UNCHANGED <<plugins, loadOrder, file, missing, outside>>

ActivateAll == Begin("activate")
UpdateAll == Begin("update")

\* A mutant of ShutdownAll(): the order is not reversed.
ShutdownInOrder == Begin("shutdown")

ShutdownAll ==
  /\ ManagerIdle /\ Loaded # {}
  /\ \E s \in CurrentOrders : manager' = [NoOperation EXCEPT !.op = "shutdown", !.todo = Reverse(s)]
  /\ UNCHANGED <<plugins, loadOrder, file, missing, outside>>

\* UnloadAll(), the order ...
UnloadAll ==
  /\ ManagerIdle /\ Loaded # {}
  /\ \E s \in CurrentOrders : manager' = [NoOperation EXCEPT !.op = "unload", !.todo = Reverse(s)]
  /\ UNCHANGED <<plugins, loadOrder, file, missing, outside>>

\* ... OnUnload() and the end of one instance, whatever state it is in ...
UnloadNext ==
  /\ manager.op = "unload" /\ manager.todo # <<>>
  /\ manager' = [manager EXCEPT !.todo = Tail(@)]
  /\ UNCHANGED <<plugins, loadOrder, file, missing, outside>>

\* ... and the entries, with the plugins that the order left out.
UnloadEnd ==
  /\ manager.op = "unload" /\ manager.todo = <<>>
  /\ plugins' = <<>> /\ loadOrder' = <<>> /\ manager' = NoOperation
  /\ UNCHANGED <<file, missing, outside>>

Advance == manager' = IF Len(manager.todo) = 1 THEN NoOperation
                      ELSE [manager EXCEPT !.todo = Tail(@)]

\* The next plugin of the order; one that is gone or in another state is skipped.
Skips(n) ==
  \/ n \notin Loaded
  \/ manager.op = "init" /\ plugins[n].state # "Loaded"
  \/ manager.op = "activate" /\ plugins[n].state # "Initialized"
  \/ manager.op = "update" /\ plugins[n].state # "Active"
  \/ manager.op = "shutdown" /\ ~Up(n)

NextPlugin ==
  /\ manager.todo # <<>> /\ manager.op \notin {"sort", "unload"}
  /\ LET n == Head(manager.todo)
     IN  \/ Skips(n) /\ Advance /\ UNCHANGED <<plugins, outside>>
         \/ ~Skips(n) /\ manager.op = "update" /\ Advance /\ UNCHANGED <<plugins, outside>>
         \/ /\ ~Skips(n) /\ manager.op # "update" /\ Advance /\ UNCHANGED outside
            /\ SetState(n, CASE manager.op = "init" -> "Initialized"
                             [] manager.op = "activate" -> "Active"
                             [] manager.op = "shutdown" -> "Loaded")
         \/ /\ ~Skips(n) /\ manager.op = "init"        \* OnInit() fails: the rest is left
            /\ SetState(n, "Error") /\ manager' = NoOperation /\ outside' = TRUE
  /\ UNCHANGED <<loadOrder, file, missing>>

PluginNext ==
  \/ RegisterStaticPlugins \/ InitializeAll \/ PlaceReady \/ KeepOrder \/ NextPlugin
  \/ ActivateAll \/ UpdateAll \/ ShutdownAll \/ UnloadAll \/ UnloadNext \/ UnloadEnd
  \/ \E n \in PluginNames : \/ LoadPlugin(n) \/ InitPlugin(n) \/ ActivatePlugin(n)
                            \/ ShutdownPlugin(n) \/ UnloadPlugin(n)

(***************************************************************************)
(* Properties.                                                             *)
(***************************************************************************)

PluginRecord == [bin : UNION {{Files[n][i] : i \in DOMAIN Files[n]} : n \in PluginNames},
                 from : Nat, state : {"Loaded", "Initialized", "Active", "Error"}]
Operation == [op : {"idle", "sort", "init", "activate", "update", "shutdown", "unload", "reload"},
              todo : Seq(PluginNames), ready : Seq(PluginNames), degree : [Loaded -> Nat] \cup {<<>>}]

\* Everything is about plugins there are.
PluginTypeOK ==
  /\ Loaded \subseteq PluginNames /\ plugins \in [Loaded -> PluginRecord]
  /\ loadOrder \in Seq(PluginNames) /\ manager \in Operation /\ outside \in BOOLEAN
  /\ file \in [PluginNames -> Nat] /\ \A n \in PluginNames : file[n] \in DOMAIN Files[n]

\* The load order names loaded plugins once, and none before one it requires, whatever
\* has been unloaded, loaded and built anew since it was computed.
LoadOrderSorted ==
  /\ IsInjective(loadOrder) /\ ToSet(loadOrder) \subseteq Loaded
  /\ \A i, j \in DOMAIN loadOrder : i <= j => loadOrder[j] \notin Requires(loadOrder[i])

\* Plugins whose instance UnloadAll() has ended.
Gone ==
  IF manager.op # "unload" THEN {}
  ELSE (IF loadOrder = <<>> THEN Loaded ELSE ToSet(loadOrder)) \ ToSet(manager.todo)

\* As long as plugins are moved all together and initialize, a plugin that is up has its
\* dependencies up and in the versions it asks for, at every callback: also OnUnload() of
\* a plugin that was never shut down finds the instances it depends on.
DependenciesUp ==
  ~outside =>
    \A n \in Loaded \ Gone : Up(n) =>
      \A dep \in plugins[n].bin.deps :
        dep.parses => /\ dep.name \in Loaded \ Gone /\ Up(dep.name)
                      /\ AllSatisfied(dep, plugins[dep.name].bin.version)
=============================================================================
