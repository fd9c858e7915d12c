------------------------------- MODULE HotReload -------------------------------
(***************************************************************************)
(* HotReloadManager of src/plugins/hot_reload_manager.cpp and its          *)
(* FileWatcher: Poll() compares the write times of watched libraries,      *)
(* waits until a change is debounceMs_ old and reloads the plugin, while   *)
(* the libraries may be written again at any time.                         *)
(*                                                                         *)
(* The libraries may also be gone for a while: then a poll leaves them     *)
(* alone, and the callback that looks for the plugin of another changed    *)
(* library may throw out of Poll().                                        *)
(*                                                                         *)
(* A reload takes the plugin down (shut down, unloaded) and brings the new *)
(* binary up (loaded, initialized, activated); every step may fail and     *)
(* ends the reload there.  The plugin's own state, captured before and     *)
(* restored after, is left out.                                            *)
(***************************************************************************)
EXTENDS PluginManager

CONSTANTS Watchable,         \* plugins whose library may be watched
          Debounce           \* debounceMs_

ASSUME HotReloadAssumption == Watchable \subseteq PluginNames /\ Debounce \in Nat

VARIABLES watched,           \* watchedPlugins_ and the watcher's entries: [seen, age, pending],
                             \* age = now - lastChangeDetected up to Debounce
          changed,           \* a Poll() in progress: plugins still to be reloaded
          unnoticed          \* ghost: <<plugin, content>> that no Poll() will report: the plugin
                             \* was watched with it already there, or a callback threw

reloadVars == <<watched, changed, unnoticed>>

HotReloadInit ==
  /\ watched = <<>> /\ changed = <<>> /\ unnoticed = {}

\* Nothing else runs on this thread.
Polling == changed # <<>>
FreeToCall == ManagerIdle /\ ~Polling

\* WatchPlugin(), FileWatcher::Watch(): what the file is now is the baseline, also when
\* it was being watched.
WatchPlugin(n) ==
  /\ FreeToCall /\ n \notin missing
  /\ watched' = With(watched, n, [seen |-> file[n], age |-> Debounce, pending |-> FALSE])
  /\ unnoticed' = unnoticed \cup
       (IF n \in Loaded /\ plugins[n].from # file[n] THEN {<<n, file[n]>>} ELSE {})
  /\ UNCHANGED <<pluginVars, changed>>

UnwatchPlugin(n) ==
  /\ FreeToCall /\ n \in DOMAIN watched
  /\ watched' = Without(watched, n)
  /\ UNCHANGED <<pluginVars, changed, unnoticed>>

\* The clock.
Age ==
  /\ \E n \in DOMAIN watched : watched[n].age < Debounce
  /\ watched' = [n \in DOMAIN watched |-> [watched[n] EXCEPT !.age = IF @ < Debounce THEN @ + 1 ELSE @]]
  /\ UNCHANGED <<pluginVars, changed, unnoticed>>

\* What Poll() makes of an entry before it looks at pendingCallback; the entry of a
\* library that is not there is passed over.
Looked(n) ==
  IF n \in missing \/ file[n] = watched[n].seen THEN watched[n]
  ELSE [seen |-> file[n], age |-> 0, pending |-> TRUE]
Due(n) == n \notin missing /\ Looked(n).pending /\ Looked(n).age >= Debounce

\* A mutant of Poll(): a change that is not due is forgotten.
PollForgets ==
  /\ FreeToCall /\ watched # <<>>
  /\ watched' = [n \in DOMAIN watched |-> [Looked(n) EXCEPT !.pending = FALSE]]
  /\ changed' \in SetToSeqs({n \in DOMAIN watched : Due(n)})
  /\ UNCHANGED <<pluginVars, unnoticed>>

\* Poll(): the entries under the lock, the callbacks afterwards.
Poll ==
  /\ FreeToCall /\ watched # <<>>
  /\ watched' = [n \in DOMAIN watched |-> [Looked(n) EXCEPT !.pending = @ /\ ~Due(n)]]
  /\ changed' \in SetToSeqs({n \in DOMAIN watched : Due(n)})
  /\ UNCHANGED <<pluginVars, unnoticed>>

\* doReload() of a plugin that is there, steps 1 to 3.
TakeDown(n) ==
  /\ n \in Loaded
  /\ outside' = (outside \/ Up(n))
  /\ plugins' = Without(plugins, n)
  /\ loadOrder' \in OrderWithout(n)
  /\ manager' = [NoOperation EXCEPT !.op = "reload"]
  /\ UNCHANGED <<file, missing, watched, unnoticed>>

\* ReloadPlugin().
ReloadPlugin(n) ==
  /\ FreeToCall /\ n \in DOMAIN watched
  /\ TakeDown(n) /\ changed' = <<n>>

\* The callback of Poll(): std::filesystem::equivalent() finds the plugin of the next
\* changed library, which is still there ...
FindsPlugin == Polling /\ ManagerIdle /\ Head(changed) \notin missing

ReloadChanged == FindsPlugin /\ TakeDown(Head(changed)) /\ UNCHANGED changed

\* ... which is not loaded: UnloadPlugin() fails ...
ReloadNothing ==
  /\ FindsPlugin /\ Head(changed) \notin Loaded
  /\ changed' = Tail(changed)
  /\ UNCHANGED <<pluginVars, watched, unnoticed>>

\* ... or equivalent() throws: it is gone again, or another one that is looked at before it
\* is not there.  The exception leaves Poll(), and the rest of the list is forgotten.
CallbackThrows ==
  /\ Polling /\ ManagerIdle /\ missing \cap DOMAIN watched # {}
  /\ changed' = <<>>
  /\ unnoticed' = unnoticed \cup {<<n, watched[n].seen>> : n \in ToSet(changed)}
  /\ UNCHANGED <<pluginVars, watched>>

\* doReload(), steps 4 to 7: the library may not load, OnInit() may fail.
BringUp ==
  /\ manager.op = "reload"
  /\ LET n == Head(changed)
     IN  \/ UNCHANGED plugins
         \/ /\ n \notin missing
            /\ \E s \in {"Error", "Active"} :
                 plugins' = With(plugins, n, [FreshPlugin(n) EXCEPT !.state = s])
  /\ outside' = TRUE
  /\ changed' = Tail(changed) /\ manager' = NoOperation
  /\ UNCHANGED <<loadOrder, file, missing, watched, unnoticed>>

ReloadNext ==
  \/ Age \/ Poll \/ ReloadChanged \/ ReloadNothing \/ CallbackThrows \/ BringUp
  \/ \E n \in Watchable : WatchPlugin(n) \/ UnwatchPlugin(n) \/ ReloadPlugin(n)

\* The callers of the plugin manager, and the libraries' authors.
ManagerNext ==
  /\ \/ ~Polling /\ PluginNext
     \/ \E n \in PluginNames : WriteFile(n) \/ RemoveFile(n)
  /\ UNCHANGED reloadVars

HotReloadSpec ==
  /\ PluginInit /\ HotReloadInit
  /\ [][ManagerNext \/ ReloadNext]_<<pluginVars, reloadVars>>

(***************************************************************************)
(* Properties.                                                             *)
(***************************************************************************)

\* Watched libraries are those of plugins, and so are the missing ones.
WatchTypeOK ==
  /\ DOMAIN watched \subseteq Watchable
  /\ watched \in [DOMAIN watched -> [seen : Nat, age : 0..Debounce, pending : BOOLEAN]]
  /\ changed \in Seq(Watchable) /\ unnoticed \subseteq PluginNames \X Nat
  /\ missing \subseteq PluginNames

\* A plugin that runs an older binary than its watched library is overlooked only where the
\* code says so: it was watched with the newer library already there, or the callback threw
\* with the library on its list; and then only until the library changes again.  In every
\* other case the change is still to be seen, or waiting out the debounce time, or being
\* reloaded, however writes, removals, polls and reloads interleave.
NoChangeMissed ==
  \A n \in DOMAIN watched \cap Loaded :
    plugins[n].from # file[n] =>
      \/ watched[n].seen # file[n] \/ watched[n].pending \/ n \in ToSet(changed)
      \/ <<n, file[n]>> \in unnoticed

\* However plugins are loaded, initialized, failed, shut down, reloaded and unloaded: the load
\* order has dependencies first; plugins moved all together are up only while what they
\* depend on is; and a watched library that has changed is not overlooked (InitializeAll,
\* ShutdownAll, Poll).
PluginsSound == LoadOrderSorted /\ DependenciesUp /\ NoChangeMissed
=============================================================================
