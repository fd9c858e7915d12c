------------------------------- MODULE QuestLog -------------------------------
(***************************************************************************)
(* One player's QuestLog (include/cgs/game/quest_components.hpp) and the   *)
(* QuestSystem that times quests out and turns QuestEvents into progress.  *)
(* A template has its prerequisites, its objectives, a time limit (0: no   *)
(* limit) and may be repeatable.  Names, levels and rewards are left out;  *)
(* giving the reward is what TurnIn() returning true stands for.           *)
(***************************************************************************)
EXTENDS Integers, Sequences, FiniteSets, SequencesExt, FiniteSetsExt, Selection

CONSTANTS QuestTemplates,   \* quest -> its template
          MaxActiveQuests,
          QuestEvents,      \* [kind, target, count] that other systems may raise
          QuestTimes,       \* values of deltaTime
          MaxRewards,       \* bound: rewards given for one quest
          MaxQuestEvents    \* bound: events at a time

Quests == DOMAIN QuestTemplates

ASSUME QuestAssumption ==
  /\ MaxActiveQuests \in Nat /\ MaxQuestEvents \in Nat /\ QuestTimes \subseteq Nat
  /\ \A event \in QuestEvents : event.count \in Nat
  /\ \A q \in Quests : LET template == QuestTemplates[q] IN
       /\ DOMAIN template.objectives # {} /\ template.timeLimit \in Nat
       /\ \A o \in DOMAIN template.objectives : template.objectives[o].required \in Nat \ {0}
       /\ template.prerequisites \subseteq Quests

VARIABLES activeQuests,     \* entries: quest, state, progress of each objective, elapsedTime
          completedQuests,  \* completedQuestIds
          questEvents,      \* QuestEvents, processed or not
          processing,       \* the event processEvents() has come to, 0 outside of Execute()
          rewards           \* ghost: successful TurnIn()s of each quest

questVars == <<activeQuests, completedQuests, questEvents, processing, rewards>>

QuestInit ==
  /\ activeQuests = <<>> /\ completedQuests = {} /\ questEvents = <<>> /\ processing = 0
  /\ rewards = [q \in Quests |-> 0]

\* Execute() runs to its end before anything else touches the log.
BetweenTicks == processing = 0

Objectives(q) == QuestTemplates[q].objectives

HasQuest(q) == \E k \in DOMAIN activeQuests : activeQuests[k].quest = q

\* GetQuest(): the entry of an active quest.
GetQuest(q) == CHOOSE k \in DOMAIN activeQuests : activeQuests[k].quest = q

CanAccept(q) ==
  /\ ~HasQuest(q)
  /\ q \in completedQuests => QuestTemplates[q].repeatable
  /\ QuestTemplates[q].prerequisites \subseteq completedQuests

Accept(q) ==
  /\ BetweenTicks /\ Len(activeQuests) < MaxActiveQuests /\ ~HasQuest(q) /\ CanAccept(q)
  /\ activeQuests' = Append(activeQuests,
                            [quest |-> q, state |-> "Accepted", elapsed |-> 0,
                             progress |-> [o \in DOMAIN Objectives(q) |-> 0]])
  /\ UNCHANGED <<completedQuests, questEvents, processing, rewards>>

Abandon(q) ==
  /\ BetweenTicks /\ HasQuest(q)
  /\ activeQuests' \in KeptAt(activeQuests, DOMAIN activeQuests \ {GetQuest(q)})
  /\ UNCHANGED <<completedQuests, questEvents, processing, rewards>>

\* TurnIn(): the entry stays, as turned in, until CleanupFinished().
TurnIn(q) ==
  /\ BetweenTicks /\ HasQuest(q) /\ activeQuests[GetQuest(q)].state = "ObjectivesComplete"
  /\ rewards[q] < MaxRewards
  /\ activeQuests' = [activeQuests EXCEPT ![GetQuest(q)].state = "TurnedIn"]
  /\ completedQuests' = completedQuests \cup {q}
  /\ rewards' = [rewards EXCEPT ![q] = @ + 1]
  /\ UNCHANGED <<questEvents, processing>>

CleanupFinished ==
  /\ BetweenTicks
  /\ activeQuests' \in KeptAt(activeQuests, {k \in DOMAIN activeQuests :
                                              activeQuests[k].state \notin {"TurnedIn", "Failed"}})
  /\ UNCHANGED <<completedQuests, questEvents, processing, rewards>>

\* Another system raises a QuestEvent; a processed one is destroyed by whoever made it.
RaiseQuestEvent(event) ==
  /\ BetweenTicks /\ Len(questEvents) < MaxQuestEvents
  /\ questEvents' = Append(questEvents, [event |-> event, processed |-> FALSE])
  /\ UNCHANGED <<activeQuests, completedQuests, processing, rewards>>

DropQuestEvent ==
  /\ BetweenTicks /\ questEvents # <<>> /\ Head(questEvents).processed
  /\ questEvents' = Tail(questEvents)
  /\ UNCHANGED <<activeQuests, completedQuests, processing, rewards>>

\* updateTimers() for one entry.
Timed(entry, dt) ==
  LET limit == QuestTemplates[entry.quest].timeLimit
  IN  IF entry.state # "Accepted" \/ limit = 0 THEN entry
      ELSE [entry EXCEPT !.elapsed = @ + dt,
                         !.state = IF entry.elapsed + dt >= limit THEN "Failed" ELSE @]

AllObjectivesComplete(entry) ==
  \A o \in DOMAIN entry.progress : entry.progress[o] >= Objectives(entry.quest)[o].required

\* Mutant of UpdateObjective(): completion is looked at before the progress is added.
UpdateObjectiveLate(entry, event) ==
  LET Hit(o) == /\ Objectives(entry.quest)[o].kind = event.kind
                /\ Objectives(entry.quest)[o].target = event.target
                /\ entry.progress[o] < Objectives(entry.quest)[o].required
  IN  IF entry.state # "Accepted" \/ ~\E o \in DOMAIN entry.progress : Hit(o) THEN entry
      ELSE [entry EXCEPT !.progress = [o \in DOMAIN entry.progress |->
                             IF Hit(o) THEN Min({@[o] + event.count, Objectives(entry.quest)[o].required})
                             ELSE @[o]],
                         !.state = IF AllObjectivesComplete(entry) THEN "ObjectivesComplete" ELSE @]

\* UpdateObjective() and AddProgress(): every objective the event hits that is not complete.
UpdateObjective(entry, event) ==
  LET Hit(o) == /\ Objectives(entry.quest)[o].kind = event.kind
                /\ Objectives(entry.quest)[o].target = event.target
                /\ entry.progress[o] < Objectives(entry.quest)[o].required
      after == [entry EXCEPT !.progress = [o \in DOMAIN entry.progress |->
                  IF Hit(o) THEN Min({@[o] + event.count, Objectives(entry.quest)[o].required})
                  ELSE @[o]]]
  IN  IF entry.state # "Accepted" \/ ~\E o \in DOMAIN entry.progress : Hit(o) THEN entry
      ELSE [after EXCEPT !.state = IF AllObjectivesComplete(after) THEN "ObjectivesComplete" ELSE @]

\* Execute(): first the timers ...
QuestTick(dt) ==
  /\ BetweenTicks
  /\ activeQuests' = [k \in DOMAIN activeQuests |-> Timed(activeQuests[k], dt)]
  /\ processing' = IF questEvents = <<>> THEN 0 ELSE 1
  /\ UNCHANGED <<completedQuests, questEvents, rewards>>

\* ... then the events that are waiting, each for every active quest.
ProcessEvent ==
  /\ processing > 0
  /\ LET e == questEvents[processing]
     IN  activeQuests' = IF e.processed THEN activeQuests
                         ELSE [k \in DOMAIN activeQuests |-> UpdateObjective(activeQuests[k], e.event)]
  /\ questEvents' = [questEvents EXCEPT ![processing].processed = TRUE]
  /\ processing' = IF processing = Len(questEvents) THEN 0 ELSE processing + 1
  /\ UNCHANGED <<completedQuests, rewards>>

QuestNext ==
  \/ \E q \in Quests : Accept(q) \/ Abandon(q) \/ TurnIn(q)
  \/ CleanupFinished \/ DropQuestEvent \/ ProcessEvent
  \/ \E event \in QuestEvents : RaiseQuestEvent(event)
  \/ \E dt \in QuestTimes : QuestTick(dt)

QuestSpec == QuestInit /\ [][QuestNext]_questVars

(***************************************************************************)
(* Properties.                                                             *)
(***************************************************************************)

QuestEntry == UNION {[quest : {q}, state : {"Accepted", "ObjectivesComplete", "TurnedIn", "Failed"},
                      elapsed : Nat, progress : [DOMAIN Objectives(q) -> Nat]] : q \in Quests}

\* Entries have the objectives of their template, and an event is looked at while there is one.
QuestTypeOK ==
  /\ activeQuests \in Seq(QuestEntry) /\ completedQuests \subseteq Quests
  /\ questEvents \in Seq([event : QuestEvents, processed : BOOLEAN])
  /\ processing \in 0..Len(questEvents) /\ rewards \in [Quests -> Nat]

\* A quest that is not repeatable is rewarded once, however its entry is abandoned, timed
\* out, turned in and cleaned up; every active or rewarded quest has its prerequisites; a
\* quest is in the log once; it waits for its turn-in exactly when its objectives are met,
\* and nothing is in progress past its time limit (Accept, UpdateObjective, updateTimers).
QuestsSound ==
  /\ \A q \in Quests : /\ rewards[q] > 0 <=> q \in completedQuests
                       /\ rewards[q] <= 1 \/ QuestTemplates[q].repeatable
                       /\ HasQuest(q) \/ rewards[q] > 0
                            => \A p \in QuestTemplates[q].prerequisites : rewards[p] > 0
  /\ Len(activeQuests) <= MaxActiveQuests
  /\ \A j, k \in DOMAIN activeQuests : activeQuests[j].quest = activeQuests[k].quest => j = k
  /\ \A k \in DOMAIN activeQuests :
       LET entry == activeQuests[k]
           limit == QuestTemplates[entry.quest].timeLimit
       IN  /\ AllObjectivesComplete(entry) <=> entry.state \in {"ObjectivesComplete", "TurnedIn"}
           /\ entry.state = "Accepted" /\ limit > 0 => entry.elapsed < limit
=============================================================================
