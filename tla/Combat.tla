-------------------------------- MODULE Combat --------------------------------
(***************************************************************************)
(* CombatSystem (src/game/combat_system) on one victim: casts, auras,      *)
(* damage events and the threat list of include/cgs/game/                  *)
(* combat_components.hpp.  Times and amounts are integers; CalculateDamage *)
(* is computed exactly, where the code rounds floats.                      *)
(***************************************************************************)
EXTENDS Integers, Sequences, FiniteSets, SequencesExt, FiniteSetsExt, Selection

CONSTANTS Attackers,
          AuraKinds,        \* auraId -> the AuraInstance a caster makes of it
          MaxAuraStacks,
          MaxHealth,
          DamageTypes,      \* "physical" and the ones that resistances mitigate
          Armor, Resistances, ArmorConstant, ResistanceConstant, CritMultiplier,
          BaseDamages,      \* baseDamage of events
          CastTimes,
          CombatTimes,      \* values of deltaTime
          MaxDamageEvents,  \* bound: events at a time
          MaxThreat         \* bound: threat of one attacker

AuraIds == DOMAIN AuraKinds

ASSUME CombatAssumption ==
  /\ MaxHealth \in Nat \ {0} /\ MaxAuraStacks \in Nat \ {0}
  /\ Armor \in Int /\ Resistances \in [DamageTypes \ {"physical"} -> Int]
  /\ ArmorConstant \in Nat \ {0} /\ ResistanceConstant \in Nat \ {0} /\ CritMultiplier \in Nat
  /\ BaseDamages \subseteq Int /\ CastTimes \subseteq Nat /\ CombatTimes \subseteq Nat
  /\ \A a \in AuraIds : /\ AuraKinds[a].interval \in Nat /\ AuraKinds[a].first \in Int
                        /\ AuraKinds[a].duration \in Int /\ AuraKinds[a].remaining \in Int
                        /\ AuraKinds[a].damage \in Int /\ AuraKinds[a].stacks \in Int

VARIABLES cast,             \* the victim's SpellCast: state, remainingTime
          auras,            \* AuraHolder
          health,           \* Stats
          damageEvents,     \* DamageEvents on the victim, processed or not
          threat,           \* ThreatList, in its order
          dealt,            \* ghost: damage of each attacker's processed events
          executing         \* where Execute() is: its step, deltaTime, and the aura or event next

combatVars == <<cast, auras, health, damageEvents, threat, dealt, executing>>

NotExecuting == [step |-> "none", dt |-> 0, next |-> 0]

\* Execute() runs to its end before anything else touches the victim.
BetweenFrames == executing.step = "none"

NoCast == [state |-> "Idle", remaining |-> 0]

CombatInit ==
  /\ cast = NoCast /\ auras = <<>> /\ health = MaxHealth
  /\ damageEvents = <<>> /\ threat = <<>> /\ dealt = [a \in Attackers |-> 0]
  /\ executing = NotExecuting

SetHealth(value) == Max({0, Min({value, MaxHealth})})

\* SpellCast: Begin(), Interrupt() and Reset().
ChangeCast ==
  /\ BetweenFrames
  /\ \/ \E time \in CastTimes : cast' = [state |-> "Casting", remaining |-> time]
     \/ cast.state \in {"Casting", "Channeling"} /\ cast' = [state |-> "Interrupted", remaining |-> 0]
     \/ cast' = NoCast
  /\ UNCHANGED <<auras, health, damageEvents, threat, dealt, executing>>

\* updateSpellCasts()
CastAfter(dt) ==
  IF cast.state \notin {"Casting", "Channeling"} THEN cast
  ELSE IF cast.remaining <= dt THEN [state |-> "Complete", remaining |-> 0]
  ELSE [cast EXCEPT !.remaining = @ - dt]

\* An aura is stacked on the one of the same id and caster.
SameAura(a, id, caster) == a.id = id /\ a.caster = caster

\* AddOrStack(): the aura is taken as it is given, or renews the time and adds its stacks to
\* the one there is, whose tick timer runs on.  (Ghosts: whether a frame has passed since, and
\* the ticks that were due after the aura's end.)
AddOrStack(id, caster) ==
  LET kind == AuraKinds[id]
      new == [id |-> id, caster |-> caster, stacks |-> kind.stacks, remaining |-> kind.remaining,
              timer |-> kind.first, seen |-> "new", late |-> 0]
      Same == {k \in DOMAIN auras : SameAura(auras[k], id, caster)}
  IN  /\ BetweenFrames
      /\ \/ Same = {} /\ auras' = Append(auras, new)
         \/ /\ Same # {}
            /\ auras' = [auras EXCEPT ![Min(Same)].stacks = Min({@ + kind.stacks, MaxAuraStacks}),
                                      ![Min(Same)].remaining = kind.duration,
                                      ![Min(Same)].seen = "new"]
      /\ UNCHANGED <<cast, health, damageEvents, threat, dealt, executing>>

RemoveById(id) ==
  /\ BetweenFrames /\ \E k \in DOMAIN auras : auras[k].id = id
  /\ auras' \in KeptAt(auras, {k \in DOMAIN auras : auras[k].id # id})
  /\ UNCHANGED <<cast, health, damageEvents, threat, dealt, executing>>

\* Execute(): updateSpellCasts(), then the auras one after the other, then the events.
CombatTick(dt) ==
  /\ BetweenFrames
  /\ cast' = CastAfter(dt)
  /\ executing' = [step |-> "auras", dt |-> dt, next |-> 1]
  /\ UNCHANGED <<auras, health, damageEvents, threat, dealt>>

AuraInterval(aura) == AuraKinds[aura.id].interval

\* updateAuras(): an aura grows older, ...
AgeAura ==
  LET k == executing.next
  IN  /\ executing.step = "auras" /\ k <= Len(auras)
      /\ auras' = [auras EXCEPT ![k].remaining = @ - executing.dt,
                                ![k].timer = IF AuraInterval(auras[k]) > 0 THEN @ - executing.dt ELSE @,
                                ![k].seen = "aged"]
      /\ executing' = [executing EXCEPT !.step = "ticks"]
      /\ UNCHANGED <<cast, health, damageEvents, threat, dealt>>

\* Mutant of updateAuras(): ticks are caught up however long ago the aura ended.
TickDueAlways(aura) == AuraInterval(aura) > 0 /\ aura.timer <= 0

TickDue(aura) ==
  AuraInterval(aura) > 0 /\ aura.timer <= 0 /\ aura.remaining > -AuraInterval(aura)

\* Ghost: 1 when the tick that is due was due after the aura's end.
DueLate(aura) == IF aura.timer > aura.remaining THEN 1 ELSE 0

\* ... ticks as often as it is due, ...
TickAura ==
  LET k == executing.next
  IN  /\ executing.step = "ticks" /\ TickDue(auras[k])
      /\ health' = SetHealth(health - AuraKinds[auras[k].id].damage * auras[k].stacks)
      /\ auras' = [auras EXCEPT ![k].timer = @ + AuraInterval(auras[k]), ![k].late = @ + DueLate(auras[k])]
      /\ UNCHANGED <<cast, damageEvents, threat, dealt, executing>>

NextAura ==
  /\ executing.step = "ticks" /\ ~TickDue(auras[executing.next])
  /\ executing' = [executing EXCEPT !.step = "auras", !.next = @ + 1]
  /\ UNCHANGED <<cast, auras, health, damageEvents, threat, dealt>>

\* ... and is removed when its time is over.
RemoveExpired ==
  /\ executing.step = "auras" /\ executing.next > Len(auras)
  /\ auras' \in KeptAt(auras, {k \in DOMAIN auras : auras[k].remaining > 0})
  /\ executing' = IF damageEvents = <<>> THEN NotExecuting
                  ELSE [executing EXCEPT !.step = "events", !.next = 1]
  /\ UNCHANGED <<cast, health, damageEvents, threat, dealt>>

\* What the victim sets against a type of damage; negative attributes count as 0.
Defence(type) == Max({IF type = "physical" THEN Armor ELSE Resistances[type], 0})
DefenceConstant(type) == IF type = "physical" THEN ArmorConstant ELSE ResistanceConstant

\* CalculateDamage(): the defence takes its share, and at least 1 is left of a blow.
CalculateDamage(base, type, critical) ==
  IF base <= 0 THEN 0
  ELSE Max({1, (base * (IF critical THEN CritMultiplier ELSE 1) * DefenceConstant(type))
               \div (Defence(type) + DefenceConstant(type))})

\* sortDescending(): equal threats come in any order.
Sorted(entries) == {s \in {[k \in DOMAIN entries |-> entries[p[k]]] :
                             p \in {f \in [DOMAIN entries -> DOMAIN entries] : IsInjective(f)}} :
                      \A j, k \in DOMAIN s : j < k => s[j].amount >= s[k].amount}

\* AddThreat() before the sort.
ThreatAdded(entries, source, amount) ==
  IF \E k \in DOMAIN entries : entries[k].source = source
  THEN [k \in DOMAIN entries |-> IF entries[k].source = source
                                 THEN [entries[k] EXCEPT !.amount = @ + amount] ELSE entries[k]]
  ELSE Append(entries, [source |-> source, amount |-> amount])

\* processDamageEvents(): the events not yet processed, one after the other.
ProcessDamage ==
  LET k == executing.next
      event == damageEvents[k]
      final == CalculateDamage(event.base, event.type, event.critical)
  IN  /\ executing.step = "events"
      /\ \/ event.processed /\ UNCHANGED <<health, damageEvents, threat, dealt>>
         \/ /\ ~event.processed
            /\ health' = SetHealth(health - final)
            /\ threat' \in Sorted(ThreatAdded(threat, event.attacker, final))
            /\ dealt' = [dealt EXCEPT ![event.attacker] = @ + final]
            /\ damageEvents' = [damageEvents EXCEPT ![k].processed = TRUE]
      /\ executing' = IF k = Len(damageEvents) THEN NotExecuting ELSE [executing EXCEPT !.next = k + 1]
      /\ UNCHANGED <<cast, auras>>

\* Another system hits the victim; a processed event is destroyed by whoever made it.
RaiseDamage(attacker, base, type, critical) ==
  /\ BetweenFrames /\ Len(damageEvents) < MaxDamageEvents /\ dealt[attacker] < MaxThreat
  /\ damageEvents' = Append(damageEvents, [attacker |-> attacker, base |-> base, type |-> type,
                                           critical |-> critical, processed |-> FALSE])
  /\ UNCHANGED <<cast, auras, health, threat, dealt, executing>>

DropDamage ==
  /\ BetweenFrames /\ damageEvents # <<>> /\ Head(damageEvents).processed
  /\ damageEvents' = Tail(damageEvents)
  /\ UNCHANGED <<cast, auras, health, threat, dealt, executing>>

\* ThreatList::Remove() and Clear(): the attacker has left.
RemoveThreat(source) ==
  /\ BetweenFrames /\ \E k \in DOMAIN threat : threat[k].source = source
  /\ threat' \in KeptAt(threat, {k \in DOMAIN threat : threat[k].source # source})
  /\ dealt' = [dealt EXCEPT ![source] = 0]
  /\ UNCHANGED <<cast, auras, health, damageEvents, executing>>

\* GetTopThreat()
TopThreat == IF threat = <<>> THEN "none" ELSE threat[1].source

CombatExecute ==
  \/ \E dt \in CombatTimes : CombatTick(dt)
  \/ AgeAura \/ TickAura \/ NextAura \/ RemoveExpired \/ ProcessDamage

AuraNext ==
  \/ ChangeCast
  \/ \E a \in Attackers, id \in AuraIds : AddOrStack(id, a)
  \/ \E id \in AuraIds : RemoveById(id)
  \/ CombatExecute

DamageNext ==
  \/ \E a \in Attackers : \/ RemoveThreat(a)
                          \/ \E base \in BaseDamages, type \in DamageTypes, c \in BOOLEAN :
                               RaiseDamage(a, base, type, c)
  \/ DropDamage
  \/ CombatExecute

CombatSpec == CombatInit /\ [][AuraNext \/ DamageNext]_combatVars

(***************************************************************************)
(* Properties.                                                             *)
(***************************************************************************)

Aura == [id : AuraIds, caster : Attackers, stacks : Int, remaining : Int, timer : Int,
         seen : {"new", "aged"}, late : Nat]

DamageEvent == [attacker : Attackers, base : BaseDamages, type : DamageTypes, critical : BOOLEAN,
                processed : BOOLEAN]

\* Health stays within its bounds, and Execute() is at an aura or an event that exists.
CombatTypeOK ==
  /\ cast \in [state : {"Idle", "Casting", "Channeling", "Interrupted", "Complete"}, remaining : Nat]
  /\ auras \in Seq(Aura) /\ health \in 0..MaxHealth /\ damageEvents \in Seq(DamageEvent)
  /\ threat \in Seq([source : Attackers, amount : Nat]) /\ dealt \in [Attackers -> Nat]
  /\ executing \in [step : {"none", "auras", "ticks", "events"}, dt : Nat, next : Nat]
  /\ executing.step = "auras" => executing.next \in 1..(Len(auras) + 1)
  /\ executing.step = "ticks" => executing.next \in 1..Len(auras)
  /\ executing.step = "events" => executing.next \in 1..Len(damageEvents)

\* No tick comes before it is due, while the aura lasts none is missed, and at most one comes
\* that was due after its end: the frame in which an aura ends catches up to its own end.
TicksOnTime(aura) ==
  /\ aura.late <= 1
  /\ AuraInterval(aura) > 0 =>
       /\ aura.timer <= AuraInterval(aura) \/ aura.timer <= AuraKinds[aura.id].first
       /\ executing.step \in {"none", "events"} /\ aura.seen = "aged" => aura.timer > 0

\* The victim turns on whoever hurt it most: every attacker is listed once, with exactly the
\* damage its events did, the largest first (processDamageEvents, AddThreat).  An aura is
\* listed once per caster, with no more stacks than allowed unless it came with them, is gone
\* after the frame in which it ends, and ticks on time however the time is cut into frames and
\* however often it is renewed (updateAuras, AddOrStack).
CombatSound ==
  /\ \A j, k \in DOMAIN threat : threat[j].source = threat[k].source => j = k
  /\ \A k \in DOMAIN threat : threat[k].amount = dealt[threat[k].source]
  /\ \A a \in Attackers : dealt[a] > 0 => /\ \E k \in DOMAIN threat : threat[k].source = a
                                          /\ dealt[TopThreat] >= dealt[a]
  /\ \A j, k \in DOMAIN auras : SameAura(auras[j], auras[k].id, auras[k].caster) => j = k
  /\ \A k \in DOMAIN auras :
       /\ auras[k].stacks <= MaxAuraStacks \/ auras[k].stacks = AuraKinds[auras[k].id].stacks
       /\ executing.step \in {"none", "events"} /\ auras[k].seen = "aged" => auras[k].remaining > 0
       /\ TicksOnTime(auras[k])
=============================================================================
