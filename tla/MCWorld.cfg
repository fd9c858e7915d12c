SPECIFICATION Spec
CONSTANTS
  EntityIds = {1, 2}
  Storages = {"pos", "vel"}
  Includes = {"pos"}
  Excludes = {"vel"}
  VersionCount = 2
  MaxCreated = 5
  MaxPending = 2
  MaxChanges = 2
  MaxSystems = 3
  Stages <- UpdateAndFixed
  FixedStage = TRUE
  AccessPatterns <- Declared
  MaxDependencies = 2
  MaxSyncPoints = 1
  MaxTicks = 1
  DeltaTimes = {3}
  TimeSteps = {2}
  Threads = {t1, t2, t3}
  Players = {p1, p2}
  InstanceIds = {1, 2, 3}
  MaxInstances = 2
  MaxPlayers = 2
  Stackables = {"potion"}
  Gear = {"sword"}
  Capacity = 2
  StackSizes = {1, 2}
  GearDurability = 2
  EquipSlots = {"hand"}
  Amounts = {1, 2}
  EnchantTimes = {1}
  MaxItems = 3
  MaxWear = 1
  QuestTemplates <- Templates
  MaxActiveQuests = 2
  QuestEvents <- Events
  QuestTimes = {1}
  MaxRewards = 2
  MaxQuestEvents = 2
  Attackers = {"a", "b"}
  AuraKinds <- Kinds
  MaxAuraStacks = 2
  MaxHealth = 3
  DamageTypes = {"physical", "magic"}
  Armor = 1
  Resistances <- Resisted
  ResistanceConstant = 2
  ArmorConstant = 2
  CritMultiplier = 2
  BaseDamages = {0, 3}
  CastTimes = {1}
  CombatTimes = {1, 4, 7}
  MaxDamageEvents = 2
  MaxThreat = 2
  Bodies = {1, 2}
  Versions = {0, 1}
  Maps = {"east", "west"}
  Places <- Spots
  CellSize = 2
  Ranges = {0, 1, 3}
  MaxRecycled = 1
  PluginNames = {"core", "net", "game"}
  Files <- LibraryFiles
  StaticPlugins <- CoreOnly
  Watchable = {"core", "net"}
  Debounce = 1
  BusThreads = {b1, b2}
  HandlerPriorities = {0, 1}
  MaxSubscriptions = 2
  MaxDeferred = 2
  MaxDue = 3
INVARIANT EcsSound
INVARIANT PlanRespectsDependencies
INVARIANT ExecutionSound
INVARIANT WorldConsistent
INVARIANT ItemsConserved
INVARIANT QuestsSound
INVARIANT CombatSound
INVARIANT VisibleExact
INVARIANT PluginsSound
INVARIANT EventsSound
