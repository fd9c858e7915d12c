------------------------------- MODULE Inventory -------------------------------
(***************************************************************************)
(* One player's Inventory and Equipment (include/cgs/game/                 *)
(* inventory_components.hpp) and the InventorySystem that wears equipment  *)
(* and runs enchantments down.  A caller takes an item out of its slot     *)
(* before it equips it, and holds what Equip() and Unequip() give back     *)
(* until it puts that into the bag (examples/07_inventory.cpp).  Equip()   *)
(* takes whatever it is given: the rest of a stack is dropped, and so is   *)
(* an item for a slot that does not exist.                                 *)
(*                                                                         *)
(* Stat bonuses are sums that change no state and are left out.  An        *)
(* enchantment is its remaining time, 0 for a permanent one.               *)
(***************************************************************************)
EXTENDS Integers, Sequences, FiniteSets, SequencesExt, FiniteSetsExt

CONSTANTS Stackables,     \* items that stack
          Gear,           \* items that are worn, one to a slot
          Capacity,       \* slots of the bag
          StackSizes,     \* values of maxStackSize
          GearDurability, \* maxDurability of gear
          EquipSlots,
          Amounts,        \* how many items, or durability points, a call names
          EnchantTimes,   \* durationRemaining of new enchantments, 0: permanent
          MaxItems,       \* bound: items in the game
          MaxWear         \* bound: durability events at a time

ASSUME InventoryAssumption ==
  /\ Capacity \in Nat \ {0} /\ StackSizes \subseteq Nat \ {0} /\ StackSizes # {}
  /\ Stackables \cap Gear = {} /\ "none" \notin Stackables \cup Gear
  /\ IsFiniteSet(EquipSlots) /\ Amounts \subseteq Nat /\ EnchantTimes \subseteq Nat
  /\ GearDurability \in Nat \cup {-1}

VARIABLES bag,            \* Inventory::slots
          equipped,       \* Equipment::slots
          hand,           \* the slot value a caller holds
          stackSize,      \* templates_: maxStackSize of the stackable items
          wear,           \* unprocessed and processed DurabilityEvents
          calling,        \* where AddItem() or Execute() is, with what is left to add
          ledger,         \* ghost: items added less items removed
          lost            \* ghost: items that equipping and putting back dropped

bagVars == <<bag, equipped, hand, stackSize, wear, calling, ledger, lost>>

Items == Stackables \cup Gear
Indestructible == -1

\* A default-constructed slot; Clear() restores it.
EmptySlot == [item |-> "none", count |-> 0, durability |-> Indestructible,
              most |-> Indestructible, enchants |-> {}]
IsEmpty(slot) == slot.item = "none"
IsBroken(slot) == slot.durability = 0 /\ slot.most > 0

\* AddItem() is at slot next of its first or second pass, Execute() at event next.
NoCall == [at |-> "none", next |-> 0, item |-> "none", left |-> 0]
BetweenCalls == calling.at = "none"

MaxStack(item) == IF item \in Gear THEN 1 ELSE stackSize[item]
NewDurability(item) == IF item \in Gear THEN GearDurability ELSE Indestructible

InventoryInit ==
  /\ bag = [i \in 1..Capacity |-> EmptySlot]
  /\ equipped = [s \in EquipSlots |-> EmptySlot]
  /\ hand = EmptySlot
  /\ stackSize \in [Stackables -> StackSizes]
  /\ wear = <<>> /\ calling = NoCall
  /\ ledger = [i \in Items |-> 0] /\ lost = [i \in Items |-> 0]

\* A call of AddItem().
AddItem(item, n) ==
  /\ BetweenCalls
  /\ calling' = [at |-> IF MaxStack(item) > 1 THEN "stack" ELSE "fill", next |-> 1,
                 item |-> item, left |-> n]
  /\ UNCHANGED <<bag, equipped, hand, stackSize, wear, ledger, lost>>

\* Mutant of the first pass: a stack takes one item too many.
RoomForOneMore(slot, item) ==
  IF slot.item = item /\ slot.count < MaxStack(item) THEN MaxStack(item) - slot.count + 1 ELSE 0

Room(slot, item) ==
  IF slot.item = item /\ slot.count < MaxStack(item) THEN MaxStack(item) - slot.count ELSE 0

\* First pass, at one slot: fill up a stack of the item.
StackOnto ==
  LET i == calling.next
      item == calling.item
      n == Min({calling.left, Room(bag[i], item)})
  IN  /\ calling.at = "stack"
      /\ bag' = [bag EXCEPT ![i].count = @ + n]
      /\ ledger' = [ledger EXCEPT ![item] = @ + n]
      /\ calling' = [calling EXCEPT !.left = @ - n,
                                    !.at = IF n = calling.left THEN "added"
                                           ELSE IF i = Capacity THEN "fill" ELSE "stack",
                                    !.next = IF i = Capacity THEN 1 ELSE i + 1]
      /\ UNCHANGED <<equipped, hand, stackSize, wear, lost>>

\* An empty slot takes an item; its list of enchantments stays.
Filled(slot, item, n, durability, most) ==
  [slot EXCEPT !.item = item, !.count = n, !.durability = durability, !.most = most]

\* Second pass, at one slot: start a stack in an empty slot.
FillEmpty ==
  LET i == calling.next
      item == calling.item
      n == IF IsEmpty(bag[i]) THEN Min({calling.left, MaxStack(item)}) ELSE 0
      new == NewDurability(item)
  IN  /\ calling.at = "fill"
      /\ bag' = [bag EXCEPT ![i] = IF n = 0 THEN @ ELSE Filled(@, item, n, new, new)]
      /\ ledger' = [ledger EXCEPT ![item] = @ + n]
      /\ calling' = [calling EXCEPT !.left = @ - n,
                                    !.at = IF n = calling.left \/ i = Capacity THEN "added" ELSE "fill",
                                    !.next = i + 1]
      /\ UNCHANGED <<equipped, hand, stackSize, wear, lost>>

\* AddItem() returns how much did not fit.
FinishAdding ==
  /\ calling.at = "added" /\ calling' = NoCall
  /\ UNCHANGED <<bag, equipped, hand, stackSize, wear, ledger, lost>>

\* RemoveItem() on the slot itself.
Removed(slot, n) == IF slot.count = n THEN EmptySlot ELSE [slot EXCEPT !.count = @ - n]

RemoveItem(i, n) ==
  /\ BetweenCalls /\ ~IsEmpty(bag[i]) /\ bag[i].count >= n
  /\ bag' = [bag EXCEPT ![i] = Removed(@, n)]
  /\ ledger' = [ledger EXCEPT ![bag[i].item] = @ - n]
  /\ UNCHANGED <<equipped, hand, stackSize, wear, calling, lost>>

\* MoveItem(): the two slots change places, equal items too.
MoveItem(i, j) ==
  /\ BetweenCalls /\ i # j /\ ~IsEmpty(bag[i])
  /\ bag' = [bag EXCEPT ![i] = bag[j], ![j] = bag[i]]
  /\ UNCHANGED <<equipped, hand, stackSize, wear, calling, ledger, lost>>

\* SplitStack(): part of a stack goes to the first empty slot, without enchantments.
SplitStack(i, n) ==
  LET Free == {j \in 1..Capacity : IsEmpty(bag[j])}
  IN  /\ BetweenCalls /\ ~IsEmpty(bag[i]) /\ bag[i].count > n /\ n # 0
      /\ \E j \in Free : /\ \A k \in Free : j <= k
                         /\ bag' = [bag EXCEPT ![j] = Filled(@, bag[i].item, n, bag[i].durability, bag[i].most),
                                               ![i].count = @ - n]
      /\ UNCHANGED <<equipped, hand, stackSize, wear, calling, ledger, lost>>

\* A caller takes an item out of the bag and equips it, and is left with what was worn;
\* one item of a stack is worn and the others are gone.
Equip(i, s) ==
  /\ BetweenCalls /\ ~IsEmpty(bag[i]) /\ IsEmpty(hand)
  /\ bag' = [bag EXCEPT ![i] = EmptySlot]
  /\ equipped' = [equipped EXCEPT ![s] = [bag[i] EXCEPT !.count = 1]]
  /\ hand' = equipped[s]
  /\ lost' = [lost EXCEPT ![bag[i].item] = @ + (bag[i].count - 1)]
  /\ UNCHANGED <<stackSize, wear, calling, ledger>>

\* Equip() to a slot that does not exist gives nothing back, not even the item.
EquipNowhere(i) ==
  /\ BetweenCalls /\ ~IsEmpty(bag[i]) /\ IsEmpty(hand)
  /\ bag' = [bag EXCEPT ![i] = EmptySlot]
  /\ lost' = [lost EXCEPT ![bag[i].item] = @ + bag[i].count]
  /\ UNCHANGED <<equipped, hand, stackSize, wear, calling, ledger>>

Unequip(s) ==
  /\ BetweenCalls /\ IsEmpty(hand) /\ ~IsEmpty(equipped[s])
  /\ hand' = equipped[s]
  /\ equipped' = [equipped EXCEPT ![s] = EmptySlot]
  /\ UNCHANGED <<bag, stackSize, wear, calling, ledger, lost>>

\* What is held is copied into the first empty slot, and dropped when there is none.
PutBack ==
  LET Free == {j \in 1..Capacity : IsEmpty(bag[j])}
  IN  /\ BetweenCalls /\ ~IsEmpty(hand) /\ hand' = EmptySlot
      /\ \/ \E j \in Free : /\ \A k \in Free : j <= k
                            /\ bag' = [bag EXCEPT ![j] = hand] /\ UNCHANGED lost
         \/ /\ Free = {} /\ UNCHANGED bag
            /\ lost' = [lost EXCEPT ![hand.item] = @ + hand.count]
      /\ UNCHANGED <<equipped, stackSize, wear, calling, ledger>>

\* An enchantment is pushed onto a slot's list.
Enchant(s, time) ==
  /\ BetweenCalls /\ ~IsEmpty(equipped[s])
  /\ equipped' = [equipped EXCEPT ![s].enchants = @ \cup {time}]
  /\ UNCHANGED <<bag, hand, stackSize, wear, calling, ledger, lost>>

\* RegisterTemplate(): replaces the item's template, items already in the bag or not.
RegisterItem(item, size) ==
  /\ BetweenCalls /\ size # stackSize[item]
  /\ stackSize' = [stackSize EXCEPT ![item] = size]
  /\ UNCHANGED <<bag, equipped, hand, wear, calling, ledger, lost>>

\* Another system creates a DurabilityEvent; processed ones are destroyed by whoever made them.
RaiseWear(s, amount) ==
  /\ BetweenCalls /\ Len(wear) < MaxWear
  /\ wear' = Append(wear, [slot |-> s, amount |-> amount, processed |-> FALSE])
  /\ UNCHANGED <<bag, equipped, hand, stackSize, calling, ledger, lost>>

DropWear ==
  /\ BetweenCalls /\ wear # <<>> /\ Head(wear).processed /\ wear' = Tail(wear)
  /\ UNCHANGED <<bag, equipped, hand, stackSize, calling, ledger, lost>>

ReduceDurability(slot, amount) ==
  IF slot.durability <= 0 THEN slot
  ELSE [slot EXCEPT !.durability = Max({@ - amount, 0})]

\* Execute(): processDurabilityEvents(), one event after the other ...
InventoryTick ==
  /\ BetweenCalls
  /\ calling' = [NoCall EXCEPT !.at = IF wear = <<>> THEN "enchants" ELSE "wear", !.next = 1]
  /\ UNCHANGED <<bag, equipped, hand, stackSize, wear, ledger, lost>>

WearOut ==
  LET e == calling.next
      event == wear[e]
  IN  /\ calling.at = "wear"
      /\ equipped' = IF event.processed THEN equipped
                     ELSE [equipped EXCEPT ![event.slot] = ReduceDurability(@, event.amount)]
      /\ wear' = [wear EXCEPT ![e].processed = TRUE]
      /\ calling' = [calling EXCEPT !.at = IF e = Len(wear) THEN "enchants" ELSE "wear", !.next = e + 1]
      /\ UNCHANGED <<bag, hand, stackSize, ledger, lost>>

\* updateEnchants() and RemoveExpiredEnchants() on a slot.
Aged(slot, dt) ==
  IF IsEmpty(slot) THEN slot
  ELSE [slot EXCEPT !.enchants = {IF t = 0 THEN 0 ELSE t - dt : t \in {u \in @ : u = 0 \/ u > dt}}]

\* ... then every enchantment.
UpdateEnchants(dt) ==
  /\ calling.at = "enchants" /\ calling' = NoCall
  /\ equipped' = [s \in EquipSlots |-> Aged(equipped[s], dt)]
  /\ bag' = [i \in 1..Capacity |-> Aged(bag[i], dt)]
  /\ UNCHANGED <<hand, stackSize, wear, ledger, lost>>

CountIn(slot, item) == IF slot.item = item THEN slot.count ELSE 0

\* CountItem(): the items in some slots.
CountItem(slots, item) ==
  Cardinality(UNION {{p} \X (1..CountIn(slots[p], item)) : p \in DOMAIN slots})

\* The items in the bag, worn, held and dropped.
TotalOf(item) == CountItem(bag, item) + CountItem(equipped, item) + CountIn(hand, item) + lost[item]

AddNext ==
  \/ \E item \in Items, n \in Amounts :
       MapThenSumSet(TotalOf, Items) + n <= MaxItems /\ AddItem(item, n)
  \/ StackOnto \/ FillEmpty \/ FinishAdding

InventoryNext ==
  \/ AddNext
  \/ \E i \in 1..Capacity, n \in Amounts : RemoveItem(i, n) \/ SplitStack(i, n)
  \/ \E i, j \in 1..Capacity : MoveItem(i, j)
  \/ \E i \in 1..Capacity : EquipNowhere(i) \/ \E s \in EquipSlots : Equip(i, s)
  \/ PutBack
  \/ \E s \in EquipSlots : \/ Unequip(s)
                           \/ \E time \in EnchantTimes : Enchant(s, time)
                           \/ \E amount \in Amounts : RaiseWear(s, amount)
  \/ DropWear \/ InventoryTick \/ WearOut \/ UpdateEnchants(1)
  \/ \E item \in Stackables, size \in StackSizes : RegisterItem(item, size)

InventorySpec == InventoryInit /\ [][InventoryNext]_bagVars

(***************************************************************************)
(* Properties.                                                             *)
(***************************************************************************)

Slot == [item : Items \cup {"none"}, count : Nat, durability : Int, most : Int, enchants : SUBSET Int]

\* Slots are slots, and a call is at a slot or an event that exists.
InventoryTypeOK ==
  /\ bag \in [1..Capacity -> Slot] /\ equipped \in [EquipSlots -> Slot] /\ hand \in Slot
  /\ stackSize \in [Stackables -> StackSizes] /\ ledger \in [Items -> Int]
  /\ lost \in [Items -> Nat]
  /\ wear \in Seq([slot : EquipSlots, amount : Amounts, processed : BOOLEAN])
  /\ calling \in [at : {"none", "stack", "fill", "added", "wear", "enchants"}, next : Nat,
                  item : Items \cup {"none"}, left : Nat]
  /\ calling.at \in {"stack", "fill", "added"} => calling.item \in Items
  /\ calling.at \in {"stack", "fill"} => calling.next \in 1..Capacity
  /\ calling.at = "wear" => calling.next \in 1..Len(wear)

\* A slot is empty through and through or holds a stack some template allowed, and
\* durability stays between 0 and the item's own.
SlotSound(slot) ==
  IF IsEmpty(slot) THEN slot = EmptySlot
  ELSE /\ slot.count > 0
       /\ IF slot.item \in Gear THEN slot.count = 1 ELSE \E size \in StackSizes : slot.count <= size
       /\ slot.most = NewDurability(slot.item)
       /\ IF slot.most = Indestructible THEN slot.durability = Indestructible
          ELSE slot.durability \in 0..slot.most

\* No sequence of adding, splitting, moving, equipping and wearing down makes an item, and
\* none is lost but by the three ways the code has of dropping one: the rest of a stack that
\* is equipped, an item equipped to no slot, and one put back into a full bag.  What the calls
\* reported as added less removed is what there is, in sound slots, one item to a slot that
\* is worn, and only gear breaks (AddItem, SplitStack, MoveItem, Equip, ReduceDurability).
ItemsConserved ==
  /\ \A item \in Items : TotalOf(item) = ledger[item]
  /\ \A i \in 1..Capacity : SlotSound(bag[i])
  /\ \A s \in EquipSlots : /\ SlotSound(equipped[s]) /\ equipped[s].count <= 1
                           /\ IsBroken(equipped[s]) => equipped[s].item \in Gear
  /\ SlotSound(hand)
=============================================================================
