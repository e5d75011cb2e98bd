--------------------------- MODULE SisterBus_proofs ---------------------------
(***************************************************************************)
(* Proofs about SisterBus: when no process opens the segment while another *)
(* one creates it, the slots, stores and deaths of any number of           *)
(* publishers implement the table of SisterTable.                          *)
(***************************************************************************)
EXTENDS SisterBus, FiniteSetTheorems, WellFoundedInduction, TLAPS

-----------------------------------------------------------------------------
(* Sets of slots                                                           *)

LEMMA NotLess ==
  ASSUME NEW y \in Nat, NEW x \in Nat, <<y, x>> \notin OpToRel(<, Nat)
  PROVE  ~(y < x)
BY DEF OpToRel

LEMMA MinIs ==
  ASSUME NEW S \in SUBSET Slot, S # {}
  PROVE  Min(S) \in S
<1>1. S \subseteq Nat
  BY BusConstants DEF Slot
<1>2. PICK x \in S : \A y \in S : <<y, x>> \notin OpToRel(<, Nat)
  BY <1>1, NatLessThanWellFounded, WFMin
<1>3. ASSUME NEW y \in S PROVE x <= y
  <2>1. x \in Nat /\ y \in Nat
    BY <1>1
  <2>2. ~(y < x)
    BY <1>2, <2>1, NotLess, Zenon
  <2> QED BY <2>1, <2>2
<1> QED BY <1>3 DEF Min

\* The slot of a publication: the key's own, or a free one, or the first.
LEMMA TargetIs ==
  ASSUME NEW k
  PROVE  /\ TargetSlot(k) \in Slot
         /\ Holding(k) # {} => TargetSlot(k) \in Holding(k)
         /\ Holding(k) = {} => (TargetSlot(k) \in FreeSlots \/ FreeSlots = {})
<1>1. Holding(k) \in SUBSET Slot /\ FreeSlots \in SUBSET Slot /\ 1 \in Slot
  BY BusConstants DEF Holding, FreeSlots, Slot
<1>2. /\ Holding(k) # {} => Min(Holding(k)) \in Holding(k)
      /\ FreeSlots # {} => Min(FreeSlots) \in FreeSlots
  BY <1>1, MinIs
<1> QED BY <1>1, <1>2 DEF TargetSlot

-----------------------------------------------------------------------------
(* The invariant, in parts                                                 *)

Filling == {"clear", "head", "commit"} \cup Storing
Publishing == Filling \cup {"unlock"}

\* One process creates the segment, and none uses it before it is ready.
OneCreator ==
  /\ \A p, q \in Proc : at[p] \in Creating /\ at[q] \in Creating => p = q
  /\ \A p \in Proc : /\ at[p] \in Creating => segment \notin {"none", "ready"}
                     /\ at[p] \in Publishing \cup {"idle"} => segment = "ready"

\* Whoever publishes holds the mutex.
OnePublisher == \A p \in Proc : at[p] \in Publishing => owner = p

\* What a publisher knows of the table, from the choice of its slot on.
SlotIsChosen ==
  \A p \in Proc :
    /\ at[p] \in Filling => job[p].key \in Key
    /\ at[p] \in Filling => \A i \in Slot :
         slots[i].magic /\ slots[i].key = job[p].key => i = job[p].slot
    /\ at[p] \in {"head", "commit"} \cup Storing => slots[job[p].slot].key = job[p].key
    /\ at[p] = "clear" => \A i \in Slot :
         /\ slots[i].magic => slots[i].key # job[p].key
         /\ slots[job[p].slot].magic => slots[i].magic

\* Publications are numbered in the order in which their lengths are stored.
NumbersGrow ==
  /\ \A i \in Slot : slots[i].length <= published
  /\ \A p \in Proc : at[p] \in Filling => job[p].number <= published /\ job[p].number # 0
  /\ \A p \in Proc : at[p] \in {"clear", "head", "heading", "length"} =>
                       \A i \in Slot : slots[i].length < job[p].number

\* What a publisher has stored when it has come to a place.
StoresStand ==
  \A p \in Proc :
    /\ at[p] = "heading" => slots[job[p].slot].head = 0
    /\ at[p] \in {"length", "value", "copying", "commit"} =>
         slots[job[p].slot].head = job[p].number
    /\ at[p] \in {"value", "copying", "commit"} => slots[job[p].slot].length = job[p].number
    /\ at[p] = "commit" => slots[job[p].slot].value = job[p].number
    /\ at[p] = "unlock" => HoldsPublication(job[p].slot, job[p])

\* A visible slot is the entry of a key.
VisibleIsEntry == \A i \in Slot : slots[i].magic => slots[i].key \in Key /\ slots[i].length # 0

SlotsOK == VisibleIsEntry /\ OneSlotPerKey

BusInv ==
  /\ BusTypeOK /\ OneCreator /\ OnePublisher
  /\ SlotIsChosen /\ NumbersGrow /\ StoresStand /\ SlotsOK

LEMMA BusInitIs == BusInit => BusInv
<1> SUFFICES ASSUME BusInit PROVE BusInv
  OBVIOUS
<1>1. FreeSlot \in SlotBuffer /\ ~FreeSlot.magic /\ FreeSlot.length = 0
  BY DEF FreeSlot, SlotBuffer
<1>2. NoJob \in [key: Key \cup {Nobody}, slot: Slot, number: Nat]
  BY BusConstants DEF NoJob, Slot
<1>3. BusTypeOK
  BY <1>1, <1>2 DEF BusInit, BusTypeOK, Segments, Places
<1>4. /\ \A p \in Proc : at[p] = "out"
      /\ \A i \in Slot : ~slots[i].magic /\ slots[i].length = 0
      /\ published = 0
  BY <1>1 DEF BusInit
<1> QED BY <1>3, <1>4 DEF BusInv, OneCreator, OnePublisher, SlotIsChosen, NumbersGrow,
        StoresStand, SlotsOK, VisibleIsEntry, OneSlotPerKey, Filling, Storing, Publishing,
        Creating

-----------------------------------------------------------------------------
(* Steps that leave the table alone                                        *)

\* One process goes from a place to another where it fills no slot.
LEMMA GoKeepsSlots ==
  ASSUME BusInv, NEW p \in Proc, NEW place \in Places \ Publishing, Go(p, place),
         UNCHANGED <<slots, published>>,
         \A q \in Proc \ {p} : job'[q] = job[q]
  PROVE  SlotIsChosen' /\ NumbersGrow' /\ StoresStand' /\ SlotsOK'
<1>1. at'[p] = place /\ \A q \in Proc \ {p} : at'[q] = at[q]
  BY DEF Go, BusInv, BusTypeOK
<1>2. \A q \in Proc : at'[q] \in Publishing => q # p /\ at'[q] = at[q] /\ job'[q] = job[q]
  BY <1>1 DEF Publishing
<1> QED BY <1>2 DEF BusInv, SlotIsChosen, NumbersGrow, StoresStand, HoldsPublication, SlotsOK,
        VisibleIsEntry, OneSlotPerKey, Publishing, Filling, Storing

\* Opening or creating the segment.
LEMMA OpeningKeepsInv ==
  ASSUME BusInv, "openRace" \notin Faults, NEW p \in Proc,
         \/ OpenExisting(p) \/ CreateSegment(p) \/ SizeSegment(p)
         \/ SegmentFails(p) \/ MarkSegment(p) \/ InitMutex(p)
  PROVE  BusInv'
<1>1. /\ at[p] \notin Publishing \cup {"idle"}
      /\ UNCHANGED <<slots, job, published, local>>
  BY DEF OpenExisting, CreateSegment, SizeSegment, SegmentFails, MarkSegment, InitMutex,
         Publishing, Filling, Storing
<1>2. PICK place \in {"idle", "sizing", "marking", "local", "arming"} : Go(p, place)
  BY DEF OpenExisting, CreateSegment, SizeSegment, SegmentFails, MarkSegment, InitMutex
<1>3. at'[p] = place /\ \A q \in Proc \ {p} : at'[q] = at[q]
  BY <1>2 DEF Go, BusInv, BusTypeOK
<1>4. BusTypeOK'
  <2>1. segment' \in Segments /\ owner' \in Proc \cup {Nobody} /\ robust' \in BOOLEAN
    BY BusConstants DEF OpenExisting, CreateSegment, SizeSegment, SegmentFails, MarkSegment,
       InitMutex, Segments, BusInv, BusTypeOK
  <2>2. at' \in [Proc -> Places]
    BY <1>2 DEF Go, BusInv, BusTypeOK, Places
  <2> QED BY <1>1, <2>1, <2>2 DEF BusInv, BusTypeOK
<1>5. SlotIsChosen' /\ NumbersGrow' /\ StoresStand' /\ SlotsOK'
  <2>1. place \in Places \ Publishing
    BY DEF Places, Publishing, Filling, Storing
  <2> QED BY <1>1, <1>2, <2>1, GoKeepsSlots
<1>6. \A q \in Proc : at'[q] \in Publishing => at[q] \in Publishing /\ q # p
  BY <1>3 DEF Publishing, Filling, Storing
<1>7. CASE OpenExisting(p)
  <2>1. segment = "ready" /\ segment' = segment /\ owner' = owner /\ at'[p] = "idle"
    BY <1>3, <1>7 DEF OpenExisting, Go, BusInv, BusTypeOK
  <2>2. OneCreator'
    BY <1>3, <2>1 DEF BusInv, OneCreator, Creating, Publishing, Filling, Storing
  <2> QED BY <1>4, <1>5, <1>6, <2>1, <2>2 DEF BusInv, OnePublisher
<1>8. CASE CreateSegment(p)
  <2>1. segment = "none" /\ segment' = "named" /\ owner' = owner /\ at'[p] = "sizing"
    BY <1>3, <1>8 DEF CreateSegment, Go, BusInv, BusTypeOK
  <2>2. OneCreator'
    BY <1>3, <2>1 DEF BusInv, OneCreator, Creating, Publishing, Filling, Storing
  <2> QED BY <1>4, <1>5, <1>6, <2>1, <2>2 DEF BusInv, OnePublisher
<1>9. CASE SizeSegment(p) \/ MarkSegment(p)
  <2>1. /\ at[p] \in Creating /\ at'[p] \in Creating
        /\ segment' \notin {"none", "ready"} /\ owner' = owner
    BY <1>3, <1>9 DEF SizeSegment, MarkSegment, Go, Creating, BusInv, BusTypeOK
  <2>2. segment # "ready"
    BY <2>1 DEF BusInv, OneCreator
  <2>3. OneCreator'
    BY <1>3, <2>1, <2>2 DEF BusInv, OneCreator, Creating, Publishing, Filling, Storing
  <2> QED BY <1>4, <1>5, <1>6, <2>1, <2>3 DEF BusInv, OnePublisher
<1>10. CASE SegmentFails(p)
  <2>1. /\ at[p] \in Creating \/ segment = "none"
        /\ segment' = "none" /\ owner' = owner /\ at'[p] = "local"
    BY <1>3, <1>10 DEF SegmentFails, Go, Creating, BusInv, BusTypeOK
  <2>2. segment # "ready" /\ \A q \in Proc \ {p} : at[q] \notin Creating
    BY <2>1 DEF BusInv, OneCreator
  <2>3. OneCreator'
    BY <1>3, <2>1, <2>2 DEF BusInv, OneCreator, Creating, Publishing, Filling, Storing
  <2> QED BY <1>4, <1>5, <1>6, <2>1, <2>3 DEF BusInv, OnePublisher
<1>11. CASE InitMutex(p)
  <2>1. at[p] \in Creating /\ segment' = "ready" /\ at'[p] = "idle"
    BY <1>3, <1>11 DEF InitMutex, Go, Creating, BusInv, BusTypeOK
  <2>2. \A q \in Proc : /\ at[q] \notin Publishing \cup {"idle"}
                        /\ at[q] \in Creating => q = p
    BY <2>1 DEF BusInv, OneCreator
  <2>3. OneCreator' /\ OnePublisher'
    BY <1>3, <1>6, <2>1, <2>2 DEF OneCreator, OnePublisher, Creating, Publishing, Filling, Storing
  <2> QED BY <1>4, <1>5, <2>3 DEF BusInv
<1> QED BY <1>7, <1>8, <1>9, <1>10, <1>11

\* Giving up the mutex, dying, starting again, and the in-process map.
LEMMA LeavingKeepsInv ==
  ASSUME BusInv, NEW p \in Proc, Unlock(p) \/ Die(p) \/ Restart(p)
  PROVE  BusInv'
<1>1. PICK place \in {"idle", "dead", "out"} : Go(p, place)
  BY DEF Unlock, Die, Restart
<1>2. /\ at'[p] = place /\ (\A q \in Proc \ {p} : at'[q] = at[q])
      /\ at' \in [Proc -> Places]
  BY <1>1 DEF Go, BusInv, BusTypeOK, Places
<1>3. UNCHANGED <<segment, slots, robust, published>>
  BY DEF Unlock, Die, Restart
<1>4. job' \in [Proc -> [key: Key \cup {Nobody}, slot: Slot, number: Nat]]
      /\ \A q \in Proc \ {p} : job'[q] = job[q]
  <2>1. NoJob \in [key: Key \cup {Nobody}, slot: Slot, number: Nat]
    BY BusConstants DEF NoJob, Slot
  <2>2. job' = job \/ job' = [job EXCEPT ![p] = NoJob]
    BY DEF Unlock, Die, Restart
  <2> QED BY <2>1, <2>2 DEF BusInv, BusTypeOK
<1>5. owner' \in Proc \cup {Nobody} /\ (owner' = owner \/ owner = p)
  BY DEF Unlock, Die, Restart, BusInv, BusTypeOK
<1>6. local' \in [Proc -> [Key -> Nat]]
  BY DEF Unlock, Die, Restart, BusInv, BusTypeOK
<1>7. BusTypeOK'
  BY <1>2, <1>3, <1>4, <1>5, <1>6 DEF BusInv, BusTypeOK
<1>8. SlotIsChosen' /\ NumbersGrow' /\ StoresStand' /\ SlotsOK'
  <2>1. place \in Places \ Publishing
    BY DEF Places, Publishing, Filling, Storing
  <2> QED BY <1>1, <1>3, <1>4, <2>1, GoKeepsSlots
<1>9. OneCreator'
  <2>1. place = "idle" => at[p] \in Publishing
    BY <1>2 DEF Unlock, Die, Restart, Go, BusInv, BusTypeOK, Publishing
  <2> QED BY <1>2, <1>3, <2>1 DEF BusInv, OneCreator, Creating, Publishing, Filling, Storing
<1>10. OnePublisher'
  BY <1>2, <1>5 DEF BusInv, OnePublisher, Publishing, Filling, Storing
<1> QED BY <1>7, <1>8, <1>9, <1>10 DEF BusInv

LEMMA LocalKeepsInv ==
  ASSUME BusInv, NEW p \in Proc, NEW k \in Key, PublishLocal(p, k)
  PROVE  BusInv'
<1>1. /\ UNCHANGED <<segment, slots, owner, robust, at, job>>
      /\ published' = published + 1 /\ published \in Nat
      /\ local' = [local EXCEPT ![p][k] = published + 1]
  BY DEF PublishLocal, BusInv, BusTypeOK
<1>2. BusTypeOK'
  BY <1>1 DEF BusInv, BusTypeOK
<1>3. /\ \A i \in Slot : slots[i].length \in Nat
      /\ \A q \in Proc : job[q].number \in Nat
  BY DEF BusInv, BusTypeOK, SlotBuffer
<1>4. NumbersGrow'
  BY <1>1, <1>3 DEF BusInv, NumbersGrow
<1> QED BY <1>1, <1>2, <1>4 DEF BusInv, OneCreator, OnePublisher, SlotIsChosen, StoresStand,
        HoldsPublication, SlotsOK, VisibleIsEntry, OneSlotPerKey

-----------------------------------------------------------------------------
(* A publication                                                           *)

LEMMA BeginKeepsInv ==
  ASSUME BusInv, NEW p \in Proc, NEW k \in Key, BeginPublish(p, k)
  PROVE  BusInv'
<1> DEFINE slot == TargetSlot(k)
           mine == [key |-> k, slot |-> slot, number |-> published + 1]
           place == IF Holding(k) = {} THEN "clear" ELSE "head"
<1>1. /\ at[p] = "idle" /\ owner' = p /\ published' = published + 1
      /\ job' = [job EXCEPT ![p] = mine] /\ at' = [at EXCEPT ![p] = place]
      /\ UNCHANGED <<segment, slots, robust, local>>
  BY DEF BeginPublish, Go
<1>2. slot \in Slot /\ published \in Nat
  BY TargetIs DEF BusInv, BusTypeOK
<1>3. BusTypeOK'
  <2>1. mine \in [key: Key \cup {Nobody}, slot: Slot, number: Nat]
    BY <1>2
  <2>2. place \in Places
    BY DEF Places
  <2> HIDE DEF mine, place
  <2> QED BY <1>1, <1>2, <2>1, <2>2 DEF BusInv, BusTypeOK
<1>4. /\ at'[p] = place /\ job'[p].key = k /\ job'[p].slot = slot
      /\ job'[p].number = published + 1
      /\ \A q \in Proc \ {p} : at'[q] = at[q] /\ job'[q] = job[q]
  BY <1>1 DEF BusInv, BusTypeOK
<1>5. \A q \in Proc : at[q] \notin Publishing
  BY BusConstants DEF BeginPublish, Lockable, Dead, BusInv, OnePublisher, Publishing, Filling, Storing
<1>6. OneCreator'
  BY <1>1, <1>4 DEF BusInv, OneCreator, Creating, Publishing, Filling, Storing
<1>7. OnePublisher'
  BY <1>1, <1>4, <1>5 DEF OnePublisher
<1>8. ASSUME Holding(k) # {}
      PROVE  slots[slot].key = k /\ \A i \in Slot : slots[i].magic /\ slots[i].key = k => i = slot
  BY <1>2, <1>8, TargetIs DEF Holding, BusInv, SlotsOK, OneSlotPerKey
<1>9. ASSUME Holding(k) = {}
      PROVE  /\ \A i \in Slot : slots[i].magic => slots[i].key # k
             /\ slots[slot].magic => \A i \in Slot : slots[i].magic
  BY <1>2, <1>9, TargetIs DEF Holding, FreeSlots
<1> HIDE DEF slot
<1>10. SlotIsChosen'
  BY <1>1, <1>4, <1>5, <1>8, <1>9 DEF SlotIsChosen, Publishing, Filling, Storing
<1>11. NumbersGrow'
  <2>1. \A i \in Slot : slots[i].length \in Nat /\ slots[i].length <= published
    BY DEF BusInv, BusTypeOK, SlotBuffer, NumbersGrow
  <2> QED BY <1>1, <1>2, <1>4, <1>5, <2>1 DEF NumbersGrow, Publishing, Filling, Storing
<1>12. SlotsOK'
  BY <1>1 DEF BusInv, SlotsOK, VisibleIsEntry, OneSlotPerKey
<1>13. StoresStand'
  BY <1>1, <1>4, <1>5 DEF StoresStand, Publishing, Filling, Storing
<1> QED BY <1>3, <1>6, <1>7, <1>10, <1>11, <1>12, <1>13 DEF BusInv

\* What every store of a publisher does, and leaves alone.
LEMMA StoreIs ==
  ASSUME BusInv, NEW p \in Proc, at[p] \in Filling, NEW place \in Publishing,
         NEW buffer \in SlotBuffer, Store(p, place, buffer)
  PROVE  /\ BusTypeOK' /\ OneCreator' /\ OnePublisher'
         /\ job[p].slot \in Slot
         /\ slots'[job[p].slot] = buffer
         /\ \A i \in Slot \ {job[p].slot} : slots'[i] = slots[i]
         /\ at'[p] = place
         /\ \A q \in Proc \ {p} : at'[q] = at[q] /\ at[q] \notin Publishing
         /\ UNCHANGED <<job, published>>
<1>1. /\ slots' = [slots EXCEPT ![job[p].slot] = buffer] /\ at' = [at EXCEPT ![p] = place]
      /\ UNCHANGED <<segment, owner, robust, job, published, local>>
  BY DEF Store, Go
<1>2. job[p].slot \in Slot
  BY DEF BusInv, BusTypeOK
<1>3. /\ slots'[job[p].slot] = buffer
      /\ \A i \in Slot \ {job[p].slot} : slots'[i] = slots[i]
      /\ at'[p] = place /\ \A q \in Proc \ {p} : at'[q] = at[q]
  BY <1>1, <1>2 DEF BusInv, BusTypeOK
<1>4. BusTypeOK'
  <2>1. place \in Places
    BY DEF Places, Publishing, Filling, Storing
  <2> QED BY <1>1, <2>1 DEF BusInv, BusTypeOK
<1>5. OneCreator'
  BY <1>1, <1>3 DEF BusInv, OneCreator, Creating, Publishing, Filling, Storing
<1>6. OnePublisher' /\ \A q \in Proc \ {p} : at[q] \notin Publishing
  BY <1>1, <1>3 DEF BusInv, OnePublisher, Publishing, Filling, Storing
<1> QED BY <1>1, <1>2, <1>3, <1>4, <1>5, <1>6

\* The slot as each store leaves it.
LEMMA ClearedBufferIs ==
  ASSUME NEW k \in Key, NEW buffer, buffer = [FreeSlot EXCEPT !.key = k]
  PROVE  buffer \in SlotBuffer /\ ~buffer.magic /\ buffer.key = k /\ buffer.length = 0
<1>1. FreeSlot \in SlotBuffer /\ ~FreeSlot.magic /\ FreeSlot.length = 0
  BY DEF FreeSlot, SlotBuffer
<1> QED BY <1>1 DEF SlotBuffer

LEMMA HeadBufferIs ==
  ASSUME NEW slot \in SlotBuffer, NEW n \in Nat, NEW buffer, buffer = [slot EXCEPT !.head = n]
  PROVE  /\ buffer \in SlotBuffer /\ buffer.magic = slot.magic /\ buffer.key = slot.key
         /\ buffer.head = n /\ buffer.length = slot.length /\ buffer.value = slot.value
BY DEF SlotBuffer

LEMMA LengthBufferIs ==
  ASSUME NEW slot \in SlotBuffer, NEW n \in Nat, NEW buffer, buffer = [slot EXCEPT !.length = n]
  PROVE  /\ buffer \in SlotBuffer /\ buffer.magic = slot.magic /\ buffer.key = slot.key
         /\ buffer.head = slot.head /\ buffer.length = n /\ buffer.value = slot.value
BY DEF SlotBuffer

LEMMA ValueBufferIs ==
  ASSUME NEW slot \in SlotBuffer, NEW n \in Nat, NEW buffer, buffer = [slot EXCEPT !.value = n]
  PROVE  /\ buffer \in SlotBuffer /\ buffer.magic = slot.magic /\ buffer.key = slot.key
         /\ buffer.head = slot.head /\ buffer.length = slot.length /\ buffer.value = n
BY DEF SlotBuffer

LEMMA CommittedBufferIs ==
  ASSUME NEW slot \in SlotBuffer, NEW buffer, buffer = [slot EXCEPT !.magic = TRUE]
  PROVE  /\ buffer \in SlotBuffer /\ buffer.magic /\ buffer.key = slot.key
         /\ buffer.head = slot.head /\ buffer.length = slot.length /\ buffer.value = slot.value
<1> DEFINE marked(b) == [slot EXCEPT !.magic = b]
<1>1. ASSUME NEW b \in BOOLEAN
      PROVE  /\ marked(b) \in SlotBuffer /\ marked(b).magic = b /\ marked(b).key = slot.key
             /\ marked(b).head = slot.head /\ marked(b).length = slot.length
             /\ marked(b).value = slot.value
  BY DEF SlotBuffer
<1>2. TRUE \in BOOLEAN /\ buffer = marked(TRUE)
  OBVIOUS
<1> HIDE DEF marked
<1> QED BY <1>1, <1>2, Zenon

\* What is known of the publisher's slot before a store.
LEMMA FillingIs ==
  ASSUME BusInv, NEW p \in Proc, at[p] \in Filling
  PROVE  /\ slots[job[p].slot] \in SlotBuffer /\ job[p].slot \in Slot
         /\ job[p].key \in Key /\ job[p].number \in Nat \ {0}
         /\ \A i \in Slot : /\ slots[i].length \in Nat
                            /\ slots[i].magic /\ slots[i].key = job[p].key => i = job[p].slot
BY DEF BusInv, BusTypeOK, SlotBuffer, SlotIsChosen, NumbersGrow

LEMMA ClearKeepsInv ==
  ASSUME BusInv, NEW p \in Proc, ClearSlot(p)
  PROVE  BusInv'
<1> DEFINE buffer == [FreeSlot EXCEPT !.key = job[p].key]
<1>1. at[p] = "clear" /\ at[p] \in Filling /\ "head" \in Publishing /\ Store(p, "head", buffer)
  BY DEF ClearSlot, Filling, Storing, Publishing
<1>2. /\ buffer \in SlotBuffer /\ ~buffer.magic /\ buffer.key = job[p].key
      /\ buffer.length = 0
  BY <1>1, FillingIs, ClearedBufferIs
<1> HIDE DEF buffer
<1>3. /\ BusTypeOK' /\ OneCreator' /\ OnePublisher'
      /\ job[p].slot \in Slot /\ slots'[job[p].slot] = buffer
      /\ \A i \in Slot \ {job[p].slot} : slots'[i] = slots[i]
      /\ at'[p] = "head"
      /\ \A q \in Proc \ {p} : at'[q] = at[q] /\ at[q] \notin Publishing
      /\ UNCHANGED <<job, published>>
  BY <1>1, <1>2, StoreIs
<1>4. \A q \in Proc \ {p} : at'[q] \notin Publishing
  BY <1>3
<1>5. SlotIsChosen'
  BY <1>1, <1>2, <1>3, <1>4 DEF BusInv, SlotIsChosen, Publishing, Filling, Storing
<1>6. NumbersGrow'
  <2>1. published \in Nat /\ job[p].number \in Nat \ {0}
    BY <1>1, FillingIs DEF BusInv, BusTypeOK
  <2> QED BY <1>1, <1>2, <1>3, <1>4, <2>1 DEF BusInv, NumbersGrow, Publishing, Filling, Storing
<1>7. SlotsOK'
  BY <1>2, <1>3 DEF BusInv, SlotsOK, VisibleIsEntry, OneSlotPerKey
<1>8. StoresStand'
  BY <1>3, <1>4 DEF StoresStand, Publishing, Filling, Storing
<1> QED BY <1>3, <1>5, <1>6, <1>7, <1>8 DEF BusInv

\* The stores from the head to the end of the value: slot by slot the magic
\* and the key stay, and what has been stored is the publisher's own.
FieldStore(p, place, buffer) ==
  LET old == slots[job[p].slot] IN
  /\ at[p] \in {"head"} \cup Storing /\ place \in {"commit"} \cup Storing
  /\ buffer \in SlotBuffer /\ Store(p, place, buffer)
  /\ buffer.magic = old.magic /\ buffer.key = old.key
  /\ buffer.length \in {old.length, job[p].number}
  /\ place \in {"heading", "length"} =>
       at[p] \in {"head", "heading"} /\ buffer.length = old.length
  /\ place = "heading" => buffer.head = 0
  /\ place \in {"length", "value", "copying", "commit"} => buffer.head = job[p].number
  /\ place \in {"value", "copying", "commit"} => buffer.length = job[p].number
  /\ place = "commit" => buffer.value = job[p].number

LEMMA FieldStores ==
  ASSUME BusInv, NEW p \in Proc,
         \/ BeginHead(p) \/ EndHead(p) \/ StoreLength(p) \/ BeginCopy(p) \/ EndCopy(p)
  PROVE  \E place, buffer : FieldStore(p, place, buffer)
<1> DEFINE old == slots[job[p].slot]
           n   == job[p].number
<1>1. at[p] \in {"head"} \cup Storing /\ at[p] \in Filling
  BY DEF BeginHead, EndHead, StoreLength, BeginCopy, EndCopy, Storing, Filling
<1>2. old \in SlotBuffer /\ n \in Nat /\ 0 \in Nat
  BY <1>1, FillingIs
<1>3. /\ at[p] \in {"length", "value", "copying"} => old.head = n
      /\ at[p] \in {"value", "copying"} => old.length = n
  BY DEF BusInv, StoresStand
<1> HIDE DEF old, n
<1>4. CASE BeginHead(p)
  <2>1. PICK buffer : buffer = [old EXCEPT !.head = 0]
    OBVIOUS
  <2>2. FieldStore(p, "heading", buffer)
    BY <1>1, <1>2, <1>4, <2>1, HeadBufferIs DEF BeginHead, FieldStore, Storing, old, n
  <2> QED BY <2>2
<1>5. CASE EndHead(p)
  <2>1. PICK buffer : buffer = [old EXCEPT !.head = n]
    OBVIOUS
  <2>2. FieldStore(p, "length", buffer)
    BY <1>1, <1>2, <1>5, <2>1, HeadBufferIs DEF EndHead, FieldStore, Storing, old, n
  <2> QED BY <2>2
<1>6. CASE StoreLength(p)
  <2>1. PICK buffer : buffer = [old EXCEPT !.length = n]
    OBVIOUS
  <2>2. FieldStore(p, "value", buffer)
    BY <1>1, <1>2, <1>3, <1>6, <2>1, LengthBufferIs DEF StoreLength, FieldStore, Storing, old, n
  <2> QED BY <2>2
<1>7. CASE BeginCopy(p)
  <2>1. PICK buffer : buffer = [old EXCEPT !.value = 0]
    OBVIOUS
  <2>2. FieldStore(p, "copying", buffer)
    BY <1>1, <1>2, <1>3, <1>7, <2>1, ValueBufferIs DEF BeginCopy, FieldStore, Storing, old, n
  <2> QED BY <2>2
<1>8. CASE EndCopy(p)
  <2>1. PICK buffer : buffer = [old EXCEPT !.value = n]
    OBVIOUS
  <2>2. FieldStore(p, "commit", buffer)
    BY <1>1, <1>2, <1>3, <1>8, <2>1, ValueBufferIs DEF EndCopy, FieldStore, Storing, old, n
  <2> QED BY <2>2
<1> QED BY <1>4, <1>5, <1>6, <1>7, <1>8

\* What such a store changes.
LEMMA FieldStoreIs ==
  ASSUME BusInv, NEW p \in Proc, NEW place, NEW buffer, FieldStore(p, place, buffer)
  PROVE  /\ BusTypeOK' /\ OneCreator' /\ OnePublisher'
         /\ job[p].slot \in Slot
         /\ slots'[job[p].slot] = buffer
         /\ \A i \in Slot \ {job[p].slot} : slots'[i] = slots[i]
         /\ at'[p] = place
         /\ \A q \in Proc \ {p} : at'[q] = at[q] /\ at[q] \notin Publishing
         /\ UNCHANGED <<job, published>>
         /\ \A i \in Slot : slots'[i].magic = slots[i].magic /\ slots'[i].key = slots[i].key
<1>1. /\ at[p] \in Filling /\ place \in Publishing
      /\ buffer \in SlotBuffer /\ Store(p, place, buffer)
      /\ buffer.magic = slots[job[p].slot].magic /\ buffer.key = slots[job[p].slot].key
  BY DEF FieldStore, Filling, Storing, Publishing
<1>2. /\ BusTypeOK' /\ OneCreator' /\ OnePublisher'
      /\ job[p].slot \in Slot
      /\ slots'[job[p].slot] = buffer
      /\ \A i \in Slot \ {job[p].slot} : slots'[i] = slots[i]
      /\ at'[p] = place
      /\ \A q \in Proc \ {p} : at'[q] = at[q] /\ at[q] \notin Publishing
      /\ UNCHANGED <<job, published>>
  BY <1>1, StoreIs
<1> QED BY <1>1, <1>2

LEMMA FieldStoreKeepsInv ==
  ASSUME BusInv, NEW p \in Proc, NEW place, NEW buffer, FieldStore(p, place, buffer)
  PROVE  BusInv'
<1>1. /\ BusTypeOK' /\ OneCreator' /\ OnePublisher'
      /\ job[p].slot \in Slot /\ slots'[job[p].slot] = buffer
      /\ \A i \in Slot \ {job[p].slot} : slots'[i] = slots[i]
      /\ at'[p] = place
      /\ \A q \in Proc \ {p} : at'[q] = at[q] /\ at[q] \notin Publishing
      /\ UNCHANGED <<job, published>>
      /\ \A i \in Slot : slots'[i].magic = slots[i].magic /\ slots'[i].key = slots[i].key
  BY FieldStoreIs
<1>2. /\ at[p] \in Filling /\ at[p] \in {"head"} \cup Storing
      /\ place \in {"commit"} \cup Storing /\ place \in Filling
  BY DEF FieldStore, Filling, Storing
<1>3. \A q \in Proc \ {p} : at'[q] \notin Publishing
  BY <1>1
<1>4. SlotIsChosen'
  BY <1>1, <1>2, <1>3 DEF BusInv, SlotIsChosen, Publishing, Filling, Storing
<1>5. /\ job[p].number \in Nat \ {0} /\ job[p].number <= published /\ published \in Nat
      /\ \A i \in Slot : slots[i].length \in Nat
  BY <1>2, FillingIs DEF BusInv, BusTypeOK, NumbersGrow
<1>6. NumbersGrow'
  <2>1. \A i \in Slot : slots'[i].length \in {slots[i].length, job[p].number}
    BY <1>1 DEF FieldStore
  <2>2. \A i \in Slot : slots'[i].length <= published
    BY <1>5, <2>1 DEF BusInv, NumbersGrow
  <2>3. place \in {"clear", "head", "heading", "length"} =>
          \A i \in Slot : slots'[i].length < job[p].number
    <3> SUFFICES ASSUME place \in {"clear", "head", "heading", "length"}
                 PROVE  \A i \in Slot : slots'[i].length < job[p].number
      OBVIOUS
    <3>1. place \in {"heading", "length"}
      BY <1>2 DEF Storing
    <3>2. at[p] \in {"head", "heading"} /\ buffer.length = slots[job[p].slot].length
      BY <3>1 DEF FieldStore
    <3>3. \A i \in Slot : slots'[i].length = slots[i].length
      BY <1>1, <3>2
    <3> QED BY <3>2, <3>3 DEF BusInv, NumbersGrow
  <2> QED BY <1>1, <1>3, <1>5, <2>2, <2>3 DEF NumbersGrow, Publishing, Filling, Storing
<1>7. StoresStand'
  <2>1. \A q \in Proc \ {p} : at'[q] \notin {"heading", "length", "value", "copying", "commit", "unlock"}
    BY <1>3 DEF Publishing, Filling, Storing
  <2>2. at'[p] # "unlock"
    BY <1>1, <1>2 DEF Storing
  <2> QED BY <1>1, <2>1, <2>2 DEF FieldStore, StoresStand
<1>8. SlotsOK'
  <2>1. \A i \in Slot : slots[i].length # 0 => slots'[i].length # 0
    BY <1>1, <1>5 DEF FieldStore
  <2> QED BY <1>1, <2>1 DEF BusInv, SlotsOK, VisibleIsEntry, OneSlotPerKey
<1> QED BY <1>1, <1>4, <1>6, <1>7, <1>8 DEF BusInv

LEMMA CommitKeepsInv ==
  ASSUME BusInv, NEW p \in Proc, Commit(p)
  PROVE  BusInv'
<1> DEFINE old == slots[job[p].slot]
           buffer == [old EXCEPT !.magic = TRUE]
<1>1. at[p] = "commit" /\ at[p] \in Filling /\ "unlock" \in Publishing /\ Store(p, "unlock", buffer)
  BY DEF Commit, Filling, Storing, Publishing
<1>2. /\ buffer \in SlotBuffer /\ buffer.magic /\ buffer.key = old.key
      /\ buffer.head = old.head /\ buffer.length = old.length /\ buffer.value = old.value
  BY <1>1, FillingIs, CommittedBufferIs
<1> HIDE DEF buffer
<1>3. /\ BusTypeOK' /\ OneCreator' /\ OnePublisher'
      /\ job[p].slot \in Slot /\ slots'[job[p].slot] = buffer
      /\ \A i \in Slot \ {job[p].slot} : slots'[i] = slots[i]
      /\ at'[p] = "unlock"
      /\ \A q \in Proc \ {p} : at'[q] = at[q] /\ at[q] \notin Publishing
      /\ UNCHANGED <<job, published>>
  BY <1>1, <1>2, StoreIs
<1>4. /\ \A q \in Proc \ {p} : at'[q] \notin Publishing
      /\ \A q \in Proc : at'[q] \notin Filling
  BY <1>3 DEF Publishing, Filling, Storing
<1>5. SlotIsChosen'
  BY <1>4 DEF SlotIsChosen, Filling
<1>6. \A i \in Slot : slots'[i].length = slots[i].length
  BY <1>2, <1>3
<1>7. NumbersGrow'
  BY <1>3, <1>4, <1>6 DEF BusInv, NumbersGrow, Filling, Storing
<1>8. /\ old.key = job[p].key /\ job[p].number # 0 /\ job[p].key \in Key
      /\ old.head = job[p].number /\ old.length = job[p].number /\ old.value = job[p].number
      /\ \A i \in Slot : slots[i].magic /\ slots[i].key = job[p].key => i = job[p].slot
  BY <1>1, FillingIs DEF BusInv, SlotIsChosen, StoresStand
<1>9. SlotsOK'
  <2>1. VisibleIsEntry'
    BY <1>2, <1>3, <1>8 DEF BusInv, SlotsOK, VisibleIsEntry
  <2>2. OneSlotPerKey'
    BY <1>2, <1>3, <1>8 DEF BusInv, SlotsOK, OneSlotPerKey
  <2> QED BY <2>1, <2>2 DEF SlotsOK
<1>10. StoresStand'
  <2>1. buffer = [magic |-> TRUE, key |-> job[p].key, head |-> job[p].number,
                  length |-> job[p].number, value |-> job[p].number]
    <3>1. buffer.magic = TRUE
      BY <1>2 DEF SlotBuffer
    <3> QED BY <1>2, <1>8, <3>1 DEF SlotBuffer
  <2>2. HoldsPublication(job[p].slot, job[p])'
    BY <1>3, <2>1 DEF HoldsPublication
  <2>3. \A q \in Proc : at'[q] = "unlock" => q = p
    BY <1>4 DEF Publishing
  <2> QED BY <1>3, <1>4, <2>2, <2>3 DEF StoresStand, HoldsPublication, Filling, Storing
<1> QED BY <1>3, <1>5, <1>7, <1>9, <1>10 DEF BusInv

LEMMA BusInductive ==
  ASSUME BusInv, "openRace" \notin Faults, [BusNext]_busVars
  PROVE  BusInv'
<1>1. CASE UNCHANGED busVars
  BY <1>1 DEF busVars, BusInv, BusTypeOK, OneCreator, OnePublisher, SlotIsChosen, NumbersGrow,
              StoresStand, HoldsPublication, SlotsOK, VisibleIsEntry, OneSlotPerKey
<1>2. CASE BusNext
  BY <1>2, OpeningKeepsInv, LeavingKeepsInv, LocalKeepsInv, BeginKeepsInv, ClearKeepsInv,
     FieldStores, FieldStoreKeepsInv, CommitKeepsInv DEF BusNext
<1> QED BY <1>1, <1>2

-----------------------------------------------------------------------------
(* The theorems                                                            *)

\* The invariant holds in every behaviour without a race at the opening.
THEOREM BusInvariant == "openRace" \notin Faults => (BusSpec => []BusInv)
<1> SUFFICES ASSUME "openRace" \notin Faults PROVE BusSpec => []BusInv
  OBVIOUS
<1>1. BusInit => BusInv
  BY BusInitIs
<1>2. BusInv /\ [BusNext]_busVars => BusInv'
  BY BusInductive
<1> QED BY <1>1, <1>2, PTL DEF BusSpec

\* No two visible slots hold one key (sister_shm.cpp:158-193), for any number
\* of processes, keys and slots, and with publishers dying anywhere.
THEOREM SlotsAreUnique == "openRace" \notin Faults => (BusSpec => []OneSlotPerKey)
<1> SUFFICES ASSUME "openRace" \notin Faults PROVE BusSpec => []OneSlotPerKey
  OBVIOUS
<1>1. BusInv => OneSlotPerKey
  BY DEF BusInv, SlotsOK
<1> QED BY <1>1, BusInvariant, PTL

-----------------------------------------------------------------------------
(* Slots that hold one publication                                         *)

\* Torn slots appear by the death of their publisher only, and a publication
\* that returns is whole.
TornStep ==
  /\ \A i \in Slot : Torn(i)' => Torn(i) \/ (Rewritten(i) /\ Die(owner))
  /\ \A p \in Proc : Unlock(p) => HoldsPublication(job[p].slot, job[p])

LEMMA UnlockIsWhole ==
  ASSUME BusInv, NEW p \in Proc, Unlock(p)
  PROVE  HoldsPublication(job[p].slot, job[p])
BY DEF BusInv, StoresStand, Unlock

\* Nobody rewrites a slot but the publisher, who holds the mutex.
LEMMA RewrittenIs ==
  ASSUME BusInv, NEW p \in Proc, at[p] \in Storing, NEW i \in Slot, job[p].slot = i
  PROVE  Rewritten(i) /\ owner = p
BY DEF BusInv, OnePublisher, Rewritten, Publishing, Filling

\* A step that stores nothing.
LEMMA NoStoreTears ==
  ASSUME BusInv, BusInv', NEW p \in Proc, UNCHANGED slots,
         \A q \in Proc \ {p} : at'[q] = at[q] /\ job'[q] = job[q],
         at[p] \in Storing => Die(p)
  PROVE  TornStep
<1>1. ASSUME NEW i \in Slot, Torn(i)', ~Torn(i)
      PROVE  Rewritten(i) /\ Die(owner)
  <2>1. Rewritten(i)
    BY <1>1 DEF Torn, Whole
  <2>2. CASE owner = p
    BY <2>1, <2>2 DEF Rewritten
  <2>3. CASE owner # p
    <3>1. PICK q \in Proc : q = owner
      BY <2>1 DEF Rewritten
    <3>2. at'[q] \in Storing /\ job'[q].slot = i
      BY <2>1, <2>3, <3>1 DEF Rewritten
    <3>3. owner' = q
      BY <3>2 DEF BusInv, OnePublisher, Publishing, Filling
    <3> QED BY <1>1, <3>1, <3>2, <3>3 DEF Torn, Rewritten
  <2> QED BY <2>1, <2>2, <2>3
<1> QED BY <1>1, UnlockIsWhole DEF TornStep

\* A store, after which the publisher's slot is invisible, whole, or being
\* rewritten.
LEMMA StoreTears ==
  ASSUME BusInv, BusInv', NEW p \in Proc, at[p] \in Filling, UNCHANGED <<job, owner>>,
         \A i \in Slot \ {job[p].slot} : slots'[i] = slots[i],
         \A q \in Proc \ {p} : at'[q] = at[q] /\ at[q] \notin Publishing,
         \/ at'[p] \in Storing \cup {"commit", "unlock"}
         \/ ~slots'[job[p].slot].magic
  PROVE  TornStep
<1>1. owner = p /\ job[p].slot \in Slot
  BY DEF BusInv, BusTypeOK, OnePublisher, Publishing
<1>2. ASSUME NEW i \in Slot \ {job[p].slot}, Torn(i)' PROVE Torn(i)
  BY <1>1, <1>2 DEF Torn, Whole, Rewritten
<1>3. ~Torn(job[p].slot)'
  <2>1. CASE ~slots'[job[p].slot].magic
    BY <2>1 DEF Torn
  <2>2. CASE at'[p] \in Storing
    BY <1>1, <2>2 DEF Torn, Rewritten
  <2>3. CASE at'[p] = "commit"
    <3>1. /\ slots'[job[p].slot].head = job[p].number
          /\ slots'[job[p].slot].length = job[p].number
          /\ slots'[job[p].slot].value = job[p].number
      BY <2>3 DEF BusInv, StoresStand
    <3> QED BY <3>1 DEF Torn, Whole
  <2>4. CASE at'[p] = "unlock"
    <3>1. HoldsPublication(job[p].slot, job[p])'
      BY <2>4 DEF BusInv, StoresStand
    <3>2. Whole(job[p].slot)'
      BY <3>1 DEF HoldsPublication, Whole
    <3> QED BY <3>2 DEF Torn
  <2> QED BY <2>1, <2>2, <2>3, <2>4
<1>4. \A q \in Proc : ~Unlock(q)
  BY DEF Unlock, Publishing, Filling, Storing
<1> QED BY <1>2, <1>3, <1>4 DEF TornStep

\* What a publisher's store is, whichever it is.
LEMMA AnyStoreIs ==
  ASSUME BusInv, NEW p \in Proc,
         \/ ClearSlot(p) \/ BeginHead(p) \/ EndHead(p) \/ StoreLength(p)
         \/ BeginCopy(p) \/ EndCopy(p) \/ Commit(p)
  PROVE  /\ at[p] \in Filling /\ UNCHANGED <<job, owner>> /\ job[p].slot \in Slot
         /\ \A i \in Slot \ {job[p].slot} : slots'[i] = slots[i]
         /\ \A q \in Proc \ {p} : at'[q] = at[q] /\ at[q] \notin Publishing
         /\ \/ at'[p] \in Storing \cup {"commit", "unlock"}
            \/ ~slots'[job[p].slot].magic
<1>1. UNCHANGED <<job, owner>>
  BY DEF ClearSlot, BeginHead, EndHead, StoreLength, BeginCopy, EndCopy, Commit, Store
<1>2. CASE ClearSlot(p)
  <2> DEFINE buffer == [FreeSlot EXCEPT !.key = job[p].key]
  <2>1. at[p] \in Filling /\ "head" \in Publishing /\ Store(p, "head", buffer)
    BY <1>2 DEF ClearSlot, Filling, Storing, Publishing
  <2>2. buffer \in SlotBuffer /\ ~buffer.magic
    BY <2>1, FillingIs, ClearedBufferIs
  <2> HIDE DEF buffer
  <2> QED BY <1>1, <2>1, <2>2, StoreIs
<1>3. CASE Commit(p)
  <2> DEFINE buffer == [slots[job[p].slot] EXCEPT !.magic = TRUE]
  <2>1. at[p] \in Filling /\ "unlock" \in Publishing /\ Store(p, "unlock", buffer)
    BY <1>3 DEF Commit, Filling, Storing, Publishing
  <2>2. buffer \in SlotBuffer
    BY <2>1, FillingIs, CommittedBufferIs
  <2> HIDE DEF buffer
  <2> QED BY <1>1, <2>1, <2>2, StoreIs
<1>4. CASE \/ BeginHead(p) \/ EndHead(p) \/ StoreLength(p) \/ BeginCopy(p) \/ EndCopy(p)
  <2>1. PICK place, buffer : FieldStore(p, place, buffer)
    BY <1>4, FieldStores
  <2>2. at[p] \in Filling /\ place \in {"commit"} \cup Storing
    BY <2>1 DEF FieldStore, Filling
  <2> QED BY <1>1, <2>1, <2>2, FieldStoreIs
<1> QED BY <1>2, <1>3, <1>4

LEMMA StepTears ==
  ASSUME BusInv, BusInv', "openRace" \notin Faults, [BusNext]_busVars
  PROVE  TornStep
<1>1. CASE UNCHANGED busVars
  <2>1. \A i \in Slot : Torn(i)' => Torn(i)
    BY <1>1 DEF busVars, Torn, Whole, Rewritten
  <2> QED BY <2>1, UnlockIsWhole DEF TornStep
<1>2. ASSUME NEW p \in Proc,
             \/ OpenExisting(p) \/ CreateSegment(p) \/ SizeSegment(p)
             \/ SegmentFails(p) \/ MarkSegment(p) \/ InitMutex(p)
      PROVE  TornStep
  <2>1. PICK place : Go(p, place)
    BY <1>2 DEF OpenExisting, CreateSegment, SizeSegment, SegmentFails, MarkSegment, InitMutex
  <2>2. \A q \in Proc \ {p} : at'[q] = at[q]
    BY <2>1 DEF Go, BusInv, BusTypeOK
  <2>3. UNCHANGED <<slots, job>> /\ at[p] \notin Storing
    BY <1>2 DEF OpenExisting, CreateSegment, SizeSegment, SegmentFails, MarkSegment, InitMutex,
       Storing
  <2> QED BY <2>2, <2>3, NoStoreTears
<1>3. ASSUME NEW p \in Proc, Unlock(p) \/ Die(p) \/ Restart(p)
      PROVE  TornStep
  <2>1. PICK place : Go(p, place)
    BY <1>3 DEF Unlock, Die, Restart
  <2>2. \A q \in Proc \ {p} : at'[q] = at[q]
    BY <2>1 DEF Go, BusInv, BusTypeOK
  <2>3. UNCHANGED slots /\ \A q \in Proc \ {p} : job'[q] = job[q]
    BY <1>3 DEF Unlock, Die, Restart, BusInv, BusTypeOK
  <2>4. at[p] \in Storing => Die(p)
    BY <1>3 DEF Unlock, Restart, Storing
  <2> QED BY <2>2, <2>3, <2>4, NoStoreTears
<1>4. ASSUME NEW p \in Proc, NEW k \in Key, BeginPublish(p, k) \/ PublishLocal(p, k)
      PROVE  TornStep
  <2>1. /\ UNCHANGED slots /\ at[p] \notin Storing
        /\ \A q \in Proc \ {p} : at'[q] = at[q] /\ job'[q] = job[q]
    BY <1>4 DEF BeginPublish, PublishLocal, Go, BusInv, BusTypeOK, Storing
  <2> QED BY <2>1, NoStoreTears
<1>5. ASSUME NEW p \in Proc,
             \/ ClearSlot(p) \/ BeginHead(p) \/ EndHead(p) \/ StoreLength(p)
             \/ BeginCopy(p) \/ EndCopy(p) \/ Commit(p)
      PROVE  TornStep
  BY <1>5, AnyStoreIs, StoreTears
<1> QED BY <1>1, <1>2, <1>3, <1>4, <1>5 DEF BusNext

\* A slot is torn by the death of its publisher between the first store of the
\* head and the last of the value and by nothing else, and a publish that
\* returns leaves it whole (sister_shm.cpp:187-196), for any number of
\* processes, keys and slots.
THEOREM OnlyDeathTearsSlots == "openRace" \notin Faults => (BusSpec => TornByDeathOnly)
<1> SUFFICES ASSUME "openRace" \notin Faults PROVE BusSpec => TornByDeathOnly
  OBVIOUS
<1>1. BusInv /\ BusInv' /\ [BusNext]_busVars => TornStep
  BY StepTears
<1>2. TornStep =>
        [/\ \A i \in Slot : Torn(i)' => Torn(i) \/ (Rewritten(i) /\ Die(owner))
         /\ \A p \in Proc : Unlock(p) => HoldsPublication(job[p].slot, job[p])]_busVars
  BY DEF TornStep
<1> QED BY <1>1, <1>2, BusInvariant, PTL DEF BusSpec, TornByDeathOnly

-----------------------------------------------------------------------------
(* The table a reader finds                                                *)

\* What a reader looks at: of each slot, whether it is visible, its key and the
\* publication in it.
View == [i \in Slot |->
           [magic |-> slots[i].magic, key |-> slots[i].key, found |-> Found(i)]]

HoldingIn(tab, k) == {i \in Slot : tab[i].magic /\ tab[i].key = k}
Entry(tab, k) == IF HoldingIn(tab, k) = {} THEN 0 ELSE tab[Min(HoldingIn(tab, k))].found

LEMMA ReadIsEntry ==
  \A k : Read(k) = Entry(View, k) /\ Read(k)' = Entry(View', k)
<1> SUFFICES ASSUME NEW k PROVE Read(k) = Entry(View, k) /\ Read(k)' = Entry(View', k)
  OBVIOUS
<1>1. HoldingIn(View, k) = Holding(k) /\ HoldingIn(View', k) = Holding(k)'
  BY DEF HoldingIn, Holding, View
<1>2. Read(k) = Entry(View, k)
  <2>1. Holding(k) # {} => Min(Holding(k)) \in Slot
    BY MinIs DEF Holding
  <2>2. Holding(k) # {} => View[Min(Holding(k))].found = Found(Min(Holding(k)))
    BY <2>1 DEF View
  <2> QED BY <1>1, <2>2 DEF Entry, Read
<1>3. Read(k)' = Entry(View', k)
  <2>1. Holding(k)' # {} => Min(Holding(k)') \in Slot
    <3>1. Holding(k)' \in SUBSET Slot
      BY DEF Holding
    <3>2. ASSUME NEW S \in SUBSET Slot, S # {} PROVE Min(S) \in Slot
      BY <3>2, MinIs
    <3> QED BY <3>1, <3>2
  <2>2. \A i \in Slot : View'[i].found = Found(i)'
    BY DEF View
  <2>3. Read(k)' = IF Holding(k)' = {} THEN 0 ELSE View'[Min(Holding(k)')].found
    <3>1. CASE Holding(k)' = {}
      BY <3>1 DEF Read
    <3>2. CASE Holding(k)' # {}
      <4>1. PICK i \in Slot : i = Min(Holding(k)')
        BY <2>1, <3>2
      <4>2. Read(k)' = (Found(Min(Holding(k))))'
        BY <3>2 DEF Read
      <4>3. (Found(Min(Holding(k))))' = Found(i)'
        BY <4>1 DEF Found, Rewritten, Whole
      <4> QED BY <2>2, <3>2, <4>1, <4>2, <4>3
    <3> QED BY <3>1, <3>2
  <2> QED BY <1>1, <2>3 DEF Entry
<1> QED BY <1>2, <1>3

LEMMA EntryIs ==
  ASSUME NEW tab, NEW k, NEW i \in Slot, tab[i].magic, tab[i].key = k,
         \A j \in Slot : tab[j].magic /\ tab[j].key = k => j = i
  PROVE  Entry(tab, k) = tab[i].found
<1>1. i \in HoldingIn(tab, k) /\ HoldingIn(tab, k) \in SUBSET Slot
  BY DEF HoldingIn
<1>2. Min(HoldingIn(tab, k)) \in HoldingIn(tab, k)
  BY <1>1, MinIs
<1>3. Min(HoldingIn(tab, k)) = i
  BY <1>2 DEF HoldingIn
<1> QED BY <1>1, <1>3 DEF Entry

LEMMA NoEntryIs ==
  ASSUME NEW tab, NEW k, \A j \in Slot : ~(tab[j].magic /\ tab[j].key = k)
  PROVE  Entry(tab, k) = 0
BY DEF Entry, HoldingIn

\* A slot that holds the key neither before nor after a store.
LEMMA OtherEntryIs ==
  ASSUME NEW tab, NEW new, NEW slot \in Slot, \A i \in Slot \ {slot} : new[i] = tab[i],
         NEW k, ~(tab[slot].magic /\ tab[slot].key = k), ~(new[slot].magic /\ new[slot].key = k)
  PROVE  Entry(new, k) = Entry(tab, k)
<1>1. HoldingIn(new, k) = HoldingIn(tab, k)
  BY DEF HoldingIn
<1>2. CASE HoldingIn(tab, k) = {}
  BY <1>1, <1>2 DEF Entry
<1>3. CASE HoldingIn(tab, k) # {}
  <2>1. Min(HoldingIn(tab, k)) \in HoldingIn(tab, k)
    BY <1>3, MinIs DEF HoldingIn
  <2>2. Min(HoldingIn(tab, k)) \in Slot \ {slot}
    BY <2>1 DEF HoldingIn
  <2> QED BY <1>1, <1>3, <2>2 DEF Entry
<1> QED BY <1>2, <1>3

\* A store that changes nothing a reader looks at.
LEMMA SameEntryIs ==
  ASSUME NEW tab, NEW new, NEW k,
         \A i \in Slot : /\ new[i].magic = tab[i].magic /\ new[i].key = tab[i].key
                         /\ new[i].found = tab[i].found
  PROVE  Entry(new, k) = Entry(tab, k)
<1>1. HoldingIn(new, k) = HoldingIn(tab, k)
  BY DEF HoldingIn
<1>2. CASE HoldingIn(tab, k) = {}
  BY <1>1, <1>2 DEF Entry
<1>3. CASE HoldingIn(tab, k) # {}
  <2>1. Min(HoldingIn(tab, k)) \in Slot
    BY <1>3, MinIs DEF HoldingIn
  <2> QED BY <1>1, <1>3, <2>1 DEF Entry
<1> QED BY <1>2, <1>3

-----------------------------------------------------------------------------
(* How many entries there are                                              *)

VisibleSlots == {i \in Slot : slots[i].magic}
Entries == {k \in Key : Read(k) # 0}

\* The publication in a slot, by how far the publisher is.
LEMMA FoundIs ==
  ASSUME BusInv, NEW i \in Slot
  PROVE  /\ Rewritten(i) => Found(i) = job[owner].number /\ Found(i) \in Nat \ {0}
         /\ ~Rewritten(i) => Found(i) = IF Whole(i) THEN slots[i].length ELSE Corrupt
         /\ slots[i].magic => Found(i) # 0
<1>1. Rewritten(i) => job[owner].number \in Nat \ {0}
  BY DEF BusInv, BusTypeOK, NumbersGrow, Rewritten, Filling
<1>2. slots[i].magic => slots[i].length # 0
  BY DEF BusInv, SlotsOK, VisibleIsEntry
<1> QED BY <1>1, <1>2, BusConstants DEF Found

LEMMA VisibleIs ==
  ASSUME BusInv, NEW i \in VisibleSlots
  PROVE  /\ i \in Slot /\ slots[i].key \in Entries /\ Read(slots[i].key) = Found(i)
<1>1. i \in Slot /\ slots[i].magic /\ slots[i].key \in Key
  BY DEF VisibleSlots, BusInv, SlotsOK, VisibleIsEntry
<1>2. /\ View[i].magic /\ View[i].key = slots[i].key /\ View[i].found = Found(i)
      /\ \A j \in Slot : View[j].magic /\ View[j].key = slots[i].key => j = i
  BY <1>1 DEF View, BusInv, SlotsOK, OneSlotPerKey
<1>3. Entry(View, slots[i].key) = Found(i)
  BY <1>1, <1>2, EntryIs
<1> QED BY <1>1, <1>3, ReadIsEntry, FoundIs DEF Entries

LEMMA EntryIsVisible ==
  ASSUME BusInv, NEW k \in Entries
  PROVE  \E i \in VisibleSlots : slots[i].key = k
<1>1. Entry(View, k) # 0
  BY ReadIsEntry DEF Entries
<1>2. PICK i \in Slot : View[i].magic /\ View[i].key = k
  BY <1>1, NoEntryIs
<1> QED BY <1>2 DEF View, VisibleSlots

\* One entry for each visible slot.
LEMMA EntriesAreCounted ==
  ASSUME BusInv
  PROVE  /\ IsFiniteSet(VisibleSlots)
         /\ Cardinality(Entries) = Cardinality(VisibleSlots)
<1> DEFINE f == [i \in VisibleSlots |-> slots[i].key]
<1>1. IsFiniteSet(Slot)
  BY BusConstants, FS_Interval DEF Slot
<1>2. IsFiniteSet(VisibleSlots)
  BY <1>1, FS_Subset DEF VisibleSlots
<1>3. f \in [VisibleSlots -> Entries]
  BY VisibleIs
<1>4. f \in Injection(VisibleSlots, Entries)
  BY <1>3, VisibleIs DEF Injection, IsInjective, BusInv, SlotsOK, OneSlotPerKey, VisibleSlots
<1>5. f \in Surjection(VisibleSlots, Entries)
  BY <1>3, EntryIsVisible DEF Surjection
<1>6. ExistsBijection(VisibleSlots, Entries)
  BY <1>4, <1>5 DEF ExistsBijection, Bijection
<1> QED BY <1>2, <1>6, FS_Bijection

LEMMA SlotsAreCounted ==
  /\ IsFiniteSet(Slot) /\ Cardinality(Slot) = Capacity
BY BusConstants, FS_Interval DEF Slot

-----------------------------------------------------------------------------
(* The refinement                                                          *)

\* What a step may do to the entries: one of the steps of SisterTable.
Moves ==
  \E k \in Key :
    /\ \A j \in Key \ {k} : Read(j)' = Read(j)
    /\ \/ /\ Read(k) # 0 \/ Cardinality(Entries) < Capacity
          /\ Read(k)' \in Nat \ {0}
          /\ Read(k) # Corrupt => Read(k)' > Read(k)
       \/ /\ Read(k) # 0 /\ Cardinality(Entries) = Capacity
          /\ Read(k)' = 0
       \/ Read(k) # 0 /\ Read(k)' = Corrupt

Stands == \A k \in Key : Read(k)' = Read(k)

\* A step after which every slot looks the same.
LEMMA StillStands ==
  ASSUME \A i \in Slot : /\ slots'[i].magic = slots[i].magic /\ slots'[i].key = slots[i].key
                          /\ Found(i)' = Found(i)
  PROVE  Stands
<1>1. \A i \in Slot : /\ View'[i].magic = View[i].magic /\ View'[i].key = View[i].key
                       /\ View'[i].found = View[i].found
  BY DEF View
<1> QED BY <1>1, SameEntryIs, ReadIsEntry DEF Stands

\* A step of a publisher at its slot changes what a reader finds for the key of
\* that slot only.
LEMMA OthersStand ==
  ASSUME NEW slot \in Slot,
         \A i \in Slot \ {slot} : slots'[i] = slots[i] /\ Found(i)' = Found(i),
         NEW k, ~(slots[slot].magic /\ slots[slot].key = k),
         ~(slots'[slot].magic /\ slots'[slot].key = k)
  PROVE  Read(k)' = Read(k)
<1>1. /\ \A i \in Slot \ {slot} : View'[i] = View[i]
      /\ ~(View[slot].magic /\ View[slot].key = k)
      /\ ~(View'[slot].magic /\ View'[slot].key = k)
  BY DEF View
<1> QED BY <1>1, OtherEntryIs, ReadIsEntry

\* What a reader finds for a key that one slot holds, and that none holds.
LEMMA ReadAfter ==
  ASSUME NEW k
  PROVE  /\ \A i \in Slot :
              /\ slots'[i].magic /\ slots'[i].key = k
              /\ \A j \in Slot : slots'[j].magic /\ slots'[j].key = k => j = i
              => Read(k)' = Found(i)'
         /\ (\A j \in Slot : ~(slots'[j].magic /\ slots'[j].key = k)) => Read(k)' = 0
         /\ (\A j \in Slot : ~(slots[j].magic /\ slots[j].key = k)) => Read(k) = 0
<1>1. \A i \in Slot : /\ View'[i].magic = slots'[i].magic /\ View'[i].key = slots'[i].key
                       /\ View'[i].found = Found(i)'
                       /\ View[i].magic = slots[i].magic /\ View[i].key = slots[i].key
  BY DEF View
<1> QED BY <1>1, EntryIs, NoEntryIs, ReadIsEntry

\* A store changes the publication of the publisher's slot at most.
LEMMA OtherSlotsFound ==
  ASSUME BusInv, NEW p \in Proc,
         \/ ClearSlot(p) \/ BeginHead(p) \/ EndHead(p) \/ StoreLength(p)
         \/ BeginCopy(p) \/ EndCopy(p) \/ Commit(p)
  PROVE  /\ owner = p /\ owner' = p /\ job' = job /\ job[p].slot \in Slot
         /\ \A i \in Slot \ {job[p].slot} : slots'[i] = slots[i] /\ Found(i)' = Found(i)
<1>1. /\ at[p] \in Filling /\ UNCHANGED <<job, owner>> /\ job[p].slot \in Slot
      /\ \A i \in Slot \ {job[p].slot} : slots'[i] = slots[i]
  BY AnyStoreIs
<1>2. owner = p
  BY <1>1 DEF BusInv, OnePublisher, Publishing
<1>3. \A i \in Slot \ {job[p].slot} : ~Rewritten(i) /\ ~Rewritten(i)'
  BY <1>1, <1>2 DEF Rewritten
<1>4. \A i \in Slot \ {job[p].slot} : Found(i)' = Found(i)
  BY <1>1, <1>3 DEF Found, Whole
<1> QED BY <1>1, <1>2, <1>4

\* Clearing a visible slot evicts its entry; the table is full then.
LEMMA ClearMoves ==
  ASSUME BusInv, NEW p \in Proc, ClearSlot(p)
  PROVE  Moves \/ Stands
<1> DEFINE slot == job[p].slot
<1>1. /\ slot \in Slot /\ ~slots'[slot].magic
      /\ \A i \in Slot \ {slot} : slots'[i] = slots[i] /\ Found(i)' = Found(i)
      /\ slots[slot].magic => \A i \in Slot : slots[i].magic
  <2> DEFINE buffer == [FreeSlot EXCEPT !.key = job[p].key]
  <2>1. at[p] = "clear" /\ at[p] \in Filling /\ "head" \in Publishing /\ Store(p, "head", buffer)
    BY DEF ClearSlot, Filling, Storing, Publishing
  <2>2. buffer \in SlotBuffer /\ ~buffer.magic
    BY <2>1, FillingIs, ClearedBufferIs
  <2> HIDE DEF buffer
  <2> QED BY <2>1, <2>2, StoreIs, OtherSlotsFound DEF BusInv, SlotIsChosen
<1> HIDE DEF slot
<1>2. \A k : ~(slots[slot].magic /\ slots[slot].key = k) => Read(k)' = Read(k)
  BY <1>1, OthersStand
<1>3. CASE ~slots[slot].magic
  BY <1>2, <1>3 DEF Stands
<1>4. CASE slots[slot].magic
  <2>1. slot \in VisibleSlots /\ VisibleSlots = Slot
    BY <1>1, <1>4 DEF VisibleSlots
  <2>2. PICK k \in Key : k = slots[slot].key /\ Read(k) # 0
    BY <2>1, VisibleIs DEF Entries
  <2>3. Cardinality(Entries) = Capacity
    BY <2>1, EntriesAreCounted, SlotsAreCounted
  <2>4. Read(k)' = 0
    <3>1. \A i \in Slot \ {slot} : ~(slots[i].magic /\ slots[i].key = k)
      BY <1>1, <1>4, <2>2 DEF BusInv, SlotsOK, OneSlotPerKey
    <3>2. \A i \in Slot : ~(slots'[i].magic /\ slots'[i].key = k)
      BY <1>1, <3>1
    <3> QED BY <3>2, ReadAfter
  <2>5. \A j \in Key \ {k} : Read(j)' = Read(j)
    BY <1>2, <2>2
  <2> QED BY <2>2, <2>3, <2>4, <2>5 DEF Moves
<1> QED BY <1>3, <1>4

\* The stores from the head on: the first of them in a visible slot is a
\* publication of its key, the others change nothing a reader finds.
LEMMA FieldMoves ==
  ASSUME BusInv, BusInv', NEW p \in Proc,
         \/ BeginHead(p) \/ EndHead(p) \/ StoreLength(p) \/ BeginCopy(p) \/ EndCopy(p)
  PROVE  Moves \/ Stands
<1>0. PICK slot, k, n : slot = job[p].slot /\ k = job[p].key /\ n = job[p].number
  OBVIOUS
<1>1. /\ owner = p /\ owner' = p /\ job' = job /\ slot \in Slot
      /\ \A i \in Slot \ {slot} : slots'[i] = slots[i] /\ Found(i)' = Found(i)
  BY <1>0, OtherSlotsFound
<1>2. PICK place, buffer : FieldStore(p, place, buffer)
  BY FieldStores
<1>3. /\ at'[p] = place /\ at[p] \in Filling
      /\ at[p] \in {"head"} \cup Storing /\ place \in {"commit"} \cup Storing
      /\ \A i \in Slot : slots'[i].magic = slots[i].magic /\ slots'[i].key = slots[i].key
  BY <1>2, FieldStoreIs DEF FieldStore, Filling
<1>4. /\ k \in Key /\ n \in Nat \ {0} /\ slots[slot].key = k
      /\ \A i \in Slot : slots[i].magic /\ slots[i].key = k => i = slot
  <2>1. slots[slot].key = k
    BY <1>0, <1>3 DEF BusInv, SlotIsChosen, Storing
  <2> QED BY <1>0, <1>3, <2>1, FillingIs
<1>5. Found(slot)' = n
  <2>1. CASE place \in Storing
    <3>1. Rewritten(slot)'
      BY <1>0, <1>1, <1>3, <2>1 DEF Rewritten
    <3> QED BY <1>0, <1>1, <3>1 DEF Found
  <2>2. CASE place = "commit"
    <3>1. /\ slots'[slot].head = n /\ slots'[slot].length = n /\ slots'[slot].value = n
      BY <1>0, <1>1, <1>3, <2>2 DEF BusInv, StoresStand
    <3>2. ~Rewritten(slot)'
      BY <1>1, <1>3, <2>2 DEF Rewritten, Storing
    <3> QED BY <3>1, <3>2 DEF Found, Whole
  <2> QED BY <1>3, <2>1, <2>2
<1>6. CASE at[p] \in Storing
  <2>1. Rewritten(slot)
    BY <1>0, <1>1, <1>6 DEF Rewritten
  <2>2. Found(slot) = n
    BY <1>0, <1>1, <2>1 DEF Found
  <2> QED BY <1>1, <1>3, <1>5, <2>2, StillStands
<1>7. CASE at[p] = "head" /\ ~slots[slot].magic
  <2>1. \A j : Read(j)' = Read(j)
    BY <1>1, <1>3, <1>7, OthersStand
  <2> QED BY <2>1 DEF Stands
<1>8. CASE at[p] = "head" /\ slots[slot].magic
  <2>1. Read(k) = Found(slot) /\ Read(k) # 0
    <3>1. slot \in VisibleSlots
      BY <1>1, <1>8 DEF VisibleSlots
    <3> QED BY <1>4, <3>1, VisibleIs DEF Entries
  <2>2. Found(slot) = Corrupt \/ Found(slot) < n
    <3>1. ~Rewritten(slot)
      BY <1>1, <1>8 DEF Rewritten, Storing
    <3>2. slots[slot].length < n
      BY <1>0, <1>1, <1>8 DEF BusInv, NumbersGrow
    <3> QED BY <3>1, <3>2 DEF Found
  <2>3. Read(k)' = n
    <3>1. /\ slots'[slot].magic /\ slots'[slot].key = k
          /\ \A j \in Slot : slots'[j].magic /\ slots'[j].key = k => j = slot
      BY <1>1, <1>3, <1>4, <1>8
    <3>2. Read(k)' = Found(slot)'
      BY <1>1, <3>1, ReadAfter
    <3> QED BY <1>5, <3>2
  <2>4. Found(slot) # Corrupt => n > Found(slot)
    <3>1. Found(slot) # Corrupt => Found(slot) \in Nat
      <4>1. slots[slot].length \in Nat /\ (Rewritten(slot) => FALSE)
        BY <1>1, <1>8 DEF BusInv, BusTypeOK, SlotBuffer, Rewritten, Storing
      <4> QED BY <4>1 DEF Found
    <3> QED BY <1>4, <2>2, <3>1
  <2>5. \A j \in Key \ {k} : Read(j)' = Read(j)
    BY <1>1, <1>3, <1>4, OthersStand
  <2> QED BY <1>4, <2>1, <2>3, <2>4, <2>5 DEF Moves
<1> QED BY <1>3, <1>6, <1>7, <1>8

\* The magic of a new slot is a publication of its key; a slot was free.
LEMMA CommitMoves ==
  ASSUME BusInv, BusInv', NEW p \in Proc, Commit(p)
  PROVE  Moves \/ Stands
<1>0. PICK slot, k, n : slot = job[p].slot /\ k = job[p].key /\ n = job[p].number
  OBVIOUS
<1>1. /\ owner = p /\ owner' = p /\ job' = job /\ slot \in Slot
      /\ \A i \in Slot \ {slot} : slots'[i] = slots[i] /\ Found(i)' = Found(i)
  BY <1>0, OtherSlotsFound
<1>2. at[p] = "commit" /\ at[p] \in Filling /\ at'[p] = "unlock"
  BY DEF Commit, Store, Go, Filling, BusInv, BusTypeOK
<1>3. /\ k \in Key /\ n \in Nat \ {0} /\ slots[slot].key = k
      /\ \A i \in Slot : slots[i].magic /\ slots[i].key = k => i = slot
  <2>1. slots[slot].key = k
    BY <1>0, <1>2 DEF BusInv, SlotIsChosen
  <2> QED BY <1>0, <1>2, <2>1, FillingIs
<1>4. Found(slot) = n
  <2>1. /\ slots[slot].head = n /\ slots[slot].length = n /\ slots[slot].value = n
    BY <1>0, <1>2 DEF BusInv, StoresStand
  <2>2. ~Rewritten(slot)
    BY <1>1, <1>2 DEF Rewritten, Storing
  <2> QED BY <2>1, <2>2 DEF Found, Whole
<1>5. slots'[slot].magic /\ slots'[slot].key = k /\ Found(slot)' = n
  <2>1. HoldsPublication(job[p].slot, job[p])'
    BY <1>2 DEF BusInv, StoresStand
  <2>2. slots'[slot] = [magic |-> TRUE, key |-> k, head |-> n, length |-> n, value |-> n]
    BY <1>0, <1>1, <2>1 DEF HoldsPublication
  <2>3. ~Rewritten(slot)'
    BY <1>1, <1>2 DEF Rewritten, Storing
  <2> QED BY <2>2, <2>3 DEF Found, Whole
<1>6. CASE slots[slot].magic
  <2>1. slots'[slot].magic = slots[slot].magic
    <3>1. slots[slot].magic \in BOOLEAN /\ slots'[slot].magic \in BOOLEAN
      BY <1>1 DEF BusInv, BusTypeOK, SlotBuffer
    <3> QED BY <1>5, <1>6, <3>1
  <2> QED BY <1>1, <1>3, <1>4, <1>5, <2>1, StillStands
<1>7. CASE ~slots[slot].magic
  <2>1. Read(k) = 0
    <3>1. \A i \in Slot : ~(slots[i].magic /\ slots[i].key = k)
      BY <1>3, <1>7
    <3> QED BY <3>1, ReadAfter
  <2>2. Read(k)' = n
    <3>1. \A i \in Slot : slots'[i].magic /\ slots'[i].key = k => i = slot
      BY <1>1, <1>3
    <3>2. Read(k)' = Found(slot)'
      BY <1>1, <1>5, <3>1, ReadAfter
    <3> QED BY <1>5, <3>2
  <2>3. Cardinality(Entries) < Capacity
    <3>1. VisibleSlots \in SUBSET Slot /\ slot \in Slot \ VisibleSlots
      BY <1>1, <1>7 DEF VisibleSlots
    <3>2. Cardinality(VisibleSlots) <= Capacity /\ Cardinality(VisibleSlots) # Capacity
      BY <3>1, SlotsAreCounted, FS_Subset
    <3>3. Cardinality(VisibleSlots) \in Nat
      BY EntriesAreCounted, FS_CardinalityType
    <3> QED BY <3>2, <3>3, EntriesAreCounted, BusConstants
  <2>4. \A j \in Key \ {k} : Read(j)' = Read(j)
    BY <1>1, <1>3, <1>5, <1>7, OthersStand
  <2> QED BY <1>3, <2>1, <2>2, <2>3, <2>4 DEF Moves
<1> QED BY <1>6, <1>7

\* A publisher that dies at a slot it was rewriting leaves the publication it
\* had finished, or none.
LEMMA DieMoves ==
  ASSUME BusInv, NEW p \in Proc, Die(p)
  PROVE  Moves \/ Stands
<1>1. /\ at'[p] = "dead" /\ (\A q \in Proc \ {p} : at'[q] = at[q])
      /\ UNCHANGED <<slots, owner, job, published>>
  BY DEF Die, Go, BusInv, BusTypeOK
<1>2. CASE ~(owner = p /\ at[p] \in Storing)
  <2>1. \A i \in Slot : Rewritten(i)' <=> Rewritten(i)
    BY <1>1, <1>2 DEF Rewritten, Storing
  <2> QED BY <1>1, <2>1, StillStands DEF Found, Whole
<1>3. CASE owner = p /\ at[p] \in Storing
  <2>0. PICK slot, k, n : slot = job[p].slot /\ k = job[p].key /\ n = job[p].number
    OBVIOUS
  <2>1. slot \in Slot /\ k \in Key /\ slots[slot].key = k /\ at[p] \in Filling
    <3>1. at[p] \in Filling
      BY <1>3 DEF Filling
    <3>2. slots[slot].key = k
      BY <1>3, <2>0 DEF BusInv, SlotIsChosen
    <3> QED BY <2>0, <3>1, <3>2, FillingIs
  <2>2. \A i \in Slot \ {slot} : Found(i)' = Found(i)
    <3>1. \A i \in Slot \ {slot} : ~Rewritten(i) /\ ~Rewritten(i)'
      BY <1>1, <1>3, <2>0 DEF Rewritten
    <3> QED BY <1>1, <3>1 DEF Found, Whole
  <2>3. CASE ~slots[slot].magic
    <3>1. \A j : Read(j)' = Read(j)
      BY <1>1, <2>1, <2>2, <2>3, OthersStand
    <3> QED BY <3>1 DEF Stands
  <2>4. CASE slots[slot].magic
    <3>1. Found(slot) = n /\ ~Rewritten(slot)'
      <4>1. Rewritten(slot)
        BY <1>3, <2>0 DEF Rewritten
      <4> QED BY <1>1, <1>3, <2>0, <4>1 DEF Found, Rewritten, Storing
    <3>2. Whole(slot) => slots[slot].length = n
      <4>1. /\ at[p] = "heading" => slots[slot].head = 0
            /\ at[p] = "length" => slots[slot].head = n /\ slots[slot].length < n
            /\ at[p] \in {"value", "copying"} => slots[slot].length = n
        BY <2>0, <2>1 DEF BusInv, StoresStand, NumbersGrow
      <4>2. slots[slot].length # 0
        BY <2>1, <2>4 DEF BusInv, SlotsOK, VisibleIsEntry
      <4>3. slots[slot].length \in Nat /\ n \in Nat
        BY <2>0, <2>1, FillingIs
      <4> QED BY <1>3, <4>1, <4>2, <4>3 DEF Whole, Storing
    <3>3. Found(slot)' = IF Whole(slot) THEN n ELSE Corrupt
      BY <1>1, <3>1, <3>2 DEF Found, Whole
    <3>4. CASE Whole(slot)
      BY <1>1, <2>2, <3>1, <3>3, <3>4, StillStands
    <3>5. CASE ~Whole(slot)
      <4>1. slot \in VisibleSlots
        BY <2>1, <2>4 DEF VisibleSlots
      <4>2. Read(k) # 0
        BY <2>1, <4>1, VisibleIs DEF Entries
      <4>3. Read(k)' = Corrupt
        <5>1. \A i \in Slot : slots'[i].magic /\ slots'[i].key = k => i = slot
          BY <1>1, <2>0, <2>1, FillingIs
        <5>2. Read(k)' = Found(slot)'
          BY <1>1, <2>1, <2>4, <5>1, ReadAfter
        <5> QED BY <3>3, <3>5, <5>2
      <4>4. \A j \in Key \ {k} : Read(j)' = Read(j)
        BY <1>1, <2>1, <2>2, OthersStand
      <4> QED BY <2>1, <4>2, <4>3, <4>4 DEF Moves
    <3> QED BY <3>4, <3>5
  <2> QED BY <2>3, <2>4
<1> QED BY <1>2, <1>3

\* The other steps: nobody is at a slot when the mutex changes hands.
LEMMA QuietStands ==
  ASSUME BusInv, "openRace" \notin Faults, NEW p \in Proc,
         \/ OpenExisting(p) \/ CreateSegment(p) \/ SizeSegment(p)
         \/ SegmentFails(p) \/ MarkSegment(p) \/ InitMutex(p)
         \/ Unlock(p) \/ Restart(p)
         \/ \E k \in Key : BeginPublish(p, k) \/ PublishLocal(p, k)
  PROVE  Stands
<1>1. /\ UNCHANGED slots /\ at[p] \notin Storing /\ at'[p] \notin Storing
      /\ \A q \in Proc \ {p} : at'[q] = at[q] /\ job'[q] = job[q]
  BY DEF OpenExisting, CreateSegment, SizeSegment, SegmentFails, MarkSegment, InitMutex, Unlock,
     Restart, BeginPublish, PublishLocal, Go, BusInv, BusTypeOK, Storing
<1>2. owner' = owner \/ \A q \in Proc : at[q] \notin Storing
  <2>1. CASE InitMutex(p)
    BY <2>1 DEF InitMutex, BusInv, OneCreator, Creating, Publishing, Filling
  <2>2. CASE Unlock(p)
    BY <2>2 DEF Unlock, BusInv, OnePublisher, Publishing, Filling, Storing
  <2>3. CASE \E k \in Key : BeginPublish(p, k)
    BY <2>3, BusConstants
    DEF BeginPublish, Lockable, Dead, BusInv, OnePublisher, Publishing, Filling, Storing
  <2>4. CASE \/ OpenExisting(p) \/ CreateSegment(p) \/ SizeSegment(p) \/ SegmentFails(p)
             \/ MarkSegment(p) \/ Restart(p) \/ \E k \in Key : PublishLocal(p, k)
    BY <2>4 DEF OpenExisting, CreateSegment, SizeSegment, SegmentFails, MarkSegment, Restart,
       PublishLocal
  <2> QED BY <2>1, <2>2, <2>3, <2>4
<1>3. \A i \in Slot : Rewritten(i)' <=> Rewritten(i)
  <2>1. CASE owner' = owner
    BY <1>1, <2>1 DEF Rewritten
  <2>2. CASE \A q \in Proc : at[q] \notin Storing
    <3>1. \A q \in Proc : at'[q] \notin Storing
      BY <1>1, <2>2
    <3> QED BY <2>2, <3>1 DEF Rewritten
  <2> QED BY <1>2, <2>1, <2>2
<1>4. \A i \in Slot : Rewritten(i) => job'[owner'] = job[owner]
  BY <1>1, <1>2 DEF Rewritten
<1>5. \A i \in Slot : Found(i)' = Found(i)
  BY <1>1, <1>3, <1>4 DEF Found, Whole
<1> QED BY <1>1, <1>5, StillStands

LEMMA BusMoves ==
  ASSUME BusInv, BusInv', "openRace" \notin Faults, [BusNext]_busVars
  PROVE  Moves \/ Stands
<1>1. CASE UNCHANGED busVars
  <2>1. \A i \in Slot : Found(i)' = Found(i)
    BY <1>1 DEF busVars, Found, Rewritten, Whole
  <2> QED BY <1>1, <2>1, StillStands DEF busVars
<1>2. CASE BusNext
  BY <1>2, QuietStands, DieMoves, ClearMoves, FieldMoves, CommitMoves DEF BusNext
<1> QED BY <1>1, <1>2

\* The two modules count alike.
LEMMA SameCount == \A S : Table!Cardinality(S) = Cardinality(S)
BY DEF Table!Cardinality, Cardinality

LEMMA StepImplementsTable ==
  ASSUME BusInv, BusInv', "openRace" \notin Faults, [BusNext]_busVars
  PROVE  [Table!TableNext]_[k \in Key |-> Read(k)]
<1> DEFINE now  == [k \in Key |-> Read(k)]
           next == [k \in Key |-> Read(k)']
<1>1. CASE Stands
  <2>1. now' = now
    BY <1>1 DEF Stands
  <2> QED BY <2>1
<1>2. CASE Moves
  <2>1. Table!Taken = Entries
    BY DEF Table!Taken, Entries
  <2>2. now' = next
    OBVIOUS
  <2>3. PICK k \in Key :
          /\ \A j \in Key \ {k} : next[j] = now[j]
          /\ \/ /\ now[k] # 0 \/ Cardinality(Entries) < Capacity
                /\ next[k] \in Nat \ {0}
                /\ now[k] # Corrupt => next[k] > now[k]
             \/ /\ now[k] # 0 /\ Cardinality(Entries) = Capacity
                /\ next[k] = 0
             \/ now[k] # 0 /\ next[k] = Corrupt
    BY <1>2 DEF Moves
  <2>4. now[k] # 0 <=> k \in Table!Taken
    BY DEF Table!Taken
  <2>5. Table!Others(k)
    BY <2>3 DEF Table!Others
  <2>6. Table!Publication(k) \/ Table!Eviction(k) \/ Table!Corruption(k)
    <3>1. CASE /\ now[k] # 0 \/ Cardinality(Entries) < Capacity
               /\ next[k] \in Nat \ {0}
               /\ now[k] # Corrupt => next[k] > now[k]
      <4>1. k \in Table!Taken \/ Cardinality(Table!Taken) < Capacity
        BY <2>1, <2>4, <3>1
      <4>2. now'[k] \in Nat \ {0} /\ (now[k] # Corrupt => now'[k] > now[k])
        BY <2>2, <3>1
      <4> QED BY <2>5, <4>1, <4>2, SameCount DEF Table!Publication
    <3>2. CASE now[k] # 0 /\ Cardinality(Entries) = Capacity /\ next[k] = 0
      <4>1. k \in Table!Taken /\ Cardinality(Table!Taken) = Capacity
        BY <2>1, <2>4, <3>2
      <4>2. now'[k] = 0
        BY <2>2, <3>2
      <4> QED BY <2>5, <4>1, <4>2, SameCount DEF Table!Eviction
    <3>3. CASE now[k] # 0 /\ next[k] = Corrupt
      <4>1. k \in Table!Taken
        BY <2>4, <3>3
      <4>2. now'[k] = Corrupt
        BY <2>2, <3>3
      <4> QED BY <2>5, <4>1, <4>2 DEF Table!Corruption
    <3> QED BY <2>3, <3>1, <3>2, <3>3
  <2> QED BY <2>6 DEF Table!TableNext
<1> QED BY <1>1, <1>2, BusMoves

\* The slots implement the table (sister_shm.cpp:151-260): whoever publishes,
\* evicts or dies, a reader finds the last publication, or what is plainly of
\* none because its publisher died at it.
THEOREM BusImplementsTable == "openRace" \notin Faults => (BusSpec => BusIsTable)
<1> SUFFICES ASSUME "openRace" \notin Faults PROVE BusSpec => BusIsTable
  OBVIOUS
<1>1. BusInit => Table!TableInit
  <2> SUFFICES ASSUME BusInit PROVE [k \in Key |-> Read(k)] = [k \in Key |-> 0]
    BY DEF Table!TableInit
  <2>1. \A i \in Slot : ~slots[i].magic
    BY DEF BusInit, FreeSlot
  <2>2. \A k \in Key : Read(k) = 0
    BY <2>1, ReadAfter
  <2> QED BY <2>2
<1>2. BusInv /\ BusInv' /\ [BusNext]_busVars => [Table!TableNext]_[k \in Key |-> Read(k)]
  BY StepImplementsTable
<1> QED BY <1>1, <1>2, BusInvariant, PTL DEF BusSpec, BusIsTable, Table!TableSpec
=============================================================================
