------------------------------ MODULE SisterBus ------------------------------
(***************************************************************************)
(* The sister leaf bus of cpp-harness: a shared-memory segment with a      *)
(* mutex and a table of slots (sister_shm.cpp), and the in-process map a   *)
(* host falls back to (middleware.cpp). Processes may die between two      *)
(* stores, and in the middle of a head or a value, which take several.     *)
(*                                                                         *)
(* A publication is a number. A slot keeps the number of the publication   *)
(* that wrote its head (task, writer, visibility, time), of the one that   *)
(* wrote the length of the value and of the one that wrote its bytes; 0    *)
(* is no publication, or the parts of several. A value over the size limit *)
(* is refused before anything is touched, and is left out.                 *)
(***************************************************************************)
EXTENDS Naturals, FiniteSets, FiniteSetsExt

CONSTANTS
  Proc,        \* processes
  Key,         \* (parentSessionId, namespace, key); partitions are disjoint
  Capacity,    \* SISTER_SHM_MAX_ENTRIES
  MaxPublish,  \* bound: publications
  Faults,      \* what may go wrong, a subset of BusFaults
  RobustBuilds, \* whether PTHREAD_MUTEX_ROBUST is a macro: with musl it is,
               \* with glibc it is not, and #ifdef skips pthread's robustness
  Corrupt,     \* what a reader finds is of no publication
  Nobody       \* not a process

\* fillDeath   a publisher dies, but not while it rewrites a visible slot
\* updateDeath a publisher dies while it rewrites a visible slot
\* openRace    a process opens the segment while another one creates it,
\*             or after its creator died at that
\* noSegment   shm_open or ftruncate fails
BusFaults == {"fillDeath", "updateDeath", "openRace", "noSegment"}

ASSUME BusConstants ==
  /\ Capacity \in Nat \ {0}
  /\ Faults \subseteq BusFaults
  /\ RobustBuilds \subseteq BOOLEAN
  /\ Nobody \notin Proc /\ Corrupt \notin Nat

Slot == 1..Capacity
SlotBuffer ==
  [magic: BOOLEAN, key: Key \cup {Nobody}, head: Nat, length: Nat, value: Nat]
FreeSlot ==
  [magic |-> FALSE, key |-> Nobody, head |-> 0, length |-> 0, value |-> 0]

VARIABLES
  segment,    \* how far the creator of the segment is
  slots,      \* the table
  owner,      \* who holds the mutex, dead or alive
  robust,     \* the mutex was initialised as a robust one
  at,         \* where a process is
  job,        \* what it is publishing: key, slot, number
  published,  \* publications begun
  local       \* the in-process map of a process that has no segment

busVars == <<segment, slots, owner, robust, at, job, published, local>>

Segments == {"none", "named", "sized", "marked", "ready"}
Places == {"out", "sizing", "marking", "arming", "idle", "clear", "head",
           "heading", "length", "value", "copying", "commit", "unlock",
           "local", "dead"}
NoJob == [key |-> Nobody, slot |-> 1, number |-> 0]

BusInit ==
  /\ segment = "none"
  /\ slots = [i \in Slot |-> FreeSlot]
  /\ owner = Nobody
  /\ robust = FALSE
  /\ at = [p \in Proc |-> "out"]
  /\ job = [p \in Proc |-> NoJob]
  /\ published = 0
  /\ local = [p \in Proc |-> [k \in Key |-> 0]]

Go(p, place) == at' = [at EXCEPT ![p] = place]

-----------------------------------------------------------------------------
(***************************************************************************)
(* open of an existing segment. One that has no size yet ends the process  *)
(* (its first page is not there); one without the magic is refused, and    *)
(* the factory falls back to the in-process map.                           *)
(***************************************************************************)
OpenExisting(p) ==
  /\ at[p] = "out" /\ segment # "none"
  /\ segment = "ready" \/ "openRace" \in Faults
  /\ Go(p, CASE segment = "named" -> "dead"
             [] segment = "sized" -> "local"
             [] OTHER -> "idle")
  /\ UNCHANGED <<segment, slots, owner, robust, job, published, local>>

\* shm_open with O_EXCL, ftruncate, and what follows a failure of either.
CreateSegment(p) ==
  /\ at[p] = "out" /\ segment = "none"
  /\ segment' = "named" /\ Go(p, "sizing")
  /\ UNCHANGED <<slots, owner, robust, job, published, local>>

SizeSegment(p) ==
  /\ at[p] = "sizing"
  /\ segment' = "sized" /\ Go(p, "marking")
  /\ UNCHANGED <<slots, owner, robust, job, published, local>>

SegmentFails(p) ==
  /\ "noSegment" \in Faults
  /\ at[p] = "sizing" \/ (at[p] = "out" /\ segment = "none")
  /\ segment' = "none" /\ Go(p, "local")
  /\ UNCHANGED <<slots, owner, robust, job, published, local>>

\* The magic and the version, before the mutex.
MarkSegment(p) ==
  /\ at[p] = "marking"
  /\ segment' = "marked" /\ Go(p, "arming")
  /\ UNCHANGED <<slots, owner, robust, job, published, local>>

InitMutex(p) ==
  /\ at[p] = "arming"
  /\ segment' = "ready" /\ Go(p, "idle")
  /\ owner' = Nobody /\ robust' \in RobustBuilds
  /\ UNCHANGED <<slots, job, published, local>>

-----------------------------------------------------------------------------
(***************************************************************************)
(* lockBus: a robust mutex whose owner died is made consistent and taken.  *)
(***************************************************************************)
Dead == {p \in Proc : at[p] = "dead"}

Lockable_ownerTakenForDead == owner = Nobody \/ robust

Lockable == owner = Nobody \/ (robust /\ owner \in Dead)

Holding(k) == {i \in Slot : slots[i].magic /\ slots[i].key = k}
FreeSlots == {i \in Slot : ~slots[i].magic}

\* The slot of the key, else the first free one, else the first of all.
TargetSlot(k) ==
  IF Holding(k) # {} THEN Min(Holding(k))
  ELSE IF FreeSlots # {} THEN Min(FreeSlots)
  ELSE 1

\* publish, to the choice of the slot; nothing moves while the mutex is held.
BeginPublish(p, k) ==
  /\ at[p] = "idle" /\ Lockable /\ published < MaxPublish
  /\ owner' = p
  /\ published' = published + 1
  /\ job' = [job EXCEPT ![p] =
               [key |-> k, slot |-> TargetSlot(k), number |-> published + 1]]
  /\ Go(p, IF Holding(k) = {} THEN "clear" ELSE "head")
  /\ UNCHANGED <<segment, slots, robust, local>>

Store(p, place, buffer) ==
  /\ slots' = [slots EXCEPT ![job[p].slot] = buffer]
  /\ Go(p, place)
  /\ UNCHANGED <<segment, owner, robust, job, published, local>>

ClearSlot_keepsMagic(p) ==
  at[p] = "clear" /\ Store(p, "head", [slots[job[p].slot] EXCEPT !.key = job[p].key])

\* A new slot is cleared, magic first, and given its key.
ClearSlot(p) ==
  at[p] = "clear" /\ Store(p, "head", [FreeSlot EXCEPT !.key = job[p].key])

\* copyField and the stores of the head, begun and finished.
BeginHead(p) ==
  at[p] = "head" /\ Store(p, "heading", [slots[job[p].slot] EXCEPT !.head = 0])

EndHead(p) ==
  at[p] = "heading" /\ Store(p, "length", [slots[job[p].slot] EXCEPT !.head = job[p].number])

StoreLength(p) ==
  at[p] = "length" /\ Store(p, "value", [slots[job[p].slot] EXCEPT !.length = job[p].number])

\* memcpy of the value, begun and finished.
BeginCopy(p) ==
  at[p] = "value" /\ Store(p, "copying", [slots[job[p].slot] EXCEPT !.value = 0])

EndCopy(p) ==
  at[p] = "copying" /\ Store(p, "commit", [slots[job[p].slot] EXCEPT !.value = job[p].number])

Commit(p) ==
  at[p] = "commit" /\ Store(p, "unlock", [slots[job[p].slot] EXCEPT !.magic = TRUE])

\* unlockBus: a process that is not the owner unlocks nothing.
Unlock(p) ==
  /\ at[p] = "unlock"
  /\ owner' = IF owner = p THEN Nobody ELSE owner
  /\ job' = [job EXCEPT ![p] = NoJob]
  /\ Go(p, "idle")
  /\ UNCHANGED <<segment, slots, robust, published, local>>

\* The holder of the mutex is between the first and the last store of slot i.
Storing == {"heading", "length", "value", "copying"}
Rewritten(i) == owner \in Proc /\ at[owner] \in Storing /\ job[owner].slot = i

Whole(i) == slots[i].head = slots[i].length /\ slots[i].length = slots[i].value

\* The publication in slot i. A rewrite under way counts as done: readers take
\* the mutex, so nobody looks before it is, or before the rewriter is dead.
Found(i) ==
  IF Rewritten(i) THEN job[owner].number
  ELSE IF Whole(i) THEN slots[i].length
  ELSE Corrupt

\* read: the first slot with the key; readers hold the mutex too.
Read(k) == IF Holding(k) = {} THEN 0 ELSE Found(Min(Holding(k)))

\* InProcessSisterLeafBus: a map of the process, that no sister sees.
PublishLocal(p, k) ==
  /\ at[p] = "local" /\ published < MaxPublish
  /\ published' = published + 1
  /\ local' = [local EXCEPT ![p][k] = published + 1]
  /\ UNCHANGED <<segment, slots, owner, robust, at, job>>

\* A process dies; another one may start in its place.
Creating == {"sizing", "marking", "arming"}
Rewriting(p) ==
  at[p] \in {"head", "commit"} \cup Storing /\ slots[job[p].slot].magic

Die(p) ==
  /\ at[p] \notin {"out", "dead"}
  /\ (CASE at[p] \in Creating -> "openRace"
        [] Rewriting(p) -> "updateDeath"
        [] OTHER -> "fillDeath") \in Faults
  /\ Go(p, "dead")
  /\ local' = [local EXCEPT ![p] = [k \in Key |-> 0]]
  /\ UNCHANGED <<segment, slots, owner, robust, job, published>>

Restart(p) ==
  /\ at[p] = "dead" /\ owner # p
  /\ Go(p, "out")
  /\ job' = [job EXCEPT ![p] = NoJob]
  /\ UNCHANGED <<segment, slots, owner, robust, published, local>>

BusNext ==
  \E p \in Proc :
    \/ OpenExisting(p) \/ CreateSegment(p) \/ SizeSegment(p)
    \/ SegmentFails(p) \/ MarkSegment(p) \/ InitMutex(p)
    \/ \E k \in Key : BeginPublish(p, k) \/ PublishLocal(p, k)
    \/ ClearSlot(p) \/ BeginHead(p) \/ EndHead(p) \/ StoreLength(p)
    \/ BeginCopy(p) \/ EndCopy(p) \/ Commit(p) \/ Unlock(p)
    \/ Die(p) \/ Restart(p)

BusSpec == BusInit /\ [][BusNext]_busVars

-----------------------------------------------------------------------------
BusTypeOK ==
  /\ segment \in Segments
  /\ slots \in [Slot -> SlotBuffer]
  /\ owner \in Proc \cup {Nobody}
  /\ robust \in BOOLEAN
  /\ at \in [Proc -> Places]
  /\ job \in [Proc -> [key: Key \cup {Nobody}, slot: Slot, number: Nat]]
  /\ published \in Nat
  /\ local \in [Proc -> [Key -> Nat]]

(***************************************************************************)
(* Slots are claimed, evicted, and abandoned by publishers that die        *)
(* (sister_shm.cpp:158-193), and no two visible ones ever hold one key: a  *)
(* reader and a lister agree on what the key holds.                        *)
(***************************************************************************)
OneSlotPerKey ==
  \A i, j \in Slot :
    slots[i].magic /\ slots[j].magic /\ slots[i].key = slots[j].key => i = j

(***************************************************************************)
(* The stores of a publication amount to one step of the table: the commit *)
(* of a new slot (sister_shm.cpp:196), or the rewriting of one that is     *)
(* there. A death in a new slot amounts to nothing; one at a slot that is  *)
(* rewritten (187-194), with its magic set, may leave an entry of no       *)
(* publication, the new length over the old bytes for one, but it touches  *)
(* no other key and never brings an old publication back.                  *)
(***************************************************************************)
Table == INSTANCE SisterTable WITH table <- [k \in Key |-> Read(k)]
BusIsTable == Table!TableSpec

(***************************************************************************)
(* A visible slot that nobody is rewriting and whose head, length and      *)
(* bytes are not of one publication. Only the death of the publisher that  *)
(* was between those stores leaves one, and a publish that returns leaves  *)
(* its slot whole, whatever it found there.                                *)
(***************************************************************************)
Torn(i) == slots[i].magic /\ ~Whole(i) /\ ~Rewritten(i)

HoldsPublication(i, work) ==
  slots[i] = [magic |-> TRUE, key |-> work.key, head |-> work.number,
              length |-> work.number, value |-> work.number]

TornByDeathOnly ==
  [][/\ \A i \in Slot : Torn(i)' => Torn(i) \/ (Rewritten(i) /\ Die(owner))
     /\ \A p \in Proc : Unlock(p) => HoldsPublication(job[p].slot, job[p])]_busVars

(***************************************************************************)
(* sister_shm.cpp:134-135 says "a publisher that dies mid-slot leaves      *)
(* EOWNERDEAD for the next locker instead of a wedged bus": a dead owner   *)
(* keeps nobody from the mutex.                                            *)
(***************************************************************************)
DeadOwnerIsReplaced == owner \in Dead => Lockable
=============================================================================
