----------------------------- MODULE SlotManager -----------------------------
(***************************************************************************)
(* The slots of a TaskManager (crates/flume-network/src/slot_manager.rs):  *)
(* the state of each slot, and the map from a subtask to its slot.         *)
(***************************************************************************)
EXTENDS Integers, FiniteSets, FiniteSetsExt, Functions

Free == [job |-> "none", subtask |-> "none"]

NewSlots(total) == [slots |-> [i \in 0..(total - 1) |-> Free], slotOf |-> <<>>]

FreeIndices(sm) == {i \in DOMAIN sm.slots : sm.slots[i] = Free}
OccupiedIndices(sm) == DOMAIN sm.slots \ FreeIndices(sm)
IsFull(sm) == FreeIndices(sm) = {}

(* slots_in_use: the entries of the map. *)
InUse(sm) == Cardinality(DOMAIN sm.slotOf)

PutIn(sm, job, subtask, i) ==
  [slots  |-> [sm.slots EXCEPT ![i] = [job |-> job, subtask |-> subtask]],
   slotOf |-> [s \in DOMAIN sm.slotOf \cup {subtask} |->
                 IF s = subtask THEN i ELSE sm.slotOf[s]]]

(* deploy: the first free slot; the insert replaces an entry of the same   *)
(* subtask id.                                                              *)
Deploy(sm, job, subtask) == PutIn(sm, job, subtask, Min(FreeIndices(sm)))

Forget(sm, subtasks) ==
  [slots  |-> [i \in DOMAIN sm.slots |->
                 IF \E s \in subtasks : sm.slotOf[s] = i THEN Free ELSE sm.slots[i]],
   slotOf |-> Restrict(sm.slotOf, DOMAIN sm.slotOf \ subtasks)]

(* Mutant: the slot is freed and the entry stays. *)
Cancel_KeepEntry(sm, subtask) ==
  IF subtask \in DOMAIN sm.slotOf
  THEN [sm EXCEPT !.slots[sm.slotOf[subtask]] = Free]
  ELSE sm

(* cancel: does nothing for a subtask that is not deployed. *)
Cancel(sm, subtask) == Forget(sm, {subtask} \cap DOMAIN sm.slotOf)

(* The map tells every deployed subtask its own slot. *)
Consistent(sm) ==
  \A s \in DOMAIN sm.slotOf : sm.slots[sm.slotOf[s]].subtask = s
=============================================================================
