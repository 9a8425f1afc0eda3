----------------------------- MODULE KeyedState -----------------------------
(***************************************************************************)
(* Keyed operator state (crates/flume-state/src/memory.rs, keyed.rs): one  *)
(* MemoryStateBackend per key, each a map of named states.  The handle an  *)
(* operator holds and its backend share one cell, so a handle is its key   *)
(* and name.  A state is a value, a list or a map.                         *)
(***************************************************************************)
EXTENDS Integers, Sequences, FiniteSets, Functions, SequencesExt

CONSTANT None

VARIABLES
  backends,   (* key -> name -> the state's contents                        *)
  currentKey  (* current_key, or None                                       *)

stateVars == <<backends, currentKey>>

EmptyState(kind) == IF kind = "value" THEN None ELSE <<>>

(* current_backend: the current key's backend, made on first use. *)
Backend(b, k) == IF k \in DOMAIN b THEN b[k] ELSE <<>>

SetCurrentKey(k) == currentKey' = k
ClearCurrentKey == currentKey' = None /\ UNCHANGED backends

(* check_duplicate refuses a name its key already has. *)
CanCreate(k, name) == k # None /\ name \notin DOMAIN Backend(backends, k)

(* A backend with one state more, and the backends with it. *)
WithState(backend, kind) ==
  [name \in DOMAIN backend \cup {kind} |-> IF name = kind THEN EmptyState(kind) ELSE backend[name]]

Created(b, k, kind) ==
  [j \in DOMAIN b \cup {k} |-> IF j = k THEN WithState(Backend(b, k), kind) ELSE b[j]]

(* set, add and put; clear. *)
ValueSet(s, v) == v
ListAdd(s, v) == Append(s, v)
MapPut(s, key, v) == (key :> v) @@ s
MapRemove(s, key) == Restrict(s, DOMAIN s \ {key})
Cleared(kind) == EmptyState(kind)

Updated(b, k, kind, s) == [b EXCEPT ![k] = [@ EXCEPT ![kind] = s]]

BackendSnapshot(b) == [name \in DOMAIN b |-> b[name]]
Snapshot == [k \in DOMAIN backends |-> BackendSnapshot(backends[k])]

(* Only the names registered in a backend are restored... *)
BackendRestored(b, s) ==
  [name \in DOMAIN b |-> IF name \in DOMAIN s THEN s[name] ELSE b[name]]

(* ...and only the keys that have a backend. *)
Restored(b, s) ==
  [k \in DOMAIN b |-> IF k \in DOMAIN s THEN BackendRestored(b[k], s[k]) ELSE b[k]]
=============================================================================
