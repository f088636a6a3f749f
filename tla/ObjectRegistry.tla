--------------------------- MODULE ObjectRegistry ---------------------------
(***************************************************************************)
(* The registry under any sequence of the calls its clients make:          *)
(* SessionManager (register, bind, remove, clear) and the editor hooks     *)
(* (fingerprints, recovery of an id for a pointer it does not know).       *)
(* live is the editor's side: the objects it holds and what they look      *)
(* like.  GD may replace an object by a new one with the same content      *)
(* (undo, redo, a transform), which is what recovery is for.               *)
(***************************************************************************)
EXTENDS ObjectRegistryOps

CONSTANTS
  HostIds,   \* the ids registerObject may hand out (bounds the counter)
  BindIds    \* the ids that come with other clients' placements

\* handlePlaceObject keeps peers' ids out of the host's own range.
ASSUME IdsAssumption ==
  /\ HostIds \subseteq NetIds
  /\ BindIds \subseteq NetIds
  /\ HostIds \cap BindIds = {}

VARIABLES
  reg,    \* the registry
  live    \* pointer -> fingerprint, of the objects in the editor

vars == <<reg, live>>

Init == reg = EmptyRegistry /\ live = Empty

\* A hook meets the object o (select, edit, delete).
recoverNetworkId(o) ==
  /\ o \in DOMAIN live
  /\ reg' = recovered(reg, o, live[o])
  /\ UNCHANGED live

RegisterObject(o) ==
  /\ o \in DOMAIN live /\ reg.nextId \in HostIds
  /\ reg' = registerObject(reg, o)
  /\ UNCHANGED live

BindObject(id, o) ==
  /\ o \in DOMAIN live
  /\ reg' = bindObject(reg, id, o)
  /\ UNCHANGED live

UpdateFingerprint(o) ==
  /\ o \in DOMAIN live
  /\ reg' = updateFingerprint(reg, findNetworkId(reg, o), live[o])
  /\ UNCHANGED live

\* A deletion takes the object out of the editor and its entry with it.
RemoveByNetworkId(id) ==
  /\ hasNetworkId(reg, id)
  /\ reg' = removeByNetworkId(reg, id)
  /\ live' = Without(live, {reg.byId[id]})

\* A placement that could not be sent is forgotten; the object stays.
RemoveByObject(o) ==
  /\ o \in DOMAIN live
  /\ reg' = removeByObject(reg, o)
  /\ UNCHANGED live

Clear == reg' = clear(reg) /\ UNCHANGED live

\* The editor's own steps.
GdCreate(o, fp) ==
  /\ o \notin DOMAIN live
  /\ live' = With(live, o, fp)
  /\ UNCHANGED reg

GdReplace(o, o2) ==
  /\ o \in DOMAIN live /\ o2 \notin DOMAIN live
  /\ live' = With(Without(live, {o}), o2, live[o])
  /\ UNCHANGED reg

Next ==
  \/ \E o \in Ptrs : RegisterObject(o)
  \/ \E o \in Ptrs : UpdateFingerprint(o)
  \/ \E o \in Ptrs : RemoveByObject(o)
  \/ \E o \in Ptrs : recoverNetworkId(o)
  \/ \E o \in Ptrs, id \in BindIds : BindObject(id, o)
  \/ \E id \in HostIds \cup BindIds : RemoveByNetworkId(id)
  \/ Clear
  \/ \E o \in Ptrs, fp \in Prints : GdCreate(o, fp)
  \/ \E o, o2 \in Ptrs : GdReplace(o, o2)

Spec == Init /\ [][Next]_vars

-----------------------------------------------------------------------------
(***************************************************************************)
(* The maps hold pointers, non-zero ids and fingerprints only              *)
(* (ObjectRegistry.hpp, the members).                                      *)
(***************************************************************************)
TypeOK == IsRegistry(reg) /\ IsMap(live, Ptrs, Prints)

(***************************************************************************)
(* One object per id and one id per object, in both directions, and no     *)
(* fingerprint of an id that is gone, after any mix of registering,        *)
(* binding over existing entries, recovery, removal and clearing: a stray  *)
(* entry would send a delete or an edit to another object.                 *)
(***************************************************************************)
RegistryInverse == IsInverse(reg)

(***************************************************************************)
(* The host never hands out an id twice, removals and clear() included:    *)
(* "IDs are already in flight on the network" (clear's comment).           *)
(***************************************************************************)
IdsNeverReused ==
  [][/\ reg'.nextId >= reg.nextId
     /\ \A i \in HostIds :
          hasNetworkId(reg', i) /\ ~hasNetworkId(reg, i) =>
            i >= reg.nextId /\ i < reg'.nextId]_vars

\* What makes RegistryInverse inductive: the counter is above every id that
\* did not come from another client, so a new id is nobody's.
IdRange == \A i \in DOMAIN reg.byId : i \in BindIds \/ i < reg.nextId

IndInv == TypeOK /\ RegistryInverse /\ IdRange
=============================================================================
