------------------------- MODULE ObjectRegistryOps -------------------------
(***************************************************************************)
(* The registry of one client: a two-way map between network object ids    *)
(* and the editor's object pointers, with the last content ("fingerprint") *)
(* a hook saw for each id.  A registry is a record                         *)
(*                                                                         *)
(*   byId    m_byId          id  -> pointer                                *)
(*   byPtr   m_byPtr         pointer -> id                                 *)
(*   fps     m_fingerprints  id  -> fingerprint                            *)
(*   nextId  m_nextId        the next id registerObject hands out          *)
(*                                                                         *)
(* and every method of ObjectRegistry is an operator from a registry to a  *)
(* registry.  m_mutex makes each method one atomic step.                   *)
(***************************************************************************)
EXTENDS Integers

CONSTANTS
  Ptrs,       \* addresses at which the editor can hold an object
  Prints,     \* the fingerprints an object can have
  Tolerance   \* two transforms this far apart still match (closeEnough)

\* A fingerprint carries an object type (0: unknown), a one-dimensional
\* transform and the text of the save string (0 when there is none).
ASSUME PrintsAssumption ==
  /\ Prints \subseteq [kind : Nat, at : Int, text : Nat]
  /\ Tolerance \in Nat

INVALID_OBJECT_ID == 0
NetIds == Nat \ {INVALID_OBJECT_ID}

Empty == [x \in {} |-> x]
Without(f, S) == [x \in DOMAIN f \ S |-> f[x]]
With(f, k, v) == [x \in DOMAIN f \cup {k} |-> IF x = k THEN v ELSE f[x]]
IsMap(f, K, V) == DOMAIN f \subseteq K /\ f \in [DOMAIN f -> V]

EmptyRegistry == [byId |-> Empty, byPtr |-> Empty, fps |-> Empty, nextId |-> 1]

hasNetworkId(r, id) == id \in DOMAIN r.byId
hasObject(r, o) == o \in DOMAIN r.byPtr
findNetworkId(r, o) == IF hasObject(r, o) THEN r.byPtr[o] ELSE INVALID_OBJECT_ID

registerObject(r, o) ==
  IF hasObject(r, o)
  THEN r
  ELSE [r EXCEPT !.byId = With(@, r.nextId, o),
                 !.byPtr = With(@, o, r.nextId),
                 !.nextId = @ + 1]

\* Mutant of bindObject: the id that o had stays in m_byId.
bindKeepsOldId(r, id, o) ==
  [r EXCEPT !.byId = With(@, id, o),
            !.byPtr = With(Without(@, {p \in DOMAIN @ : r.byPtr[p] = id}), o, id)]

\* The pointer id had, and the id o had, are let go first.  The fingerprint of
\* id itself stays, whatever object it described.
bindObject(r, id, o) ==
  LET otherPtr == {p \in DOMAIN r.byPtr : hasNetworkId(r, id) /\ p = r.byId[id] /\ p # o}
      otherId == {i \in DOMAIN r.byId : hasObject(r, o) /\ i = r.byPtr[o] /\ i # id}
  IN [r EXCEPT !.byId = With(Without(@, otherId), id, o),
               !.byPtr = With(Without(@, otherPtr), o, id),
               !.fps = Without(@, otherId)]

\* Mutant of updateFingerprint: the id is not looked up first.
updateAnyFingerprint(r, id, fp) == [r EXCEPT !.fps = With(@, id, fp)]

updateFingerprint(r, id, fp) ==
  IF hasNetworkId(r, id) THEN [r EXCEPT !.fps = With(@, id, fp)] ELSE r

removeByNetworkId(r, id) ==
  IF hasNetworkId(r, id)
  THEN [r EXCEPT !.byPtr = Without(@, {r.byId[id]}),
                 !.fps = Without(@, {id}),
                 !.byId = Without(@, {id})]
  ELSE r

removeByObject(r, o) ==
  IF hasObject(r, o)
  THEN [r EXCEPT !.fps = Without(@, {r.byPtr[o]}),
                 !.byId = Without(@, {r.byPtr[o]}),
                 !.byPtr = Without(@, {o})]
  ELSE r

\* Mutant of clear: the id counter restarts.
clearEverything(r) == EmptyRegistry

\* clear() keeps m_nextId.
clear(r) == [EmptyRegistry EXCEPT !.nextId = r.nextId]

sameObjectId(a, b) == a.kind = 0 \/ b.kind = 0 \/ a.kind = b.kind
transformMatches(a, b) == a.at - b.at \in (-Tolerance)..Tolerance

\* The element of a singleton, no id for any other set.
Only(S) ==
  IF \E i \in S : S = {i} THEN CHOOSE i \in S : S = {i} ELSE INVALID_OBJECT_ID

\* The id whose recorded content looks like fp: the one exact save string, or
\* else the one close transform; nothing when the choice is ambiguous.
findLikelyNetworkId(r, fp) ==
  LET sameKind == {i \in DOMAIN r.fps : sameObjectId(fp, r.fps[i])}
      sameText == {i \in sameKind : fp.text # 0 /\ fp.text = r.fps[i].text}
      sameSpot == {i \in sameKind : transformMatches(fp, r.fps[i])}
  IN IF Only(sameText) # INVALID_OBJECT_ID THEN Only(sameText) ELSE Only(sameSpot)

\* recoverNetworkId with rebind (the editor hooks): a known pointer refreshes
\* its fingerprint, an unknown one takes over the id whose content it matches.
recoveredId(r, o, fp) ==
  IF hasObject(r, o) THEN r.byPtr[o] ELSE findLikelyNetworkId(r, fp)

recovered(r, o, fp) ==
  LET id == recoveredId(r, o, fp)
  IN IF id = INVALID_OBJECT_ID
     THEN r
     ELSE updateFingerprint(IF hasObject(r, o) THEN r ELSE bindObject(r, id, o), id, fp)

(***************************************************************************)
(* Loops over the registry that run to their end within one handler.       *)
(***************************************************************************)

\* Binding a set of unregistered pointers, each to an id of its own
\* (f: pointer -> id), in any order.
bindAll(r, f) ==
  LET ids == {f[o] : o \in DOMAIN f}
  IN [r EXCEPT !.byId = [i \in DOMAIN @ \cup ids |->
                          IF i \in ids THEN CHOOSE o \in DOMAIN f : f[o] = i ELSE @[i]],
               !.byPtr = [o \in {p \in DOMAIN @ : @[p] \notin ids} \cup DOMAIN f |->
                           IF o \in DOMAIN f THEN f[o] ELSE @[o]]]

\* Mutant of retain: nothing is dropped.
retainsAll(r, S) == r

\* Removing every id outside S.
retain(r, S) ==
  [r EXCEPT !.byId = Without(@, DOMAIN @ \ S),
            !.byPtr = Without(@, {o \in DOMAIN @ : @[o] \notin S}),
            !.fps = Without(@, DOMAIN @ \ S)]

(***************************************************************************)
(* What every registry must satisfy, whichever calls led to it.            *)
(***************************************************************************)
IsRegistry(r) ==
  /\ r = [byId |-> r.byId, byPtr |-> r.byPtr, fps |-> r.fps, nextId |-> r.nextId]
  /\ IsMap(r.byId, NetIds, Ptrs)
  /\ IsMap(r.byPtr, Ptrs, NetIds)
  /\ IsMap(r.fps, NetIds, Prints)
  /\ r.nextId \in NetIds

\* The two maps are inverse to each other, and a fingerprint belongs to an id
\* that is still registered.
IsInverse(r) ==
  /\ \A i \in DOMAIN r.byId : hasObject(r, r.byId[i]) /\ r.byPtr[r.byId[i]] = i
  /\ \A o \in DOMAIN r.byPtr : hasNetworkId(r, r.byPtr[o]) /\ r.byId[r.byPtr[o]] = o
  /\ DOMAIN r.fps \subseteq DOMAIN r.byId

RegistryOK(r) == IsRegistry(r) /\ IsInverse(r)
=============================================================================
