---------------------- MODULE ObjectRegistryOpsProofs ----------------------
(***************************************************************************)
(* Every method of the registry keeps RegistryOK: the lemmas that the      *)
(* proofs about the registry's clients rest on.                            *)
(***************************************************************************)
EXTENDS ObjectRegistryOps, TLAPS

(***************************************************************************)
(* Lemmas about partial maps.                                              *)
(***************************************************************************)

\* With and Without keep a map a map.
LEMMA WithMap ==
  ASSUME NEW K, NEW V, NEW f, IsMap(f, K, V), NEW k \in K, NEW v \in V
  PROVE  /\ IsMap(With(f, k, v), K, V)
         /\ DOMAIN With(f, k, v) = DOMAIN f \cup {k}
         /\ With(f, k, v)[k] = v
         /\ \A x \in DOMAIN f : x # k => With(f, k, v)[x] = f[x]
  BY DEF IsMap, With

LEMMA WithoutMap ==
  ASSUME NEW K, NEW V, NEW f, IsMap(f, K, V), NEW S
  PROVE  /\ IsMap(Without(f, S), K, V)
         /\ DOMAIN Without(f, S) = DOMAIN f \ S
         /\ \A x \in DOMAIN f \ S : Without(f, S)[x] = f[x]
  BY DEF IsMap, Without

LEMMA EmptyMap ==
  ASSUME NEW K, NEW V
  PROVE  IsMap(Empty, K, V) /\ DOMAIN Empty = {}
  BY DEF IsMap, Empty

-----------------------------------------------------------------------------
(***************************************************************************)
(* Each method of the registry preserves its invariant                     *)
(* (ObjectRegistry.cpp, one lemma per method).                             *)
(***************************************************************************)

LEMMA EmptyRegistryOK == RegistryOK(EmptyRegistry)
  BY EmptyMap DEF RegistryOK, IsRegistry, IsInverse, EmptyRegistry, NetIds,
                  INVALID_OBJECT_ID, hasObject, hasNetworkId

LEMMA ClearOK ==
  ASSUME NEW r, RegistryOK(r)
  PROVE  RegistryOK(clear(r)) /\ clear(r).nextId = r.nextId /\ DOMAIN clear(r).byId = {}
  BY EmptyMap DEF RegistryOK, IsRegistry, IsInverse, EmptyRegistry, clear, NetIds,
                  INVALID_OBJECT_ID, hasObject, hasNetworkId

\* registerObject needs its fresh id to be nobody's.
LEMMA RegisterOK ==
  ASSUME NEW r, RegistryOK(r), NEW o \in Ptrs, r.nextId \notin DOMAIN r.byId
  PROVE  /\ RegistryOK(registerObject(r, o))
         /\ DOMAIN registerObject(r, o).byId \subseteq DOMAIN r.byId \cup {r.nextId}
         /\ registerObject(r, o).nextId >= r.nextId
         /\ r.nextId \in DOMAIN registerObject(r, o).byId
              => registerObject(r, o).nextId = r.nextId + 1
<1>1. CASE hasObject(r, o)
  BY <1>1 DEF registerObject, RegistryOK, IsRegistry, NetIds, INVALID_OBJECT_ID
<1>2. CASE ~hasObject(r, o)
  <2> DEFINE q == registerObject(r, o)
  <2>1. /\ q.byId = With(r.byId, r.nextId, o)
        /\ q.byPtr = With(r.byPtr, o, r.nextId)
        /\ q.fps = r.fps
        /\ q.nextId = r.nextId + 1
        /\ q = [byId |-> q.byId, byPtr |-> q.byPtr, fps |-> q.fps, nextId |-> q.nextId]
    BY <1>2 DEF registerObject, RegistryOK, IsRegistry
  <2>2. /\ IsMap(r.byId, NetIds, Ptrs) /\ IsMap(r.byPtr, Ptrs, NetIds)
        /\ IsMap(r.fps, NetIds, Prints) /\ r.nextId \in NetIds
    BY DEF RegistryOK, IsRegistry
  <2>3. /\ IsMap(q.byId, NetIds, Ptrs) /\ DOMAIN q.byId = DOMAIN r.byId \cup {r.nextId}
        /\ q.byId[r.nextId] = o
        /\ \A i \in DOMAIN r.byId : q.byId[i] = r.byId[i]
    <3> HIDE DEF q
    <3> QED BY <2>1, <2>2 DEF IsMap, With
  <2>4. /\ IsMap(q.byPtr, Ptrs, NetIds) /\ DOMAIN q.byPtr = DOMAIN r.byPtr \cup {o}
        /\ q.byPtr[o] = r.nextId
        /\ \A p \in DOMAIN r.byPtr : q.byPtr[p] = r.byPtr[p]
    <3> HIDE DEF q
    <3> QED BY <1>2, <2>1, <2>2 DEF IsMap, With, hasObject
  <2>5. IsRegistry(q)
    <3> HIDE DEF q
    <3> QED BY <2>1, <2>2, <2>3, <2>4 DEF IsRegistry, NetIds, INVALID_OBJECT_ID
  <2>6. IsInverse(q)
    <3> HIDE DEF q
    <3> QED BY <1>2, <2>1, <2>3, <2>4
            DEF RegistryOK, IsInverse, hasObject, hasNetworkId
  <2> QED BY <2>1, <2>2, <2>3, <2>5, <2>6 DEF RegistryOK, NetIds
<1> QED BY <1>1, <1>2

LEMMA UpdateOK ==
  ASSUME NEW r, RegistryOK(r), NEW id, NEW fp \in Prints
  PROVE  /\ RegistryOK(updateFingerprint(r, id, fp))
         /\ updateFingerprint(r, id, fp).byId = r.byId
         /\ updateFingerprint(r, id, fp).nextId = r.nextId
<1>1. CASE ~hasNetworkId(r, id)
  BY <1>1 DEF updateFingerprint
<1>2. CASE hasNetworkId(r, id)
  <2> DEFINE q == updateFingerprint(r, id, fp)
  <2>1. /\ q.byId = r.byId /\ q.byPtr = r.byPtr /\ q.nextId = r.nextId
        /\ q.fps = With(r.fps, id, fp)
        /\ q = [byId |-> q.byId, byPtr |-> q.byPtr, fps |-> q.fps, nextId |-> q.nextId]
    BY <1>2 DEF updateFingerprint, RegistryOK, IsRegistry
  <2>2. /\ IsMap(r.byId, NetIds, Ptrs) /\ IsMap(r.byPtr, Ptrs, NetIds)
        /\ IsMap(r.fps, NetIds, Prints) /\ r.nextId \in NetIds
    BY DEF RegistryOK, IsRegistry
  <2>3. id \in NetIds
    BY <1>2, <2>2 DEF hasNetworkId, IsMap
  <2>4. IsMap(q.fps, NetIds, Prints) /\ DOMAIN q.fps = DOMAIN r.fps \cup {id}
    <3> HIDE DEF q
    <3> QED BY <2>1, <2>2, <2>3 DEF IsMap, With
  <2>5. IsRegistry(q) /\ IsInverse(q)
    <3> HIDE DEF q
    <3> QED BY <1>2, <2>1, <2>2, <2>4
            DEF RegistryOK, IsRegistry, IsInverse, hasObject, hasNetworkId
  <2> QED BY <2>1, <2>5 DEF RegistryOK
<1> QED BY <1>1, <1>2

LEMMA RemoveByIdOK ==
  ASSUME NEW r, RegistryOK(r), NEW id
  PROVE  /\ RegistryOK(removeByNetworkId(r, id))
         /\ DOMAIN removeByNetworkId(r, id).byId = DOMAIN r.byId \ {id}
         /\ removeByNetworkId(r, id).nextId = r.nextId
<1>1. CASE ~hasNetworkId(r, id)
  BY <1>1 DEF removeByNetworkId, hasNetworkId
<1>2. CASE hasNetworkId(r, id)
  <2> DEFINE q == removeByNetworkId(r, id)
  <2>1. /\ q.byId = Without(r.byId, {id}) /\ q.byPtr = Without(r.byPtr, {r.byId[id]})
        /\ q.fps = Without(r.fps, {id}) /\ q.nextId = r.nextId
        /\ q = [byId |-> q.byId, byPtr |-> q.byPtr, fps |-> q.fps, nextId |-> q.nextId]
    BY <1>2 DEF removeByNetworkId, RegistryOK, IsRegistry
  <2>2. /\ IsMap(r.byId, NetIds, Ptrs) /\ IsMap(r.byPtr, Ptrs, NetIds)
        /\ IsMap(r.fps, NetIds, Prints) /\ r.nextId \in NetIds
    BY DEF RegistryOK, IsRegistry
  <2>3. /\ IsMap(q.byId, NetIds, Ptrs) /\ DOMAIN q.byId = DOMAIN r.byId \ {id}
        /\ \A i \in DOMAIN r.byId \ {id} : q.byId[i] = r.byId[i]
    <3> HIDE DEF q
    <3> QED BY <2>1, <2>2 DEF IsMap, Without
  <2>4. /\ IsMap(q.byPtr, Ptrs, NetIds) /\ DOMAIN q.byPtr = DOMAIN r.byPtr \ {r.byId[id]}
        /\ \A p \in DOMAIN r.byPtr \ {r.byId[id]} : q.byPtr[p] = r.byPtr[p]
    <3> HIDE DEF q
    <3> QED BY <2>1, <2>2 DEF IsMap, Without
  <2>5. IsMap(q.fps, NetIds, Prints) /\ DOMAIN q.fps = DOMAIN r.fps \ {id}
    <3> HIDE DEF q
    <3> QED BY <2>1, <2>2 DEF IsMap, Without
  <2>6. IsRegistry(q)
    <3> HIDE DEF q
    <3> QED BY <2>1, <2>2, <2>3, <2>4, <2>5 DEF IsRegistry
  <2>7. IsInverse(q)
    <3>1. /\ \A i \in DOMAIN r.byId : r.byId[i] \in DOMAIN r.byPtr /\ r.byPtr[r.byId[i]] = i
          /\ \A p \in DOMAIN r.byPtr : r.byPtr[p] \in DOMAIN r.byId /\ r.byId[r.byPtr[p]] = p
          /\ DOMAIN r.fps \subseteq DOMAIN r.byId
          /\ id \in DOMAIN r.byId
      BY <1>2 DEF RegistryOK, IsInverse, hasObject, hasNetworkId
    <3> HIDE DEF q
    <3>2. ASSUME NEW i \in DOMAIN q.byId
          PROVE  q.byId[i] \in DOMAIN q.byPtr /\ q.byPtr[q.byId[i]] = i
      BY <3>1, <2>3, <2>4
    <3>3. ASSUME NEW p \in DOMAIN q.byPtr
          PROVE  q.byPtr[p] \in DOMAIN q.byId /\ q.byId[q.byPtr[p]] = p
      BY <3>1, <2>3, <2>4
    <3> QED BY <3>1, <3>2, <3>3, <2>3, <2>5 DEF IsInverse, hasObject, hasNetworkId
  <2> QED BY <2>1, <2>3, <2>6, <2>7 DEF RegistryOK
<1> QED BY <1>1, <1>2

\* removeByObject is removeByNetworkId of the id the object has.
LEMMA RemoveByObjectOK ==
  ASSUME NEW r, RegistryOK(r), NEW o
  PROVE  /\ RegistryOK(removeByObject(r, o))
         /\ DOMAIN removeByObject(r, o).byId \subseteq DOMAIN r.byId
         /\ removeByObject(r, o).nextId = r.nextId
<1>1. CASE ~hasObject(r, o)
  BY <1>1 DEF removeByObject
<1>2. CASE hasObject(r, o)
  <2>1. hasNetworkId(r, r.byPtr[o]) /\ r.byId[r.byPtr[o]] = o
    BY <1>2 DEF RegistryOK, IsInverse, hasObject
  <2>2. removeByObject(r, o) = removeByNetworkId(r, r.byPtr[o])
    BY <1>2, <2>1 DEF removeByObject, removeByNetworkId, RegistryOK, IsRegistry
  <2> QED BY <2>2, RemoveByIdOK
<1> QED BY <1>1, <1>2

LEMMA BindOK ==
  ASSUME NEW r, RegistryOK(r), NEW id \in NetIds, NEW o \in Ptrs
  PROVE  /\ RegistryOK(bindObject(r, id, o))
         /\ DOMAIN bindObject(r, id, o).byId \subseteq DOMAIN r.byId \cup {id}
         /\ bindObject(r, id, o).byId[id] = o
         /\ hasNetworkId(bindObject(r, id, o), id)
         /\ bindObject(r, id, o).nextId = r.nextId
<1> DEFINE q == bindObject(r, id, o)
           otherPtr == {p \in DOMAIN r.byPtr : hasNetworkId(r, id) /\ p = r.byId[id] /\ p # o}
           otherId == {i \in DOMAIN r.byId : hasObject(r, o) /\ i = r.byPtr[o] /\ i # id}
<1>1. /\ q.byId = With(Without(r.byId, otherId), id, o)
      /\ q.byPtr = With(Without(r.byPtr, otherPtr), o, id)
      /\ q.fps = Without(r.fps, otherId) /\ q.nextId = r.nextId
      /\ q = [byId |-> q.byId, byPtr |-> q.byPtr, fps |-> q.fps, nextId |-> q.nextId]
  <2>1. q = [r EXCEPT !.byId = With(Without(@, otherId), id, o),
                      !.byPtr = With(Without(@, otherPtr), o, id),
                      !.fps = Without(@, otherId)]
    BY DEF bindObject
  <2>2. r = [byId |-> r.byId, byPtr |-> r.byPtr, fps |-> r.fps, nextId |-> r.nextId]
    BY DEF RegistryOK, IsRegistry
  <2> HIDE DEF q, otherPtr, otherId
  <2> QED BY <2>1, <2>2
<1>2. /\ IsMap(r.byId, NetIds, Ptrs) /\ IsMap(r.byPtr, Ptrs, NetIds)
      /\ IsMap(r.fps, NetIds, Prints) /\ r.nextId \in NetIds
  BY DEF RegistryOK, IsRegistry
<1>3. /\ \A i \in DOMAIN r.byId : r.byId[i] \in DOMAIN r.byPtr /\ r.byPtr[r.byId[i]] = i
      /\ \A p \in DOMAIN r.byPtr : r.byPtr[p] \in DOMAIN r.byId /\ r.byId[r.byPtr[p]] = p
      /\ DOMAIN r.fps \subseteq DOMAIN r.byId
  BY DEF RegistryOK, IsInverse, hasObject, hasNetworkId
<1>4. /\ \A p : p \in otherPtr <=> id \in DOMAIN r.byId /\ p = r.byId[id] /\ p # o
      /\ \A i : i \in otherId <=> o \in DOMAIN r.byPtr /\ i = r.byPtr[o] /\ i # id
  BY <1>3 DEF hasNetworkId, hasObject
<1> HIDE DEF q, otherPtr, otherId
<1>5. /\ IsMap(q.byId, NetIds, Ptrs)
      /\ DOMAIN q.byId = (DOMAIN r.byId \ otherId) \cup {id}
      /\ q.byId[id] = o
      /\ \A i \in DOMAIN r.byId \ otherId : i # id => q.byId[i] = r.byId[i]
  <2>1. /\ IsMap(Without(r.byId, otherId), NetIds, Ptrs)
        /\ DOMAIN Without(r.byId, otherId) = DOMAIN r.byId \ otherId
        /\ \A i \in DOMAIN r.byId \ otherId : Without(r.byId, otherId)[i] = r.byId[i]
    BY <1>2 DEF IsMap, Without
  <2> DEFINE w == Without(r.byId, otherId)
  <2>2. q.byId = With(w, id, o)
    BY <1>1
  <2> HIDE DEF w
  <2>3. IsMap(w, NetIds, Ptrs)
    BY <2>1 DEF w
  <2>4. /\ IsMap(q.byId, NetIds, Ptrs) /\ DOMAIN q.byId = DOMAIN w \cup {id}
        /\ q.byId[id] = o
        /\ \A i \in DOMAIN w : i # id => q.byId[i] = w[i]
    BY <2>2, <2>3 DEF IsMap, With
  <2> QED BY <2>1, <2>4 DEF w
<1>6. /\ IsMap(q.byPtr, Ptrs, NetIds)
      /\ DOMAIN q.byPtr = (DOMAIN r.byPtr \ otherPtr) \cup {o}
      /\ q.byPtr[o] = id
      /\ \A p \in DOMAIN r.byPtr \ otherPtr : p # o => q.byPtr[p] = r.byPtr[p]
  BY <1>1, <1>2 DEF IsMap, With, Without
<1>7. IsMap(q.fps, NetIds, Prints) /\ DOMAIN q.fps = DOMAIN r.fps \ otherId
  BY <1>1, <1>2 DEF IsMap, Without
<1>8. ASSUME NEW i \in DOMAIN q.byId
      PROVE  q.byId[i] \in DOMAIN q.byPtr /\ q.byPtr[q.byId[i]] = i
  <2>1. CASE i = id
    BY <2>1, <1>5, <1>6
  <2>2. CASE i # id
    <3>1. i \in DOMAIN r.byId /\ i \notin otherId /\ q.byId[i] = r.byId[i]
      BY <2>2, <1>5
    <3>2. r.byId[i] \notin otherPtr /\ r.byId[i] # o
      BY <2>2, <3>1, <1>3, <1>4
    <3> QED BY <3>1, <3>2, <1>3, <1>6
  <2> QED BY <2>1, <2>2
<1>9. ASSUME NEW p \in DOMAIN q.byPtr
      PROVE  q.byPtr[p] \in DOMAIN q.byId /\ q.byId[q.byPtr[p]] = p
  <2>1. CASE p = o
    BY <2>1, <1>5, <1>6
  <2>2. CASE p # o
    <3>1. p \in DOMAIN r.byPtr /\ p \notin otherPtr /\ q.byPtr[p] = r.byPtr[p]
      BY <2>2, <1>6
    <3>2. r.byPtr[p] \notin otherId /\ r.byPtr[p] # id
      BY <2>2, <3>1, <1>3, <1>4
    <3> QED BY <3>1, <3>2, <1>3, <1>5
  <2> QED BY <2>1, <2>2
<1>10. DOMAIN q.fps \subseteq DOMAIN q.byId
  BY <1>3, <1>5, <1>7
<1>11. RegistryOK(q)
  BY <1>1, <1>2, <1>5, <1>6, <1>7, <1>8, <1>9, <1>10
  DEF RegistryOK, IsRegistry, IsInverse, hasObject, hasNetworkId
<1> QED BY <1>1, <1>5, <1>11 DEF q, hasNetworkId

\* Recovery finds a registered id or none.
LEMMA LikelyIsRegistered ==
  ASSUME NEW r, RegistryOK(r), NEW fp, findLikelyNetworkId(r, fp) # INVALID_OBJECT_ID
  PROVE  findLikelyNetworkId(r, fp) \in DOMAIN r.byId
<1>1. ASSUME NEW S, S \subseteq DOMAIN r.fps, Only(S) # INVALID_OBJECT_ID
      PROVE  Only(S) \in DOMAIN r.fps
  BY <1>1 DEF Only
<1>2. findLikelyNetworkId(r, fp) \in DOMAIN r.fps
  <2> DEFINE sameKind == {i \in DOMAIN r.fps : sameObjectId(fp, r.fps[i])}
             sameText == {i \in sameKind : fp.text # 0 /\ fp.text = r.fps[i].text}
             sameSpot == {i \in sameKind : transformMatches(fp, r.fps[i])}
  <2>1. \/ /\ findLikelyNetworkId(r, fp) = Only(sameText)
           /\ Only(sameText) # INVALID_OBJECT_ID
        \/ /\ findLikelyNetworkId(r, fp) = Only(sameSpot)
           /\ Only(sameSpot) # INVALID_OBJECT_ID
    BY DEF findLikelyNetworkId
  <2>2. sameText \subseteq DOMAIN r.fps /\ sameSpot \subseteq DOMAIN r.fps
    OBVIOUS
  <2> HIDE DEF sameText, sameSpot
  <2> QED BY <1>1, <2>1, <2>2
<1> QED BY <1>2 DEF RegistryOK, IsInverse

LEMMA RecoveredOK ==
  ASSUME NEW r, RegistryOK(r), NEW o \in Ptrs, NEW fp \in Prints
  PROVE  /\ RegistryOK(recovered(r, o, fp))
         /\ DOMAIN recovered(r, o, fp).byId \subseteq DOMAIN r.byId
         /\ recovered(r, o, fp).nextId = r.nextId
<1> DEFINE id == recoveredId(r, o, fp)
           b == IF hasObject(r, o) THEN r ELSE bindObject(r, id, o)
<1>1. CASE id = INVALID_OBJECT_ID
  BY <1>1 DEF recovered
<1>2. CASE id # INVALID_OBJECT_ID
  <2>1. id \in DOMAIN r.byId
    BY <1>2, LikelyIsRegistered
       DEF recoveredId, hasObject, hasNetworkId, RegistryOK, IsInverse
  <2>2. id \in NetIds
    BY <2>1 DEF RegistryOK, IsRegistry, IsMap
  <2>3. recovered(r, o, fp) = updateFingerprint(b, id, fp)
    BY <1>2 DEF recovered
  <2> HIDE DEF id
  <2>4. RegistryOK(b) /\ DOMAIN b.byId \subseteq DOMAIN r.byId /\ b.nextId = r.nextId
    BY <2>1, <2>2, BindOK
  <2> HIDE DEF b
  <2>5. /\ RegistryOK(updateFingerprint(b, id, fp))
        /\ updateFingerprint(b, id, fp).byId = b.byId
        /\ updateFingerprint(b, id, fp).nextId = b.nextId
    BY <2>4, UpdateOK
  <2> QED BY <2>3, <2>4, <2>5
<1> QED BY <1>1, <1>2

-----------------------------------------------------------------------------
(***************************************************************************)
(* The loops over the registry.                                            *)
(***************************************************************************)

\* Binding unregistered pointers, each to an id of its own.
LEMMA BindAllOK ==
  ASSUME NEW r, RegistryOK(r), NEW D \in SUBSET Ptrs, NEW f \in [D -> NetIds],
         \A o, p \in D : f[o] = f[p] => o = p,
         D \cap DOMAIN r.byPtr = {}
  PROVE  /\ RegistryOK(bindAll(r, f))
         /\ \A i : i \in DOMAIN bindAll(r, f).byId <=>
                    i \in DOMAIN r.byId \/ \E o \in D : f[o] = i
         /\ DOMAIN bindAll(r, f).byPtr \subseteq DOMAIN r.byPtr \cup D
         /\ D \subseteq DOMAIN bindAll(r, f).byPtr
         /\ bindAll(r, f).fps = r.fps
         /\ bindAll(r, f).nextId = r.nextId
<1> DEFINE q == bindAll(r, f)
           ids == {f[o] : o \in DOMAIN f}
           kept == {p \in DOMAIN r.byPtr : r.byPtr[p] \notin ids}
           newById == [i \in DOMAIN r.byId \cup ids |->
                        IF i \in ids THEN CHOOSE o \in DOMAIN f : f[o] = i ELSE r.byId[i]]
           newByPtr == [o \in kept \cup DOMAIN f |-> IF o \in DOMAIN f THEN f[o] ELSE r.byPtr[o]]
<1>1. /\ q.byId = newById /\ q.byPtr = newByPtr /\ q.fps = r.fps /\ q.nextId = r.nextId
      /\ q = [byId |-> q.byId, byPtr |-> q.byPtr, fps |-> q.fps, nextId |-> q.nextId]
  <2>1. r = [byId |-> r.byId, byPtr |-> r.byPtr, fps |-> r.fps, nextId |-> r.nextId]
    BY DEF RegistryOK, IsRegistry
  <2>2. q = [r EXCEPT !.byId = newById, !.byPtr = newByPtr]
    BY DEF bindAll
  <2> HIDE DEF q, newById, newByPtr
  <2> QED BY <2>1, <2>2
<1>2. /\ IsMap(r.byId, NetIds, Ptrs) /\ IsMap(r.byPtr, Ptrs, NetIds)
      /\ IsMap(r.fps, NetIds, Prints) /\ r.nextId \in NetIds
  BY DEF RegistryOK, IsRegistry
<1>3. /\ \A i \in DOMAIN r.byId : r.byId[i] \in DOMAIN r.byPtr /\ r.byPtr[r.byId[i]] = i
      /\ \A p \in DOMAIN r.byPtr : r.byPtr[p] \in DOMAIN r.byId /\ r.byId[r.byPtr[p]] = p
      /\ DOMAIN r.fps \subseteq DOMAIN r.byId
  BY DEF RegistryOK, IsInverse, hasObject, hasNetworkId
<1>4. /\ DOMAIN f = D /\ ids \subseteq NetIds
      /\ \A o \in D : f[o] \in ids
  OBVIOUS
<1>5. ASSUME NEW i \in ids
      PROVE  /\ (CHOOSE o \in DOMAIN f : f[o] = i) \in D
             /\ f[CHOOSE o \in DOMAIN f : f[o] = i] = i
  OBVIOUS
<1>6. /\ DOMAIN newById = DOMAIN r.byId \cup ids
      /\ \A i \in ids : newById[i] \in D /\ f[newById[i]] = i
      /\ \A i \in DOMAIN r.byId \ ids : newById[i] = r.byId[i]
  <2> HIDE DEF ids
  <2> QED BY <1>5
<1>7. /\ newByPtr = [o \in DOMAIN newByPtr |-> newByPtr[o]]
      /\ DOMAIN newByPtr = kept \cup D
      /\ \A o \in D : newByPtr[o] = f[o]
      /\ \A o \in kept : newByPtr[o] = r.byPtr[o]
  <2> HIDE DEF ids, kept
  <2>1. \A o \in D : newByPtr[o] = f[o]
    BY <1>4
  <2>2. \A o \in kept \ D : newByPtr[o] = r.byPtr[o]
    BY <1>4
  <2>3. kept \cap D = {}
    BY DEF kept
  <2> QED BY <1>4, <2>1, <2>2, <2>3
<1>8. newById = [i \in DOMAIN newById |-> newById[i]]
  OBVIOUS
<1>9. \A p : p \in kept <=> p \in DOMAIN r.byPtr /\ r.byPtr[p] \notin ids
  OBVIOUS
<1>10. \A i : i \in ids <=> \E o \in D : f[o] = i
  BY <1>4
<1> HIDE DEF q, ids, kept, newById, newByPtr
<1>11. IsMap(newById, NetIds, Ptrs)
  <2>1. \A i \in DOMAIN newById : i \in NetIds /\ newById[i] \in Ptrs
    BY <1>2, <1>4, <1>6 DEF IsMap
  <2> QED BY <1>8, <2>1 DEF IsMap
<1>12. IsMap(newByPtr, Ptrs, NetIds)
  <2>1. \A o \in DOMAIN newByPtr : o \in Ptrs /\ newByPtr[o] \in NetIds
    BY <1>2, <1>7, <1>9 DEF IsMap
  <2> QED BY <1>7, <2>1 DEF IsMap
<1>13. ASSUME NEW i \in DOMAIN newById
       PROVE  newById[i] \in DOMAIN newByPtr /\ newByPtr[newById[i]] = i
  <2>1. CASE i \in ids
    BY <2>1, <1>6, <1>7
  <2>2. CASE i \notin ids
    <3>1. i \in DOMAIN r.byId /\ newById[i] = r.byId[i] /\ r.byId[i] \in kept
      BY <2>2, <1>3, <1>6, <1>9
    <3> QED BY <3>1, <1>3, <1>7
  <2> QED BY <2>1, <2>2
<1>14. ASSUME NEW p \in DOMAIN newByPtr
       PROVE  newByPtr[p] \in DOMAIN newById /\ newById[newByPtr[p]] = p
  <2>1. CASE p \in D
    <3>1. f[p] \in ids /\ newById[f[p]] \in D /\ f[newById[f[p]]] = f[p]
      BY <2>1, <1>4, <1>6
    <3> QED BY <2>1, <3>1, <1>6, <1>7
  <2>2. CASE p \notin D
    <3>1. p \in DOMAIN r.byPtr /\ r.byPtr[p] \notin ids /\ newByPtr[p] = r.byPtr[p]
      BY <2>2, <1>7, <1>9
    <3> QED BY <3>1, <1>3, <1>6
  <2> QED BY <2>1, <2>2
<1>15. IsRegistry(q)
  BY <1>1, <1>2, <1>11, <1>12 DEF IsRegistry
<1>16. IsInverse(q)
  BY <1>1, <1>3, <1>6, <1>13, <1>14 DEF IsInverse, hasObject, hasNetworkId
<1>17. DOMAIN newByPtr \subseteq DOMAIN r.byPtr \cup D /\ D \subseteq DOMAIN newByPtr
  BY <1>7, <1>9
<1>18. \A i : i \in DOMAIN newById <=> i \in DOMAIN r.byId \/ \E o \in D : f[o] = i
  <2>1. \A i : i \in DOMAIN newById <=> i \in DOMAIN r.byId \/ i \in ids
    BY <1>6
  <2> QED BY <1>10, <2>1, Zenon
<1> QED BY <1>1, <1>15, <1>16, <1>17, <1>18 DEF q, RegistryOK

LEMMA RetainOK ==
  ASSUME NEW r, RegistryOK(r), NEW S
  PROVE  /\ RegistryOK(retain(r, S))
         /\ DOMAIN retain(r, S).byId = DOMAIN r.byId \cap S
         /\ \A i \in DOMAIN retain(r, S).byId : retain(r, S).byId[i] = r.byId[i]
         /\ DOMAIN retain(r, S).byPtr \subseteq DOMAIN r.byPtr
         /\ retain(r, S).nextId = r.nextId
<1> DEFINE q == retain(r, S)
           gone == {o \in DOMAIN r.byPtr : r.byPtr[o] \notin S}
<1>1. /\ q.byId = Without(r.byId, DOMAIN r.byId \ S)
      /\ q.byPtr = Without(r.byPtr, gone)
      /\ q.fps = Without(r.fps, DOMAIN r.fps \ S) /\ q.nextId = r.nextId
      /\ q = [byId |-> q.byId, byPtr |-> q.byPtr, fps |-> q.fps, nextId |-> q.nextId]
  <2>1. r = [byId |-> r.byId, byPtr |-> r.byPtr, fps |-> r.fps, nextId |-> r.nextId]
    BY DEF RegistryOK, IsRegistry
  <2>2. q = [r EXCEPT !.byId = Without(@, DOMAIN @ \ S), !.byPtr = Without(@, gone),
                      !.fps = Without(@, DOMAIN @ \ S)]
    BY DEF retain
  <2> HIDE DEF q, gone
  <2> QED BY <2>1, <2>2
<1>2. /\ IsMap(r.byId, NetIds, Ptrs) /\ IsMap(r.byPtr, Ptrs, NetIds)
      /\ IsMap(r.fps, NetIds, Prints) /\ r.nextId \in NetIds
  BY DEF RegistryOK, IsRegistry
<1>3. /\ \A i \in DOMAIN r.byId : r.byId[i] \in DOMAIN r.byPtr /\ r.byPtr[r.byId[i]] = i
      /\ \A p \in DOMAIN r.byPtr : r.byPtr[p] \in DOMAIN r.byId /\ r.byId[r.byPtr[p]] = p
      /\ DOMAIN r.fps \subseteq DOMAIN r.byId
  BY DEF RegistryOK, IsInverse, hasObject, hasNetworkId
<1> HIDE DEF q
<1>4. /\ IsMap(q.byId, NetIds, Ptrs) /\ DOMAIN q.byId = DOMAIN r.byId \cap S
      /\ \A i \in DOMAIN q.byId : q.byId[i] = r.byId[i]
  BY <1>1, <1>2 DEF IsMap, Without
<1>5. /\ IsMap(q.byPtr, Ptrs, NetIds) /\ DOMAIN q.byPtr = DOMAIN r.byPtr \ gone
      /\ \A p \in DOMAIN q.byPtr : q.byPtr[p] = r.byPtr[p]
  <2> HIDE DEF gone
  <2> QED BY <1>1, <1>2 DEF IsMap, Without
<1>6. IsMap(q.fps, NetIds, Prints) /\ DOMAIN q.fps = DOMAIN r.fps \cap S
  BY <1>1, <1>2 DEF IsMap, Without
<1>7. IsRegistry(q)
  BY <1>1, <1>2, <1>4, <1>5, <1>6 DEF IsRegistry
<1>8. \A p : p \in gone <=> p \in DOMAIN r.byPtr /\ r.byPtr[p] \notin S
  OBVIOUS
<1> HIDE DEF gone
<1>9. IsInverse(q)
  <2>1. ASSUME NEW i \in DOMAIN q.byId
        PROVE  q.byId[i] \in DOMAIN q.byPtr /\ q.byPtr[q.byId[i]] = i
    BY <1>3, <1>4, <1>5, <1>8
  <2>2. ASSUME NEW p \in DOMAIN q.byPtr
        PROVE  q.byPtr[p] \in DOMAIN q.byId /\ q.byId[q.byPtr[p]] = p
    BY <1>3, <1>4, <1>5, <1>8
  <2> QED BY <1>3, <1>4, <1>6, <2>1, <2>2 DEF IsInverse, hasObject, hasNetworkId
<1> QED BY <1>1, <1>4, <1>5, <1>7, <1>9 DEF q, RegistryOK

\* The id a hook works with is registered.
LEMMA RecoveredIdOK ==
  ASSUME NEW r, RegistryOK(r), NEW o, NEW fp, recoveredId(r, o, fp) # INVALID_OBJECT_ID
  PROVE  /\ recoveredId(r, o, fp) \in DOMAIN r.byId
         /\ recoveredId(r, o, fp) \in NetIds
<1>1. recoveredId(r, o, fp) \in DOMAIN r.byId
  BY LikelyIsRegistered DEF recoveredId, hasObject, hasNetworkId, RegistryOK, IsInverse
<1> QED BY <1>1 DEF RegistryOK, IsRegistry, IsMap
=============================================================================
