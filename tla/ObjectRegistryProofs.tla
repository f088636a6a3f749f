------------------------ MODULE ObjectRegistryProofs ------------------------
(***************************************************************************)
(* The registry of any client that respects the id ranges always satisfies *)
(* its invariants, and never hands out an id twice.                        *)
(***************************************************************************)
EXTENDS ObjectRegistry, ObjectRegistryOpsProofs

-----------------------------------------------------------------------------
(***************************************************************************)
(* The registry's invariants, for every set of pointers, fingerprints and  *)
(* ids: IndInv is inductive and contains the two checked invariants.       *)
(***************************************************************************)

LEMMA InitInv == Init => IndInv
  BY EmptyRegistryOK, EmptyMap
     DEF Init, IndInv, TypeOK, RegistryInverse, IdRange, RegistryOK, EmptyRegistry

LEMMA RecoverIds ==
  ASSUME IndInv, NEW o \in Ptrs, recoverNetworkId(o)
  PROVE  /\ RegistryOK(reg') /\ live' = live
         /\ DOMAIN reg'.byId \subseteq DOMAIN reg.byId
         /\ reg'.nextId = reg.nextId
<1>1. RegistryOK(reg)
  BY DEF IndInv, TypeOK, RegistryInverse, RegistryOK
<1>2. live[o] \in Prints
  BY DEF IndInv, TypeOK, IsMap, recoverNetworkId
<1> QED BY <1>1, <1>2, RecoveredOK DEF recoverNetworkId

LEMMA StepInv == IndInv /\ [Next]_vars => IndInv'
<1> SUFFICES ASSUME IndInv, [Next]_vars
             PROVE  IndInv'
  OBVIOUS
<1> USE DEF IndInv, TypeOK, RegistryInverse, IdRange
<1>0. RegistryOK(reg) /\ IsMap(live, Ptrs, Prints)
  BY DEF RegistryOK
<1>1. ASSUME NEW o \in Ptrs, RegisterObject(o)
      PROVE  IndInv'
  <2>1. reg.nextId \notin DOMAIN reg.byId
    BY <1>1, IdsAssumption DEF RegisterObject, RegistryOK, IsRegistry, NetIds
  <2>2. /\ RegistryOK(reg') /\ reg'.nextId >= reg.nextId
        /\ DOMAIN reg'.byId \subseteq DOMAIN reg.byId \cup {reg.nextId}
        /\ reg.nextId \in DOMAIN reg'.byId => reg'.nextId = reg.nextId + 1
    BY <1>0, <1>1, <2>1, RegisterOK DEF RegisterObject
  <2>3. ASSUME NEW i \in DOMAIN reg'.byId
        PROVE  i \in BindIds \/ i < reg'.nextId
    <3>1. reg.nextId \in Nat /\ reg'.nextId \in Nat /\ i \in Nat
      BY <1>0, <2>2 DEF RegistryOK, IsRegistry, IsMap, NetIds
    <3> QED BY <2>2, <3>1
  <2> QED BY <1>0, <1>1, <2>2, <2>3 DEF RegistryOK, RegisterObject
<1>2. ASSUME NEW o \in Ptrs, UpdateFingerprint(o)
      PROVE  IndInv'
  <2>1. live[o] \in Prints
    BY <1>2 DEF UpdateFingerprint, IsMap
  <2> QED BY <1>0, <1>2, <2>1, UpdateOK DEF UpdateFingerprint, RegistryOK
<1>3. ASSUME NEW o \in Ptrs, RemoveByObject(o)
      PROVE  IndInv'
  BY <1>0, <1>3, RemoveByObjectOK DEF RemoveByObject, RegistryOK
<1>4. ASSUME NEW o \in Ptrs, recoverNetworkId(o)
      PROVE  IndInv'
  BY <1>4, RecoverIds DEF RegistryOK
<1>5. ASSUME NEW o \in Ptrs, NEW id \in BindIds, BindObject(id, o)
      PROVE  IndInv'
  BY <1>0, <1>5, BindOK, IdsAssumption DEF BindObject, RegistryOK
<1>6. ASSUME NEW id \in HostIds \cup BindIds, RemoveByNetworkId(id)
      PROVE  IndInv'
  <2>1. RegistryOK(reg') /\ DOMAIN reg'.byId \subseteq DOMAIN reg.byId /\ reg'.nextId = reg.nextId
    BY <1>0, <1>6, RemoveByIdOK DEF RemoveByNetworkId
  <2>2. IsMap(live', Ptrs, Prints)
    BY <1>0, <1>6, WithoutMap DEF RemoveByNetworkId
  <2> QED BY <2>1, <2>2 DEF RegistryOK
<1>7. ASSUME Clear
      PROVE  IndInv'
  BY <1>0, <1>7, ClearOK DEF Clear, RegistryOK
<1>8. ASSUME NEW o \in Ptrs, NEW fp \in Prints, GdCreate(o, fp)
      PROVE  IndInv'
  <2>1. IsMap(live', Ptrs, Prints)
    BY <1>0, <1>8, WithMap DEF GdCreate
  <2> QED BY <1>8, <2>1 DEF GdCreate
<1>9. ASSUME NEW o \in Ptrs, NEW o2 \in Ptrs, GdReplace(o, o2)
      PROVE  IndInv'
  <2>1. IsMap(live', Ptrs, Prints)
    BY <1>0, <1>9 DEF GdReplace, IsMap, With, Without
  <2> QED BY <1>9, <2>1 DEF GdReplace
<1>10. CASE UNCHANGED vars
  BY <1>10 DEF vars
<1> QED BY <1>1, <1>2, <1>3, <1>4, <1>5, <1>6, <1>7, <1>8, <1>9, <1>10 DEF Next

(***************************************************************************)
(* The maps keep their types whatever is called (ObjectRegistry.cpp).      *)
(***************************************************************************)
THEOREM TypeCorrect == Spec => []TypeOK
<1>1. IndInv => TypeOK
  BY DEF IndInv
<1> QED BY <1>1, InitInv, StepInv, PTL DEF Spec

(***************************************************************************)
(* The two maps stay inverse to each other and no fingerprint outlives its *)
(* id, for every interleaving of the registry's methods.                   *)
(***************************************************************************)
THEOREM AlwaysInverse == Spec => []RegistryInverse
<1>1. IndInv => RegistryInverse
  BY DEF IndInv
<1> QED BY <1>1, InitInv, StepInv, PTL DEF Spec

(***************************************************************************)
(* Both, and what keeps ids fresh: a registered id is of one of the two    *)
(* ranges, and one the registry handed out itself is below its counter.    *)
(***************************************************************************)
THEOREM Inductive == Spec => []IndInv
  BY InitInv, StepInv, PTL DEF Spec

\* What a step may do to the host's ids: hand out reg.nextId, or lose some.
LEMMA HostIdsOfStep ==
  ASSUME IndInv, Next
  PROVE  /\ reg.nextId \in Nat /\ reg'.nextId \in Nat
         /\ reg'.nextId >= reg.nextId
         /\ \A i \in HostIds : i \in DOMAIN reg'.byId /\ i \notin DOMAIN reg.byId =>
              i = reg.nextId /\ reg'.nextId = reg.nextId + 1
<1>0. RegistryOK(reg) /\ IsMap(live, Ptrs, Prints) /\ reg.nextId \in Nat
  BY DEF IndInv, TypeOK, RegistryInverse, RegistryOK, IsRegistry, NetIds
<1>1. reg'.nextId \in Nat
  <2>1. IndInv'
    BY StepInv
  <2> QED BY <2>1 DEF IndInv, TypeOK, IsRegistry, NetIds
<1> DEFINE Kept == DOMAIN reg'.byId \cap HostIds \subseteq DOMAIN reg.byId /\ reg'.nextId = reg.nextId
<1>2. ASSUME NEW o \in Ptrs, RegisterObject(o)
      PROVE  /\ reg'.nextId >= reg.nextId
             /\ \A i \in HostIds : i \in DOMAIN reg'.byId /\ i \notin DOMAIN reg.byId =>
                  i = reg.nextId /\ reg'.nextId = reg.nextId + 1
  <2>1. reg.nextId \notin DOMAIN reg.byId
    BY <1>0, <1>2, IdsAssumption DEF IndInv, IdRange, RegisterObject, RegistryOK, IsRegistry, NetIds
  <2> QED BY <1>0, <1>2, <2>1, RegisterOK DEF RegisterObject
<1>3. ASSUME NEW o \in Ptrs, UpdateFingerprint(o)
      PROVE  Kept
  <2>1. live[o] \in Prints
    BY <1>0, <1>3 DEF UpdateFingerprint, IsMap
  <2> QED BY <1>0, <1>3, <2>1, UpdateOK DEF UpdateFingerprint
<1>4. ASSUME NEW o \in Ptrs, RemoveByObject(o)
      PROVE  Kept
  BY <1>0, <1>4, RemoveByObjectOK DEF RemoveByObject
<1>5. ASSUME NEW o \in Ptrs, recoverNetworkId(o)
      PROVE  Kept
  BY <1>5, RecoverIds
<1>6. ASSUME NEW o \in Ptrs, NEW id \in BindIds, BindObject(id, o)
      PROVE  Kept
  BY <1>0, <1>6, BindOK, IdsAssumption DEF BindObject
<1>7. ASSUME NEW id \in HostIds \cup BindIds, RemoveByNetworkId(id)
      PROVE  Kept
  BY <1>0, <1>7, RemoveByIdOK DEF RemoveByNetworkId
<1>8. ASSUME Clear
      PROVE  Kept
  BY <1>0, <1>8, ClearOK DEF Clear
<1>9. ASSUME UNCHANGED reg
      PROVE  Kept
  BY <1>9
<1>10. Kept => /\ reg'.nextId >= reg.nextId
               /\ \A i \in HostIds : i \in DOMAIN reg'.byId => i \in DOMAIN reg.byId
  BY <1>0
<1> QED BY <1>0, <1>1, <1>2, <1>3, <1>4, <1>5, <1>6, <1>7, <1>8, <1>9, <1>10 DEF Next, GdCreate, GdReplace

(***************************************************************************)
(* The counter never goes back, and an id that becomes registered and did  *)
(* not come from another client is at or above it, and the counter has     *)
(* passed it: no id is handed out twice, whatever was removed or cleared   *)
(* in between.                                                             *)
(***************************************************************************)
THEOREM FreshIds == Spec => IdsNeverReused
<1>1. IndInv /\ Next =>
        /\ reg'.nextId >= reg.nextId
        /\ \A i \in HostIds : hasNetworkId(reg', i) /\ ~hasNetworkId(reg, i) =>
             i >= reg.nextId /\ i < reg'.nextId
  BY HostIdsOfStep DEF hasNetworkId
<1> QED BY <1>1, InitInv, StepInv, PTL DEF Spec, IdsNeverReused
=============================================================================
