-------------------------- MODULE EditorQueuesProofs ------------------------
(***************************************************************************)
(* Theorems about EditorSync, for all of its constants, that depend on     *)
(* what is under way to a client: that host and peer agree on the peer's   *)
(* role, that the peer's level is the host's snapshot once the last chunk  *)
(* is handled, that no id outlives its object while users only edit, and   *)
(* that the host keeps no lock for a peer that does not have it.           *)
(* The steps are sorted by what they send and take; an invariant about the *)
(* queues needs one case per kind.                                         *)
(***************************************************************************)
EXTENDS EditorSyncProofs

\* A level that is being sent: finitely many entries, each id once.
IsLevel(E) ==
  /\ IsFiniteSet(E) /\ \A e \in E : e.id \in Nat
  /\ \A e, d \in E : e.id = d.id => e = d

-----------------------------------------------------------------------------
(***************************************************************************)
(* What is sent.  A sequence of messages of the types T.                   *)
(***************************************************************************)
OfTypes(msgs, T) == \E S : msgs \in Seq(S) /\ \A m \in S : m.type \in T

\* What the hooks send, and what the host answers.
HookTypes == {"place", "commit", "delete", "unlock", "lock_request"}
ReplyTypes == {"lock_granted", "lock_denied"}

LEMMA NothingOfTypes ==
  ASSUME NEW T
  PROVE  OfTypes(<<>>, T)
<1>1. <<>> \in Seq({}) /\ \A m \in {} : m.type \in T
  BY EmptySeq
<1>2. \A S : <<>> \in Seq(S) /\ (\A m \in S : m.type \in T) => OfTypes(<<>>, T)
  BY Zenon DEF OfTypes
<1> QED BY ONLY <1>1, <1>2

LEMMA MessageOfTypes ==
  ASSUME NEW T, NEW m, m.type \in T
  PROVE  OfTypes(<<m>>, T)
<1> DEFINE S == {m}
<1>1. <<m>> \in Seq(S) /\ \A x \in S : x.type \in T
  OBVIOUS
<1> HIDE DEF S
<1>2. \E U : <<m>> \in Seq(U) /\ \A x \in U : x.type \in T
  BY <1>1, Zenon
<1> QED BY <1>2, Zenon DEF OfTypes

LEMMA BothOfTypes ==
  ASSUME NEW T, NEW first, NEW last, OfTypes(first, T), OfTypes(last, T)
  PROVE  OfTypes(first \o last, T)
<1>1. PICK S : first \in Seq(S) /\ \A m \in S : m.type \in T
  BY Zenon DEF OfTypes
<1>2. PICK U : last \in Seq(U) /\ \A m \in U : m.type \in T
  BY Zenon DEF OfTypes
<1>3. first \in Seq(S \cup U) /\ last \in Seq(S \cup U)
  BY <1>1, <1>2, SeqMonotonic
<1>4. first \o last \in Seq(S \cup U) /\ \A m \in S \cup U : m.type \in T
  BY <1>1, <1>2, <1>3, ConcatProperties
<1> QED BY <1>4, Zenon DEF OfTypes

LEMMA SeveralOfTypes ==
  ASSUME NEW T, NEW k \in Nat, NEW msgs, msgs = [i \in 1..k |-> msgs[i]],
         \A i \in 1..k : msgs[i].type \in T
  PROVE  OfTypes(msgs, T)
<1> DEFINE S == {msgs[i] : i \in 1..k}
<1>1. msgs \in Seq(S)
  BY Messages1ToK
<1>2. \A m \in S : m.type \in T
  OBVIOUS
<1> HIDE DEF S
<1> QED BY <1>1, <1>2, Zenon DEF OfTypes

LEMMA TypesOfElements ==
  ASSUME NEW T, NEW msgs, \E S : msgs \in Seq(S), \A k \in DOMAIN msgs : msgs[k].type \in T
  PROVE  OfTypes(msgs, T)
<1> DEFINE k == Len(msgs)
<1>1. k \in Nat /\ msgs = [i \in 1..k |-> msgs[i]] /\ DOMAIN msgs = 1..k
  <2>1. PICK S : msgs \in Seq(S)
    OBVIOUS
  <2> QED BY <2>1
<1> HIDE DEF k
<1> QED BY <1>1, SeveralOfTypes

LEMMA CommitOfTypes ==
  ASSUME NEW r, NEW id, NEW os
  PROVE  OfTypes(commitOf(r, id, os), HookTypes)
<1> DEFINE m == [type |-> "commit", id |-> id, c |-> os[r.byId[id]]]
<1>1. m.type \in HookTypes
  BY DEF HookTypes
<1>2. commitOf(r, id, os) = <<m>> \/ commitOf(r, id, os) = <<>>
  BY DEF commitOf
<1> HIDE DEF m
<1> QED BY <1>1, <1>2, MessageOfTypes, NothingOfTypes

LEMMA ReleaseOfTypes ==
  ASSUME NEW n, NEW r, NEW ids
  PROVE  OfTypes(release(n, r, ids), HookTypes)
<1> DEFINE commit == commitOf(r, The(ids), obj[n])
           unlock == [type |-> "unlock", id |-> The(ids)]
<1>1. unlock.type \in HookTypes
  BY DEF HookTypes
<1>2. release(n, r, ids) = commit \o <<unlock>> \/ release(n, r, ids) = <<>>
  BY DEF release
<1>3. OfTypes(commit, HookTypes)
  BY CommitOfTypes
<1> HIDE DEF commit, unlock
<1>4. OfTypes(<<unlock>>, HookTypes)
  BY <1>1, MessageOfTypes
<1>5. OfTypes(commit \o <<unlock>>, HookTypes)
  BY <1>3, <1>4, BothOfTypes
<1> QED BY <1>2, <1>5, NothingOfTypes

-----------------------------------------------------------------------------
(***************************************************************************)
(* The kinds of steps, as far as the queues, the session, the roles and    *)
(* the collected snapshot are concerned.  Those that are not among them    *)
(* are the actions Connect, disconnect, LinkDown, setPeerRole,             *)
(* HandlePermissionUpdate and HandleStateSnapshot themselves.              *)
(***************************************************************************)

\* A hook or the scan of client n sends something or nothing.
Talks(n) ==
  /\ UNCHANGED <<role, myRole, conn, link, snap>>
  /\ UNCHANGED chan \/ \E msgs : OfTypes(msgs, HookTypes) /\ Post(n, msgs)

\* A handler of client n answers or does not.
Answers(n) ==
  /\ UNCHANGED <<role, myRole, conn, link, snap>>
  /\ \E t \in HookTypes \cup ReplyTypes : Receives(n, t)
  /\ \E replies : OfTypes(replies, ReplyTypes) /\ Consume(n, replies)

\* The peer asks for a snapshot, the host sends one.
AsksForSnapshot ==
  /\ "resync" \in Ops[Peer]
  /\ UNCHANGED <<role, myRole, conn, link, snap>>
  /\ Post(Peer, <<[type |-> "resync"]>>)
SendsSnapshot ==
  /\ UNCHANGED <<role, myRole, conn, link, snap>>
  /\ \E E : /\ IsLevel(E)
            /\ \/ "resync" \in Ops[Host] /\ Post(Host, chunksOf(E))
               \/ Receives(Host, "resync") /\ Consume(Host, chunksOf(E))

StepKinds ==
  \/ \E n \in Nodes : Talks(n) \/ Answers(n) \/ disconnect(n)
  \/ AsksForSnapshot \/ SendsSnapshot
  \/ Connect \/ LinkDown
  \/ \E r \in GrantedRoles : "role" \in Ops[Host] /\ setPeerRole(r)
  \/ HandlePermissionUpdate \/ HandleStateSnapshot

LEMMA LocalPlaceTalks ==
  ASSUME NEW n \in Nodes, NEW o, NEW c, LocalPlace(n, o, c)
  PROVE  Talks(n)
<1> DEFINE m == [type |-> "place", id |-> placementId(n, o), c |-> c]
<1>1. UNCHANGED <<role, myRole, conn, link, snap>> /\ (Post(n, <<m>>) \/ UNCHANGED chan)
  BY DEF LocalPlace, session
<1>2. m.type \in HookTypes
  BY DEF HookTypes
<1> HIDE DEF m
<1> QED BY <1>1, <1>2, MessageOfTypes DEF Talks

\* The scan places objects.
LEMMA DiscoverPlaces ==
  ASSUME SyncInv, NEW n \in Nodes, Discover(n)
  PROVE  UNCHANGED chan \/ \E msgs : OfTypes(msgs, {"place"}) /\ Post(n, msgs)
<1> DEFINE count == Cardinality(toDiscover(n))
           first == IF n = Host THEN reg[Host].nextId ELSE canonicalPeerObjectId(Peer, nextTempId)
<1>1. CASE hasPermission(n, "canEdit")
  <2>1. PICK f \in Numberings(toDiscover(n), first) :
          LET objectOf(i) == CHOOSE o \in toDiscover(n) : f[o] = i
          IN Post(n, [k \in 1..count |-> [type |-> "place", id |-> first + k - 1,
                                          c |-> obj[n][objectOf(first + k - 1)]]])
    BY <1>1 DEF Discover
  <2> DEFINE objectOf(i) == CHOOSE o \in toDiscover(n) : f[o] = i
             place(k) == [type |-> "place", id |-> first + k - 1,
                          c |-> obj[n][objectOf(first + k - 1)]]
             msgs == [k \in 1..count |-> place(k)]
  <2>2. Post(n, msgs)
    BY <2>1
  <2>3. \A k : place(k).type \in {"place"}
    OBVIOUS
  <2>4. count \in Nat
    <3>1. IsFiniteSet(Unsynced(n)) /\ toDiscover(n) \subseteq Unsynced(n)
      BY UnsyncedFinite DEF toDiscover
    <3> QED BY <3>1, FS_Subset, FS_CardinalityType
  <2> HIDE DEF count, place
  <2>5. msgs = [k \in 1..count |-> msgs[k]] /\ \A k \in 1..count : msgs[k].type \in {"place"}
    BY <2>3
  <2> HIDE DEF msgs
  <2>6. OfTypes(msgs, {"place"})
    BY <2>4, <2>5, SeveralOfTypes
  <2> QED BY <2>2, <2>6
<1>2. CASE ~hasPermission(n, "canEdit")
  BY <1>2 DEF Discover
<1> QED BY <1>1, <1>2

LEMMA DiscoverTalks ==
  ASSUME SyncInv, NEW n \in Nodes, Discover(n)
  PROVE  Talks(n)
<1>1. UNCHANGED <<role, myRole, conn, link, snap>>
  BY DEF Discover, session
<1>2. UNCHANGED chan \/ \E msgs : OfTypes(msgs, {"place"}) /\ Post(n, msgs)
  BY DiscoverPlaces
<1>3. \A msgs : OfTypes(msgs, {"place"}) => OfTypes(msgs, HookTypes)
  BY DEF OfTypes, HookTypes
<1> QED BY <1>1, <1>2, <1>3 DEF Talks

LEMMA LocalTransformTalks ==
  ASSUME NEW n \in Nodes, NEW o, NEW o2, NEW c, LocalTransform(n, o, o2, c)
  PROVE  Talks(n)
<1> DEFINE msgs == commitOf(reg'[n], recoveredId(repaired(reg[n], o, o2, c), o2, Fp(c)), obj'[n])
<1>1. UNCHANGED <<role, myRole, conn, link, snap>> /\ (Post(n, msgs) \/ UNCHANGED chan)
  BY DEF LocalTransform, session
<1>2. OfTypes(msgs, HookTypes)
  BY CommitOfTypes
<1> HIDE DEF msgs
<1> QED BY <1>1, <1>2 DEF Talks

LEMMA LocalDeleteTalks ==
  ASSUME NEW n \in Nodes, NEW o, LocalDelete(n, o)
  PROVE  Talks(n)
<1> DEFINE m == [type |-> "delete", id |-> recoveredId(reg[n], o, Fp(obj[n][o]))]
<1>1. UNCHANGED <<role, myRole, conn, link, snap>> /\ (Post(n, <<m>>) \/ UNCHANGED chan)
  BY DEF LocalDelete, session
<1>2. m.type \in HookTypes
  BY DEF HookTypes
<1> HIDE DEF m
<1> QED BY <1>1, <1>2, MessageOfTypes DEF Talks

LEMMA SelectObjectTalks ==
  ASSUME NEW n \in Nodes, NEW o, NEW dropped, SelectObject(n, o, dropped)
  PROVE  Talks(n)
<1> DEFINE before == lookedUp(n, reg[n], dropped)
           old == idsOf(n, reg[n], dropped)
           new == idsOf(n, before, {o})
           lock == IF hasPermission(n, "canLock") THEN new ELSE {}
           m == [type |-> "lock_request", id |-> The(lock)]
           msgs == release(n, before, old) \o
                     IF n = Peer /\ lock # {} THEN <<m>> ELSE <<>>
<1>1. UNCHANGED <<role, myRole, conn, link, snap>> /\ (Post(n, msgs) \/ UNCHANGED chan)
  BY DEF SelectObject, session
<1>2. m.type \in HookTypes
  BY DEF HookTypes
<1>3. OfTypes(release(n, before, old), HookTypes)
  BY ReleaseOfTypes
<1> HIDE DEF m, before, old
<1>4. OfTypes(IF n = Peer /\ lock # {} THEN <<m>> ELSE <<>>, HookTypes)
  BY <1>2, MessageOfTypes, NothingOfTypes
<1>5. OfTypes(msgs, HookTypes)
  BY <1>3, <1>4, BothOfTypes
<1> HIDE DEF msgs
<1> QED BY <1>1, <1>5 DEF Talks

LEMMA DeselectAllTalks ==
  ASSUME NEW n \in Nodes, DeselectAll(n)
  PROVE  Talks(n)
<1> DEFINE msgs == release(n, lookedUp(n, reg[n], sel[n]), idsOf(n, reg[n], sel[n]))
<1>1. UNCHANGED <<role, myRole, conn, link, snap>> /\ (Post(n, msgs) \/ UNCHANGED chan)
  BY DEF DeselectAll, session
<1>2. OfTypes(msgs, HookTypes)
  BY ReleaseOfTypes
<1> HIDE DEF msgs
<1> QED BY <1>1, <1>2 DEF Talks

LEMMA EditHandlersAnswer ==
  ASSUME NEW n \in Nodes,
         \/ HandlePlaceObject(n)
         \/ HandleDeleteObject(n)
         \/ HandleCommitEdit(n)
         \/ HandleUnlockObject(n)
  PROVE  Answers(n)
<1>1. UNCHANGED <<role, myRole, conn, link, snap>>
  BY DEF HandlePlaceObject, HandleDeleteObject, HandleCommitEdit, HandleUnlockObject, session
<1>2. Consume(n, <<>>)
  BY DEF HandlePlaceObject, HandleDeleteObject, HandleCommitEdit, HandleUnlockObject
<1>3. PICK t : t \in {"place", "delete", "commit", "unlock"} /\ Receives(n, t)
  BY DEF HandlePlaceObject, HandleDeleteObject, HandleCommitEdit, HandleUnlockObject
<1> QED BY <1>1, <1>2, <1>3, NothingOfTypes DEF Answers, HookTypes

LEMMA LockHandlersAnswer ==
  /\ HandleLockRequest => Answers(Host)
  /\ HandleLockReply => Answers(Peer)
<1>1. HandleLockRequest \/ HandleLockReply => UNCHANGED <<role, myRole, conn, link, snap>>
  BY DEF HandleLockRequest, HandleLockReply, session
<1>2. ASSUME HandleLockRequest
      PROVE  Answers(Host)
  <2> DEFINE id == namedId(Host, Msg(Host).id)
             refusal == [type |-> "lock_denied", id |-> INVALID_OBJECT_ID]
             denied == [type |-> "lock_denied", id |-> id]
             granted == [type |-> "lock_granted", id |-> id]
  <2>1. Consume(Host, <<refusal>>) \/ Consume(Host, <<denied>>) \/ Consume(Host, <<granted>>)
    BY <1>2 DEF HandleLockRequest
  <2>2. refusal.type \in ReplyTypes /\ denied.type \in ReplyTypes /\ granted.type \in ReplyTypes
    BY DEF ReplyTypes
  <2>3. Receives(Host, "lock_request")
    BY <1>2 DEF HandleLockRequest
  <2> HIDE DEF refusal, denied, granted
  <2>4. PICK m : m.type \in ReplyTypes /\ Consume(Host, <<m>>)
    BY <2>1, <2>2
  <2> QED BY <1>1, <1>2, <2>3, <2>4, MessageOfTypes DEF Answers, HookTypes
<1>3. ASSUME HandleLockReply
      PROVE  Answers(Peer)
  <2>1. PICK t : t \in {"lock_granted", "lock_denied"} /\ Receives(Peer, t)
    BY <1>3 DEF HandleLockReply
  <2>2. Consume(Peer, <<>>)
    BY <1>3 DEF HandleLockReply
  <2> QED BY <1>1, <1>3, <2>1, <2>2, NothingOfTypes DEF Answers, ReplyTypes
<1> QED BY <1>2, <1>3

\* The entries of a snapshot are those of the ids of the host's registry.
LEMMA SnapshotLevel ==
  ASSUME SyncInv, SyncInv', NEW ch, sendStateSnapshot(ch)
  PROVE  \E E : IsLevel(E) /\ chan' = Sent(ch, Host, chunksOf(E))
<1>1. PICK f \in Numberings(Unsynced(Host), reg[Host].nextId) :
        LET r == bindAll(reg[Host], f)
            live == retain(r, {i \in DOMAIN r.byId : r.byId[i] \in Live(Host)})
        IN /\ reg' = [reg EXCEPT ![Host] =
                        [live EXCEPT !.nextId = @ + Cardinality(Unsynced(Host))]]
           /\ chan' = Sent(ch, Host, chunksOf(
                {[id |-> i, c |-> obj[Host][live.byId[i]]] : i \in DOMAIN live.byId}))
  BY DEF sendStateSnapshot
<1> DEFINE r == bindAll(reg[Host], f)
           live == retain(r, {i \in DOMAIN r.byId : r.byId[i] \in Live(Host)})
           q == [live EXCEPT !.nextId = @ + Cardinality(Unsynced(Host))]
           entry(i) == [id |-> i, c |-> obj[Host][live.byId[i]]]
           entries == {entry(i) : i \in DOMAIN live.byId}
<1>2. reg'[Host] = q /\ chan' = Sent(ch, Host, chunksOf(entries))
  BY <1>1, InvFacts, NodesFacts DEF SyncInv, RegsOK
<1>3. RegistryOK(q)
  BY <1>2, NodesFacts DEF SyncInv, RegsOK
<1>4. "byId" \in DOMAIN q /\ DOMAIN q = DOMAIN live
  BY <1>3 DEF RegistryOK, IsRegistry
<1>5. q.byId = live.byId
  BY <1>4
<1>6. IsFiniteSet(DOMAIN live.byId) /\ DOMAIN live.byId \subseteq Nat
  BY <1>3, <1>5, FiniteRegistry DEF RegistryOK, IsRegistry, IsMap, NetIds
<1>7. IsFiniteSet(entries)
  <2> DEFINE g == [i \in DOMAIN live.byId |-> entry(i)]
  <2>1. g \in Surjection(DOMAIN live.byId, entries)
    <3> HIDE DEF entry
    <3> QED BY DEF Surjection
  <2> HIDE DEF g, entries
  <2> QED BY <1>6, <2>1, FS_Surjection
<1>8. /\ \A e \in entries : e.id \in Nat
      /\ \A e, d \in entries : e.id = d.id => e = d
  <2> HIDE DEF live
  <2> QED BY <1>6
<1> HIDE DEF entries
<1>9. IsLevel(entries)
  BY <1>7, <1>8 DEF IsLevel
<1> QED BY <1>2, <1>9

LEMMA ResyncKinds ==
  ASSUME SyncInv, SyncInv', NEW n \in Nodes,
         RequestStateResync(n) \/ (n = Host /\ HandleStateResyncRequest)
  PROVE  AsksForSnapshot \/ SendsSnapshot
<1>1. CASE RequestStateResync(n) /\ n # Host
  <2>1. n = Peer /\ Post(Peer, <<[type |-> "resync"]>>)
        /\ UNCHANGED <<role, myRole, conn, link, snap>> /\ "resync" \in Ops[n]
    BY <1>1, NodesFacts DEF RequestStateResync, session, Acts
  <2> QED BY <2>1 DEF AsksForSnapshot
<1>2. CASE RequestStateResync(n) /\ n = Host
  <2>1. /\ sendStateSnapshot(chan) /\ UNCHANGED <<role, myRole, conn, link, snap>>
        /\ "resync" \in Ops[Host]
    BY <1>2 DEF RequestStateResync, sendStateSnapshot, session, Acts
  <2>2. PICK E : IsLevel(E) /\ chan' = Sent(chan, Host, chunksOf(E))
    BY <2>1, SnapshotLevel
  <2> QED BY <2>1, <2>2 DEF Post, SendsSnapshot
<1>3. CASE HandleStateResyncRequest
  <2> DEFINE ch == [chan EXCEPT ![Host] = Tail(@)]
  <2>1. /\ sendStateSnapshot(ch) /\ Receives(Host, "resync")
        /\ UNCHANGED <<role, myRole, conn, link, snap>>
    BY <1>3 DEF HandleStateResyncRequest, sendStateSnapshot, session
  <2>2. PICK E : IsLevel(E) /\ chan' = Sent(ch, Host, chunksOf(E))
    BY <2>1, SnapshotLevel
  <2>3. Consume(Host, chunksOf(E))
    BY <2>2 DEF Consume
  <2> QED BY <2>1, <2>2, <2>3 DEF SendsSnapshot
<1> QED BY <1>1, <1>2, <1>3

LEMMA EveryStep ==
  ASSUME SyncInv, SyncInv', [Next]_vars
  PROVE  StepKinds
<1>1. ASSUME NEW n \in Nodes, User(n)
      PROVE  StepKinds
  <2>1. CASE \E o \in Heap[n], c \in Contents : LocalPlace(n, o, c)
    BY <2>1, LocalPlaceTalks DEF StepKinds
  <2>2. CASE \/ \E o \in Heap[n], c \in Contents : GdCreate(n, o, c)
             \/ \E o \in Heap[n], c \in Contents : LocalMove(n, o, c)
    <3>1. Talks(n)
      BY <2>2 DEF GdCreate, LocalMove, session, Talks
    <3> QED BY <3>1 DEF StepKinds
  <2>3. CASE \E o, o2 \in Heap[n], c \in Contents : LocalTransform(n, o, o2, c)
    BY <2>3, LocalTransformTalks DEF StepKinds
  <2>4. CASE \E o \in Heap[n] : LocalDelete(n, o)
    BY <2>4, LocalDeleteTalks DEF StepKinds
  <2>5. CASE \E o \in Heap[n], dropped \in SUBSET sel[n] : SelectObject(n, o, dropped)
    BY <2>5, SelectObjectTalks DEF StepKinds
  <2>6. CASE DeselectAll(n)
    BY <2>6, DeselectAllTalks DEF StepKinds
  <2>7. CASE RequestStateResync(n)
    BY <2>7, ResyncKinds DEF StepKinds
  <2>8. CASE Disconnect(n)
    BY <2>8 DEF Disconnect, StepKinds
  <2>9. CASE \E r \in GrantedRoles : setPeerRole(r)
    BY <2>9 DEF StepKinds, setPeerRole, Acts
  <2> QED BY <1>1, <2>1, <2>2, <2>3, <2>4, <2>5, <2>6, <2>7, <2>8, <2>9 DEF User
<1>2. ASSUME NEW n \in Nodes, Handle(n)
      PROVE  StepKinds
  <2>1. CASE \/ HandlePlaceObject(n) \/ HandleDeleteObject(n)
             \/ HandleCommitEdit(n) \/ HandleUnlockObject(n)
    BY <2>1, EditHandlersAnswer DEF StepKinds
  <2>2. CASE HandleEof(n)
    BY <2>2 DEF HandleEof, StepKinds
  <2>3. CASE HandleLockRequest \/ HandleLockReply
    BY <2>3, LockHandlersAnswer, NodesFacts DEF StepKinds
  <2>4. CASE n = Host /\ HandleStateResyncRequest
    BY <2>4, ResyncKinds DEF StepKinds
  <2>5. CASE HandlePermissionUpdate \/ HandleStateSnapshot
    BY <2>5 DEF StepKinds
  <2> QED BY <1>2, <2>1, <2>2, <2>3, <2>4, <2>5 DEF Handle
<1>3. CASE \E n \in Nodes : User(n) \/ Discover(n) \/ Handle(n)
  BY <1>1, <1>2, <1>3, DiscoverTalks DEF StepKinds
<1>4. CASE Connect \/ LinkDown
  BY <1>4 DEF StepKinds
<1>5. CASE UNCHANGED vars
  <2>1. Talks(Host)
    BY <1>5 DEF vars, Talks
  <2> QED BY <2>1, NodesFacts DEF StepKinds
<1> QED BY <1>3, <1>4, <1>5 DEF Next

LEMMA Queues ==
  ASSUME SyncInv
  PROVE  /\ chan = [n \in Nodes |-> chan[n]]
         /\ \A n \in Nodes : chan[n] \in Seq(Inboxes[n])
  BY Zenon DEF SyncInv, MailOK, IsMail

-----------------------------------------------------------------------------
(***************************************************************************)
(* How a snapshot is cut.                                                  *)
(***************************************************************************)
RankIn(E, e) == Cardinality({d \in E : d.id < e.id})

LEMMA Ranks ==
  ASSUME NEW E, IsLevel(E)
  PROVE  /\ \A e \in E : RankIn(E, e) \in 0..(Cardinality(E) - 1)
         /\ \A e, d \in E : d.id < e.id => RankIn(E, d) < RankIn(E, e)
<1> DEFINE below(e) == {d \in E : d.id < e.id}
<1>1. \A e \in E : /\ IsFiniteSet(below(e)) /\ Cardinality(below(e)) \in Nat
                   /\ Cardinality(E) \in Nat
                   /\ Cardinality(below(e)) <= Cardinality(E)
                   /\ Cardinality(below(e)) = Cardinality(E) => below(e) = E
  <2>1. \A e \in E : below(e) \in SUBSET E
    OBVIOUS
  <2> HIDE DEF below
  <2> QED BY <2>1, FS_Subset, FS_CardinalityType DEF IsLevel
<1>2. ASSUME NEW e \in E
      PROVE  Cardinality(below(e)) \in 0..(Cardinality(E) - 1)
  <2>1. e \notin below(e)
    BY DEF IsLevel
  <2>2. Cardinality(below(e)) # Cardinality(E)
    BY <1>1, <2>1
  <2> HIDE DEF below
  <2> QED BY <1>1, <2>2
<1>3. ASSUME NEW e \in E, NEW d \in E, d.id < e.id
      PROVE  Cardinality(below(d)) < Cardinality(below(e))
  <2>1. below(d) \in SUBSET below(e) /\ d \in below(e) /\ d \notin below(d)
    BY <1>3 DEF IsLevel
  <2>2. below(d) # below(e)
    BY <2>1
  <2> HIDE DEF below
  <2>3. /\ Cardinality(below(d)) <= Cardinality(below(e))
        /\ Cardinality(below(e)) = Cardinality(below(d)) => below(e) = below(d)
    BY <1>1, <2>1, FS_Subset
  <2> QED BY <1>1, <2>2, <2>3
<1> QED BY <1>2, <1>3 DEF RankIn

\* Every rank is taken by one entry.
LEMMA RankBijection ==
  ASSUME NEW E, IsLevel(E), NEW f, f = [e \in E |-> RankIn(E, e)]
  PROVE  f \in Bijection(E, 0..(Cardinality(E) - 1))
<1> DEFINE n == Cardinality(E)
           T == 0..(n - 1)
<1>1. n \in Nat
  BY FS_CardinalityType DEF IsLevel
<1>2. IsFiniteSet(T) /\ Cardinality(T) = n
  BY <1>1, FS_Interval
<1>3. f \in Injection(E, T)
  <2>1. f \in [E -> T]
    BY Ranks
  <2>2. ASSUME NEW e \in E, NEW d \in E, f[e] = f[d]
        PROVE  e = d
    <3>1. ~(d.id < e.id) /\ ~(e.id < d.id)
      <4>1. f[e] \in Int /\ f[d] \in Int
        BY <2>1
      <4> HIDE DEF T, n
      <4> QED BY <2>2, <4>1, Ranks
    <3> QED BY <3>1 DEF IsLevel
  <2> HIDE DEF T
  <2> QED BY <2>1, <2>2 DEF Injection, IsInjective
<1>4. f \in Surjection(E, T)
  <2> HIDE DEF T
  <2> QED BY <1>2, <1>3, FS_Injection
<1> HIDE DEF T
<1>5. f \in Bijection(E, T)
  BY <1>3, <1>4 DEF Bijection
<1> QED BY <1>5 DEF T

\* As many entries as ranks in an interval.
LEMMA RankInterval ==
  ASSUME NEW E, IsLevel(E), NEW a \in Nat, NEW b \in Nat, a <= b, b <= Cardinality(E)
  PROVE  LET part == {e \in E : a <= RankIn(E, e) /\ RankIn(E, e) < b}
         IN IsFiniteSet(part) /\ Cardinality(part) = b - a
<1> DEFINE part == {e \in E : a <= RankIn(E, e) /\ RankIn(E, e) < b}
           I == a..(b - 1)
           n == Cardinality(E)
           f == [e \in E |-> RankIn(E, e)]
           g == [e \in part |-> f[e]]
<1>1. n \in Nat /\ IsFiniteSet(I) /\ Cardinality(I) = b - a /\ I \subseteq 0..(n - 1)
  <2>1. n \in Nat
    BY FS_CardinalityType DEF IsLevel
  <2>2. IsFiniteSet(I) /\ Cardinality(I) = IF a > b - 1 THEN 0 ELSE (b - 1) - a + 1
    BY FS_Interval
  <2> QED BY <2>1, <2>2
<1>2. f \in Bijection(E, 0..(n - 1))
  BY RankBijection
<1>3. /\ \A e \in E : f[e] = RankIn(E, e) /\ f[e] \in 0..(n - 1)
      /\ \A e, d \in E : f[e] = f[d] => e = d
      /\ \A i \in 0..(n - 1) : \E e \in E : f[e] = i
  <2> HIDE DEF n
  <2> QED BY <1>2 DEF Bijection, Injection, Surjection, IsInjective
<1>4. g \in Bijection(part, I)
  <2>1. \A e \in part : g[e] \in I /\ g[e] = f[e] /\ e \in E
    BY <1>1, <1>3
  <2>2. ASSUME NEW i \in I
        PROVE  \E e \in part : g[e] = i
    <3>1. PICK e \in E : f[e] = i
      BY <1>1, <1>3
    <3>2. RankIn(E, e) = i
      BY <1>3, <3>1
    <3>3. e \in part
      BY <3>2
    <3> QED BY <3>1, <3>3
  <2>3. g = [e \in part |-> g[e]]
    OBVIOUS
  <2> HIDE DEF g, f, I, part
  <2> QED BY <1>3, <2>1, <2>2, <2>3 DEF Bijection, Injection, Surjection, IsInjective
<1>6. IsFiniteSet(part)
  <2>1. part \in SUBSET E
    OBVIOUS
  <2> HIDE DEF part
  <2> QED BY <2>1, FS_Subset DEF IsLevel
<1> HIDE DEF part, I, g
<1>5. Cardinality(part) = Cardinality(I)
  <2>1. g \in Surjection(part, I) /\ g \in Injection(part, I)
    BY <1>4 DEF Bijection
  <2> QED BY <1>6, <2>1, FS_Surjection
<1> QED BY <1>1, <1>5, <1>6 DEF part

LEMMA Quotient ==
  ASSUME NEW m \in Nat, NEW size \in Nat \ {0}, NEW q \in Nat
  PROVE  m \div size = q <=> q * size <= m /\ m < (q + 1) * size
<1>1. m \div size = q => q * size <= m
  OBVIOUS
<1>2. m \div size = q => m < (q + 1) * size
  OBVIOUS
<1>3. q * size <= m /\ m < (q + 1) * size => m \div size = q
  OBVIOUS
<1> QED BY <1>1, <1>2, <1>3

ChunkTotal(E) ==
  IF Cardinality(E) = 0 THEN 1 ELSE 1 + (Cardinality(E) - 1) \div ChunkSize

\* The chunk m takes its place in its snapshot: every chunk but the last is full.
ChunkOK(m) ==
  /\ m.index \in Nat /\ m.total \in Nat /\ m.index < m.total
  /\ IsLevel(m.entries)
  /\ m.index < m.total - 1 => Cardinality(m.entries) = ChunkSize
  /\ m.entries = {} => m.total = 1
  /\ m.entries # {} => Cardinality(m.entries) \in 1..ChunkSize

Below(E, D) == \A e \in E, d \in D : e.id < d.id

\* The chunk m is the next after p.
Follows(p, m) ==
  /\ p.type = "chunk" /\ m.index = p.index + 1 /\ m.total = p.total
  /\ Below(p.entries, m.entries)

LEMMA SubLevel ==
  ASSUME NEW E, IsLevel(E), NEW D \in SUBSET E
  PROVE  IsLevel(D)
  BY FS_Subset DEF IsLevel

\* What a snapshot is cut into.
LEMMA ChunksCut ==
  ASSUME NEW E, IsLevel(E)
  PROVE  /\ ChunkTotal(E) \in Nat \ {0}
         /\ \E S : chunksOf(E) \in Seq(S)
         /\ DOMAIN chunksOf(E) = 1..ChunkTotal(E)
         /\ \A k \in 1..ChunkTotal(E) :
              /\ chunksOf(E)[k].type = "chunk" /\ chunksOf(E)[k].index = k - 1
              /\ ChunkOK(chunksOf(E)[k])
              /\ k > 1 => Follows(chunksOf(E)[k - 1], chunksOf(E)[k])
<1> DEFINE n == Cardinality(E)
           total == ChunkTotal(E)
           part(k) == {e \in E : RankIn(E, e) \div ChunkSize = k - 1}
           chunk(k) == [type |-> "chunk", index |-> k - 1, total |-> total, entries |-> part(k)]
           chunks == [k \in 1..total |-> chunk(k)]
<1>1. chunksOf(E) = chunks
  BY DEF chunksOf, ChunkTotal, RankIn
<1>2. n \in Nat /\ ChunkSize \in Nat \ {0} /\ (n = 0 <=> E = {})
  BY FS_CardinalityType, FS_EmptySet, SyncAssumption DEF IsLevel
<1>3. /\ total \in Nat \ {0}
      /\ n > 0 => (total - 1) * ChunkSize <= n - 1 /\ n - 1 < total * ChunkSize
      /\ n = 0 => total = 1
  <2>1. CASE n = 0
    BY <2>1 DEF ChunkTotal
  <2>2. CASE n # 0
    <3> DEFINE q == (n - 1) \div ChunkSize
    <3>1. q \in Nat /\ n - 1 \in Nat
      BY <1>2, <2>2
    <3>2. total = 1 + q
      BY <2>2 DEF ChunkTotal
    <3>3. q * ChunkSize <= n - 1 /\ n - 1 < (q + 1) * ChunkSize
      BY <1>2, <3>1, Quotient
    <3> HIDE DEF q
    <3> QED BY <1>2, <2>2, <3>1, <3>2, <3>3
  <2> QED BY <2>1, <2>2
<1> HIDE DEF total
<1>4. \A e \in E : RankIn(E, e) \in Nat /\ RankIn(E, e) <= n - 1
  BY <1>2, Ranks
<1>5. ASSUME NEW k \in 1..total
      PROVE  /\ part(k) \in SUBSET E
             /\ \A e \in E : e \in part(k) <=>
                  (k - 1) * ChunkSize <= RankIn(E, e) /\ RankIn(E, e) < k * ChunkSize
  <2>1. ASSUME NEW e \in E
        PROVE  RankIn(E, e) \div ChunkSize = k - 1 <=>
                  (k - 1) * ChunkSize <= RankIn(E, e) /\ RankIn(E, e) < k * ChunkSize
    <3>1. RankIn(E, e) \in Nat /\ k - 1 \in Nat
      BY <1>3, <1>4
    <3>2. RankIn(E, e) \div ChunkSize = k - 1 <=>
            (k - 1) * ChunkSize <= RankIn(E, e) /\ RankIn(E, e) < ((k - 1) + 1) * ChunkSize
      BY <1>2, <3>1, Quotient
    <3> QED BY <3>2
  <2> QED BY <2>1
<1>6. ASSUME NEW k \in 1..total
      PROVE  /\ k < total => Cardinality(part(k)) = ChunkSize
             /\ n > 0 => Cardinality(part(k)) \in 1..ChunkSize
  <2> DEFINE a == (k - 1) * ChunkSize
             b == k * ChunkSize
             c == IF k < total THEN b ELSE n
  <2>1. a \in Nat /\ b \in Nat /\ b = a + ChunkSize
    BY <1>2, <1>3
  <2>2. CASE n = 0
    BY <1>3, <2>2
  <2>3. CASE n > 0
    <3>1. k < total => b <= n - 1
      <4>1. k < total => k * ChunkSize <= (total - 1) * ChunkSize
        BY <1>2, <1>3
      <4>2. (total - 1) * ChunkSize \in Nat
        BY <1>2, <1>3
      <4> QED BY <1>2, <1>3, <2>1, <2>3, <4>1, <4>2
    <3>2. k = total => a <= n - 1 /\ n - 1 < b
      BY <1>3, <2>3
    <3> HIDE DEF a, b
    <3>3. c \in Nat /\ a < c /\ c <= n /\ c <= b /\ (k < total => c = b)
      BY <1>2, <1>3, <2>1, <2>3, <3>1, <3>2
    <3>4. part(k) = {e \in E : a <= RankIn(E, e) /\ RankIn(E, e) < c}
      <4>1. \A e \in E : RankIn(E, e) < b <=> RankIn(E, e) < c
        BY <1>2, <1>3, <1>4, <2>1, <3>2, <3>3
      <4> HIDE DEF c, part
      <4> QED BY <1>5, <4>1 DEF a, b
    <3> HIDE DEF c, part
    <3>5. Cardinality(part(k)) = c - a
      BY <2>1, <3>3, <3>4, RankInterval
    <3> QED BY <1>2, <2>1, <3>3, <3>5
  <2> QED BY <1>2, <1>3, <2>2, <2>3
<1>7. ASSUME NEW k \in 1..total, k > 1
      PROVE  Below(part(k - 1), part(k))
  <2>1. k - 1 \in 1..total
    BY <1>3, <1>7
  <2>2. ASSUME NEW e \in part(k - 1), NEW d \in part(k)
        PROVE  e.id < d.id
    <3>1. e \in E /\ d \in E /\ RankIn(E, e) < (k - 1) * ChunkSize /\ (k - 1) * ChunkSize <= RankIn(E, d)
      BY <1>5, <2>1
    <3>2. RankIn(E, e) < RankIn(E, d)
      <4>1. (k - 1) * ChunkSize \in Nat
        BY <1>2, <1>3
      <4> QED BY <1>4, <3>1, <4>1
    <3>3. RankIn(E, e) \in Nat /\ RankIn(E, d) \in Nat /\ e.id \in Nat /\ d.id \in Nat
      BY <1>4, <3>1 DEF IsLevel
    <3>4. d.id < e.id => RankIn(E, d) < RankIn(E, e)
      BY <3>1, Ranks
    <3>5. d.id = e.id => d = e
      BY <3>1 DEF IsLevel
    <3> QED BY <3>2, <3>3, <3>4, <3>5
  <2> QED BY <2>2 DEF Below
<1>8. ASSUME NEW k \in 1..total
      PROVE  ChunkOK(chunks[k])
  <2>1. chunks[k].index = k - 1 /\ chunks[k].total = total /\ chunks[k].entries = part(k)
    OBVIOUS
  <2> HIDE DEF chunks, part
  <2>2. IsLevel(part(k))
    BY <1>5, SubLevel
  <2>3. part(k) = {} => total = 1
    <3>1. Cardinality({}) = 0
      BY FS_EmptySet
    <3>2. n > 0 => Cardinality(part(k)) \in 1..ChunkSize
      BY <1>6
    <3>3. n > 0 => part(k) # {}
      BY <1>2, <3>1, <3>2
    <3> QED BY <1>2, <1>3, <3>3
  <2>4. part(k) # {} => n > 0
    BY <1>2, <1>5
  <2> QED BY <1>3, <1>6, <2>1, <2>2, <2>3, <2>4 DEF ChunkOK
<1>9. ASSUME NEW k \in 1..total, k > 1
      PROVE  Follows(chunks[k - 1], chunks[k])
  <2>1. k - 1 \in 1..total
    BY <1>3, <1>9
  <2> HIDE DEF part
  <2> QED BY <1>7, <1>9, <2>1 DEF Follows
<1>10. \E S : chunks \in Seq(S)
  <2>1. chunks = [k \in 1..total |-> chunks[k]] /\ \A k \in 1..total : chunks[k] \in {chunks[i] : i \in 1..total}
    OBVIOUS
  <2> HIDE DEF chunks
  <2>2. chunks \in Seq({chunks[i] : i \in 1..total})
    BY <1>3, <2>1, Messages1ToK
  <2> QED BY <2>2
<1>11. DOMAIN chunks = 1..total
  OBVIOUS
<1>12. \A k \in 1..total : chunks[k].type = "chunk" /\ chunks[k].index = k - 1
  BY DEF chunks
<1> HIDE DEF chunks
<1> QED BY <1>1, <1>3, <1>8, <1>9, <1>10, <1>11, <1>12 DEF total

-----------------------------------------------------------------------------
(***************************************************************************)
(* The role of the peer.  The inductive invariant says where the peer's    *)
(* next role is: it is the role it has, or it is in the last announcement  *)
(* on its way, or the end of the session is on its way.                    *)
(***************************************************************************)
Announces(m) == m.type = "permission_update"

\* The peer will have the role r once it has handled q.
RoleUnderWay(q, r, mine) ==
  \/ (\A k \in DOMAIN q : ~Announces(q[k])) /\ mine = r
  \/ \E k \in DOMAIN q : /\ Announces(q[k]) /\ q[k].role = r
                         /\ \A j \in DOMAIN q : j > k => ~Announces(q[j])

EndUnderWay(q) == \E k \in DOMAIN q : q[k].type = "eof"

\* Nothing waits for a client without a session.
QueuesClosed == \A n \in Nodes : ~conn[n] => chan[n] = <<>>

RolesTold ==
  conn[Host] /\ conn[Peer] =>
    \/ EndUnderWay(chan[Peer])
    \/ link[Host] /\ RoleUnderWay(chan[Peer], role, myRole)

\* The inductive invariant.
RolesInv == SyncInv /\ QueuesClosed /\ RolesTold

\* A sequence of messages that announces no role.
RoleFree(msgs) == \E S : msgs \in Seq(S) /\ \A m \in S : ~Announces(m)

\* Appending messages that announce nothing leaves the announced role as it is.
LEMMA RoleStays ==
  ASSUME NEW S, NEW q \in Seq(S), NEW msgs, RoleFree(msgs), NEW r, NEW mine
  PROVE  /\ RoleUnderWay(q, r, mine) => RoleUnderWay(q \o msgs, r, mine)
         /\ EndUnderWay(q) => EndUnderWay(q \o msgs)
<1>1. PICK T : msgs \in Seq(T) /\ \A m \in T : ~Announces(m)
  BY DEF RoleFree
<1>2. /\ Len(q) \in Nat /\ Len(msgs) \in Nat /\ Len(q \o msgs) = Len(q) + Len(msgs)
      /\ DOMAIN (q \o msgs) = 1..(Len(q) + Len(msgs))
      /\ DOMAIN q = 1..Len(q) /\ DOMAIN msgs = 1..Len(msgs)
      /\ \A k \in DOMAIN q : (q \o msgs)[k] = q[k]
      /\ \A k \in 1..(Len(q) + Len(msgs)) : k > Len(q) => (q \o msgs)[k] = msgs[k - Len(q)]
  BY <1>1
<1> DEFINE p == q \o msgs
<1>3. ASSUME NEW k \in DOMAIN p, k \notin DOMAIN q
      PROVE  ~Announces(p[k])
  <2>1. k > Len(q) /\ k - Len(q) \in DOMAIN msgs /\ p[k] = msgs[k - Len(q)]
    BY <1>2, <1>3
  <2>2. p[k] \in T
    BY <1>1, <2>1
  <2> QED BY <1>1, <2>2
<1>4. DOMAIN q \subseteq DOMAIN p /\ \A k \in DOMAIN q : p[k] = q[k]
  BY <1>2
<1> HIDE DEF p
<1>5. RoleUnderWay(q, r, mine) => RoleUnderWay(p, r, mine)
  BY <1>3, <1>4 DEF RoleUnderWay
<1>6. EndUnderWay(q) => EndUnderWay(p)
  BY <1>4 DEF EndUnderWay
<1> QED BY <1>5, <1>6 DEF p

\* Handling the first message: an announcement sets the role, another message
\* that is not the end has no effect on it.
LEMMA RoleHandled ==
  ASSUME NEW S, NEW q \in Seq(S), q # <<>>, NEW r, NEW mine
  PROVE  /\ RoleUnderWay(q, r, mine) /\ ~Announces(Head(q)) => RoleUnderWay(Tail(q), r, mine)
         /\ RoleUnderWay(q, r, mine) /\ Announces(Head(q)) =>
              RoleUnderWay(Tail(q), r, Head(q).role)
         /\ EndUnderWay(q) /\ Head(q).type # "eof" => EndUnderWay(Tail(q))
<1>1. /\ Len(q) \in Nat /\ Len(q) > 0 /\ DOMAIN q = 1..Len(q) /\ Head(q) = q[1]
      /\ DOMAIN Tail(q) = 1..(Len(q) - 1)
      /\ \A k \in 1..(Len(q) - 1) : Tail(q)[k] = q[k + 1]
  OBVIOUS
<1> DEFINE t == Tail(q)
<1>2. /\ \A k \in DOMAIN t : k \in Nat /\ k + 1 \in DOMAIN q /\ t[k] = q[k + 1]
      /\ \A k \in DOMAIN q : k # 1 => k - 1 \in DOMAIN t /\ t[k - 1] = q[k]
      /\ 1 \in DOMAIN q /\ \A k \in DOMAIN q : k \in Nat /\ k >= 1
  BY <1>1
<1> HIDE DEF t
<1>3. ASSUME NEW k \in DOMAIN q, Announces(q[k]), q[k].role = r, k # 1,
             \A j \in DOMAIN q : j > k => ~Announces(q[j])
      PROVE  \A anyone : RoleUnderWay(t, r, anyone)
  <2>1. k - 1 \in DOMAIN t /\ t[k - 1] = q[k]
    BY <1>2, <1>3
  <2>2. ASSUME NEW j \in DOMAIN t, j > k - 1
        PROVE  ~Announces(t[j])
    BY <1>2, <1>3, <2>2
  <2> QED BY <1>3, <2>1, <2>2 DEF RoleUnderWay
<1>4. ASSUME RoleUnderWay(q, r, mine), ~Announces(Head(q))
      PROVE  RoleUnderWay(t, r, mine)
  <2>1. CASE (\A k \in DOMAIN q : ~Announces(q[k])) /\ mine = r
    BY <1>2, <2>1 DEF RoleUnderWay
  <2>2. CASE \E k \in DOMAIN q : /\ Announces(q[k]) /\ q[k].role = r
                                 /\ \A j \in DOMAIN q : j > k => ~Announces(q[j])
    BY <1>1, <1>3, <1>4, <2>2
  <2> QED BY <1>4, <2>1, <2>2 DEF RoleUnderWay
<1>5. ASSUME RoleUnderWay(q, r, mine), Announces(Head(q))
      PROVE  RoleUnderWay(t, r, Head(q).role)
  <2>1. PICK k \in DOMAIN q : /\ Announces(q[k]) /\ q[k].role = r
                              /\ \A j \in DOMAIN q : j > k => ~Announces(q[j])
    BY <1>1, <1>2, <1>5 DEF RoleUnderWay
  <2>2. CASE k = 1
    <3>1. ASSUME NEW j \in DOMAIN t
          PROVE  ~Announces(t[j])
      <4>1. j \in Nat /\ j >= 1 /\ j + 1 \in DOMAIN q /\ t[j] = q[j + 1]
        BY <1>1, <1>2 DEF t
      <4> QED BY <2>1, <2>2, <4>1
    <3> QED BY <1>1, <2>1, <2>2, <3>1 DEF RoleUnderWay
  <2>3. CASE k # 1
    BY <1>3, <2>1, <2>3
  <2> QED BY <2>2, <2>3
<1>6. ASSUME EndUnderWay(q), Head(q).type # "eof"
      PROVE  EndUnderWay(t)
  BY <1>1, <1>2, <1>6 DEF EndUnderWay
<1> QED BY <1>4, <1>5, <1>6 DEF t

\* The last announcement counts.
LEMMA RoleAnnounced ==
  ASSUME NEW S, NEW q \in Seq(S), NEW m, Announces(m), NEW mine
  PROVE  RoleUnderWay(q \o <<m>>, m.role, mine)
<1> DEFINE p == q \o <<m>>
           k == Len(q) + 1
<1>1. k \in Nat /\ DOMAIN p = 1..k /\ p[k] = m
  OBVIOUS
<1>2. k \in DOMAIN p /\ \A j \in DOMAIN p : ~(j > k)
  BY <1>1
<1> HIDE DEF p, k
<1>3. RoleUnderWay(p, m.role, mine)
  BY <1>1, <1>2 DEF RoleUnderWay
<1> QED BY <1>3 DEF p

LEMMA RoleFreeTypes ==
  ASSUME NEW T, "permission_update" \notin T, NEW msgs, OfTypes(msgs, T)
  PROVE  RoleFree(msgs)
<1>1. PICK S : msgs \in Seq(S) /\ \A m \in S : m.type \in T
  BY Zenon DEF OfTypes
<1>2. \A m \in S : ~Announces(m)
  BY <1>1 DEF Announces
<1> QED BY <1>1, <1>2, Zenon DEF RoleFree

LEMMA RoleFreeChunks ==
  ASSUME NEW E, IsLevel(E)
  PROVE  RoleFree(chunksOf(E))
<1>1. OfTypes(chunksOf(E), {"chunk"})
  BY ChunksCut, TypesOfElements
<1> QED BY <1>1, RoleFreeTypes

\* Client n sends msgs, among which the host's announce no role.
LEMMA PostKeeps ==
  ASSUME RolesInv, SyncInv', NEW n \in Nodes, NEW msgs, Post(n, msgs),
         n = Host => RoleFree(msgs), UNCHANGED <<role, myRole, conn, link>>
  PROVE  RolesInv'
<1>1. /\ chan = [i \in Nodes |-> chan[i]] /\ chan[Peer] \in Seq(Inboxes[Peer])
      /\ Other(n) \in Nodes /\ (n = Host => Other(n) = Peer) /\ (n = Peer => Other(n) = Host)
      /\ Host # Peer /\ Host \in Nodes /\ Peer \in Nodes /\ (n = Host \/ n = Peer)
  BY Queues, NodesFacts DEF RolesInv
<1>2. /\ \A i \in Nodes : ~conn[i] => chan'[i] = chan[i]
      /\ n = Peer => chan'[Peer] = chan[Peer]
      /\ n = Host => chan'[Peer] = chan[Peer] \/ chan'[Peer] = chan[Peer] \o msgs
  BY <1>1 DEF Post, Sent
<1>3. QueuesClosed'
  BY <1>2 DEF RolesInv, QueuesClosed
<1>4. n = Host =>
        /\ EndUnderWay(chan[Peer]) => EndUnderWay(chan[Peer] \o msgs)
        /\ RoleUnderWay(chan[Peer], role, myRole) =>
             RoleUnderWay(chan[Peer] \o msgs, role, myRole)
  BY <1>1, RoleStays
<1>5. RolesTold'
  BY <1>1, <1>2, <1>4 DEF RolesInv, RolesTold
<1> QED BY <1>3, <1>5 DEF RolesInv

LEMMA NothingSent ==
  ASSUME RolesInv, SyncInv', UNCHANGED <<chan, role, myRole, conn, link>>
  PROVE  RolesInv'
  BY DEF RolesInv, QueuesClosed, RolesTold

\* Client n handles a message that neither announces a role nor ends the session.
LEMMA TakeKeeps ==
  ASSUME RolesInv, SyncInv', NEW n \in Nodes, NEW replies,
         chan[n] # <<>>, ~Announces(Msg(n)), Msg(n).type # "eof",
         chan' = Sent([chan EXCEPT ![n] = Tail(@)], n, replies),
         n = Host => RoleFree(replies), UNCHANGED <<role, myRole, conn, link>>
  PROVE  RolesInv'
<1>1. /\ chan = [i \in Nodes |-> chan[i]] /\ chan[Peer] \in Seq(Inboxes[Peer])
      /\ Other(n) \in Nodes /\ (n = Host => Other(n) = Peer) /\ (n = Peer => Other(n) = Host)
      /\ Host # Peer /\ Host \in Nodes /\ Peer \in Nodes /\ (n = Host \/ n = Peer)
  BY Queues, NodesFacts DEF RolesInv
<1>2. conn[n]
  BY DEF RolesInv, QueuesClosed
<1>3. /\ \A i \in Nodes : ~conn[i] => chan'[i] = chan[i]
      /\ n = Host => chan'[Peer] = chan[Peer] \/ chan'[Peer] = chan[Peer] \o replies
      /\ n = Peer => chan'[Peer] = Tail(chan[Peer])
  BY <1>1, <1>2 DEF Sent
<1>4. QueuesClosed'
  BY <1>3 DEF RolesInv, QueuesClosed
<1>5. CASE n = Host
  <2>1. /\ EndUnderWay(chan[Peer]) => EndUnderWay(chan[Peer] \o replies)
        /\ RoleUnderWay(chan[Peer], role, myRole) =>
             RoleUnderWay(chan[Peer] \o replies, role, myRole)
    BY <1>1, <1>5, RoleStays
  <2> QED BY <1>3, <1>4, <1>5, <2>1 DEF RolesInv, RolesTold
<1>6. CASE n = Peer
  <2>1. chan[Peer] # <<>> /\ ~Announces(Head(chan[Peer])) /\ Head(chan[Peer]).type # "eof"
    BY <1>6 DEF Msg
  <2>2. /\ EndUnderWay(chan[Peer]) => EndUnderWay(Tail(chan[Peer]))
        /\ RoleUnderWay(chan[Peer], role, myRole) => RoleUnderWay(Tail(chan[Peer]), role, myRole)
    BY <1>1, <2>1, RoleHandled
  <2> QED BY <1>3, <1>4, <1>6, <2>2 DEF RolesInv, RolesTold
<1> QED BY <1>1, <1>4, <1>5, <1>6 DEF RolesInv

\* A message of another type, and an answer that announces nothing.
LEMMA HandlerKeeps ==
  ASSUME RolesInv, SyncInv', NEW n \in Nodes, NEW t, t \notin {"permission_update", "eof"},
         Receives(n, t), NEW replies, RoleFree(replies), Consume(n, replies),
         UNCHANGED <<role, myRole, conn, link>>
  PROVE  RolesInv'
<1>1. chan[n] # <<>> /\ ~Announces(Msg(n)) /\ Msg(n).type # "eof"
  BY DEF Receives, Announces
<1>2. chan' = Sent([chan EXCEPT ![n] = Tail(@)], n, replies)
  BY DEF Consume
<1> QED BY <1>1, <1>2, TakeKeeps

LEMMA ConnectKeeps ==
  ASSUME RolesInv, SyncInv', Connect
  PROVE  RolesInv'
<1>1. chan' = chan /\ chan[Peer] = <<>> /\ role' = myRole' /\ \A n \in Nodes : conn'[n] /\ link'[n]
  BY NodesFacts DEF Connect, RolesInv, QueuesClosed
<1>2. QueuesClosed'
  BY <1>1 DEF QueuesClosed
<1>3. \A k \in DOMAIN chan'[Peer] : ~Announces(chan'[Peer][k])
  BY <1>1
<1>4. RolesTold'
  BY <1>1, <1>3, NodesFacts DEF RolesTold, RoleUnderWay
<1> QED BY <1>2, <1>4 DEF RolesInv

\* A client without a session gets nothing, and its partner's role is no
\* longer asked for.
LEMMA DisconnectKeeps ==
  ASSUME RolesInv, SyncInv', NEW n \in Nodes, disconnect(n)
  PROVE  RolesInv'
<1>1. /\ chan = [i \in Nodes |-> chan[i]] /\ conn \in [Nodes -> BOOLEAN]
      /\ Other(n) \in Nodes /\ Other(n) # n
      /\ \A i \in Nodes : i = n \/ i = Other(n)
  BY Queues, NodesFacts DEF RolesInv, SyncInv, LocksOK
<1>2. /\ conn' = [conn EXCEPT ![n] = FALSE]
      /\ chan' = Sent([chan EXCEPT ![n] = <<>>], n, <<[type |-> "eof"]>>)
  BY DEF disconnect
<1>3. ~conn'[n] /\ chan'[n] = <<>>
  BY <1>1, <1>2 DEF Sent
<1>4. ~conn[Other(n)] => ~conn'[Other(n)] /\ chan'[Other(n)] = chan[Other(n)]
  BY <1>1, <1>2 DEF Sent
<1>5. conn[Other(n)] => conn'[Other(n)]
  BY <1>1, <1>2
<1>6. QueuesClosed'
  BY <1>1, <1>3, <1>4, <1>5 DEF RolesInv, QueuesClosed
<1>7. RolesTold'
  BY <1>3, NodesFacts DEF RolesTold
<1> QED BY <1>6, <1>7 DEF RolesInv

\* Both queues end in the end of the stream.
LEMMA LinkDownKeeps ==
  ASSUME RolesInv, SyncInv', LinkDown
  PROVE  RolesInv'
<1>1. PICK kept \in [Nodes -> 0..(Len(chan[Host]) + Len(chan[Peer]))] :
        /\ \A n \in Nodes : kept[n] <= Len(chan[n])
        /\ chan' = [n \in Nodes |-> Append(SubSeq(chan[n], 1, kept[n]), [type |-> "eof"])]
  BY DEF LinkDown
<1>2. chan[Peer] \in Seq(Inboxes[Peer]) /\ kept[Peer] \in Nat /\ kept[Peer] <= Len(chan[Peer])
  <2> DEFINE atHost == Len(chan[Host])
             atPeer == Len(chan[Peer])
             longest == atHost + atPeer
  <2>1. atHost \in Nat /\ atPeer \in Nat /\ Peer \in Nodes /\ chan[Peer] \in Seq(Inboxes[Peer])
    BY Queues, NodesFacts, LenProperties DEF RolesInv
  <2>2. kept \in [Nodes -> 0..longest] /\ kept[Peer] <= atPeer
    BY <1>1, <2>1
  <2> HIDE DEF atHost, atPeer
  <2>3. kept[Peer] \in Nat
    BY <2>1, <2>2
  <2> QED BY <2>1, <2>2, <2>3 DEF atPeer
<1>3. EndUnderWay(chan'[Peer])
  <2> DEFINE q == SubSeq(chan[Peer], 1, kept[Peer])
             eof == [type |-> "eof"]
  <2>1. q \in Seq(Inboxes[Peer])
    <3>1. \A i \in 1..kept[Peer] : chan[Peer][i] \in Inboxes[Peer]
      BY <1>2, ElementOfSeq, LenProperties
    <3>2. 1 \in Int /\ kept[Peer] \in Int
      BY <1>2
    <3> QED BY ONLY <3>1, <3>2, SubSeqProperties
  <2>4. eof.type = "eof"
    OBVIOUS
  <2>2. chan'[Peer] = Append(q, eof)
    BY <1>1, NodesFacts
  <2> HIDE DEF q, eof
  <2>3. Len(q) + 1 \in DOMAIN Append(q, eof) /\ Append(q, eof)[Len(q) + 1] = eof
    BY <2>1
  <2> QED BY <2>1, <2>2, <2>3, <2>4 DEF EndUnderWay
<1>4. QueuesClosed'
  BY DEF LinkDown, QueuesClosed
<1>5. RolesTold'
  BY <1>3 DEF RolesTold
<1> QED BY <1>4, <1>5 DEF RolesInv

\* The record and the announcement change together; without a connection the
\* peer will hear of the end instead.
LEMMA setPeerRoleKeeps ==
  ASSUME RolesInv, SyncInv', NEW r \in GrantedRoles, setPeerRole(r)
  PROVE  RolesInv'
<1> DEFINE m == [type |-> "permission_update", role |-> r]
<1>1. /\ chan = [i \in Nodes |-> chan[i]] /\ chan[Peer] \in Seq(Inboxes[Peer])
      /\ Other(Host) = Peer /\ Host \in Nodes /\ Peer \in Nodes /\ Host # Peer
  BY Queues, NodesFacts DEF RolesInv
<1>2. role' = r /\ chan' = Sent(chan, Host, <<m>>) /\ UNCHANGED <<myRole, conn, link>>
  BY DEF setPeerRole, Post
<1>3. Announces(m) /\ m.role = r
  BY DEF Announces
<1> HIDE DEF m
<1>4. /\ \A i \in Nodes : ~conn[i] => chan'[i] = chan[i]
      /\ conn[Host] /\ conn[Peer] =>
           chan'[Peer] = IF link[Host] THEN chan[Peer] \o <<m>> ELSE chan[Peer]
  BY <1>1, <1>2 DEF Sent
<1>5. QueuesClosed'
  BY <1>2, <1>4 DEF RolesInv, QueuesClosed
<1>6. RoleUnderWay(chan[Peer] \o <<m>>, r, myRole)
  BY <1>1, <1>3, RoleAnnounced
<1>7. RolesTold'
  BY <1>2, <1>4, <1>6 DEF RolesInv, RolesTold
<1> QED BY <1>5, <1>7 DEF RolesInv

LEMMA HandlePermissionUpdateKeeps ==
  ASSUME RolesInv, SyncInv', HandlePermissionUpdate
  PROVE  RolesInv'
<1>1. /\ chan = [i \in Nodes |-> chan[i]] /\ chan[Peer] \in Seq(Inboxes[Peer])
      /\ Other(Peer) = Host /\ Host \in Nodes /\ Peer \in Nodes /\ Host # Peer
  BY Queues, NodesFacts DEF RolesInv
<1>2. /\ chan[Peer] # <<>> /\ Head(chan[Peer]).type = "permission_update"
      /\ myRole' = Head(chan[Peer]).role /\ UNCHANGED <<role, conn, link>>
      /\ chan' = Sent([chan EXCEPT ![Peer] = Tail(@)], Peer, <<>>)
  BY DEF HandlePermissionUpdate, Receives, Msg, Consume
<1>3. conn[Peer]
  BY <1>1, <1>2 DEF RolesInv, QueuesClosed
<1>4. /\ \A i \in Nodes : ~conn[i] => chan'[i] = chan[i]
      /\ chan'[Peer] = Tail(chan[Peer])
  BY <1>1, <1>2, <1>3 DEF Sent
<1>5. QueuesClosed'
  BY <1>2, <1>4 DEF RolesInv, QueuesClosed
<1>6. /\ EndUnderWay(chan[Peer]) => EndUnderWay(Tail(chan[Peer]))
      /\ RoleUnderWay(chan[Peer], role, myRole) => RoleUnderWay(Tail(chan[Peer]), role, myRole')
  BY <1>1, <1>2, RoleHandled DEF Announces
<1>7. RolesTold'
  BY <1>2, <1>4, <1>6 DEF RolesInv, RolesTold
<1> QED BY <1>5, <1>7 DEF RolesInv

\* What hooks send and handlers answer announces no role.
LEMMA TalkKeeps ==
  ASSUME RolesInv, SyncInv', NEW n \in Nodes, Talks(n) \/ Answers(n)
  PROVE  RolesInv'
<1>1. "permission_update" \notin HookTypes /\ "permission_update" \notin ReplyTypes
  BY DEF HookTypes, ReplyTypes
<1>2. CASE Talks(n)
  BY <1>1, <1>2, RoleFreeTypes, PostKeeps, NothingSent DEF Talks
<1>3. CASE Answers(n)
  <2>1. PICK replies : OfTypes(replies, ReplyTypes) /\ Consume(n, replies)
    BY <1>3 DEF Answers
  <2>4. PICK t \in HookTypes \cup ReplyTypes : Receives(n, t)
    BY <1>3 DEF Answers
  <2>2. t # "eof" /\ t # "permission_update"
    BY <2>4 DEF HookTypes, ReplyTypes
  <2>3. RoleFree(replies)
    BY <1>1, <2>1, RoleFreeTypes
  <2> QED BY <1>3, <2>1, <2>2, <2>3, <2>4, HandlerKeeps DEF Answers
<1> QED BY <1>2, <1>3

LEMMA ResyncKeeps ==
  ASSUME RolesInv, SyncInv', AsksForSnapshot \/ SendsSnapshot \/ HandleStateSnapshot
  PROVE  RolesInv'
<1>1. CASE AsksForSnapshot
  BY <1>1, PostKeeps, NodesFacts DEF AsksForSnapshot
<1>2. CASE SendsSnapshot
  <2>1. PICK E : /\ IsLevel(E)
                 /\ \/ Post(Host, chunksOf(E))
                    \/ Receives(Host, "resync") /\ Consume(Host, chunksOf(E))
    BY <1>2 DEF SendsSnapshot
  <2>2. RoleFree(chunksOf(E)) /\ UNCHANGED <<role, myRole, conn, link>>
    BY <1>2, <2>1, RoleFreeChunks DEF SendsSnapshot
  <2> QED BY <2>1, <2>2, PostKeeps, HandlerKeeps, NodesFacts
<1>3. CASE HandleStateSnapshot
  <2>1. /\ Receives(Peer, "chunk") /\ Consume(Peer, <<>>)
        /\ UNCHANGED <<role, myRole, conn, link>>
    BY <1>3 DEF HandleStateSnapshot, session
  <2>2. RoleFree(<<>>)
    BY NothingOfTypes, RoleFreeTypes
  <2> QED BY <2>1, <2>2, HandlerKeeps, NodesFacts
<1> QED BY <1>1, <1>2, <1>3

LEMMA RolesInit == Init => RolesInv
<1> SUFFICES ASSUME Init
             PROVE  RolesInv
  OBVIOUS
<1>1. SyncInv
  BY InitInv
<1>2. QueuesClosed /\ RolesTold
  BY NodesFacts DEF Init, QueuesClosed, RolesTold
<1> QED BY <1>1, <1>2 DEF RolesInv

LEMMA RolesStep == RolesInv /\ [Next]_vars => RolesInv'
<1> SUFFICES ASSUME RolesInv, [Next]_vars
             PROVE  RolesInv'
  OBVIOUS
<1>1. SyncInv' /\ StepKinds
  BY StepInv, EveryStep DEF RolesInv
<1> QED BY <1>1, TalkKeeps, ResyncKeeps, ConnectKeeps, DisconnectKeeps, LinkDownKeeps,
           setPeerRoleKeeps, HandlePermissionUpdateKeeps DEF StepKinds

(***************************************************************************)
(* In every session, after any mix of role changes, edits, locks, resyncs, *)
(* cuts and reconnections, the host's record of the peer's role and the    *)
(* role the peer goes by are the same as soon as no announcement and no    *)
(* end of the session is on its way: what a hook of the peer allows is     *)
(* what the host's handlers accept.                                        *)
(***************************************************************************)
THEOREM RolesAreAgreed == Spec => []RolesAgree
<1>1. RolesInv => RolesAgree
  BY DEF RolesInv, RolesTold, RolesAgree, EndUnderWay, RoleUnderWay, Announces
<1> QED BY <1>1, RolesInit, RolesStep, PTL DEF Spec

-----------------------------------------------------------------------------
(***************************************************************************)
(* The chunks on their way to the peer.  The inductive invariant says that *)
(* every chunk comes right behind its predecessor, in the queue or among   *)
(* what the peer has collected: half a snapshot of an earlier session is   *)
(* never continued.                                                        *)
(***************************************************************************)
\* s holds the chunks before m of m's snapshot.
Continues(s, m) ==
  \E D : /\ s = [total |-> m.total, got |-> m.index, entries |-> D]
         /\ IsLevel(D) /\ Cardinality(D) = m.index * ChunkSize /\ Below(D, m.entries)

\* Every chunk in q comes right after its predecessor, which is in q or, for
\* the first message of q, has been collected.
StreamOK(q, s) ==
  \A k \in DOMAIN q : q[k].type = "chunk" =>
    /\ ChunkOK(q[k])
    /\ q[k].index > 0 => IF k = 1 THEN Continues(s, q[k]) ELSE Follows(q[k - 1], q[k])

\* The chunks among msgs are whole snapshots.
WholeSnapshots(msgs) ==
  /\ \E S : msgs \in Seq(S)
  /\ \A k \in DOMAIN msgs : msgs[k].type = "chunk" =>
       /\ ChunkOK(msgs[k])
       /\ msgs[k].index > 0 => k > 1 /\ Follows(msgs[k - 1], msgs[k])

LEMMA StreamGrows ==
  ASSUME NEW S, NEW q \in Seq(S), NEW msgs, WholeSnapshots(msgs), NEW s, StreamOK(q, s)
  PROVE  StreamOK(q \o msgs, s)
<1>1. PICK T : msgs \in Seq(T)
  BY DEF WholeSnapshots
<1> DEFINE p == q \o msgs
<1>2. /\ Len(q) \in Nat /\ Len(msgs) \in Nat
      /\ DOMAIN p = 1..(Len(q) + Len(msgs))
      /\ DOMAIN q = 1..Len(q) /\ DOMAIN msgs = 1..Len(msgs)
      /\ \A k \in DOMAIN q : p[k] = q[k]
      /\ \A k \in 1..(Len(q) + Len(msgs)) : k > Len(q) => p[k] = msgs[k - Len(q)]
  BY <1>1
<1> HIDE DEF p
<1> SUFFICES ASSUME NEW k \in DOMAIN p, p[k].type = "chunk"
             PROVE  /\ ChunkOK(p[k])
                    /\ p[k].index > 0 =>
                         IF k = 1 THEN Continues(s, p[k]) ELSE Follows(p[k - 1], p[k])
  BY DEF StreamOK, p
<1>3. CASE k \in DOMAIN q
  <2>1. p[k] = q[k] /\ (k # 1 => p[k - 1] = q[k - 1])
    BY <1>2, <1>3
  <2> QED BY <1>3, <2>1 DEF StreamOK
<1>4. CASE k \notin DOMAIN q
  <2> DEFINE j == k - Len(q)
  <2>1. j \in DOMAIN msgs /\ p[k] = msgs[j] /\ (j > 1 => k # 1 /\ p[k - 1] = msgs[j - 1])
    BY <1>2, <1>4
  <2> HIDE DEF j
  <2> QED BY <2>1 DEF WholeSnapshots
<1> QED BY <1>3, <1>4

LEMMA StreamCut ==
  ASSUME NEW S, NEW q \in Seq(S), NEW k \in Nat, k <= Len(q), NEW e, e.type # "chunk",
         NEW s, StreamOK(q, s)
  PROVE  StreamOK(Append(SubSeq(q, 1, k), e), s)
<1> DEFINE p == Append(SubSeq(q, 1, k), e)
<1>1. /\ DOMAIN p = 1..(k + 1) /\ p[k + 1] = e
      /\ \A j \in 1..k : p[j] = q[j] /\ j \in DOMAIN q
  <2>1. SubSeq(q, 1, k) \in Seq(S) /\ Len(SubSeq(q, 1, k)) = k
    <3>1. \A i \in 1..k : q[i] \in S
      BY ElementOfSeq, LenProperties
    <3> QED BY <3>1, SubSeqProperties
  <2>2. \A j \in 1..k : SubSeq(q, 1, k)[j] = q[j] /\ j \in DOMAIN q
    BY LenProperties
  <2> QED BY <2>1, <2>2
<1> HIDE DEF p
<1> SUFFICES ASSUME NEW j \in DOMAIN p, p[j].type = "chunk"
             PROVE  /\ ChunkOK(p[j])
                    /\ p[j].index > 0 =>
                         IF j = 1 THEN Continues(s, p[j]) ELSE Follows(p[j - 1], p[j])
  BY DEF StreamOK, p
<1>2. j \in 1..k
  BY <1>1
<1>3. p[j] = q[j] /\ j \in DOMAIN q /\ (j # 1 => p[j - 1] = q[j - 1])
  BY <1>1, <1>2
<1> QED BY <1>3 DEF StreamOK

\* The rest of a queue.
LEMMA TailOfQueue ==
  ASSUME NEW S, NEW q \in Seq(S), q # <<>>
  PROVE  /\ 1 \in DOMAIN q
         /\ \A k \in DOMAIN Tail(q) :
              k \in Nat /\ k >= 1 /\ k + 1 \in DOMAIN q /\ Tail(q)[k] = q[k + 1]
         /\ \A k \in DOMAIN Tail(q) : k # 1 => k - 1 \in DOMAIN Tail(q)
<1>1. /\ Len(q) \in Nat /\ Len(q) > 0 /\ DOMAIN q = 1..Len(q)
      /\ DOMAIN Tail(q) = 1..(Len(q) - 1)
      /\ \A k \in 1..(Len(q) - 1) : Tail(q)[k] = q[k + 1]
  OBVIOUS
<1> QED BY <1>1

LEMMA StreamTaken ==
  ASSUME NEW S, NEW q \in Seq(S), q # <<>>, NEW s, StreamOK(q, s), NEW s2,
         q[1].type = "chunk" =>
           \A m : Follows(q[1], m) /\ m.type = "chunk" /\ ChunkOK(m) => Continues(s2, m)
  PROVE  StreamOK(Tail(q), s2)
<1> DEFINE t == Tail(q)
<1>1. /\ 1 \in DOMAIN q
      /\ \A k \in DOMAIN t : k \in Nat /\ k >= 1 /\ k + 1 \in DOMAIN q /\ t[k] = q[k + 1]
      /\ \A k \in DOMAIN t : k # 1 => k - 1 \in DOMAIN t
  BY TailOfQueue
<1> HIDE DEF t
<1> SUFFICES ASSUME NEW k \in DOMAIN t, t[k].type = "chunk"
             PROVE  /\ ChunkOK(t[k])
                    /\ t[k].index > 0 =>
                         IF k = 1 THEN Continues(s2, t[k]) ELSE Follows(t[k - 1], t[k])
  BY DEF StreamOK, t
<1>2. k \in Nat /\ k + 1 \in DOMAIN q /\ t[k] = q[k + 1] /\ k + 1 # 1 /\ (k + 1) - 1 = k
  BY <1>1
<1>3. ChunkOK(t[k]) /\ (t[k].index > 0 => Follows(q[k], t[k]))
  BY <1>2 DEF StreamOK
<1>4. CASE k = 1
  BY <1>3, <1>4 DEF Follows
<1>5. CASE k # 1
  <2>1. t[k - 1] = q[k]
    BY <1>1, <1>2, <1>5
  <2> QED BY <1>3, <1>5, <2>1
<1> QED BY <1>4, <1>5

\* What the peer has collected with the chunk it handles.
LEMMA ChunkCollected ==
  ASSUME NEW S, chan[Peer] \in Seq(S), StreamOK(chan[Peer], snap),
         Receives(Peer, "chunk"), Msg(Peer).entries # {}
  PROVE  LET m == Msg(Peer)
             c == collected(m)
         IN /\ c = [total |-> m.total, got |-> m.index + 1, entries |-> c.entries]
            /\ IsLevel(c.entries) /\ m.entries \subseteq c.entries
            /\ Cardinality(c.entries) = m.index * ChunkSize + Cardinality(m.entries)
            /\ \A next : Follows(m, next) /\ ChunkOK(next) => Below(c.entries, next.entries)
<1> DEFINE m == Msg(Peer)
           c == collected(m)
           n == Cardinality(m.entries)
<1>1. /\ chan[Peer] # <<>> /\ m = chan[Peer][1] /\ m.type = "chunk"
      /\ 1 \in DOMAIN chan[Peer]
  BY TailOfQueue DEF Receives, Msg
<1>2. ChunkOK(m) /\ (m.index > 0 => Continues(snap, m))
  BY <1>1 DEF StreamOK
<1> HIDE DEF m
<1>3. /\ m.index \in Nat /\ n \in 1..ChunkSize /\ IsLevel(m.entries) /\ IsFiniteSet(m.entries)
      /\ ChunkSize \in Nat \ {0} /\ m.entries # {}
  BY <1>2, SyncAssumption DEF ChunkOK, IsLevel, m
<1>4. CASE m.index = 0
  <2>1. c = [total |-> m.total, got |-> m.index + 1, entries |-> m.entries]
    BY <1>4 DEF collected
  <2>2. m.index * ChunkSize + n = n
    BY <1>3, <1>4
  <2> HIDE DEF c, n
  <2> QED BY <1>3, <2>1, <2>2 DEF c, n, m, Follows
<1>5. CASE m.index # 0
  <2>1. PICK D : /\ snap = [total |-> m.total, got |-> m.index, entries |-> D]
                 /\ IsLevel(D) /\ Cardinality(D) = m.index * ChunkSize /\ Below(D, m.entries)
    BY <1>2, <1>3, <1>5 DEF Continues
  <2>2. c = [total |-> m.total, got |-> m.index + 1, entries |-> D \cup m.entries]
    BY <1>5, <2>1 DEF collected
  <2>3. /\ \A e \in D : e.id \in Nat
        /\ \A e \in m.entries : e.id \in Nat
        /\ \A e \in D, d \in m.entries : e.id < d.id
    BY <1>3, <2>1 DEF IsLevel, Below
  <2>4. IsLevel(D \cup m.entries)
    <3>1. IsFiniteSet(D \cup m.entries)
      BY <1>3, <2>1, FS_Union DEF IsLevel
    <3>2. \A e, d \in D \cup m.entries : e.id = d.id => e = d
      BY <1>3, <2>1, <2>3 DEF IsLevel
    <3> QED BY <2>3, <3>1, <3>2 DEF IsLevel
  <2>5. Cardinality(D \cup m.entries) = m.index * ChunkSize + n
    <3>1. D \cap m.entries = {}
      BY <2>3
    <3>2. Cardinality(D \cup m.entries) = Cardinality(D) + n - Cardinality(D \cap m.entries)
      BY <1>3, <2>1, FS_Union DEF IsLevel
    <3>3. m.index * ChunkSize \in Nat
      BY <1>3
    <3>4. Cardinality(D \cap m.entries) = 0
      BY <3>1, FS_EmptySet
    <3> HIDE DEF n
    <3> QED BY <1>3, <2>1, <3>2, <3>3, <3>4
  <2>6. ASSUME NEW next, Follows(m, next), ChunkOK(next)
        PROVE  Below(D \cup m.entries, next.entries)
    <3>1. PICK x : x \in m.entries
      BY <1>3
    <3>2. ASSUME NEW e \in D, NEW f \in next.entries
          PROVE  e.id < f.id
      <4>1. e.id < x.id /\ x.id < f.id
        BY <2>3, <2>6, <3>1 DEF Follows, Below
      <4>2. e.id \in Nat /\ x.id \in Nat /\ f.id \in Nat
        BY <2>3, <2>6, <3>1 DEF ChunkOK, IsLevel
      <4> QED BY <4>1, <4>2
    <3> QED BY <2>6, <3>2 DEF Below, Follows
  <2> HIDE DEF c, n
  <2>7. c.entries = D \cup m.entries
    BY <2>2
  <2>8. /\ c = [total |-> m.total, got |-> m.index + 1, entries |-> c.entries]
        /\ IsLevel(c.entries) /\ m.entries \subseteq c.entries
        /\ Cardinality(c.entries) = m.index * ChunkSize + n
        /\ \A next : Follows(m, next) /\ ChunkOK(next) => Below(c.entries, next.entries)
    BY <2>2, <2>4, <2>5, <2>6, <2>7
  <2> QED BY <2>8 DEF c, n, m
<1> HIDE DEF c, n
<1> QED BY <1>4, <1>5 DEF c, n, m

\* Handling a chunk leaves the rest of the queue in order.
LEMMA ChunkHandled ==
  ASSUME NEW S, chan[Peer] \in Seq(S), StreamOK(chan[Peer], snap), HandleStateSnapshot
  PROVE  StreamOK(Tail(chan[Peer]), snap')
<1> DEFINE q == chan[Peer]
           m == Msg(Peer)
           c == collected(m)
<1>1. /\ q # <<>> /\ m = q[1] /\ m.type = "chunk" /\ 1 \in DOMAIN q
      /\ Receives(Peer, "chunk")
  BY TailOfQueue DEF HandleStateSnapshot, Receives, Msg
<1>2. ChunkOK(m)
  BY <1>1 DEF StreamOK
<1>3. \/ m.entries = {} /\ snap' = snap
      \/ m.entries # {} /\ c.got = c.total
      \/ m.entries # {} /\ snap' = c
  BY DEF HandleStateSnapshot
<1>4. m.entries # {} =>
        /\ c = [total |-> m.total, got |-> m.index + 1, entries |-> c.entries]
        /\ IsLevel(c.entries) /\ m.entries \subseteq c.entries
        /\ Cardinality(c.entries) = m.index * ChunkSize + Cardinality(m.entries)
        /\ \A next : Follows(m, next) /\ ChunkOK(next) => Below(c.entries, next.entries)
  BY <1>1, ChunkCollected
<1> HIDE DEF m, c
<1>5. ASSUME NEW next, Follows(m, next), ChunkOK(next)
      PROVE  Continues(snap', next)
  <2>1. /\ m.index \in Nat /\ next.index = m.index + 1 /\ next.total = m.total
        /\ m.total \in Nat /\ m.index < m.total - 1
    BY <1>2, <1>5 DEF Follows, ChunkOK
  <2>2. m.entries # {}
    BY <1>2, <2>1 DEF ChunkOK
  <2>3. c.got = m.index + 1 /\ c.total = m.total
    BY <1>4, <2>2
  <2>4. snap' = c
    BY <1>3, <2>1, <2>2, <2>3
  <2>5. Cardinality(c.entries) = next.index * ChunkSize
    <3>1. ChunkSize \in Nat /\ Cardinality(m.entries) = ChunkSize
      BY <1>2, <2>1, SyncAssumption DEF ChunkOK
    <3> QED BY <1>4, <2>1, <2>2, <3>1
  <2> QED BY <1>4, <1>5, <2>1, <2>2, <2>4, <2>5 DEF Continues
<1> QED BY <1>1, <1>5, StreamTaken

\* A content that no fingerprint is of has no likely id.
LEMMA UnlikeAll ==
  ASSUME NEW r, RegistryOK(r), NEW c \in Contents, \A i \in DOMAIN r.fps : r.fps[i] # Fp(c)
  PROVE  findLikelyNetworkId(r, Fp(c)) = INVALID_OBJECT_ID
<1> DEFINE fp == Fp(c)
           sameKind == {i \in DOMAIN r.fps : sameObjectId(fp, r.fps[i])}
           sameText == {i \in sameKind : fp.text # 0 /\ fp.text = r.fps[i].text}
           sameSpot == {i \in sameKind : transformMatches(fp, r.fps[i])}
<1>1. ASSUME NEW i \in DOMAIN r.fps
      PROVE  fp.text # r.fps[i].text /\ ~transformMatches(fp, r.fps[i])
  <2>1. r.fps[i] \in Prints
    BY DEF RegistryOK, IsRegistry, IsMap
  <2>2. PICK d \in Contents : r.fps[i] = Fp(d)
    BY <2>1, SyncAssumption
  <2>3. c # d /\ c \in Nat /\ d \in Nat
    BY <2>2, SyncAssumption
  <2>4. Fp(c).text = c /\ Fp(d).text = d /\ Fp(c).at = c /\ Fp(d).at = d
    BY DEF Fp
  <2>5. c - d # 0 /\ Tolerance = 0
    BY <2>3, SyncAssumption
  <2>6. c - d \notin (-Tolerance)..Tolerance
    BY <2>3, <2>5
  <2> QED BY <2>2, <2>3, <2>4, <2>6 DEF transformMatches
<1>2. sameText = {} /\ sameSpot = {}
  BY <1>1
<1>3. Only({}) = INVALID_OBJECT_ID
  BY DEF Only
<1> QED BY <1>2, <1>3 DEF findLikelyNetworkId

\* What bindAll makes of the two maps.
LEMMA BoundMaps ==
  ASSUME NEW r, RegistryOK(r), NEW D, NEW f, Bindable(r, D, f)
  PROVE  /\ DOMAIN bindAll(r, f).byId = DOMAIN r.byId \cup {f[o] : o \in D}
         /\ DOMAIN bindAll(r, f).byPtr = {p \in DOMAIN r.byPtr : r.byPtr[p] \notin {f[o] : o \in D}} \cup D
<1>1. DOMAIN f = D /\ "byId" \in DOMAIN r /\ "byPtr" \in DOMAIN r
  BY DEF Bindable, RegistryOK, IsRegistry
<1> QED BY <1>1 DEF bindAll

LEMMA ChunkEntries ==
  ASSUME NEW n \in Nodes, NEW m \in Inboxes[n], m.type = "chunk"
  PROVE  m.entries \subseteq Entries(HandedOut)
<1>1. m \in Messages /\ {e.id : e \in m.entries} \subseteq HandedOut
  BY DEF Inboxes, IdsIn
<1>2. m.entries \subseteq Entries(ProperIds)
  BY <1>1 DEF Messages
<1> QED BY <1>1, <1>2 DEF Entries

\* A level has as many entries as ids.
LEMMA AsManyIds ==
  ASSUME NEW E, IsLevel(E)
  PROVE  Cardinality({e.id : e \in E}) = Cardinality(E)
<1> DEFINE ids == {e.id : e \in E}
           f == [e \in E |-> e.id]
<1>1. f \in Surjection(E, ids) /\ f \in Injection(E, ids)
  BY DEF IsLevel, Surjection, Injection, IsInjective
<1> HIDE DEF ids, f
<1>2. Cardinality(ids) = Cardinality(E)
  BY <1>1, FS_Surjection DEF IsLevel
<1> QED BY <1>2 DEF ids

\* With every registered object alive and none without an id in its likeness,
\* applying a snapshot makes the level the snapshot.
LEMMA SnapshotRebuilds ==
  ASSUME SyncInv, NEW entries \in SUBSET Entries(HandedOut), IsLevel(entries),
         applyStateSnapshot(entries), SoundPeer
  PROVE  /\ Unsynced(Peer)' = {}
         /\ DOMAIN reg'[Peer].byId = {e.id : e \in entries}
         /\ \A e \in entries : e.id \in DOMAIN Shared(Peer)' /\ Shared(Peer)'[e.id] = e.c
<1> DEFINE ids == {e.id : e \in entries}
           contentOf(i) == (CHOOSE e \in entries : e.id = i).c
           kept == retain(reg[Peer], ids)
           gone == {o \in Live(Peer) : findNetworkId(reg[Peer], o) \notin ids}
           claims(o) == findLikelyNetworkId(kept, Fp(obj[Peer][o]))
<1>1. PICK thief \in SUBSET Unsynced(Peer) :
        /\ \A o \in thief : claims(o) # INVALID_OBJECT_ID
        /\ \A o \in Unsynced(Peer) : claims(o) # INVALID_OBJECT_ID =>
             Cardinality({p \in thief : claims(p) = claims(o)}) = 1
        /\ LET r == bindAll(kept, [o \in thief |-> claims(o)])
               missing == ids \ DOMAIN r.byId
           IN \E made \in [missing -> Heap[Peer] \ (Live(Peer) \ gone)] :
                /\ \A i, j \in missing : made[i] = made[j] => i = j
                /\ \A i \in missing : ~hasObject(r, made[i])
                /\ LET new == {made[i] : i \in missing}
                       idFor == [o \in new |-> CHOOSE i \in missing : made[i] = o]
                       final == bindAll(r, idFor)
                   IN /\ reg' = [reg EXCEPT ![Peer] = final]
                      /\ obj' = [obj EXCEPT ![Peer] =
                                   [o \in (Live(Peer) \ gone) \cup new |->
                                      IF hasObject(final, o) THEN contentOf(final.byPtr[o]) ELSE @[o]]]
        /\ sel' = [sel EXCEPT ![Peer] = @ \ gone]
        /\ base' = [base EXCEPT ![Peer] = Without(@, Unsynced(Peer))]
        /\ held' = [held EXCEPT ![Peer] = {}]
  BY DEF applyStateSnapshot
<1> DEFINE taken == [o \in thief |-> claims(o)]
           r == bindAll(kept, taken)
           missing == ids \ DOMAIN r.byId
<1>2. PICK made \in [missing -> Heap[Peer] \ (Live(Peer) \ gone)] :
        /\ \A i, j \in missing : made[i] = made[j] => i = j
        /\ \A i \in missing : ~hasObject(r, made[i])
        /\ LET new == {made[i] : i \in missing}
               idFor == [o \in new |-> CHOOSE i \in missing : made[i] = o]
               final == bindAll(r, idFor)
           IN /\ reg' = [reg EXCEPT ![Peer] = final]
              /\ obj' = [obj EXCEPT ![Peer] =
                           [o \in (Live(Peer) \ gone) \cup new |->
                              IF hasObject(final, o) THEN contentOf(final.byPtr[o]) ELSE @[o]]]
  BY <1>1
<1> DEFINE new == {made[i] : i \in missing}
           idFor == [o \in new |-> CHOOSE i \in missing : made[i] = o]
           final == bindAll(r, idFor)
           level == [o \in (Live(Peer) \ gone) \cup new |->
                       IF hasObject(final, o) THEN contentOf(final.byPtr[o]) ELSE obj[Peer][o]]
<1>3. reg' = [reg EXCEPT ![Peer] = final] /\ obj' = [obj EXCEPT ![Peer] = level]
  BY <1>2
<1>4. /\ sel' = [sel EXCEPT ![Peer] = sel[Peer] \ gone]
      /\ base' = [base EXCEPT ![Peer] = Without(base[Peer], Unsynced(Peer))]
      /\ held' = [held EXCEPT ![Peer] = {}]
  BY <1>1
<1>5. /\ ids \subseteq NetIds /\ INVALID_OBJECT_ID \notin ids
      /\ \A e \in entries : e.id \in ids /\ contentOf(e.id) = e.c
  <2>1. \A e \in entries : e.id \in HandedOut
    BY DEF Entries
  <2>2. ASSUME NEW e \in entries
        PROVE  (CHOOSE d \in entries : d.id = e.id) = e
    BY DEF IsLevel
  <2>3. HandedOut \subseteq NetIds /\ INVALID_OBJECT_ID \notin NetIds
    BY HandedOutProper, ProperAreNetIds DEF SyncInv, NetIds
  <2>4. \A e \in entries : e.id \in ids /\ contentOf(e.id) = e.c
    BY <2>2
  <2>5. \A i \in ids : i \in HandedOut
    BY <2>1
  <2> HIDE DEF ids, contentOf
  <2> QED BY <2>3, <2>4, <2>5
<1>6. /\ RegistryOK(reg[Peer]) /\ IsMap(obj[Peer], Heap[Peer], Contents) /\ Heap[Peer] \subseteq Ptrs
      /\ reg = [n \in Nodes |-> reg[n]] /\ obj = [n \in Nodes |-> obj[n]]
  BY InvFacts, NodesFacts DEF EditorsOK, RegsOK, SyncInv
<1>7. \A o \in Live(Peer) : o \in gone <=> findNetworkId(reg[Peer], o) \notin ids
  OBVIOUS
<1> HIDE DEF ids, contentOf, gone
<1>8. /\ RegistryOK(kept) /\ DOMAIN kept.byId = DOMAIN reg[Peer].byId \cap ids
      /\ DOMAIN kept.byPtr = {o \in DOMAIN reg[Peer].byPtr : reg[Peer].byPtr[o] \in ids}
      /\ DOMAIN kept.fps \subseteq DOMAIN reg[Peer].fps
      /\ \A i \in DOMAIN kept.fps : kept.fps[i] = reg[Peer].fps[i]
  <2>1. RegistryOK(kept)
    BY <1>6, RetainOK
  <2>2. DOMAIN reg[Peer] = {"byId", "byPtr", "fps", "nextId"}
    BY <1>6 DEF RegistryOK, IsRegistry
  <2>3. /\ kept.byId = Without(reg[Peer].byId, DOMAIN reg[Peer].byId \ ids)
        /\ kept.byPtr = Without(reg[Peer].byPtr, {o \in DOMAIN reg[Peer].byPtr : reg[Peer].byPtr[o] \notin ids})
        /\ kept.fps = Without(reg[Peer].fps, DOMAIN reg[Peer].fps \ ids)
    BY <2>2 DEF retain
  <2> HIDE DEF kept
  <2> QED BY <2>1, <2>3 DEF Without
<1> HIDE DEF kept
\* No removal hook takes an id with it.
<1>9. thief = {}
  <2>1. ASSUME NEW o \in Unsynced(Peer)
        PROVE  claims(o) = INVALID_OBJECT_ID
    <3>1. obj[Peer][o] \in Contents
      BY <1>6 DEF Unsynced, IsMap, Live
    <3>2. \A i \in DOMAIN kept.fps : kept.fps[i] # Fp(obj[Peer][o])
      BY <1>8 DEF SoundPeer
    <3> QED BY <1>8, <3>1, <3>2, UnlikeAll
  <2> HIDE DEF claims
  <2> QED BY <1>1, <2>1
<1>10. /\ RegistryOK(r) /\ DOMAIN r.byId = DOMAIN kept.byId
       /\ DOMAIN r.byPtr = DOMAIN kept.byPtr
  <2>1. taken \in [{} -> NetIds] /\ \A o, p \in {} : taken[o] = taken[p] => o = p
    BY <1>9
  <2>2. Bindable(kept, {}, taken)
    <3> HIDE DEF taken
    <3> QED BY <1>8, <2>1 DEF Bindable
  <2> HIDE DEF taken, claims
  <2>3. RegistryOK(bindAll(kept, taken))
    BY <2>2, BindableBound DEF BoundTo
  <2>4. /\ DOMAIN bindAll(kept, taken).byId = DOMAIN kept.byId \cup {taken[o] : o \in {}}
        /\ DOMAIN bindAll(kept, taken).byPtr =
             {p \in DOMAIN kept.byPtr : kept.byPtr[p] \notin {taken[o] : o \in {}}} \cup {}
    BY <1>8, <2>2, BoundMaps
  <2> QED BY <2>3, <2>4
<1> HIDE DEF claims, taken, r
<1>11. /\ RegistryOK(final) /\ DOMAIN final.byId = ids
       /\ DOMAIN final.byPtr = DOMAIN r.byPtr \cup new
  <2>1. ASSUME NEW o \in new
        PROVE  idFor[o] \in missing /\ made[idFor[o]] = o
    <3>1. \E i \in missing : made[i] = o
      OBVIOUS
    <3> QED BY <3>1
  <2>2. new \in SUBSET Ptrs /\ new \cap DOMAIN r.byPtr = {}
    BY <1>2, <1>6 DEF hasObject
  <2>3. missing \subseteq ids /\ missing \subseteq NetIds /\ missing = ids \ DOMAIN r.byId
    BY <1>5
  <2>4. ASSUME NEW i \in missing
        PROVE  made[i] \in new /\ idFor[made[i]] = i
    <3>1. made[i] \in new
      OBVIOUS
    <3>2. idFor[made[i]] \in missing /\ made[idFor[made[i]]] = made[i]
      BY <2>1, <3>1
    <3> QED BY <1>2, <3>1, <3>2
  <2>5. idFor = [o \in new |-> idFor[o]]
    OBVIOUS
  <2> HIDE DEF new, idFor, missing
  <2>6. idFor \in [new -> NetIds] /\ \A o, p \in new : idFor[o] = idFor[p] => o = p
    BY <2>1, <2>3, <2>5
  <2>7. {idFor[o] : o \in new} = missing
    BY <2>1, <2>4
  <2>8. Bindable(r, new, idFor)
    BY <1>10, <2>2, <2>6 DEF Bindable
  <2>9. RegistryOK(bindAll(r, idFor))
    BY <2>8, BindableBound DEF BoundTo
  <2>10. /\ DOMAIN bindAll(r, idFor).byId = DOMAIN r.byId \cup {idFor[o] : o \in new}
         /\ DOMAIN bindAll(r, idFor).byPtr =
              {p \in DOMAIN r.byPtr : r.byPtr[p] \notin {idFor[o] : o \in new}} \cup new
    BY <1>10, <2>8, BoundMaps
  <2>11. \A p \in DOMAIN r.byPtr : r.byPtr[p] \in DOMAIN r.byId
    BY <1>10 DEF RegistryOK, IsInverse, hasNetworkId
  <2>12. DOMAIN r.byId \subseteq ids
    BY <1>8, <1>10
  <2>13. DOMAIN bindAll(r, idFor).byId = ids
    BY <2>3, <2>7, <2>10, <2>12
  <2>14. \A p \in DOMAIN r.byPtr : r.byPtr[p] \notin missing
    BY <2>3, <2>11
  <2>15. DOMAIN bindAll(r, idFor).byPtr = DOMAIN r.byPtr \cup new
    BY <2>7, <2>10, <2>14
  <2> QED BY <2>9, <2>13, <2>15
<1> HIDE DEF new, idFor, final
\* The objects of the level are those the registry knows.
<1>12. DOMAIN level = DOMAIN final.byPtr
  <2>1. ASSUME NEW o \in DOMAIN reg[Peer].byPtr
        PROVE  o \in Live(Peer)
    <3>1. reg[Peer].byPtr[o] \in DOMAIN reg[Peer].byId /\ reg[Peer].byId[reg[Peer].byPtr[o]] = o
      BY <1>6 DEF RegistryOK, IsInverse, hasNetworkId
    <3> QED BY <3>1 DEF SoundPeer
  <2>2. \A o : o \in Live(Peer) \ gone <=> o \in DOMAIN kept.byPtr
    BY <1>5, <1>7, <1>8, <2>1 DEF findNetworkId, hasObject
  <2> QED BY <1>10, <1>11, <2>2
<1>13. \A o \in DOMAIN level : level[o] = contentOf(final.byPtr[o])
  BY <1>12 DEF hasObject
<1>14. reg'[Peer] = final /\ obj'[Peer] = level
  BY <1>3, <1>6, NodesFacts
<1> HIDE DEF level
<1>15. Unsynced(Peer)' = {}
  BY <1>12, <1>14 DEF Unsynced, Live, hasObject
<1>16. DOMAIN reg'[Peer].byId = ids
  BY <1>11, <1>14
<1>17. ASSUME NEW e \in entries
       PROVE  e.id \in DOMAIN Shared(Peer)' /\ Shared(Peer)'[e.id] = e.c
  <2> DEFINE p == final.byId[e.id]
  <2>1. p \in DOMAIN level /\ final.byPtr[p] = e.id /\ e.id \in DOMAIN final.byId
    BY <1>5, <1>11, <1>12 DEF RegistryOK, IsInverse, hasObject
  <2>2. level[p] = e.c
    BY <1>5, <1>13, <2>1
  <2> QED BY <1>14, <2>1, <2>2 DEF Shared, Live
<1> QED BY <1>15, <1>16, <1>17 DEF ids

-----------------------------------------------------------------------------
(***************************************************************************)
(* The stream of chunks through every step.                                *)
(***************************************************************************)
SnapshotInv == SyncInv /\ StreamOK(chan[Peer], snap)

LEMMA NoChunkAmong ==
  ASSUME NEW T, "chunk" \notin T, NEW msgs, OfTypes(msgs, T)
  PROVE  WholeSnapshots(msgs)
<1>1. PICK S : msgs \in Seq(S) /\ \A m \in S : m.type \in T
  BY Zenon DEF OfTypes
<1>2. \A k \in DOMAIN msgs : msgs[k].type # "chunk"
  <2>1. \A k \in DOMAIN msgs : msgs[k] \in S
    BY <1>1
  <2> QED BY <1>1, <2>1
<1> QED BY <1>1, <1>2 DEF WholeSnapshots

LEMMA ChunksAreWhole ==
  ASSUME NEW E, IsLevel(E)
  PROVE  WholeSnapshots(chunksOf(E))
<1> DEFINE chunks == chunksOf(E)
           total == ChunkTotal(E)
<1>1. /\ total \in Nat \ {0} /\ (\E S : chunks \in Seq(S)) /\ DOMAIN chunks = 1..total
      /\ \A k \in 1..total :
           /\ chunks[k].index = k - 1 /\ ChunkOK(chunks[k])
           /\ k > 1 => Follows(chunks[k - 1], chunks[k])
  BY ChunksCut
<1> HIDE DEF chunks, total
<1>2. \A k \in 1..total : k - 1 > 0 => k > 1
  BY <1>1
<1>3. WholeSnapshots(chunks)
  BY <1>1, <1>2 DEF WholeSnapshots
<1> QED BY <1>3 DEF chunks

\* Client n sends whole snapshots or none.
LEMMA StreamPosted ==
  ASSUME SnapshotInv, NEW n \in Nodes, NEW msgs, WholeSnapshots(msgs), Post(n, msgs), snap' = snap
  PROVE  StreamOK(chan'[Peer], snap')
<1>1. /\ chan = [i \in Nodes |-> chan[i]] /\ chan[Peer] \in Seq(Inboxes[Peer])
      /\ (n = Host => Other(n) = Peer) /\ (n = Peer => Other(n) = Host)
      /\ Host # Peer /\ Host \in Nodes /\ Peer \in Nodes /\ (n = Host \/ n = Peer)
  BY Queues, NodesFacts DEF SnapshotInv
<1>2. chan'[Peer] = chan[Peer] \/ chan'[Peer] = chan[Peer] \o msgs
  BY <1>1 DEF Post, Sent
<1>3. StreamOK(chan[Peer] \o msgs, snap)
  BY <1>1, StreamGrows DEF SnapshotInv
<1> QED BY <1>2, <1>3 DEF SnapshotInv

\* Client n handles a message that is no chunk.
LEMMA StreamConsumed ==
  ASSUME SnapshotInv, NEW n \in Nodes, NEW t, t # "chunk", Receives(n, t),
         NEW replies, WholeSnapshots(replies), Consume(n, replies), snap' = snap
  PROVE  StreamOK(chan'[Peer], snap')
<1>1. /\ chan = [i \in Nodes |-> chan[i]] /\ chan[Peer] \in Seq(Inboxes[Peer])
      /\ (n = Host => Other(n) = Peer) /\ (n = Peer => Other(n) = Host)
      /\ Host # Peer /\ Host \in Nodes /\ Peer \in Nodes /\ (n = Host \/ n = Peer)
  BY Queues, NodesFacts DEF SnapshotInv
<1>2. CASE n = Host
  <2>1. chan'[Peer] = chan[Peer] \/ chan'[Peer] = chan[Peer] \o replies
    BY <1>1, <1>2 DEF Consume, Sent
  <2>2. StreamOK(chan[Peer] \o replies, snap)
    BY <1>1, StreamGrows DEF SnapshotInv
  <2> QED BY <2>1, <2>2 DEF SnapshotInv
<1>3. CASE n = Peer
  <2>1. chan'[Peer] = Tail(chan[Peer]) /\ chan[Peer] # <<>> /\ chan[Peer][1].type # "chunk"
    BY <1>1, <1>3 DEF Consume, Sent, Receives, Msg
  <2> QED BY <1>1, <2>1, StreamTaken DEF SnapshotInv
<1> QED BY <1>1, <1>2, <1>3

LEMMA StreamCutOff ==
  ASSUME SnapshotInv, LinkDown
  PROVE  StreamOK(chan'[Peer], snap')
<1> DEFINE eof == [type |-> "eof"]
           longest == Len(chan[Host]) + Len(chan[Peer])
<1>1. PICK kept \in [Nodes -> 0..longest] :
        /\ \A n \in Nodes : kept[n] <= Len(chan[n])
        /\ chan' = [n \in Nodes |-> Append(SubSeq(chan[n], 1, kept[n]), eof)]
  BY DEF LinkDown
<1>2. /\ chan[Peer] \in Seq(Inboxes[Peer]) /\ chan[Host] \in Seq(Inboxes[Host])
      /\ Len(chan[Host]) \in Nat /\ Len(chan[Peer]) \in Nat
  BY Queues, NodesFacts, LenProperties DEF SnapshotInv
<1>3. kept[Peer] \in Nat /\ kept[Peer] <= Len(chan[Peer])
  <2>1. kept[Peer] \in 0..longest /\ kept[Peer] <= Len(chan[Peer])
    BY <1>1, NodesFacts
  <2> QED BY <1>2, <2>1
<1>4. eof.type # "chunk" /\ chan'[Peer] = Append(SubSeq(chan[Peer], 1, kept[Peer]), eof) /\ snap' = snap
  BY <1>1, NodesFacts DEF LinkDown
<1> HIDE DEF eof
<1> QED BY <1>2, <1>3, <1>4, StreamCut DEF SnapshotInv

\* A client that disconnects forgets its queue and sends the end.
LEMMA StreamEnds ==
  ASSUME SnapshotInv, NEW n \in Nodes, disconnect(n)
  PROVE  StreamOK(chan'[Peer], snap')
<1> DEFINE eof == [type |-> "eof"]
<1>1. /\ chan = [i \in Nodes |-> chan[i]] /\ chan[Peer] \in Seq(Inboxes[Peer])
      /\ (n = Host => Other(n) = Peer) /\ (n = Peer => Other(n) = Host)
      /\ Host # Peer /\ Host \in Nodes /\ Peer \in Nodes /\ (n = Host \/ n = Peer)
  BY Queues, NodesFacts DEF SnapshotInv
<1>2. chan' = Sent([chan EXCEPT ![n] = <<>>], n, <<eof>>) /\ snap' = snap
  BY DEF disconnect
<1>3. WholeSnapshots(<<eof>>)
  <2>1. OfTypes(<<eof>>, {"eof"})
    BY MessageOfTypes
  <2> HIDE DEF eof
  <2> QED BY <2>1, NoChunkAmong
<1> HIDE DEF eof
<1>4. StreamOK(<<>>, snap)
  BY DEF StreamOK
<1>5. StreamOK(chan[Peer] \o <<eof>>, snap)
  BY <1>1, <1>3, StreamGrows DEF SnapshotInv
<1>6. chan'[Peer] = <<>> \/ chan'[Peer] = chan[Peer] \/ chan'[Peer] = chan[Peer] \o <<eof>>
  BY <1>1, <1>2 DEF Sent
<1> QED BY <1>2, <1>4, <1>5, <1>6 DEF SnapshotInv

LEMMA SnapshotStep == SnapshotInv /\ [Next]_vars => SnapshotInv'
<1> SUFFICES ASSUME SnapshotInv, [Next]_vars
             PROVE  SnapshotInv'
  OBVIOUS
<1>1. SyncInv' /\ StepKinds
  BY StepInv, EveryStep DEF SnapshotInv
<1>2. "chunk" \notin HookTypes /\ "chunk" \notin ReplyTypes
  BY DEF HookTypes, ReplyTypes
<1> SUFFICES StreamOK(chan'[Peer], snap')
  BY <1>1 DEF SnapshotInv
<1>3. ASSUME NEW n \in Nodes, Talks(n) \/ Answers(n)
      PROVE  StreamOK(chan'[Peer], snap')
  <2>1. CASE Talks(n)
    <3>1. CASE UNCHANGED chan
      BY <2>1, <3>1 DEF Talks, SnapshotInv
    <3>2. CASE \E msgs : OfTypes(msgs, HookTypes) /\ Post(n, msgs)
      BY <1>2, <2>1, <3>2, NoChunkAmong, StreamPosted DEF Talks
    <3> QED BY <2>1, <3>1, <3>2 DEF Talks
  <2>2. CASE Answers(n)
    <3>1. PICK replies : OfTypes(replies, ReplyTypes) /\ Consume(n, replies)
      BY <2>2 DEF Answers
    <3>2. PICK t \in HookTypes \cup ReplyTypes : Receives(n, t)
      BY <2>2 DEF Answers
    <3>3. t # "chunk" /\ WholeSnapshots(replies) /\ snap' = snap
      BY <1>2, <2>2, <3>1, <3>2, NoChunkAmong DEF Answers
    <3> QED BY <3>1, <3>2, <3>3, StreamConsumed
  <2> QED BY <1>3, <2>1, <2>2
<1>4. CASE AsksForSnapshot
  <2> DEFINE m == [type |-> "resync"]
  <2>1. Post(Peer, <<m>>) /\ snap' = snap /\ m.type \in {"resync"} /\ "chunk" \notin {"resync"}
    BY <1>4 DEF AsksForSnapshot
  <2> HIDE DEF m
  <2>2. WholeSnapshots(<<m>>)
    <3>1. OfTypes(<<m>>, {"resync"})
      BY <2>1, MessageOfTypes
    <3> QED BY <2>1, <3>1, NoChunkAmong
  <2> QED BY <2>1, <2>2, StreamPosted, NodesFacts
<1>5. CASE SendsSnapshot
  <2>1. PICK E : /\ IsLevel(E)
                 /\ \/ Post(Host, chunksOf(E))
                    \/ Receives(Host, "resync") /\ Consume(Host, chunksOf(E))
    BY <1>5 DEF SendsSnapshot
  <2>2. WholeSnapshots(chunksOf(E)) /\ snap' = snap
    BY <1>5, <2>1, ChunksAreWhole DEF SendsSnapshot
  <2> QED BY <2>1, <2>2, StreamPosted, StreamConsumed, NodesFacts
<1>6. CASE Connect
  BY <1>6 DEF Connect, SnapshotInv
<1>7. ASSUME NEW r, setPeerRole(r)
      PROVE  StreamOK(chan'[Peer], snap')
  <2> DEFINE m == [type |-> "permission_update", role |-> r]
  <2>1. Post(Host, <<m>>) /\ snap' = snap /\ m.type \in {"permission_update"}
    BY <1>7 DEF setPeerRole
  <2> HIDE DEF m
  <2>2. WholeSnapshots(<<m>>)
    <3>1. OfTypes(<<m>>, {"permission_update"})
      BY <2>1, MessageOfTypes
    <3> QED BY <3>1, NoChunkAmong
  <2> QED BY <2>1, <2>2, StreamPosted, NodesFacts
<1>8. CASE HandlePermissionUpdate
  <2>1. WholeSnapshots(<<>>)
    BY <1>2, NothingOfTypes, NoChunkAmong
  <2>2. Receives(Peer, "permission_update") /\ Consume(Peer, <<>>) /\ snap' = snap
    BY <1>8 DEF HandlePermissionUpdate
  <2> QED BY <2>1, <2>2, StreamConsumed, NodesFacts
<1>9. CASE HandleStateSnapshot
  <2>1. chan[Peer] \in Seq(Inboxes[Peer]) /\ chan = [i \in Nodes |-> chan[i]]
    BY Queues, NodesFacts DEF SnapshotInv
  <2>2. chan'[Peer] = Tail(chan[Peer])
    BY <1>9, <2>1, NodesFacts DEF HandleStateSnapshot, Consume, Sent
  <2> QED BY <1>9, <2>1, <2>2, ChunkHandled DEF SnapshotInv
<1> QED BY <1>1, <1>3, <1>4, <1>5, <1>6, <1>7, <1>8, <1>9, StreamCutOff, StreamEnds DEF StepKinds

\* What the last chunk leaves at the peer.
LEMMA LastChunkRebuilds ==
  ASSUME SnapshotInv, LastChunk, SoundPeer, Handle(Peer)
  PROVE  /\ Unsynced(Peer)' = {}
         /\ Cardinality(DOMAIN reg'[Peer].byId) - (Msg(Peer).total - 1) * ChunkSize \in 1..ChunkSize
         /\ \A e \in Msg(Peer).entries :
              e.id \in DOMAIN Shared(Peer)' /\ Shared(Peer)'[e.id] = e.c
<1> DEFINE m == Msg(Peer)
           c == collected(m)
           ids == {e.id : e \in c.entries}
<1>1. Receives(Peer, "chunk") /\ m.entries # {} /\ m.index = m.total - 1
  BY DEF LastChunk
<1>2. HandleStateSnapshot
  BY <1>1 DEF Handle, Receives, HandlePlaceObject, HandleDeleteObject, HandleCommitEdit,
       HandleUnlockObject, HandleEof, HandleLockReply, HandlePermissionUpdate, Host, Peer
<1>3. chan[Peer] \in Seq(Inboxes[Peer]) /\ m \in Inboxes[Peer] /\ 1 \in DOMAIN chan[Peer]
      /\ m = chan[Peer][1] /\ m.type = "chunk"
  BY <1>1, Queues, NodesFacts, ReceivedMessage, TailOfQueue DEF SnapshotInv, Receives, Msg
<1>4. ChunkOK(m)
  BY <1>3 DEF SnapshotInv, StreamOK
<1>5. /\ c = [total |-> m.total, got |-> m.index + 1, entries |-> c.entries]
      /\ IsLevel(c.entries) /\ m.entries \subseteq c.entries
      /\ Cardinality(c.entries) = m.index * ChunkSize + Cardinality(m.entries)
  BY <1>1, <1>3, ChunkCollected DEF SnapshotInv
<1>6. c.entries \in SUBSET Entries(HandedOut)
  <2>1. snap.entries \subseteq Entries(HandedOut) /\ "entries" \in DOMAIN snap
    BY DEF SnapshotInv, SyncInv, MailOK
  <2>2. m.entries \subseteq Entries(HandedOut)
    BY <1>3, ChunkEntries, NodesFacts
  <2>3. c.entries = m.entries \/ c.entries = snap.entries \cup m.entries
    BY <2>1 DEF collected
  <2> QED BY <2>1, <2>2, <2>3
<1>7. applyStateSnapshot(c.entries)
  <2>1. c.got = c.total
    <3> HIDE DEF c, m
    <3>1. c.got = m.index + 1 /\ c.total = m.total
      BY <1>5
    <3> QED BY <1>1, <1>4, <3>1 DEF ChunkOK
  <2> QED BY <1>1, <1>2, <2>1 DEF HandleStateSnapshot
<1> HIDE DEF c, m
<1>8. /\ Unsynced(Peer)' = {} /\ DOMAIN reg'[Peer].byId = ids
      /\ \A e \in c.entries : e.id \in DOMAIN Shared(Peer)' /\ Shared(Peer)'[e.id] = e.c
  BY <1>5, <1>6, <1>7, SnapshotRebuilds DEF SnapshotInv
<1>9. Cardinality(ids) = Cardinality(c.entries)
  BY <1>5, AsManyIds
<1>10. Cardinality(ids) - (m.total - 1) * ChunkSize \in 1..ChunkSize
  <2>1. Cardinality(m.entries) \in 1..ChunkSize /\ ChunkSize \in Nat
    BY <1>1, <1>4, SyncAssumption DEF ChunkOK
  <2>2. m.index * ChunkSize \in Nat
    BY <1>4, <2>1 DEF ChunkOK
  <2> QED BY <1>1, <1>5, <1>9, <2>1, <2>2
<1> HIDE DEF ids
<1> QED BY <1>5, <1>8, <1>10 DEF m

(***************************************************************************)
(* For every level, chunk size and history, the disconnections that leave  *)
(* a half-received snapshot behind included: when the last chunk of a      *)
(* snapshot is handled and every registered object is alive and none       *)
(* without an id looks like one of them, the peer's level is the snapshot, *)
(* as large as the chunks say, and no object without an id is left.        *)
(***************************************************************************)
THEOREM SnapshotsRebuild == Spec => SnapshotExact
<1>1. Init => SnapshotInv
  BY InitInv, NodesFacts DEF SnapshotInv, Init, StreamOK
<1>2. SnapshotInv /\ [Next]_vars =>
        [LastChunk /\ SoundPeer /\ Handle(Peer) =>
           /\ Unsynced(Peer)' = {}
           /\ Cardinality(DOMAIN reg'[Peer].byId) - (Msg(Peer).total - 1) * ChunkSize \in 1..ChunkSize
           /\ \A e \in Msg(Peer).entries :
                e.id \in DOMAIN Shared(Peer)' /\ Shared(Peer)'[e.id] = e.c]_vars
  BY LastChunkRebuilds
<1> QED BY <1>1, <1>2, SnapshotStep, PTL DEF Spec, SnapshotExact

-----------------------------------------------------------------------------
(***************************************************************************)
(* Every message on its way was there before the step, or is of a type     *)
(* that the step's kind sends.                                             *)
(***************************************************************************)
SentTypes == HookTypes \cup ReplyTypes \cup {"eof"}

NewMessage(m) ==
  \/ m.type \in SentTypes
  \/ m.type = "resync" /\ "resync" \in Ops[Peer]
  \/ m.type = "chunk" /\ ("resync" \in Ops[Host] \/ Receives(Host, "resync"))
  \/ m.type = "permission_update" /\ m.role \in GrantedRoles /\ "role" \in Ops[Host]

Among(q, m) == \E j \in DOMAIN q : q[j] = m

LEMMA AmongSent ==
  ASSUME SyncInv, NEW ch, ch = [n \in Nodes |-> ch[n]], NEW n \in Nodes, NEW S, NEW msgs \in Seq(S),
         NEW p \in Nodes, NEW T, ch[p] \in Seq(T),
         NEW k \in DOMAIN Sent(ch, n, msgs)[p]
  PROVE  \/ Sent(ch, n, msgs)[p][k] \in S
         \/ Among(ch[p], Sent(ch, n, msgs)[p][k])
<1> DEFINE q == Sent(ch, n, msgs)[p]
<1>1. CASE q = ch[p]
  BY <1>1 DEF Among
<1>2. CASE q = ch[p] \o msgs
  <2>1. DOMAIN q = 1..(Len(ch[p]) + Len(msgs)) /\ Len(ch[p]) \in Nat /\ Len(msgs) \in Nat
    BY <1>2, ConcatProperties, LenProperties
  <2>2. CASE k <= Len(ch[p])
    <3>1. k \in DOMAIN ch[p] /\ q[k] = ch[p][k]
      BY <1>2, <2>1, <2>2
    <3> QED BY <3>1 DEF Among
  <2>3. CASE k > Len(ch[p])
    <3>1. q[k] = msgs[k - Len(ch[p])] /\ k - Len(ch[p]) \in 1..Len(msgs)
      BY <1>2, <2>1, <2>3
    <3> QED BY <3>1
  <2> QED BY <2>1, <2>2, <2>3
<1>3. q = ch[p] \/ q = ch[p] \o msgs
  BY NodesFacts DEF Sent
<1> QED BY <1>1, <1>2, <1>3

LEMMA AmongTail ==
  ASSUME NEW S, NEW q \in Seq(S), q # <<>>
  PROVE  /\ Tail(q) \in Seq(S)
         /\ \A m : Among(Tail(q), m) => Among(q, m)
<1>1. Len(q) \in Nat /\ Len(q) > 0 /\ DOMAIN q = 1..Len(q)
  BY EmptySeq, LenProperties
<1>2. Tail(q) \in Seq(S) /\ DOMAIN Tail(q) = 1..(Len(q) - 1)
  BY <1>1, HeadTailProperties
<1>3. \A k \in 1..(Len(q) - 1) : Tail(q)[k] = q[k + 1] /\ k + 1 \in 1..Len(q)
  BY <1>1
<1> QED BY <1>1, <1>2, <1>3 DEF Among

LEMMA PrefixOfSeq ==
  ASSUME NEW S, NEW q \in Seq(S), NEW k \in Nat, k <= Len(q)
  PROVE  SubSeq(q, 1, k) \in Seq(S)
<1>1. \A i \in 1..k : q[i] \in S
  BY ElementOfSeq, LenProperties
<1> QED BY <1>1, SubSeqProperties

LEMMA NewMessages ==
  ASSUME SyncInv, SyncInv', [Next]_vars, NEW p \in Nodes, NEW k \in DOMAIN chan'[p]
  PROVE  Among(chan[p], chan'[p][k]) \/ NewMessage(chan'[p][k])
<1>1. StepKinds
  BY EveryStep
<1>2. chan = [n \in Nodes |-> chan[n]] /\ \A n \in Nodes : chan[n] \in Seq(Inboxes[n])
  BY Queues
<1>3. CASE UNCHANGED chan
  BY <1>3 DEF Among
<1> DEFINE m == chan'[p][k]
<1>4. ASSUME NEW n \in Nodes, NEW S, NEW msgs \in Seq(S), Post(n, msgs)
      PROVE  Among(chan[p], m) \/ m \in S
  BY <1>2, <1>4, AmongSent DEF Post
<1>5. ASSUME NEW n \in Nodes, NEW t, Receives(n, t), NEW S, NEW msgs \in Seq(S), Consume(n, msgs)
      PROVE  Among(chan[p], m) \/ m \in S
  <2> DEFINE ch == [chan EXCEPT ![n] = Tail(@)]
  <2>1. ch = [x \in Nodes |-> ch[x]] /\ chan[n] # <<>>
    BY <1>2, <1>5 DEF Receives
  <2>2. ch[p] \in Seq(Inboxes[p]) /\ \A x : Among(ch[p], x) => Among(chan[p], x)
    BY <1>2, <2>1, AmongTail
  <2>3. chan' = Sent(ch, n, msgs)
    BY <1>5 DEF Consume
  <2> HIDE DEF ch
  <2> QED BY <2>1, <2>2, <2>3, AmongSent
<1> HIDE DEF m
<1>6. ASSUME NEW T, NEW msgs, OfTypes(msgs, T)
      PROVE  \E S : msgs \in Seq(S) /\ \A x \in S : x.type \in T
  BY <1>6 DEF OfTypes
<1>7. CASE \E n \in Nodes : Talks(n)
  <2>1. PICK n \in Nodes : Talks(n)
    BY <1>7
  <2>2. CASE \E msgs : OfTypes(msgs, HookTypes) /\ Post(n, msgs)
    <3>1. PICK msgs : OfTypes(msgs, HookTypes) /\ Post(n, msgs)
      BY <2>2
    <3> QED BY <1>4, <1>6, <3>1 DEF m, NewMessage, SentTypes
  <2> QED BY <1>3, <2>1, <2>2 DEF Talks
<1>8. CASE \E n \in Nodes : Answers(n)
  <2>1. PICK n \in Nodes : Answers(n)
    BY <1>8
  <2>2. PICK t, replies : Receives(n, t) /\ OfTypes(replies, ReplyTypes) /\ Consume(n, replies)
    BY <2>1 DEF Answers
  <2> QED BY <1>5, <1>6, <2>2 DEF m, NewMessage, SentTypes
<1>9. CASE \E n \in Nodes : disconnect(n)
  <2>1. PICK n \in Nodes : disconnect(n)
    BY <1>9
  <2> DEFINE ch == [chan EXCEPT ![n] = <<>>]
             eof == [type |-> "eof"]
  <2>2. chan' = Sent(ch, n, <<eof>>) /\ eof.type = "eof"
    BY <2>1 DEF disconnect
  <2>3. ch = [x \in Nodes |-> ch[x]] /\ (ch[p] = chan[p] \/ ch[p] = <<>>)
    BY <1>2
  <2>4. <<eof>> \in Seq({eof})
    BY OneMessage
  <2> HIDE DEF ch, eof
  <2>5. ch[p] \in Seq(Inboxes[p]) /\ \A x : Among(ch[p], x) => Among(chan[p], x)
    <3>1. CASE ch[p] = chan[p]
      BY <1>2, <3>1
    <3>2. CASE ch[p] = <<>>
      <4>1. DOMAIN ch[p] = {}
        BY <3>2
      <4>2. ch[p] \in Seq(Inboxes[p])
        BY <3>2, EmptySeq
      <4> QED BY <4>1, <4>2 DEF Among
    <3> QED BY <2>3, <3>1, <3>2
  <2>6. Among(ch[p], m) \/ m \in {eof}
    BY <2>2, <2>3, <2>4, <2>5, AmongSent DEF m
  <2>7. m = eof => NewMessage(m)
    BY <2>2 DEF NewMessage, SentTypes
  <2> QED BY <2>5, <2>6, <2>7 DEF m
<1>10. CASE AsksForSnapshot
  <2> DEFINE ask == [type |-> "resync"]
  <2>1. Post(Peer, <<ask>>) /\ "resync" \in Ops[Peer] /\ ask.type = "resync"
    BY <1>10 DEF AsksForSnapshot
  <2>2. <<ask>> \in Seq({ask})
    BY OneMessage
  <2> HIDE DEF ask
  <2> QED BY <1>4, <2>1, <2>2, NodesFacts DEF m, NewMessage
<1>11. CASE SendsSnapshot
  <2>1. PICK E : /\ IsLevel(E)
                 /\ \/ "resync" \in Ops[Host] /\ Post(Host, chunksOf(E))
                    \/ Receives(Host, "resync") /\ Consume(Host, chunksOf(E))
    BY <1>11 DEF SendsSnapshot
  <2>2. PICK S : chunksOf(E) \in Seq(S) /\ \A x \in S : x.type = "chunk"
    <3>1. \A i \in DOMAIN chunksOf(E) : chunksOf(E)[i].type = "chunk"
      BY DEF chunksOf
    <3>2. chunksOf(E) \in Seq({chunksOf(E)[i] : i \in DOMAIN chunksOf(E)})
      BY <2>1, ChunksCut
    <3> QED BY <3>1, <3>2
  <2> QED BY <1>4, <1>5, <2>1, <2>2, NodesFacts DEF m, NewMessage
<1>12. CASE Connect \/ UNCHANGED vars
  BY <1>3, <1>12 DEF Connect, vars
<1>13. CASE LinkDown
  <2>1. PICK kept \in [Nodes -> 0..(Len(chan[Host]) + Len(chan[Peer]))] :
          /\ \A n \in Nodes : kept[n] <= Len(chan[n])
          /\ chan' = [n \in Nodes |-> Append(SubSeq(chan[n], 1, kept[n]), [type |-> "eof"])]
    BY <1>13 DEF LinkDown
  <2> DEFINE s == SubSeq(chan[p], 1, kept[p])
             eof == [type |-> "eof"]
  <2>2. kept[p] \in Nat /\ kept[p] <= Len(chan[p]) /\ Len(chan[p]) \in Nat
    <3>1. \A n \in Nodes : Len(chan[n]) \in Nat
      BY <1>2, LenProperties
    <3>2. Len(chan[Host]) \in Nat /\ Len(chan[Peer]) \in Nat
      BY <3>1, NodesFacts
    <3> DEFINE atHost == Len(chan[Host])
               atPeer == Len(chan[Peer])
               longest == atHost + atPeer
    <3>3. kept \in [Nodes -> 0..longest] /\ kept[p] <= Len(chan[p]) /\ Len(chan[p]) \in Nat
      BY <2>1, <3>1
    <3>4. atHost \in Nat /\ atPeer \in Nat
      BY <3>2
    <3> HIDE DEF atHost, atPeer
    <3> QED BY <3>3, <3>4
  <2>3. Len(s) = kept[p] /\ \A i \in 1..kept[p] : s[i] = chan[p][i] /\ i \in DOMAIN chan[p]
    BY <1>2, <2>2
  <2>4. s \in Seq(Inboxes[p])
    BY <1>2, <2>2, PrefixOfSeq
  <2>5. chan'[p] = Append(s, eof)
    BY <2>1
  <2>6. DOMAIN chan'[p] = 1..(kept[p] + 1) /\ chan'[p][kept[p] + 1] = eof
        /\ \A i \in 1..kept[p] : chan'[p][i] = s[i]
    BY <2>2, <2>3, <2>4, <2>5
  <2>7. eof.type = "eof"
    OBVIOUS
  <2> HIDE DEF s, eof
  <2>8. k = kept[p] + 1 \/ k \in 1..kept[p]
    BY <2>2, <2>6
  <2> QED BY <2>3, <2>6, <2>7, <2>8 DEF m, NewMessage, SentTypes, Among
<1>14. CASE \E r \in GrantedRoles : setPeerRole(r)
  <2>1. PICK r \in GrantedRoles : setPeerRole(r)
    BY <1>14
  <2> DEFINE told == [type |-> "permission_update", role |-> r]
  <2>2. Post(Host, <<told>>) /\ told.type = "permission_update" /\ told.role = r
      /\ "role" \in Ops[Host]
    BY <2>1 DEF setPeerRole, Acts
  <2>3. <<told>> \in Seq({told})
    BY OneMessage
  <2> HIDE DEF told
  <2> QED BY <1>4, <2>1, <2>2, <2>3, NodesFacts DEF m, NewMessage
<1>15. CASE HandlePermissionUpdate \/ HandleStateSnapshot
  <2>1. \E t : Receives(Peer, t) /\ Consume(Peer, <<>>)
    BY <1>15 DEF HandlePermissionUpdate, HandleStateSnapshot
  <2>2. <<>> \in Seq({})
    BY EmptySeq
  <2> QED BY <1>5, <2>1, <2>2, NodesFacts DEF m
<1> QED BY <1>1, <1>7, <1>8, <1>9, <1>10, <1>11, <1>12, <1>13, <1>14, <1>15 DEF StepKinds

-----------------------------------------------------------------------------
(***************************************************************************)
(* Which objects a registry can name after an operation.                   *)
(***************************************************************************)
Names(r, S) == \A i \in DOMAIN r.byId : r.byId[i] \in S

LEMMA BindNames ==
  ASSUME NEW r, RegistryOK(r), NEW S, Names(r, S), NEW id, NEW o \in S
  PROVE  Names(bindObject(r, id, o), S)
<1> DEFINE otherId == {i \in DOMAIN r.byId : hasObject(r, o) /\ i = r.byPtr[o] /\ i # id}
           f == With(Without(r.byId, otherId), id, o)
<1>1. bindObject(r, id, o).byId = f
  BY DEF bindObject, RegistryOK, IsRegistry
<1>2. \A i \in DOMAIN f : f[i] = o \/ (i \in DOMAIN r.byId /\ f[i] = r.byId[i])
  BY DEF With, Without
<1> HIDE DEF f
<1> QED BY <1>1, <1>2 DEF Names

LEMMA UpdateNames ==
  ASSUME NEW r, RegistryOK(r), NEW id, NEW fp
  PROVE  updateFingerprint(r, id, fp).byId = r.byId
  BY DEF updateFingerprint, RegistryOK, IsRegistry

LEMMA RecoveredNames ==
  ASSUME NEW r, RegistryOK(r), NEW S, Names(r, S), NEW o \in S, NEW fp, o \in Ptrs
  PROVE  Names(recovered(r, o, fp), S)
<1> DEFINE id == recoveredId(r, o, fp)
           b == bindObject(r, id, o)
<1>1. CASE id = INVALID_OBJECT_ID
  BY <1>1 DEF recovered
<1>2. CASE id # INVALID_OBJECT_ID
  <2>1. id \in NetIds
    BY <1>2, RecoveredIdOK
  <2>2. RegistryOK(b) /\ Names(b, S)
    BY <2>1, BindOK, BindNames
  <2>3. recovered(r, o, fp) = updateFingerprint(IF hasObject(r, o) THEN r ELSE b, id, fp)
    BY <1>2 DEF recovered
  <2> HIDE DEF b, id
  <2> QED BY <2>2, <2>3, UpdateNames DEF Names
<1> QED BY <1>1, <1>2

LEMMA RemoveNames ==
  ASSUME NEW r, RegistryOK(r), NEW S, Names(r, S), NEW id
  PROVE  Names(removeByNetworkId(r, id), {o \in S : ~hasNetworkId(r, id) \/ o # r.byId[id]})
<1>1. CASE ~hasNetworkId(r, id)
  BY <1>1 DEF removeByNetworkId, Names
<1>2. CASE hasNetworkId(r, id)
  <2> DEFINE f == Without(r.byId, {id})
  <2>1. removeByNetworkId(r, id).byId = f
    BY <1>2 DEF removeByNetworkId, RegistryOK, IsRegistry
  <2>2. \A i \in DOMAIN f : i \in DOMAIN r.byId /\ i # id /\ f[i] = r.byId[i]
    BY DEF Without
  <2>3. \A i \in DOMAIN r.byId : i # id => r.byId[i] # r.byId[id]
    BY <1>2 DEF RegistryOK, IsInverse, hasNetworkId
  <2> HIDE DEF f
  <2> QED BY <2>1, <2>2, <2>3 DEF Names
<1> QED BY <1>1, <1>2

LEMMA RemoveObjectNames ==
  ASSUME NEW r, RegistryOK(r), NEW S, Names(r, S), NEW o
  PROVE  Names(removeByObject(r, o), S)
<1>1. CASE ~hasObject(r, o)
  BY <1>1 DEF removeByObject
<1>2. CASE hasObject(r, o)
  <2> DEFINE f == Without(r.byId, {r.byPtr[o]})
  <2>1. removeByObject(r, o).byId = f
    BY <1>2 DEF removeByObject, RegistryOK, IsRegistry
  <2>2. \A i \in DOMAIN f : i \in DOMAIN r.byId /\ f[i] = r.byId[i]
    BY DEF Without
  <2> HIDE DEF f
  <2> QED BY <2>1, <2>2 DEF Names
<1> QED BY <1>1, <1>2

LEMMA BindAllNames ==
  ASSUME NEW r, RegistryOK(r), NEW S, Names(r, S), NEW f, DOMAIN f \subseteq S
  PROVE  Names(bindAll(r, f), S)
<1> DEFINE ids == {f[o] : o \in DOMAIN f}
           g == [i \in DOMAIN r.byId \cup ids |->
                   IF i \in ids THEN CHOOSE o \in DOMAIN f : f[o] = i ELSE r.byId[i]]
<1>1. bindAll(r, f).byId = g
  BY DEF bindAll, RegistryOK, IsRegistry
<1>2. \A i \in ids : (CHOOSE o \in DOMAIN f : f[o] = i) \in DOMAIN f
  OBVIOUS
<1>3. \A i \in DOMAIN g : g[i] \in S
  BY <1>2 DEF Names
<1> HIDE DEF g
<1> QED BY <1>1, <1>3 DEF Names

\* The object that a transformation replaces loses its id to the new one.
LEMMA RepairedNames ==
  ASSUME NEW r, RegistryOK(r), NEW S, S \subseteq Ptrs, Names(r, S), NEW o \in S,
         NEW o2 \in Ptrs, o2 = o \/ o2 \notin S, NEW c \in Contents
  PROVE  Names(repaired(r, o, o2, c), (S \ {o}) \cup {o2})
<1>0. \A p \in DOMAIN r.byPtr : p \in S
  BY DEF Names, RegistryOK, IsInverse, hasNetworkId
<1>1. CASE hasObject(r, o2)
  <2>1. o2 = o
    BY <1>0, <1>1 DEF hasObject
  <2>2. repaired(r, o, o2, c).byId = r.byId
    BY <1>1, RefreshedOK DEF repaired
  <2> QED BY <2>1, <2>2 DEF Names
<1>2. CASE ~hasObject(r, o2) /\ hasObject(r, o)
  <2> DEFINE id == r.byPtr[o]
             f == With(Without(r.byId, {}), id, o2)
             b == bindObject(r, id, o2)
  <2>1. id \in DOMAIN r.byId /\ id \in NetIds /\ r.byId[id] = o
    BY <1>2 DEF RegistryOK, IsRegistry, IsInverse, IsMap, hasObject, hasNetworkId
  <2>2. b.byId = f
    <3>1. {i \in DOMAIN r.byId : hasObject(r, o2) /\ i = r.byPtr[o2] /\ i # id} = {}
      BY <1>2
    <3> QED BY <3>1 DEF bindObject, RegistryOK, IsRegistry
  <2>3. \A i \in DOMAIN f : f[i] = o2 \/ (i \in DOMAIN r.byId /\ i # id /\ f[i] = r.byId[i])
    BY DEF With, Without
  <2>4. \A i \in DOMAIN r.byId : i # id => r.byId[i] # o
    BY <2>1 DEF RegistryOK, IsInverse, hasNetworkId
  <2>5. RegistryOK(b)
    BY <2>1, BindOK
  <2>6. repaired(r, o, o2, c) = refreshed(b, o2, c)
    BY <1>2 DEF repaired
  <2>7. refreshed(b, o2, c).byId = b.byId
    BY <2>5, RefreshedOK
  <2> HIDE DEF f, b, id
  <2> QED BY <2>2, <2>3, <2>4, <2>6, <2>7 DEF Names
<1>3. CASE ~hasObject(r, o2) /\ ~hasObject(r, o)
  <2>1. repaired(r, o, o2, c) = r
    BY <1>3 DEF repaired
  <2>2. \A i \in DOMAIN r.byId : r.byId[i] # o
    BY <1>3 DEF RegistryOK, IsInverse
  <2> QED BY <2>1, <2>2 DEF Names
<1> QED BY <1>1, <1>2, <1>3

LEMMA PlacementNames ==
  ASSUME SyncInv, NEW n \in Nodes, NEW o \in Heap[n], IdsLeft(n) >= 1,
         NEW S, Names(reg[n], S), o \in S
  PROVE  Names(afterPlacement(n, o), S)
<1> DEFINE bound == IF n = Host THEN registerObject(reg[n], o)
                    ELSE bindObject(reg[n], placementId(n, o), o)
<1>1. /\ RegistryOK(reg[n]) /\ o \in Ptrs
  BY InvFacts
<1>2. CASE n = Peer
  <2>1. placementId(n, o) \in NetIds
    BY <1>2, PlacementOK, CountersBounded DEF NetIds, INVALID_OBJECT_ID
  <2>2. bound = bindObject(reg[n], placementId(n, o), o)
    BY <1>2, NodesFacts
  <2>3. RegistryOK(bound) /\ Names(bound, S)
    BY <1>1, <2>1, <2>2, BindOK, BindNames
  <2>4. afterPlacement(n, o) = IF link[n] THEN bound ELSE removeByObject(bound, o)
    BY DEF afterPlacement
  <2> HIDE DEF bound
  <2> QED BY <2>3, <2>4, RemoveObjectNames
<1>3. CASE n = Host
  <2>1. bound = registerObject(reg[n], o)
    BY <1>3
  <2>2. reg[n].nextId \notin DOMAIN reg[n].byId
    BY <1>3, CountersBounded, HostIdFresh DEF IdsLeft
  <2>3. RegistryOK(bound)
    BY <1>1, <2>1, <2>2, RegisterOK
  <2>4. Names(bound, S)
    <3>1. CASE hasObject(reg[n], o)
      BY <2>1, <3>1 DEF registerObject
    <3>2. CASE ~hasObject(reg[n], o)
      <4> DEFINE f == With(reg[n].byId, reg[n].nextId, o)
      <4>1. bound.byId = f
        BY <1>1, <2>1, <3>2 DEF registerObject, RegistryOK, IsRegistry
      <4>2. \A i \in DOMAIN f : f[i] = o \/ (i \in DOMAIN reg[n].byId /\ f[i] = reg[n].byId[i])
        BY DEF With
      <4> HIDE DEF bound, f
      <4> QED BY <4>1, <4>2 DEF Names
    <3> QED BY <3>1, <3>2
  <2>5. afterPlacement(n, o) = IF link[n] THEN bound ELSE removeByObject(bound, o)
    BY DEF afterPlacement
  <2> HIDE DEF bound
  <2> QED BY <2>3, <2>4, <2>5, RemoveObjectNames
<1> QED BY <1>2, <1>3, NodesFacts

LEMMA LookedUpNames ==
  ASSUME SyncInv, NEW n \in Nodes, NEW r, RegistryOK(r), NEW S \in SUBSET Live(n),
         Names(r, Live(n))
  PROVE  Names(lookedUp(n, r, S), Live(n))
<1>1. CASE S = {}
  BY <1>1 DEF lookedUp
<1>2. CASE S # {}
  <2>1. The(S) \in Live(n) /\ The(S) \in Ptrs
    BY <1>2, TheElement, InvFacts
  <2>2. lookedUp(n, r, S) = recovered(r, The(S), Fp(obj[n][The(S)]))
    BY <1>2 DEF lookedUp
  <2> QED BY <2>1, <2>2, RecoveredNames
<1> QED BY <1>1, <1>2

-----------------------------------------------------------------------------
(***************************************************************************)
(* No id of a client names an object that is gone.                         *)
(***************************************************************************)
OnlyEdits ==
  /\ "role" \in Ops[Host] => "Viewer" \notin GrantedRoles
  /\ \A n \in Nodes : "resync" \notin Ops[n]

\* A message that neither rebuilds a level nor takes permissions away.
Calm(m) == m.type \notin {"chunk", "resync"} /\ (m.type = "permission_update" => m.role # "Viewer")

CalmInv ==
  /\ role # "Viewer" /\ myRole # "Viewer"
  /\ \A n \in Nodes : \A k \in DOMAIN chan[n] : Calm(chan[n][k])

Alive(n) ==
  /\ Names(reg[n], Live(n))
  /\ ~conn[n] => DOMAIN reg[n].byId = {}

AliveInv == RolesInv /\ CalmInv /\ \A n \in Nodes : Alive(n)

LEMMA NextMessage ==
  ASSUME SyncInv, NEW n \in Nodes, NEW t, Receives(n, t)
  PROVE  1 \in DOMAIN chan[n] /\ Msg(n) = chan[n][1] /\ Msg(n).type = t
<1>1. chan[n] \in Seq(Inboxes[n]) /\ chan[n] # <<>>
  BY Queues DEF Receives
<1> QED BY <1>1 DEF Receives, Msg

LEMMA CalmStep ==
  ASSUME OnlyEdits, SyncInv, SyncInv', CalmInv, [Next]_vars
  PROVE  CalmInv'
<1>1. StepKinds
  BY EveryStep
<1>2. ASSUME NEW n \in Nodes, NEW k \in DOMAIN chan'[n]
      PROVE  Calm(chan'[n][k])
  <2>1. CASE Among(chan[n], chan'[n][k])
    BY <2>1 DEF Among, CalmInv
  <2>2. CASE NewMessage(chan'[n][k])
    <3>1. ~Receives(Host, "resync")
      BY NextMessage, NodesFacts DEF CalmInv, Calm
    <3>2. "resync" \notin Ops[Host] /\ "resync" \notin Ops[Peer]
      BY NodesFacts DEF OnlyEdits
    <3> QED BY <2>2, <3>1, <3>2 DEF NewMessage, SentTypes, HookTypes, ReplyTypes, Calm, OnlyEdits
  <2> QED BY <2>1, <2>2, NewMessages
<1>3. role' # "Viewer" /\ myRole' # "Viewer"
  <2>1. CASE UNCHANGED <<role, myRole>>
    BY <2>1 DEF CalmInv
  <2>2. CASE \E n \in Nodes : disconnect(n)
    BY <2>2 DEF disconnect, CalmInv
  <2>3. CASE Connect
    BY <2>3 DEF Connect
  <2>4. CASE \E r \in GrantedRoles : setPeerRole(r)
    BY <2>4 DEF setPeerRole, Acts, OnlyEdits, CalmInv
  <2>5. CASE HandlePermissionUpdate
    <3>1. Receives(Peer, "permission_update") /\ myRole' = Msg(Peer).role /\ role' = role
      BY <2>5 DEF HandlePermissionUpdate
    <3>2. Msg(Peer).role # "Viewer"
      BY <3>1, NextMessage, NodesFacts DEF CalmInv, Calm
    <3> QED BY <3>1, <3>2 DEF CalmInv
  <2>6. CASE \/ \E n \in Nodes : Talks(n) \/ Answers(n)
             \/ AsksForSnapshot \/ SendsSnapshot \/ LinkDown \/ HandleStateSnapshot
    BY <2>1, <2>6 DEF Talks, Answers, AsksForSnapshot, SendsSnapshot, LinkDown, HandleStateSnapshot,
                      session
  <2> QED BY <1>1, <2>2, <2>3, <2>4, <2>5, <2>6 DEF StepKinds
<1> QED BY <1>2, <1>3 DEF CalmInv

\* With every role but the viewer's, everything the hooks and handlers ask for is allowed.
LEMMA AllAllowed ==
  ASSUME SyncInv, CalmInv, NEW n \in Nodes, NEW flag \in builderFlags
  PROVE  hasPermission(n, flag) /\ peerHasPermission(n, flag)
<1>1. \A r \in Roles : r # "Viewer" => flag \in permissionsForRole(r)
  BY DEF Roles, permissionsForRole
<1>2. role \in Roles /\ myRole \in Roles /\ "Owner" \in Roles
  BY DEF SyncInv, LocksOK, Roles
<1> QED BY <1>1, <1>2 DEF hasPermission, peerHasPermission, CalmInv

LEMMA HandlersConnected ==
  ASSUME RolesInv, NEW n \in Nodes, NEW t, Receives(n, t)
  PROVE  conn[n]
  BY DEF RolesInv, QueuesClosed, Receives

\* A step that changes one client's registry and level.
LEMMA AliveAfter ==
  ASSUME SyncInv, \A m \in Nodes : Alive(m), NEW n \in Nodes, NEW q, NEW level,
         obj' = [obj EXCEPT ![n] = level], reg' = [reg EXCEPT ![n] = q], conn' = conn,
         Names(q, DOMAIN level), conn[n] \/ DOMAIN q.byId \subseteq DOMAIN reg[n].byId
  PROVE  \A m \in Nodes : Alive(m)'
<1>1. obj'[n] = level /\ reg'[n] = q
  BY DEF SyncInv, EditorsOK, RegsOK
<1>2. \A m \in Nodes : m # n => obj'[m] = obj[m] /\ reg'[m] = reg[m]
  BY DEF SyncInv, EditorsOK, RegsOK
<1>3. Alive(n)'
  BY <1>1 DEF Alive, Live
<1>4. ASSUME NEW m \in Nodes, m # n
      PROVE  Alive(m)'
  BY <1>2, <1>4 DEF Alive, Live, Names
<1> QED BY <1>3, <1>4

LEMMA AliveSame ==
  ASSUME SyncInv, \A m \in Nodes : Alive(m), reg' = reg, conn' = conn,
         \A m \in Nodes : DOMAIN obj[m] \subseteq DOMAIN obj'[m]
  PROVE  \A m \in Nodes : Alive(m)'
  BY DEF Alive, Live, Names

LEMMA LevelUpdates ==
  ASSUME SyncInv, NEW n \in Nodes
  PROVE  /\ \A r : reg[n] = r => reg = [reg EXCEPT ![n] = r]
         /\ \A l : obj[n] = l => obj = [obj EXCEPT ![n] = l]
  BY DEF SyncInv, EditorsOK, RegsOK

LEMMA PlaceAlive ==
  ASSUME SyncInv, \A m \in Nodes : Alive(m), NEW n \in Nodes, NEW o \in Heap[n], NEW c \in Contents,
         LocalPlace(n, o, c)
  PROVE  \A m \in Nodes : Alive(m)'
<1> DEFINE level == With(obj[n], o, c)
<1>1. /\ obj' = [obj EXCEPT ![n] = level] /\ conn' = conn /\ DOMAIN level = Live(n) \cup {o}
      /\ IdsLeft(n) > Cardinality(Unsynced(n))
  BY DEF LocalPlace, session, Live, With
<1>2. Names(reg[n], DOMAIN level) /\ RegistryOK(reg[n])
  BY <1>1, InvFacts DEF Alive, Names
<1> HIDE DEF level
<1>3. IdsLeft(n) >= 1
  <2>1. Cardinality(Unsynced(n)) \in Nat
    BY UnsyncedFinite
  <2>2. IdsLeft(n) \in Int
    BY CountersBounded DEF IdsLeft
  <2> QED BY <1>1, <2>1, <2>2
<1>4. CASE conn[n] /\ hasPermission(n, "canEdit")
  <2> DEFINE a == afterPlacement(n, o)
  <2>1. reg' = [reg EXCEPT ![n] = refreshed(a, o, c)]
    BY <1>4 DEF LocalPlace
  <2>2. RegistryOK(a) /\ Names(a, DOMAIN level)
    BY <1>1, <1>2, <1>3, PlacementOK, PlacementNames
  <2> HIDE DEF a
  <2>3. Names(refreshed(a, o, c), DOMAIN level)
    BY <2>2, RefreshedOK DEF Names
  <2> QED BY <1>1, <1>4, <2>1, <2>3, AliveAfter
<1>5. CASE ~(conn[n] /\ hasPermission(n, "canEdit"))
  <2>1. reg' = [reg EXCEPT ![n] = refreshed(reg[n], o, c)]
    BY <1>5 DEF LocalPlace, SyncInv, RegsOK
  <2>2. refreshed(reg[n], o, c).byId = reg[n].byId
    BY <1>2, RefreshedOK
  <2> QED BY <1>1, <1>2, <2>1, <2>2, AliveAfter DEF Names
<1> QED BY <1>4, <1>5

LEMMA DiscoverAlive ==
  ASSUME SyncInv, \A m \in Nodes : Alive(m), NEW n \in Nodes, Discover(n)
  PROVE  \A m \in Nodes : Alive(m)'
<1>1. obj' = obj /\ conn' = conn /\ conn[n]
  BY DEF Discover, session
<1>2. CASE reg' = reg
  BY <1>1, <1>2, AliveSame
<1>3. CASE hasPermission(n, "canEdit")
  <2> DEFINE S == toDiscover(n)
             count == Cardinality(S)
             first == IF n = Host THEN reg[Host].nextId ELSE canonicalPeerObjectId(Peer, nextTempId)
  <2>1. PICK f \in Numberings(S, first) :
          reg' = [reg EXCEPT ![n] =
                    LET r == IF link[n] THEN bindAll(reg[n], f) ELSE reg[n]
                    IN IF n = Host THEN [r EXCEPT !.nextId = @ + count] ELSE r]
    BY <1>3 DEF Discover
  <2> DEFINE r == IF link[n] THEN bindAll(reg[n], f) ELSE reg[n]
             q == IF n = Host THEN [r EXCEPT !.nextId = @ + count] ELSE r
  <2>2. reg' = [reg EXCEPT ![n] = q]
    BY <2>1
  <2>3. RegistryOK(reg[n]) /\ Names(reg[n], Live(n))
    BY InvFacts DEF Alive
  <2>4. DOMAIN f \subseteq Live(n)
    BY DEF Numberings, toDiscover, Unsynced
  <2>5. Names(r, Live(n))
    BY <2>3, <2>4, BindAllNames
  <2>6. q.byId = r.byId
    <3>1. bindAll(reg[n], f).byId = [bindAll(reg[n], f) EXCEPT !.nextId = @ + count].byId
      BY <2>3 DEF bindAll, RegistryOK, IsRegistry
    <3>2. reg[n].byId = [reg[n] EXCEPT !.nextId = @ + count].byId
      BY <2>3 DEF RegistryOK, IsRegistry
    <3> QED BY <3>1, <3>2
  <2> HIDE DEF r, q
  <2>7. Names(q, DOMAIN obj[n])
    BY <2>5, <2>6 DEF Names, Live
  <2>8. obj' = [obj EXCEPT ![n] = obj[n]]
    BY <1>1, LevelUpdates
  <2> QED BY <1>1, <2>2, <2>7, <2>8, AliveAfter
<1> QED BY <1>2, <1>3 DEF Discover

LEMMA TransformAlive ==
  ASSUME SyncInv, \A m \in Nodes : Alive(m), NEW n \in Nodes,
         NEW o \in Heap[n], NEW o2 \in Heap[n], NEW c \in Contents, LocalTransform(n, o, o2, c)
  PROVE  \A m \in Nodes : Alive(m)'
<1> DEFINE level == With(Without(obj[n], {o}), o2, c)
           r == repaired(reg[n], o, o2, c)
           q == recovered(r, o2, Fp(c))
<1>1. /\ obj' = [obj EXCEPT ![n] = level] /\ reg' = [reg EXCEPT ![n] = q] /\ conn' = conn
      /\ o \in Live(n) /\ (o2 = o \/ o2 \notin Live(n))
  BY DEF LocalTransform, session
<1>2. DOMAIN level = (Live(n) \ {o}) \cup {o2}
  BY DEF With, Without, Live
<1>3. /\ RegistryOK(reg[n]) /\ Names(reg[n], Live(n)) /\ o \in Ptrs /\ o2 \in Ptrs
      /\ Live(n) \subseteq Ptrs /\ Fp(c) \in Prints
  BY InvFacts DEF Alive
<1>4. RegistryOK(r) /\ DOMAIN r.byId \subseteq DOMAIN reg[n].byId /\ Names(r, (Live(n) \ {o}) \cup {o2})
  BY <1>1, <1>3, RepairedOK, RepairedNames
<1> HIDE DEF level, r
<1>5. DOMAIN q.byId \subseteq DOMAIN reg[n].byId /\ Names(q, DOMAIN level)
  BY <1>2, <1>3, <1>4, RecoveredOK, RecoveredNames
<1> HIDE DEF q
<1> QED BY <1>1, <1>5, AliveAfter

LEMMA DeleteAlive ==
  ASSUME SyncInv, CalmInv, \A m \in Nodes : Alive(m), NEW n \in Nodes, NEW o \in Heap[n],
         LocalDelete(n, o)
  PROVE  \A m \in Nodes : Alive(m)'
<1> DEFINE level == Without(obj[n], {o})
           fp == Fp(obj[n][o])
           id == recoveredId(reg[n], o, fp)
           r == recovered(reg[n], o, fp)
<1>1. /\ obj' = [obj EXCEPT ![n] = level] /\ conn' = conn /\ o \in Live(n)
      /\ reg' = [reg EXCEPT ![n] = IF conn[n] /\ id # INVALID_OBJECT_ID THEN removeByNetworkId(r, id) ELSE r]
  BY AllAllowed DEF LocalDelete, session, builderFlags
<1>2. DOMAIN level = Live(n) \ {o}
  BY DEF Without, Live
<1>3. /\ RegistryOK(reg[n]) /\ Names(reg[n], Live(n)) /\ o \in Ptrs /\ fp \in Prints
      /\ ~conn[n] => DOMAIN reg[n].byId = {}
  BY <1>1, InvFacts DEF Alive
<1> HIDE DEF level, fp
<1>4. RegistryOK(r) /\ DOMAIN r.byId \subseteq DOMAIN reg[n].byId /\ Names(r, Live(n))
  BY <1>1, <1>3, RecoveredOK, RecoveredNames
<1>5. CASE conn[n] /\ id # INVALID_OBJECT_ID
  <2>1. id \in NetIds /\ id \in DOMAIN reg[n].byId
    BY <1>3, <1>5, RecoveredIdOK
  <2>2. hasNetworkId(r, id) /\ r.byId[id] = o
    <3>1. CASE hasObject(reg[n], o)
      <4>1. id = reg[n].byPtr[o] /\ reg[n].byId[id] = o /\ hasNetworkId(reg[n], id)
        BY <1>3, <3>1 DEF recoveredId, RegistryOK, IsInverse, hasObject
      <4>2. r = updateFingerprint(reg[n], id, fp)
        BY <1>5, <3>1 DEF recovered
      <4>3. r.byId = reg[n].byId
        BY <1>3, <4>2, UpdateNames
      <4> QED BY <4>1, <4>3 DEF hasNetworkId
    <3>2. CASE ~hasObject(reg[n], o)
      <4> DEFINE b == bindObject(reg[n], id, o)
      <4>1. RegistryOK(b) /\ b.byId[id] = o /\ hasNetworkId(b, id)
        BY <1>3, <2>1, BindOK
      <4>2. r = updateFingerprint(b, id, fp)
        BY <1>5, <3>2 DEF recovered
      <4> HIDE DEF b
      <4>3. r.byId = b.byId
        BY <4>1, <4>2, UpdateNames
      <4> QED BY <4>1, <4>3 DEF hasNetworkId
    <3> QED BY <3>1, <3>2
  <2> HIDE DEF r, id
  <2>3. Names(removeByNetworkId(r, id), DOMAIN level)
    BY <1>2, <1>4, <2>2, RemoveNames DEF Names
  <2> QED BY <1>1, <1>5, <2>3, AliveAfter
<1>6. CASE ~conn[n]
  BY <1>1, <1>3, <1>4, <1>6, AliveAfter DEF Names
<1>7. CASE id = INVALID_OBJECT_ID
  <2>1. r = reg[n]
    BY <1>7 DEF recovered
  <2>2. ~hasObject(reg[n], o)
    BY <1>3, <1>7 DEF recoveredId, RegistryOK, IsRegistry, IsMap, NetIds, hasObject
  <2>3. \A i \in DOMAIN reg[n].byId : reg[n].byId[i] # o
    BY <1>3, <2>2 DEF RegistryOK, IsInverse
  <2>4. Names(reg[n], DOMAIN level)
    BY <1>2, <1>3, <2>3 DEF Names
  <2>5. reg' = [reg EXCEPT ![n] = reg[n]]
    BY <1>1, <1>7, <2>1
  <2> QED BY <1>1, <2>4, <2>5, AliveAfter
<1> QED BY <1>5, <1>6, <1>7

LEMMA SelectAlive ==
  ASSUME SyncInv, \A m \in Nodes : Alive(m), NEW n \in Nodes,
         \/ \E o \in Heap[n], dropped \in SUBSET sel[n] : SelectObject(n, o, dropped)
         \/ DeselectAll(n)
  PROVE  \A m \in Nodes : Alive(m)'
<1>1. RegistryOK(reg[n]) /\ Names(reg[n], Live(n)) /\ sel[n] \subseteq Live(n)
  BY InvFacts DEF Alive
<1>2. ASSUME NEW r, RegistryOK(r), Names(r, Live(n)), NEW S \in SUBSET Live(n)
      PROVE  /\ RegistryOK(lookedUp(n, r, S)) /\ Names(lookedUp(n, r, S), Live(n))
             /\ DOMAIN lookedUp(n, r, S).byId \subseteq DOMAIN r.byId
  <2>1. CASE S = {}
    BY <1>2, <2>1 DEF lookedUp
  <2>2. CASE S # {}
    <3>1. The(S) \in Live(n) /\ The(S) \in Ptrs /\ Fp(obj[n][The(S)]) \in Prints
      BY <2>2, TheElement, InvFacts
    <3>2. lookedUp(n, r, S) = recovered(r, The(S), Fp(obj[n][The(S)]))
      BY <2>2 DEF lookedUp
    <3> QED BY <1>2, <3>1, <3>2, RecoveredOK, RecoveredNames
  <2> QED BY <2>1, <2>2
<1>3. ASSUME NEW q, Names(q, Live(n)), DOMAIN q.byId \subseteq DOMAIN reg[n].byId,
             reg' = [reg EXCEPT ![n] = q], obj' = obj, conn' = conn
      PROVE  \A m \in Nodes : Alive(m)'
  <2>1. obj' = [obj EXCEPT ![n] = obj[n]]
    BY <1>3, LevelUpdates
  <2> QED BY <1>3, <2>1, AliveAfter DEF Live
<1>4. CASE \E o \in Heap[n], dropped \in SUBSET sel[n] : SelectObject(n, o, dropped)
  <2>1. PICK o \in Heap[n], dropped \in SUBSET sel[n] : SelectObject(n, o, dropped)
    BY <1>4
  <2> DEFINE before == lookedUp(n, reg[n], dropped)
             q == lookedUp(n, before, {o})
  <2>2. reg' = [reg EXCEPT ![n] = q] /\ obj' = obj /\ conn' = conn /\ o \in Live(n)
    BY <2>1 DEF SelectObject, session
  <2>3. RegistryOK(before) /\ Names(before, Live(n)) /\ DOMAIN before.byId \subseteq DOMAIN reg[n].byId
    BY <1>1, <1>2
  <2> HIDE DEF before
  <2>4. Names(q, Live(n)) /\ DOMAIN q.byId \subseteq DOMAIN before.byId
    BY <1>2, <2>2, <2>3
  <2> HIDE DEF q
  <2> QED BY <1>3, <2>2, <2>3, <2>4
<1>5. CASE DeselectAll(n)
  <2> DEFINE q == lookedUp(n, reg[n], sel[n])
  <2>1. reg' = [reg EXCEPT ![n] = q] /\ obj' = obj /\ conn' = conn
    BY <1>5 DEF DeselectAll, session
  <2>2. Names(q, Live(n)) /\ DOMAIN q.byId \subseteq DOMAIN reg[n].byId
    BY <1>1, <1>2
  <2> HIDE DEF q
  <2> QED BY <1>3, <2>1, <2>2
<1> QED BY <1>4, <1>5

LEMMA HandlePlaceAlive ==
  ASSUME RolesInv, \A m \in Nodes : Alive(m), NEW n \in Nodes, HandlePlaceObject(n)
  PROVE  \A m \in Nodes : Alive(m)'
<1> DEFINE id == IF n = Host THEN canonicalPeerObjectId(Peer, Msg(n).id) ELSE Msg(n).id
<1>0. SyncInv /\ Receives(n, "place") /\ conn' = conn
  BY DEF RolesInv, HandlePlaceObject, session
<1>1. conn[n] /\ RegistryOK(reg[n]) /\ Names(reg[n], Live(n))
  BY <1>0, HandlersConnected, InvFacts DEF Alive
<1>2. CASE UNCHANGED <<obj, reg>>
  BY <1>0, <1>2, AliveSame
<1>3. CASE \E o \in Heap[n] \ Live(n) :
             /\ obj' = [obj EXCEPT ![n] = With(obj[n], o, Msg(n).c)]
             /\ reg' = [reg EXCEPT ![n] = bindObject(reg[n], id, o)]
  <2>1. PICK o \in Heap[n] \ Live(n) :
             /\ obj' = [obj EXCEPT ![n] = With(obj[n], o, Msg(n).c)]
             /\ reg' = [reg EXCEPT ![n] = bindObject(reg[n], id, o)]
    BY <1>3
  <2> DEFINE level == With(obj[n], o, Msg(n).c)
  <2>2. DOMAIN level = Live(n) \cup {o}
    BY DEF With, Live
  <2> HIDE DEF level, id
  <2>3. Names(reg[n], DOMAIN level)
    BY <1>1, <2>2 DEF Names
  <2>4. Names(bindObject(reg[n], id, o), DOMAIN level)
    BY <1>1, <2>2, <2>3, BindNames
  <2> QED BY <1>0, <1>1, <2>1, <2>4, AliveAfter DEF level
<1> QED BY <1>0, <1>2, <1>3 DEF HandlePlaceObject, SyncInv, EditorsOK, RegsOK

LEMMA HandleDeleteAlive ==
  ASSUME RolesInv, \A m \in Nodes : Alive(m), NEW n \in Nodes, HandleDeleteObject(n)
  PROVE  \A m \in Nodes : Alive(m)'
<1> DEFINE id == namedId(n, Msg(n).id)
           level == Without(obj[n], objectsOf(n, id))
           q == removeByNetworkId(reg[n], id)
<1>0. SyncInv /\ Receives(n, "delete") /\ conn' = conn
  BY DEF RolesInv, HandleDeleteObject, session
<1>1. conn[n] /\ RegistryOK(reg[n]) /\ Names(reg[n], Live(n))
  BY <1>0, HandlersConnected, InvFacts DEF Alive
<1>2. CASE UNCHANGED <<obj, reg>>
  BY <1>0, <1>2, AliveSame
<1>3. CASE obj' = [obj EXCEPT ![n] = level] /\ reg' = [reg EXCEPT ![n] = q]
  <2>1. DOMAIN level = Live(n) \ objectsOf(n, id)
    BY DEF Without, Live
  <2> HIDE DEF level, id
  <2>2. {o \in Live(n) : ~hasNetworkId(reg[n], id) \/ o # reg[n].byId[id]} \subseteq DOMAIN level
    BY <2>1 DEF objectsOf
  <2>3. Names(q, DOMAIN level)
    BY <1>1, <2>2, RemoveNames DEF Names
  <2> HIDE DEF q
  <2> QED BY <1>0, <1>1, <1>3, <2>3, AliveAfter
<1> QED BY <1>0, <1>2, <1>3 DEF HandleDeleteObject, SyncInv, EditorsOK, RegsOK

LEMMA DisconnectAlive ==
  ASSUME SyncInv, \A m \in Nodes : Alive(m), NEW n \in Nodes, disconnect(n)
  PROVE  \A m \in Nodes : Alive(m)'
<1>1. /\ reg' = [reg EXCEPT ![n] = clear(reg[n])] /\ obj' = obj /\ conn' = [conn EXCEPT ![n] = FALSE]
  BY DEF disconnect, SyncInv, RegsOK
<1>2. reg'[n] = clear(reg[n]) /\ \A m \in Nodes : m # n => reg'[m] = reg[m] /\ conn'[m] = conn[m]
  BY <1>1 DEF SyncInv, RegsOK, LocksOK
<1>3. DOMAIN reg'[n].byId = {}
  BY <1>2, ClearOK, InvFacts
<1>4. Alive(n)'
  BY <1>3 DEF Alive, Names
<1>5. ASSUME NEW m \in Nodes, m # n
      PROVE  Alive(m)'
  BY <1>1, <1>2, <1>5 DEF Alive, Live, Names
<1> QED BY <1>4, <1>5

LEMMA AliveStep ==
  ASSUME OnlyEdits, AliveInv, [Next]_vars
  PROVE  AliveInv'
<1>1. RolesInv' /\ SyncInv /\ SyncInv'
  BY RolesStep DEF AliveInv, RolesInv
<1>2. CalmInv'
  BY <1>1, CalmStep DEF AliveInv
<1> SUFFICES \A m \in Nodes : Alive(m)'
  BY <1>1, <1>2 DEF AliveInv
<1> DEFINE Still == \A m \in Nodes : Alive(m)'
<1>3. ASSUME UNCHANGED <<obj, reg, conn>>
      PROVE  Still
  BY <1>1, <1>3, AliveSame DEF AliveInv
<1>4. ASSUME NEW n \in Nodes, User(n)
      PROVE  Still
  <2>1. CASE \E o \in Heap[n], c \in Contents : LocalPlace(n, o, c)
    BY <1>1, <2>1, PlaceAlive DEF AliveInv
  <2>2. CASE \E o \in Heap[n], c \in Contents : GdCreate(n, o, c)
    <3>1. \A m \in Nodes : DOMAIN obj[m] \subseteq DOMAIN obj'[m]
      BY <1>1, <2>2 DEF GdCreate, With, SyncInv, EditorsOK
    <3> QED BY <1>1, <2>2, <3>1, AliveSame DEF AliveInv, GdCreate, session
  <2>3. CASE \E o, o2 \in Heap[n], c \in Contents : LocalTransform(n, o, o2, c)
    BY <1>1, <2>3, TransformAlive DEF AliveInv
  <2>4. CASE \E o \in Heap[n], c \in Contents : LocalMove(n, o, c)
    <3>1. \A m \in Nodes : DOMAIN obj[m] \subseteq DOMAIN obj'[m]
      BY <1>1, <2>4 DEF LocalMove, SyncInv, EditorsOK
    <3> QED BY <1>1, <2>4, <3>1, AliveSame DEF AliveInv, LocalMove, session
  <2>5. CASE \E o \in Heap[n] : LocalDelete(n, o)
    BY <1>1, <2>5, DeleteAlive DEF AliveInv
  <2>6. CASE (\E o \in Heap[n], dropped \in SUBSET sel[n] : SelectObject(n, o, dropped)) \/ DeselectAll(n)
    BY <1>1, <2>6, SelectAlive DEF AliveInv
  <2>7. CASE RequestStateResync(n)
    BY <2>7 DEF RequestStateResync, Acts, OnlyEdits
  <2>8. CASE Disconnect(n)
    BY <1>1, <2>8, DisconnectAlive DEF AliveInv, Disconnect
  <2>9. CASE \E r \in GrantedRoles : setPeerRole(r)
    BY <1>3, <2>9 DEF setPeerRole
  <2> QED BY <1>4, <2>1, <2>2, <2>3, <2>4, <2>5, <2>6, <2>7, <2>8, <2>9 DEF User
<1>5. ASSUME NEW n \in Nodes, Handle(n)
      PROVE  Still
  <2>1. CASE HandlePlaceObject(n)
    BY <2>1, HandlePlaceAlive DEF AliveInv
  <2>2. CASE HandleDeleteObject(n)
    BY <2>2, HandleDeleteAlive DEF AliveInv
  <2>3. CASE HandleCommitEdit(n)
    <3>1. \A m \in Nodes : DOMAIN obj[m] \subseteq DOMAIN obj'[m]
      BY <1>1, <2>3 DEF HandleCommitEdit, SyncInv, EditorsOK
    <3> QED BY <1>1, <2>3, <3>1, AliveSame DEF AliveInv, HandleCommitEdit, session
  <2>4. CASE HandleUnlockObject(n) \/ HandleLockRequest \/ HandleLockReply \/ HandlePermissionUpdate
    BY <1>3, <2>4 DEF HandleUnlockObject, HandleLockRequest, HandleLockReply, HandlePermissionUpdate, session
  <2>5. CASE HandleEof(n)
    BY <1>1, <2>5, DisconnectAlive DEF AliveInv, HandleEof
  <2>6. CASE HandleStateResyncRequest \/ HandleStateSnapshot
    <3>1. \E m \in Nodes, t \in {"chunk", "resync"} : Receives(m, t)
      BY <2>6, NodesFacts DEF HandleStateResyncRequest, HandleStateSnapshot
    <3> QED BY <1>1, <3>1, NextMessage DEF AliveInv, CalmInv, Calm
  <2> QED BY <1>5, <2>1, <2>2, <2>3, <2>4, <2>5, <2>6 DEF Handle
<1>6. CASE \E n \in Nodes : Discover(n)
  BY <1>1, <1>6, DiscoverAlive DEF AliveInv
<1>7. CASE Connect
  <2>1. reg' = reg /\ obj' = obj /\ \A m \in Nodes : conn'[m]
    BY <1>7 DEF Connect
  <2> QED BY <2>1 DEF AliveInv, Alive, Live, Names
<1>8. CASE LinkDown
  BY <1>3, <1>8 DEF LinkDown
<1>9. CASE UNCHANGED vars
  BY <1>3, <1>9 DEF vars
<1> QED BY <1>4, <1>5, <1>6, <1>7, <1>8, <1>9 DEF Next

LEMMA AliveInit == Init => AliveInv
<1> SUFFICES ASSUME Init PROVE AliveInv
  OBVIOUS
<1>1. RolesInv
  BY RolesInit
<1>2. \A n \in Nodes : chan[n] = <<>> /\ reg[n] = EmptyRegistry /\ role = "Builder" /\ myRole = "Owner"
  BY DEF Init
<1>3. CalmInv
  BY <1>2, NodesFacts DEF CalmInv
<1>4. \A n \in Nodes : Alive(n)
  BY <1>2 DEF Alive, Names, EmptyRegistry, Empty
<1> QED BY <1>1, <1>3, <1>4 DEF AliveInv

(***************************************************************************)
(* While nobody is made a viewer and no level is rebuilt from a snapshot,  *)
(* no registered id outlives its object, for any heap, looks, bounds and   *)
(* mix of placing, pasting, replacing, deleting, selecting and             *)
(* disconnecting on both sides: the handlers may use the pointer of an id  *)
(* (SessionManager.cpp) without asking whether it is alive.                *)
(***************************************************************************)
THEOREM NothingDangles ==
  ASSUME OnlyEdits
  PROVE  Spec => []NoDangling
<1>1. Init => AliveInv
  BY AliveInit
<1>2. AliveInv /\ [Next]_vars => AliveInv'
  BY AliveStep
<1>3. AliveInv => NoDangling
  BY DEF AliveInv, Alive, Names, NoDangling
<1> QED BY <1>1, <1>2, <1>3, PTL DEF Spec


-----------------------------------------------------------------------------
(***************************************************************************)
(* What is on its way to a client about an object and its lock.            *)
(***************************************************************************)
IsQueue(q) == \E S : q \in Seq(S)

\* A message of type t about the id i is on its way.
Has(q, t, i) == \E k \in DOMAIN q : q[k].type = t /\ q[k].id = i

\* No object is placed twice.
Once(q) ==
  \A k, l \in DOMAIN q : q[k].type = "place" /\ q[l].type = "place" /\ q[k].id = q[l].id => k = l

\* Of what concerns locks, nothing about an object follows its deletion.
LockTypes == {"delete", "unlock", "lock_request"}
LastWord(q) ==
  \A k, l \in DOMAIN q : q[k].type = "delete" /\ l > k /\ q[l].type \in LockTypes => q[l].id # q[k].id

\* Nothing takes the lock of i away from the receiver.
Drops(m, i) == m.type \in {"unlock", "lock_denied"} /\ m.id = i
DropFree(q, i) == \A k \in DOMAIN q : ~Drops(q[k], i)

\* The receiver will have the lock of i.
Grants(q, i) ==
  \E k \in DOMAIN q : /\ q[k].type = "lock_granted" /\ q[k].id = i
                      /\ \A l \in DOMAIN q : l > k => ~Drops(q[l], i)

LEMMA JoinedQueue ==
  ASSUME NEW q, NEW r, IsQueue(q), IsQueue(r)
  PROVE  /\ IsQueue(q \o r)
         /\ Len(q) \in Nat /\ DOMAIN q = 1..Len(q) /\ DOMAIN r = 1..Len(r) /\ Len(r) \in Nat
         /\ \A k \in DOMAIN q : k \in DOMAIN (q \o r) /\ (q \o r)[k] = q[k]
         /\ \A k \in DOMAIN r : k + Len(q) \in DOMAIN (q \o r) /\ (q \o r)[k + Len(q)] = r[k]
         /\ \A k \in DOMAIN (q \o r) :
              \/ k \in DOMAIN q /\ (q \o r)[k] = q[k]
              \/ k > Len(q) /\ k - Len(q) \in DOMAIN r /\ (q \o r)[k] = r[k - Len(q)]
         /\ DOMAIN (q \o r) = 1..(Len(q) + Len(r))
<1>1. PICK S : q \in Seq(S)
  BY DEF IsQueue
<1>2. PICK T : r \in Seq(T)
  BY DEF IsQueue
<1>3. q \in Seq(S \cup T) /\ r \in Seq(S \cup T)
  BY <1>1, <1>2, SeqMonotonic
<1>4. q \o r \in Seq(S \cup T)
  BY <1>3, ConcatProperties
<1>5. /\ Len(q) \in Nat /\ DOMAIN q = 1..Len(q) /\ DOMAIN r = 1..Len(r) /\ Len(r) \in Nat
      /\ DOMAIN (q \o r) = 1..(Len(q) + Len(r))
  BY <1>3, ConcatProperties, LenProperties
<1>6. \A k \in 1..(Len(q) + Len(r)) : (q \o r)[k] = IF k <= Len(q) THEN q[k] ELSE r[k - Len(q)]
  BY <1>3, ConcatProperties
<1>7. IsQueue(q \o r)
  BY <1>4 DEF IsQueue
<1>8. /\ \A k \in DOMAIN q : k \in DOMAIN (q \o r) /\ (q \o r)[k] = q[k]
      /\ \A k \in DOMAIN r : k + Len(q) \in DOMAIN (q \o r) /\ (q \o r)[k + Len(q)] = r[k]
  BY <1>5, <1>6
<1>9. \A k \in DOMAIN (q \o r) :
              \/ k \in DOMAIN q /\ (q \o r)[k] = q[k]
              \/ k > Len(q) /\ k - Len(q) \in DOMAIN r /\ (q \o r)[k] = r[k - Len(q)]
  BY <1>5, <1>6
<1> QED BY <1>5, <1>7, <1>8, <1>9

LEMMA InJoinedQueue ==
  ASSUME NEW q, NEW r, IsQueue(q), IsQueue(r), NEW k \in DOMAIN (q \o r)
  PROVE  /\ k \in Nat /\ Len(q) \in Nat
         /\ k <= Len(q) => k \in DOMAIN q /\ (q \o r)[k] = q[k]
         /\ k > Len(q) => k - Len(q) \in DOMAIN r /\ (q \o r)[k] = r[k - Len(q)]
<1>1. /\ Len(q) \in Nat /\ DOMAIN q = 1..Len(q)
      /\ Len(r) \in Nat /\ DOMAIN (q \o r) = 1..(Len(q) + Len(r))
  BY JoinedQueue
<1>2. \/ k \in DOMAIN q /\ (q \o r)[k] = q[k]
      \/ k > Len(q) /\ k - Len(q) \in DOMAIN r /\ (q \o r)[k] = r[k - Len(q)]
  BY JoinedQueue
<1> QED BY <1>1, <1>2

LEMMA RestOfQueue ==
  ASSUME NEW q, IsQueue(q), q # <<>>
  PROVE  /\ IsQueue(Tail(q)) /\ 1 \in DOMAIN q /\ Head(q) = q[1]
         /\ DOMAIN q \subseteq Nat \ {0} /\ DOMAIN Tail(q) \subseteq Nat \ {0}
         /\ \A k \in DOMAIN Tail(q) : k + 1 \in DOMAIN q /\ Tail(q)[k] = q[k + 1]
         /\ \A k \in DOMAIN q : k # 1 => k - 1 \in DOMAIN Tail(q) /\ Tail(q)[k - 1] = q[k]
<1>1. PICK S : q \in Seq(S)
  BY DEF IsQueue
<1>2. Tail(q) \in Seq(S) /\ Head(q) = q[1]
  BY <1>1, HeadTailProperties
<1>3. /\ Len(q) \in Nat /\ Len(q) > 0 /\ DOMAIN q = 1..Len(q)
      /\ DOMAIN Tail(q) = 1..(Len(q) - 1)
      /\ \A k \in 1..(Len(q) - 1) : Tail(q)[k] = q[k + 1]
  BY <1>1
<1>4. IsQueue(Tail(q))
  BY <1>2 DEF IsQueue
<1> QED BY <1>2, <1>3, <1>4

LEMMA HasJoined ==
  ASSUME NEW q, NEW r, IsQueue(q), IsQueue(r)
  PROVE  /\ IsQueue(q \o r)
         /\ \A t, i : Has(q \o r, t, i) <=> Has(q, t, i) \/ Has(r, t, i)
<1>1. ASSUME NEW t, NEW i, Has(q \o r, t, i)
      PROVE  Has(q, t, i) \/ Has(r, t, i)
  <2>1. PICK k \in DOMAIN (q \o r) : (q \o r)[k].type = t /\ (q \o r)[k].id = i
    BY <1>1 DEF Has
  <2>2. \/ k \in DOMAIN q /\ (q \o r)[k] = q[k]
        \/ k - Len(q) \in DOMAIN r /\ (q \o r)[k] = r[k - Len(q)]
    BY JoinedQueue
  <2> QED BY ONLY <2>1, <2>2 DEF Has
<1>2. ASSUME NEW t, NEW i, Has(q, t, i)
      PROVE  Has(q \o r, t, i)
  BY <1>2, JoinedQueue DEF Has
<1>3. ASSUME NEW t, NEW i, Has(r, t, i)
      PROVE  Has(q \o r, t, i)
  <2>1. PICK k \in DOMAIN r : r[k].type = t /\ r[k].id = i
    BY <1>3 DEF Has
  <2>2. k + Len(q) \in DOMAIN (q \o r) /\ (q \o r)[k + Len(q)] = r[k]
    BY JoinedQueue
  <2> QED BY ONLY <2>1, <2>2 DEF Has
<1> QED BY <1>1, <1>2, <1>3, JoinedQueue

LEMMA HasRest ==
  ASSUME NEW q, IsQueue(q), q # <<>>
  PROVE  /\ IsQueue(Tail(q))
         /\ \A t, i : Has(q, t, i) <=> (Head(q).type = t /\ Head(q).id = i) \/ Has(Tail(q), t, i)
<1>1. ASSUME NEW t, NEW i, Has(q, t, i)
      PROVE  (Head(q).type = t /\ Head(q).id = i) \/ Has(Tail(q), t, i)
  <2>1. PICK k \in DOMAIN q : q[k].type = t /\ q[k].id = i
    BY <1>1 DEF Has
  <2>2. /\ Head(q) = q[1]
        /\ k # 1 => k - 1 \in DOMAIN Tail(q) /\ Tail(q)[k - 1] = q[k]
    BY RestOfQueue
  <2> QED BY ONLY <2>1, <2>2 DEF Has
<1>2. ASSUME NEW t, NEW i, (Head(q).type = t /\ Head(q).id = i) \/ Has(Tail(q), t, i)
      PROVE  Has(q, t, i)
  BY <1>2, RestOfQueue DEF Has
<1> QED BY <1>1, <1>2, RestOfQueue

LEMMA HasOne ==
  ASSUME NEW m
  PROVE  /\ IsQueue(<<m>>) /\ IsQueue(<<>>) /\ Once(<<m>>) /\ Once(<<>>)
         /\ LastWord(<<m>>) /\ LastWord(<<>>)
         /\ \A t, i : ~Has(<<>>, t, i)
         /\ \A t, i : Has(<<m>>, t, i) <=> m.type = t /\ m.id = i
<1>1. IsQueue(<<m>>) /\ IsQueue(<<>>)
  <2>1. <<m>> \in Seq({m}) /\ <<>> \in Seq({m})
    OBVIOUS
  <2> QED BY <2>1 DEF IsQueue
<1>2. DOMAIN <<m>> = {1} /\ <<m>>[1] = m /\ DOMAIN <<>> = {}
  OBVIOUS
<1> QED BY <1>1, <1>2 DEF Has, Once, LastWord

LEMMA DropFreeHas ==
  ASSUME NEW q, NEW i
  PROVE  DropFree(q, i) <=> ~Has(q, "unlock", i) /\ ~Has(q, "lock_denied", i)
  BY DEF DropFree, Drops, Has

LEMMA OnceJoined ==
  ASSUME NEW q, NEW r, IsQueue(q), IsQueue(r), Once(q), Once(r),
         \A i : ~(Has(q, "place", i) /\ Has(r, "place", i))
  PROVE  Once(q \o r)
<1> SUFFICES ASSUME NEW k \in DOMAIN (q \o r), NEW l \in DOMAIN (q \o r),
                    (q \o r)[k].type = "place", (q \o r)[l].type = "place", (q \o r)[k].id = (q \o r)[l].id
             PROVE  k = l
  BY DEF Once
<1>0. k \in Int /\ l \in Int /\ Len(q) \in Int
  BY JoinedQueue
<1>1. CASE k \in DOMAIN q /\ l \in DOMAIN q
  BY <1>1, JoinedQueue DEF Once
<1>2. CASE k - Len(q) \in DOMAIN r /\ l - Len(q) \in DOMAIN r /\ k > Len(q) /\ l > Len(q)
  <2>1. (q \o r)[k] = r[k - Len(q)] /\ (q \o r)[l] = r[l - Len(q)]
    BY <1>2, InJoinedQueue
  <2>2. k - Len(q) = l - Len(q)
    BY <1>2, <2>1 DEF Once
  <2> QED BY <1>0, <2>2
<1>3. CASE k \in DOMAIN q /\ l > Len(q)
  <2>0. (q \o r)[k] = q[k] /\ l - Len(q) \in DOMAIN r /\ (q \o r)[l] = r[l - Len(q)]
    <3>1. (q \o r)[k] = q[k]
      BY <1>3, JoinedQueue
    <3> QED BY <1>3, <3>1, InJoinedQueue
  <2>1. Has(q, "place", (q \o r)[k].id) /\ Has(r, "place", (q \o r)[l].id)
    BY <1>3, <2>0 DEF Has
  <2> QED BY <2>1
<1>4. CASE l \in DOMAIN q /\ k > Len(q)
  <2>0. (q \o r)[l] = q[l] /\ k - Len(q) \in DOMAIN r /\ (q \o r)[k] = r[k - Len(q)]
    <3>1. (q \o r)[l] = q[l]
      BY <1>4, JoinedQueue
    <3> QED BY <1>4, <3>1, InJoinedQueue
  <2>1. Has(q, "place", (q \o r)[l].id) /\ Has(r, "place", (q \o r)[k].id)
    BY <1>4, <2>0 DEF Has
  <2> QED BY <2>1
<1> QED BY <1>1, <1>2, <1>3, <1>4, JoinedQueue

LEMMA OnceRest ==
  ASSUME NEW q, IsQueue(q), q # <<>>, Once(q)
  PROVE  /\ Once(Tail(q))
         /\ Head(q).type = "place" => ~Has(Tail(q), "place", Head(q).id)
<1>1. ASSUME NEW k \in DOMAIN Tail(q), NEW l \in DOMAIN Tail(q),
             Tail(q)[k].type = "place", Tail(q)[l].type = "place", Tail(q)[k].id = Tail(q)[l].id
      PROVE  k = l
  <2>1. k + 1 = l + 1 /\ k \in Int /\ l \in Int
    BY <1>1, RestOfQueue DEF Once
  <2> QED BY <2>1
<1>2. ASSUME Head(q).type = "place", NEW k \in DOMAIN Tail(q), Tail(q)[k].type = "place", Tail(q)[k].id = Head(q).id
      PROVE  FALSE
  <2>1. k + 1 = 1 /\ k \in Nat /\ k # 0
    BY <1>2, RestOfQueue DEF Once
  <2> QED BY <2>1
<1> QED BY <1>1, <1>2 DEF Once, Has

LEMMA LastWordJoined ==
  ASSUME NEW q, NEW r, IsQueue(q), IsQueue(r), LastWord(q), LastWord(r),
         \A i, t : Has(q, "delete", i) /\ t \in LockTypes => ~Has(r, t, i)
  PROVE  LastWord(q \o r)
<1> SUFFICES ASSUME NEW k \in DOMAIN (q \o r), NEW l \in DOMAIN (q \o r),
                    (q \o r)[k].type = "delete", l > k, (q \o r)[l].type \in LockTypes
             PROVE  (q \o r)[l].id # (q \o r)[k].id
  BY DEF LastWord
<1>0. k \in Int /\ l \in Int /\ Len(q) \in Int
  BY JoinedQueue
<1>1. CASE k \in DOMAIN q /\ l \in DOMAIN q
  BY <1>1, JoinedQueue DEF LastWord
<1>2. CASE k > Len(q)
  <2>1. l > Len(q) /\ l - Len(q) > k - Len(q)
    BY <1>0, <1>2
  <2>2. ASSUME NEW j \in DOMAIN (q \o r), j > Len(q)
        PROVE  j - Len(q) \in DOMAIN r /\ (q \o r)[j] = r[j - Len(q)]
    BY <2>2, InJoinedQueue
  <2> QED BY <1>2, <2>1, <2>2 DEF LastWord
<1>3. CASE k \in DOMAIN q /\ l > Len(q)
  <2>0. (q \o r)[k] = q[k] /\ l - Len(q) \in DOMAIN r /\ (q \o r)[l] = r[l - Len(q)]
    <3>1. (q \o r)[k] = q[k]
      BY <1>3, JoinedQueue
    <3> QED BY <1>3, <3>1, InJoinedQueue
  <2>1. Has(q, "delete", (q \o r)[k].id) /\ Has(r, (q \o r)[l].type, (q \o r)[l].id)
    BY <1>3, <2>0 DEF Has
  <2> QED BY <2>1
<1> QED BY <1>1, <1>2, <1>3, JoinedQueue

LEMMA LastWordRest ==
  ASSUME NEW q, IsQueue(q), q # <<>>, LastWord(q)
  PROVE  /\ LastWord(Tail(q))
         /\ Head(q).type = "delete" => \A t \in LockTypes : ~Has(Tail(q), t, Head(q).id)
<1>1. ASSUME NEW k \in DOMAIN Tail(q), NEW l \in DOMAIN Tail(q),
             Tail(q)[k].type = "delete", l > k, Tail(q)[l].type \in LockTypes
      PROVE  Tail(q)[l].id # Tail(q)[k].id
  <2>1. l + 1 > k + 1
    BY <1>1, RestOfQueue
  <2> QED BY <1>1, <2>1, RestOfQueue DEF LastWord
<1>2. ASSUME Head(q).type = "delete", NEW k \in DOMAIN Tail(q), Tail(q)[k].type \in LockTypes,
             Tail(q)[k].id = Head(q).id
      PROVE  FALSE
  <2>1. k + 1 > 1
    BY RestOfQueue
  <2> QED BY <1>2, <2>1, RestOfQueue DEF LastWord
<1> QED BY <1>1, <1>2 DEF LastWord, Has

LEMMA GrantsJoined ==
  ASSUME NEW q, NEW r, IsQueue(q), IsQueue(r), NEW i
  PROVE  /\ Grants(q, i) /\ DropFree(r, i) => Grants(q \o r, i)
         /\ DropFree(q, i) /\ DropFree(r, i) => DropFree(q \o r, i)
<1>1. ASSUME Grants(q, i), DropFree(r, i)
      PROVE  Grants(q \o r, i)
  <2>1. PICK k \in DOMAIN q : /\ q[k].type = "lock_granted" /\ q[k].id = i
                              /\ \A l \in DOMAIN q : l > k => ~Drops(q[l], i)
    BY <1>1 DEF Grants
  <2>2. k \in DOMAIN (q \o r) /\ (q \o r)[k] = q[k]
    BY JoinedQueue
  <2>3. ASSUME NEW l \in DOMAIN (q \o r), l > k
        PROVE  ~Drops((q \o r)[l], i)
    BY <1>1, <2>1, <2>3, JoinedQueue DEF DropFree
  <2> QED BY <2>1, <2>2, <2>3 DEF Grants
<1>2. ASSUME DropFree(q, i), DropFree(r, i)
      PROVE  DropFree(q \o r, i)
  <2>1. ASSUME NEW k \in DOMAIN (q \o r)
        PROVE  ~Drops((q \o r)[k], i)
    <3>1. \/ k \in DOMAIN q /\ (q \o r)[k] = q[k]
          \/ k - Len(q) \in DOMAIN r /\ (q \o r)[k] = r[k - Len(q)]
      BY JoinedQueue
    <3> QED BY <1>2, <3>1 DEF DropFree
  <2> QED BY <2>1 DEF DropFree
<1> QED BY <1>1, <1>2

\* A grant at the end of the queue is the last word.
LEMMA GrantsLast ==
  ASSUME NEW q, IsQueue(q), NEW i
  PROVE  Grants(q \o <<[type |-> "lock_granted", id |-> i]>>, i)
<1> DEFINE m == [type |-> "lock_granted", id |-> i]
           r == <<m>>
<1>1. IsQueue(r)
  BY HasOne
<1>2. DOMAIN r = {1} /\ r[1] = m /\ Len(r) = 1 /\ m.type = "lock_granted" /\ m.id = i
  OBVIOUS
<1> HIDE DEF r, m
<1>3. 1 + Len(q) \in DOMAIN (q \o r) /\ (q \o r)[1 + Len(q)] = m
  BY <1>1, <1>2, JoinedQueue
<1>4. \A l \in DOMAIN (q \o r) : ~(l > 1 + Len(q))
  <2>1. DOMAIN (q \o r) = 1..(Len(q) + Len(r)) /\ Len(q) \in Nat
    BY <1>1, JoinedQueue
  <2> QED BY <1>2, <2>1
<1>5. Grants(q \o r, i)
  BY <1>2, <1>3, <1>4 DEF Grants
<1> QED BY <1>5 DEF r, m

LEMMA GrantsRest ==
  ASSUME NEW q, IsQueue(q), q # <<>>, NEW i
  PROVE  /\ Grants(q, i) => \/ Grants(Tail(q), i)
                            \/ /\ Head(q).type = "lock_granted" /\ Head(q).id = i
                               /\ DropFree(Tail(q), i)
         /\ DropFree(q, i) => DropFree(Tail(q), i) /\ ~Drops(Head(q), i)
<1>1. ASSUME Grants(q, i)
      PROVE  \/ Grants(Tail(q), i)
             \/ /\ Head(q).type = "lock_granted" /\ Head(q).id = i
                /\ DropFree(Tail(q), i)
  <2>1. PICK k \in DOMAIN q : /\ q[k].type = "lock_granted" /\ q[k].id = i
                              /\ \A l \in DOMAIN q : l > k => ~Drops(q[l], i)
    BY <1>1 DEF Grants
  <2>2. CASE k = 1
    <3>1. ASSUME NEW l \in DOMAIN Tail(q)
          PROVE  ~Drops(Tail(q)[l], i)
      <4>1. l + 1 > 1 /\ l + 1 \in DOMAIN q /\ Tail(q)[l] = q[l + 1]
        BY RestOfQueue
      <4> QED BY <2>1, <2>2, <4>1
    <3> QED BY <2>1, <2>2, <3>1, RestOfQueue DEF DropFree
  <2>3. CASE k # 1
    <3>1. k - 1 \in DOMAIN Tail(q) /\ Tail(q)[k - 1] = q[k]
      BY <2>3, RestOfQueue
    <3>2. ASSUME NEW l \in DOMAIN Tail(q), l > k - 1
          PROVE  ~Drops(Tail(q)[l], i)
      <4>1. l + 1 > k /\ l + 1 \in DOMAIN q /\ Tail(q)[l] = q[l + 1]
        BY <3>2, RestOfQueue
      <4> QED BY <2>1, <4>1
    <3> QED BY <2>1, <3>1, <3>2 DEF Grants
  <2> QED BY <2>2, <2>3
<1>2. ASSUME DropFree(q, i)
      PROVE  DropFree(Tail(q), i) /\ ~Drops(Head(q), i)
  BY <1>2, RestOfQueue DEF DropFree
<1> QED BY <1>1, <1>2

-----------------------------------------------------------------------------
(***************************************************************************)
(* While both clients are connected: the ids H of the host and P of the    *)
(* peer, the ids L the host has locked for the peer, those G the peer      *)
(* believes locked, and the messages up to the host and down to the peer.  *)
(* hs: the host's user selects objects too (and then nobody deletes).      *)
(***************************************************************************)

\* The host finds the object of the id i, or takes i as the peer's own.
Known(H, i) == i \in H \/ i \div IdBase = Peer

LocksFit(hs, H, P, L, G, up, down) ==
  /\ \A i \in P : Known(H, i)
  /\ Once(down) /\ \A i : Has(down, "place", i) => i \in H /\ i \notin P
  /\ \A i : \A t \in LockTypes : Has(up, t, i) => Known(H, i)
  /\ LastWord(up) /\ \A i : Has(up, "delete", i) => i \notin P /\ ~Has(down, "place", i)
  /\ \A i : Has(up, "lock_request", i) => i \in P \/ Has(up, "delete", i)
  /\ \A i \in L : i \in P \/ Has(up, "delete", i)
  /\ \A i : ~Has(down, "delete", i)
  /\ hs => \A i : ~Has(up, "delete", i) /\ (Has(down, "lock_denied", i) => i \in P)
  /\ ~hs => \A i : DropFree(down, i)
  /\ \A i \in L : \/ Grants(down, i) \/ (i \in G /\ DropFree(down, i))
                  \/ Has(up, "unlock", i) \/ Has(up, "delete", i)

LEMMA LocksPeerSays ==
  ASSUME NEW hs, NEW H, NEW P, NEW L, NEW G, NEW up, NEW down, LocksFit(hs, H, P, L, G, up, down),
         IsQueue(up), IsQueue(down), NEW msgs, IsQueue(msgs), NEW Q, NEW K,
         \A i \in Q : i \notin P => Known(H, i) /\ ~Has(up, "delete", i) /\ ~Has(down, "place", i),
         \A i \in P : i \notin Q => Has(msgs, "delete", i),
         \A i : Has(msgs, "delete", i) => ~hs /\ i \in P /\ i \notin Q,
         \A i : Has(msgs, "unlock", i) => i \in P,
         \A i : Has(msgs, "lock_request", i) => i \in P /\ i \in Q,
         \A i \in G : i \notin K => Has(msgs, "unlock", i),
         LastWord(msgs)
  PROVE  LocksFit(hs, H, Q, L, K, up \o msgs, down)
<1>1. \A t, i : Has(up \o msgs, t, i) <=> Has(up, t, i) \/ Has(msgs, t, i)
  BY HasJoined
<1>2. \A i \in Q : Known(H, i)
  BY DEF LocksFit
<1>3. Once(down) /\ \A i : Has(down, "place", i) => i \in H /\ i \notin Q
  BY DEF LocksFit
<1>4. \A i, t : Has(msgs, t, i) /\ t \in LockTypes => i \in P
  BY DEF LockTypes
<1>5. \A i : \A t \in LockTypes : Has(up \o msgs, t, i) => Known(H, i)
  BY <1>1, <1>4 DEF LocksFit
<1>6. LastWord(up \o msgs)
  <2>1. \A i, t : Has(up, "delete", i) /\ t \in LockTypes => ~Has(msgs, t, i)
    BY <1>4 DEF LocksFit
  <2> QED BY <2>1, LastWordJoined DEF LocksFit
<1>7. \A i : Has(up \o msgs, "delete", i) => i \notin Q /\ ~Has(down, "place", i)
  BY <1>1 DEF LocksFit
<1>8. \A i : Has(up \o msgs, "lock_request", i) => i \in Q \/ Has(up \o msgs, "delete", i)
  BY <1>1 DEF LocksFit
<1>9. \A i \in L : i \in Q \/ Has(up \o msgs, "delete", i)
  BY <1>1 DEF LocksFit
<1>10. hs => \A i : ~Has(up \o msgs, "delete", i) /\ (Has(down, "lock_denied", i) => i \in Q)
  BY <1>1 DEF LocksFit
<1>11. \A i \in L : \/ Grants(down, i) \/ (i \in K /\ DropFree(down, i))
                    \/ Has(up \o msgs, "unlock", i) \/ Has(up \o msgs, "delete", i)
  BY <1>1 DEF LocksFit
<1>12. (\A i : ~Has(down, "delete", i)) /\ (~hs => \A i : DropFree(down, i))
  BY DEF LocksFit
<1> QED BY ONLY <1>2, <1>3, <1>5, <1>6, <1>7, <1>8, <1>9, <1>10, <1>11, <1>12, Zenon DEF LocksFit

LEMMA LocksHostSays ==
  ASSUME NEW hs, NEW H, NEW P, NEW L, NEW G, NEW up, NEW down, LocksFit(hs, H, P, L, G, up, down),
         IsQueue(up), IsQueue(down), NEW msgs, IsQueue(msgs), NEW I, NEW M, H \subseteq I, M \subseteq L,
         \A i : Has(msgs, "place", i) =>
           i \in I /\ i \notin P /\ ~Has(up, "delete", i) /\ ~Has(down, "place", i),
         Once(msgs),
         \A i : ~Has(msgs, "delete", i) /\ ~Has(msgs, "lock_denied", i),
         \A i : Has(msgs, "unlock", i) => hs /\ i \notin M
  PROVE  LocksFit(hs, I, P, M, G, up, down \o msgs)
<1>1. \A t, i : Has(down \o msgs, t, i) <=> Has(down, t, i) \/ Has(msgs, t, i)
  BY HasJoined
<1>2. \A i : Known(H, i) => Known(I, i)
  BY DEF Known
<1>3. (\A i \in P : Known(I, i)) /\ \A i : \A t \in LockTypes : Has(up, t, i) => Known(I, i)
  BY <1>2 DEF LocksFit
<1>4. Once(down \o msgs)
  <2>1. \A i : ~(Has(down, "place", i) /\ Has(msgs, "place", i))
    OBVIOUS
  <2> QED BY <2>1, OnceJoined DEF LocksFit
<1>5. \A i : Has(down \o msgs, "place", i) => i \in I /\ i \notin P
  BY <1>1 DEF LocksFit
<1>6. \A i : Has(up, "delete", i) => i \notin P /\ ~Has(down \o msgs, "place", i)
  BY <1>1 DEF LocksFit
<1>7. /\ LastWord(up) /\ \A i : Has(up, "lock_request", i) => i \in P \/ Has(up, "delete", i)
      /\ \A i \in M : i \in P \/ Has(up, "delete", i)
  BY DEF LocksFit
<1>8. \A i : ~Has(down \o msgs, "delete", i)
  BY <1>1 DEF LocksFit
<1>9. hs => \A i : ~Has(up, "delete", i) /\ (Has(down \o msgs, "lock_denied", i) => i \in P)
  BY <1>1 DEF LocksFit
<1>10. \A i \in M : DropFree(msgs, i)
  BY DropFreeHas
<1>11. ~hs => \A i : DropFree(down \o msgs, i)
  BY <1>1, DropFreeHas DEF LocksFit
<1>12. \A i \in M : \/ Grants(down \o msgs, i) \/ (i \in G /\ DropFree(down \o msgs, i))
                    \/ Has(up, "unlock", i) \/ Has(up, "delete", i)
  BY <1>10, GrantsJoined DEF LocksFit
<1> QED BY ONLY <1>3, <1>4, <1>5, <1>6, <1>7, <1>8, <1>9, <1>11, <1>12, Zenon DEF LocksFit

\* The host takes a message that is not about locks.
LEMMA LocksHostHears ==
  ASSUME NEW hs, NEW H, NEW P, NEW L, NEW G, NEW up, NEW down, LocksFit(hs, H, P, L, G, up, down),
         IsQueue(up), up # <<>>, Head(up).type \notin LockTypes, NEW I, H \subseteq I
  PROVE  LocksFit(hs, I, P, L, G, Tail(up), down)
<1>1. \A t, i : Has(up, t, i) <=> (Head(up).type = t /\ Head(up).id = i) \/ Has(Tail(up), t, i)
  BY HasRest
<1>2. \A i, t : t \in LockTypes => (Has(up, t, i) <=> Has(Tail(up), t, i))
  BY <1>1
<1>3. "delete" \in LockTypes /\ "unlock" \in LockTypes /\ "lock_request" \in LockTypes
  BY DEF LockTypes
<1>4. \A i : Known(H, i) => Known(I, i)
  BY DEF Known
<1>5. LastWord(Tail(up))
  BY LastWordRest DEF LocksFit
<1>6. (\A i \in P : Known(I, i)) /\ \A i : \A t \in LockTypes : Has(Tail(up), t, i) => Known(I, i)
  BY <1>2, <1>4 DEF LocksFit
<1>7. Once(down) /\ \A i : Has(down, "place", i) => i \in I /\ i \notin P
  BY DEF LocksFit
<1>8. /\ \A i : Has(Tail(up), "delete", i) => i \notin P /\ ~Has(down, "place", i)
      /\ \A i : Has(Tail(up), "lock_request", i) => i \in P \/ Has(Tail(up), "delete", i)
      /\ \A i \in L : i \in P \/ Has(Tail(up), "delete", i)
  BY <1>2, <1>3 DEF LocksFit
<1>9. /\ \A i : ~Has(down, "delete", i)
      /\ hs => \A i : ~Has(Tail(up), "delete", i) /\ (Has(down, "lock_denied", i) => i \in P)
      /\ ~hs => \A i : DropFree(down, i)
  BY <1>2, <1>3 DEF LocksFit
<1>10. \A i \in L : \/ Grants(down, i) \/ (i \in G /\ DropFree(down, i))
                    \/ Has(Tail(up), "unlock", i) \/ Has(Tail(up), "delete", i)
  BY <1>2, <1>3 DEF LocksFit
<1> QED BY ONLY <1>5, <1>6, <1>7, <1>8, <1>9, <1>10, Zenon DEF LocksFit

\* The host takes the lock back from i, or deletes i.
LEMMA LocksHostReleases ==
  ASSUME NEW hs, NEW H, NEW P, NEW L, NEW G, NEW up, NEW down, LocksFit(hs, H, P, L, G, up, down),
         IsQueue(up), up # <<>>, NEW I, NEW j, j = Head(up).id,
         \/ Head(up).type = "unlock" /\ I = H
         \/ Head(up).type = "delete" /\ I = H \ {j}
  PROVE  LocksFit(hs, I, P, L \ {j}, G, Tail(up), down)
<1>1. \A t, i : Has(up, t, i) <=> (Head(up).type = t /\ Head(up).id = i) \/ Has(Tail(up), t, i)
  BY HasRest
<1>2. \A i, t : i # j => (Has(up, t, i) <=> Has(Tail(up), t, i))
  BY <1>1
<1>3. \A t, i : Has(Tail(up), t, i) => Has(up, t, i)
  BY <1>1
<1>4. \A i : i # j \/ I = H => (Known(H, i) => Known(I, i))
  BY DEF Known
<1>5. LastWord(Tail(up)) /\ (Head(up).type = "delete" => \A t \in LockTypes : ~Has(Tail(up), t, j))
  BY LastWordRest DEF LocksFit
<1>6. Head(up).type = "delete" => j \notin P /\ ~Has(down, "place", j)
  BY <1>1 DEF LocksFit
<1>7. (\A i \in P : Known(I, i)) /\ \A i : \A t \in LockTypes : Has(Tail(up), t, i) => Known(I, i)
  BY <1>3, <1>4, <1>5, <1>6 DEF LocksFit
<1>8. Once(down) /\ \A i : Has(down, "place", i) => i \in I /\ i \notin P
  BY <1>6 DEF LocksFit
<1>9. \A i : Has(Tail(up), "delete", i) => i \notin P /\ ~Has(down, "place", i)
  BY <1>3 DEF LocksFit
<1>10. \A i : Has(Tail(up), "lock_request", i) => i \in P \/ Has(Tail(up), "delete", i)
  <2>1. "lock_request" \in LockTypes /\ "unlock" # "lock_request" /\ "unlock" # "delete" /\ "delete" # "lock_request"
    BY DEF LockTypes
  <2>2. \A i : Has(Tail(up), "lock_request", i) => i \in P \/ Has(up, "delete", i)
    BY <1>3 DEF LocksFit
  <2> QED BY <1>1, <1>2, <1>5, <2>1, <2>2
<1>11. \A i \in L \ {j} : i \in P \/ Has(Tail(up), "delete", i)
  BY <1>2 DEF LocksFit
<1>12. /\ \A i : ~Has(down, "delete", i)
       /\ hs => \A i : ~Has(Tail(up), "delete", i) /\ (Has(down, "lock_denied", i) => i \in P)
       /\ ~hs => \A i : DropFree(down, i)
  BY <1>3 DEF LocksFit
<1>13. \A i \in L \ {j} : \/ Grants(down, i) \/ (i \in G /\ DropFree(down, i))
                          \/ Has(Tail(up), "unlock", i) \/ Has(Tail(up), "delete", i)
  BY <1>2 DEF LocksFit
<1> QED BY ONLY <1>5, <1>7, <1>8, <1>9, <1>10, <1>11, <1>12, <1>13, Zenon DEF LocksFit

\* The host gives the peer the lock it asks for, or says that it has it itself.
LEMMA LocksHostAnswers ==
  ASSUME NEW hs, NEW H, NEW P, NEW L, NEW G, NEW up, NEW down, LocksFit(hs, H, P, L, G, up, down),
         IsQueue(up), up # <<>>, IsQueue(down), NEW j, j = Head(up).id, Head(up).type = "lock_request",
         NEW t, NEW M,
         \/ t = "lock_granted" /\ M = L \cup {j}
         \/ t = "lock_denied" /\ M = L /\ j \notin L /\ hs
  PROVE  LocksFit(hs, H, P, M, G, Tail(up), down \o <<[type |-> t, id |-> j]>>)
<1> DEFINE m == [type |-> t, id |-> j]
           r == <<m>>
<1>1. \A u, i : Has(up, u, i) <=> (Head(up).type = u /\ Head(up).id = i) \/ Has(Tail(up), u, i)
  BY HasRest
<1>2. m.type = t /\ m.id = j
  OBVIOUS
<1> HIDE DEF m
<1>3. IsQueue(r) /\ Once(r) /\ \A u, i : Has(r, u, i) <=> u = t /\ i = j
  BY <1>2, HasOne
<1> HIDE DEF r
<1>4. \A u, i : Has(down \o r, u, i) <=> Has(down, u, i) \/ (u = t /\ i = j)
  BY <1>3, HasJoined
<1>5. \A i : Has(up, "delete", i) <=> Has(Tail(up), "delete", i)
  BY <1>1
<1>6. \A i : Has(up, "unlock", i) <=> Has(Tail(up), "unlock", i)
  BY <1>1
<1>7. j \in P \/ Has(up, "delete", j)
  BY <1>1 DEF LocksFit
<1>8. Once(down \o r) /\ \A i : Has(down \o r, "place", i) => i \in H /\ i \notin P
  <2>1. \A i : ~(Has(down, "place", i) /\ Has(r, "place", i))
    BY <1>3
  <2>2. Once(down \o r)
    BY <1>3, <2>1, OnceJoined DEF LocksFit
  <2> QED BY <1>4, <2>2 DEF LocksFit
<1>9. (\A i \in P : Known(H, i)) /\ \A i : \A u \in LockTypes : Has(Tail(up), u, i) => Known(H, i)
  BY <1>1 DEF LocksFit
<1>10. LastWord(Tail(up)) /\ \A i : Has(Tail(up), "delete", i) => i \notin P /\ ~Has(down \o r, "place", i)
  <2>1. LastWord(Tail(up))
    BY LastWordRest DEF LocksFit
  <2> QED BY <1>4, <1>5, <2>1 DEF LocksFit
<1>11. \A i : Has(Tail(up), "lock_request", i) => i \in P \/ Has(Tail(up), "delete", i)
  BY <1>1, <1>5 DEF LocksFit
<1>12. \A i \in M : i \in P \/ Has(Tail(up), "delete", i)
  BY <1>5, <1>7 DEF LocksFit
<1>13. \A i : ~Has(down \o r, "delete", i)
  BY <1>4 DEF LocksFit
<1>14. hs => \A i : ~Has(Tail(up), "delete", i) /\ (Has(down \o r, "lock_denied", i) => i \in P)
  BY <1>4, <1>5, <1>7 DEF LocksFit
<1>15. ~hs => \A i : DropFree(down \o r, i)
  BY <1>4, DropFreeHas DEF LocksFit
<1>16. \A i \in L : t = "lock_granted" \/ i # j => DropFree(r, i)
  BY <1>3, DropFreeHas
<1>17. \A i \in L : \/ Grants(down \o r, i) \/ (i \in G /\ DropFree(down \o r, i))
                    \/ Has(Tail(up), "unlock", i) \/ Has(Tail(up), "delete", i)
  BY <1>3, <1>5, <1>6, <1>16, GrantsJoined DEF LocksFit
<1>18. t = "lock_granted" => Grants(down \o r, j)
  BY GrantsLast DEF r, m
<1>19. \A i \in M : \/ Grants(down \o r, i) \/ (i \in G /\ DropFree(down \o r, i))
                    \/ Has(Tail(up), "unlock", i) \/ Has(Tail(up), "delete", i)
  BY <1>17, <1>18
<1>20. LocksFit(hs, H, P, M, G, Tail(up), down \o r)
  BY ONLY <1>8, <1>9, <1>10, <1>11, <1>12, <1>13, <1>14, <1>15, <1>19, Zenon DEF LocksFit
<1> QED BY <1>20 DEF r, m

\* The peer takes a message: Q are its ids then, and K the locks it has.
LEMMA LocksPeerHears ==
  ASSUME NEW hs, NEW H, NEW P, NEW L, NEW G, NEW up, NEW down, LocksFit(hs, H, P, L, G, up, down),
         IsQueue(down), down # <<>>, NEW Q, NEW K, NEW j, j = Head(down).id,
         IF Head(down).type = "place" THEN Q = P \cup {j} ELSE Q = P,
         IF Head(down).type \in {"unlock", "lock_denied"} THEN G \ {j} \subseteq K
         ELSE G \subseteq K,
         Head(down).type = "lock_granted" /\ j \in P => j \in K
  PROVE  LocksFit(hs, H, Q, L, K, up, Tail(down))
<1>1. \A t, i : Has(down, t, i) <=> (Head(down).type = t /\ Head(down).id = i) \/ Has(Tail(down), t, i)
  BY HasRest
<1>2. \A t, i : Has(Tail(down), t, i) => Has(down, t, i)
  BY <1>1
<1>3. \A i \in Q : i \in P \/ (i = j /\ Head(down).type = "place")
  OBVIOUS
<1>4. Head(down).type = "place" => j \in H /\ ~Has(up, "delete", j)
  BY <1>1 DEF LocksFit
<1>5. P \subseteq Q
  OBVIOUS
<1>6. \A i \in Q : Known(H, i)
  BY <1>3, <1>4 DEF LocksFit, Known
<1>7. Once(Tail(down)) /\ (Head(down).type = "place" => ~Has(Tail(down), "place", j))
  BY OnceRest DEF LocksFit
<1>8. \A i : Has(Tail(down), "place", i) => i \in H /\ i \notin Q
  BY <1>2, <1>3, <1>7 DEF LocksFit
<1>9. \A i : Has(up, "delete", i) => i \notin Q /\ ~Has(Tail(down), "place", i)
  BY <1>2, <1>3, <1>4 DEF LocksFit
<1>10. /\ LastWord(up) /\ \A i : \A t \in LockTypes : Has(up, t, i) => Known(H, i)
       /\ \A i : Has(up, "lock_request", i) => i \in Q \/ Has(up, "delete", i)
       /\ \A i \in L : i \in Q \/ Has(up, "delete", i)
  BY <1>5 DEF LocksFit
<1>11. (\A i : ~Has(Tail(down), "delete", i)) /\ (~hs => \A i : DropFree(Tail(down), i))
  BY <1>2, DropFreeHas DEF LocksFit
<1>12. hs => \A i : ~Has(up, "delete", i) /\ (Has(Tail(down), "lock_denied", i) => i \in Q)
  BY <1>2, <1>5 DEF LocksFit
<1>13. ASSUME NEW i \in L
       PROVE  \/ Grants(Tail(down), i) \/ (i \in K /\ DropFree(Tail(down), i))
              \/ Has(up, "unlock", i) \/ Has(up, "delete", i)
  <2>1. \/ Grants(down, i) \/ (i \in G /\ DropFree(down, i))
        \/ Has(up, "unlock", i) \/ Has(up, "delete", i)
    BY DEF LocksFit
  <2>2. CASE Grants(down, i)
    <3>1. CASE Head(down).type = "lock_granted" /\ j = i /\ DropFree(Tail(down), i)
      <4>1. i \in P \/ Has(up, "delete", i)
        BY DEF LocksFit
      <4> QED BY <3>1, <4>1
    <3> QED BY <2>2, <3>1, GrantsRest
  <2>3. CASE i \in G /\ DropFree(down, i)
    <3>1. DropFree(Tail(down), i) /\ ~Drops(Head(down), i)
      BY <2>3, GrantsRest
    <3> QED BY <2>3, <3>1 DEF Drops
  <2> QED BY <2>1, <2>2, <2>3
<1> QED BY ONLY <1>6, <1>7, <1>8, <1>9, <1>10, <1>11, <1>12, <1>13, Zenon DEF LocksFit

-----------------------------------------------------------------------------
(***************************************************************************)
(* The same of the session's state, and what a step has to show for it.    *)
(***************************************************************************)
Ids(n) == DOMAIN reg[n].byId
PeerLocks == {i \in DOMAIN locks : locks[i] = Peer}
Up == \A n \in Nodes : conn[n] /\ link[n]

Fits(hs) == LocksFit(hs, Ids(Host), Ids(Peer), PeerLocks, held[Peer], chan[Host], chan[Peer])

LEMMA FitsAfter ==
  ASSUME NEW hs, NEW H, NEW P, NEW L, NEW G, NEW up, NEW down, LocksFit(hs, H, P, L, G, up, down),
         Ids(Host)' = H, Ids(Peer)' = P, PeerLocks' = L, held'[Peer] = G,
         chan'[Host] = up, chan'[Peer] = down
  PROVE  Fits(hs)'
  BY Zenon DEF Fits

LEMMA QueuesAre ==
  ASSUME SyncInv, NEW n \in Nodes
  PROVE  IsQueue(chan[n])
  BY Queues DEF IsQueue

\* An id that no counter has passed is not spoken of.
LEMMA UnheardOf ==
  ASSUME SyncInv, NEW i, i \notin HandedOut, NEW n \in Nodes
  PROVE  i \notin Ids(n) /\ ~Has(chan[n], "delete", i) /\ ~Has(chan[n], "place", i)
<1>1. i \notin Ids(n)
  BY InvFacts DEF Ids
<1>2. ASSUME NEW k \in DOMAIN chan[n], chan[n][k].type \in {"delete", "place"}, chan[n][k].id = i
      PROVE  FALSE
  <2>1. chan[n][k] \in Inboxes[n]
    BY Queues, ElementOfSeq
  <2> QED BY <1>2, <2>1, InboxMessage
<1> QED BY <1>1, <1>2 DEF Has

LEMMA UpPost ==
  ASSUME SyncInv, Up, NEW n \in Nodes, NEW msgs, Post(n, msgs)
  PROVE  chan'[Other(n)] = chan[Other(n)] \o msgs /\ chan'[n] = chan[n]
<1>1. chan' = [chan EXCEPT ![Other(n)] = @ \o msgs]
  BY NodesFacts DEF Post, Sent, Up
<1> QED BY <1>1, Queues, NodesFacts

LEMMA UpConsume ==
  ASSUME SyncInv, Up, NEW n \in Nodes, NEW replies, Consume(n, replies)
  PROVE  chan'[Other(n)] = chan[Other(n)] \o replies /\ chan'[n] = Tail(chan[n])
<1>1. chan' = [[chan EXCEPT ![n] = Tail(@)] EXCEPT ![Other(n)] = @ \o replies]
  BY NodesFacts DEF Consume, Sent, Up
<1> QED BY <1>1, Queues, NodesFacts

LEMMA NothingAppended ==
  ASSUME NEW q, IsQueue(q)
  PROVE  q \o <<>> = q
<1>1. PICK S : q \in Seq(S)
  BY DEF IsQueue
<1> QED BY <1>1

\* What the peer's hooks and its scan have to say.
LEMMA PeerTalks ==
  ASSUME SyncInv, Up, NEW hs, Fits(hs), NEW msgs, IsQueue(msgs), Post(Peer, msgs),
         UNCHANGED <<locks, Ids(Host)>>,
         \A i \in Ids(Peer)' : i \notin Ids(Peer) => i \notin HandedOut /\ i \div IdBase = Peer,
         \A i \in Ids(Peer) : i \notin Ids(Peer)' => Has(msgs, "delete", i),
         \A i : Has(msgs, "delete", i) => ~hs /\ i \in Ids(Peer) /\ i \notin Ids(Peer)',
         \A i : Has(msgs, "unlock", i) => i \in Ids(Peer),
         \A i : Has(msgs, "lock_request", i) => i \in Ids(Peer) /\ i \in Ids(Peer)',
         \A i \in held[Peer] : i \notin held'[Peer] => Has(msgs, "unlock", i),
         LastWord(msgs)
  PROVE  Fits(hs)'
<1> DEFINE H == Ids(Host)
           P == Ids(Peer)
           Q == Ids(Peer)'
           K == held'[Peer]
           L == PeerLocks
           G == held[Peer]
           up == chan[Host]
           down == chan[Peer]
<1>0. Host \in Nodes /\ Peer \in Nodes /\ Other(Peer) = Host
  BY NodesFacts
<1>1. chan'[Host] = up \o msgs /\ chan'[Peer] = down /\ IsQueue(up) /\ IsQueue(down)
  <2>1. chan'[Other(Peer)] = chan[Other(Peer)] \o msgs /\ chan'[Peer] = chan[Peer]
    BY <1>0, UpPost
  <2> QED BY <1>0, <2>1, QueuesAre
<1>2. \A i \in Q : i \notin P => Known(H, i) /\ ~Has(up, "delete", i) /\ ~Has(down, "place", i)
  BY UnheardOf, NodesFacts DEF Known
<1>3. PeerLocks' = L /\ Ids(Host)' = H
  BY DEF PeerLocks
<1>4. LocksFit(hs, H, P, L, G, up, down)
  BY DEF Fits
<1>5. /\ \A i \in P : i \notin Q => Has(msgs, "delete", i)
      /\ \A i : Has(msgs, "delete", i) => ~hs /\ i \in P /\ i \notin Q
      /\ \A i : Has(msgs, "unlock", i) => i \in P
      /\ \A i : Has(msgs, "lock_request", i) => i \in P /\ i \in Q
      /\ \A i \in G : i \notin K => Has(msgs, "unlock", i)
  OBVIOUS
<1>6. Ids(Peer)' = Q /\ held'[Peer] = K
  OBVIOUS
<1> HIDE DEF H, P, Q, K, L, G, up, down
<1>7. LocksFit(hs, H, Q, L, K, up \o msgs, down)
  BY <1>1, <1>2, <1>4, <1>5, LocksPeerSays
<1> QED BY <1>1, <1>3, <1>6, <1>7, FitsAfter

\* What the host's have to say.
LEMMA HostTalks ==
  ASSUME SyncInv, Up, NEW hs, Fits(hs), NEW msgs, IsQueue(msgs), Post(Host, msgs),
         held'[Peer] = held[Peer], Ids(Peer)' = Ids(Peer),
         Ids(Host) \subseteq Ids(Host)', PeerLocks' \subseteq PeerLocks,
         \A i : Has(msgs, "place", i) => i \in Ids(Host)' /\ i \notin HandedOut,
         Once(msgs),
         \A i : ~Has(msgs, "delete", i) /\ ~Has(msgs, "lock_denied", i),
         \A i : Has(msgs, "unlock", i) => hs /\ i \notin PeerLocks'
  PROVE  Fits(hs)'
<1> DEFINE H == Ids(Host)
           P == Ids(Peer)
           I == Ids(Host)'
           G == held[Peer]
           L == PeerLocks
           M == PeerLocks'
           up == chan[Host]
           down == chan[Peer]
<1>1. chan'[Host] = up /\ chan'[Peer] = down \o msgs /\ IsQueue(up) /\ IsQueue(down)
  BY UpPost, QueuesAre, NodesFacts
<1>2. \A i : Has(msgs, "place", i) => i \in I /\ i \notin P /\ ~Has(up, "delete", i) /\ ~Has(down, "place", i)
  BY UnheardOf, NodesFacts
<1>4. LocksFit(hs, H, P, L, G, up, down)
  BY DEF Fits
<1>5. /\ H \subseteq I /\ M \subseteq L
      /\ \A i : Has(msgs, "unlock", i) => hs /\ i \notin M
  OBVIOUS
<1>6. Ids(Peer)' = P /\ held'[Peer] = G /\ Ids(Host)' = I /\ PeerLocks' = M
  OBVIOUS
<1> HIDE DEF H, P, I, G, L, M, up, down
<1>7. LocksFit(hs, I, P, M, G, up, down \o msgs)
  BY <1>1, <1>2, <1>4, <1>5, LocksHostSays
<1> QED BY <1>1, <1>6, <1>7, FitsAfter

\* Nothing that matters to the locks changes.
LEMMA NothingForLocks ==
  ASSUME NEW hs, Fits(hs), UNCHANGED <<locks, chan>>, held'[Peer] = held[Peer],
         \A n \in Nodes : Ids(n)' = Ids(n)
  PROVE  Fits(hs)'
  BY NodesFacts DEF Fits, PeerLocks

LEMMA NoneOfType ==
  ASSUME NEW q
  PROVE  /\ (\A i : ~Has(q, "delete", i)) => LastWord(q)
         /\ (\A i : ~Has(q, "place", i)) => Once(q)
  BY DEF Has, LastWord, Once

\* The ids that a scan gives are new.
LEMMA ScanFresh ==
  ASSUME SyncInv, NEW n \in Nodes, NEW count \in Nat, IdsLeft(n) >= count,
         NEW i \in firstFree(n)..(firstFree(n) + count - 1)
  PROVE  i \in ProperIds /\ i \notin HandedOut /\ i \in NetIds
<1>1. firstFree(n) \in Int /\ count # 0 /\ i \in Int
      /\ i >= firstFree(n) /\ i <= firstFree(n) + count - 1
  BY ScanNumbers
<1>2. CASE n = Host
  <2>1. i >= reg[Host].nextId /\ i <= MaxId /\ i >= 1
    BY <1>1, <1>2, ScanNumbers, CountersBounded, NodesFacts DEF IdsLeft
  <2>2. i \in ProperIds
    BY <1>1, <2>1, CountersBounded DEF ProperIds
  <2>3. i \notin HandedOut
    BY <1>1, <2>1, CountersBounded DEF HandedOut
  <2> QED BY <2>2, <2>3, ProperAreNetIds
<1>3. CASE n = Peer
  <2>1. i >= IdBase + nextTempId /\ i <= IdBase + MaxTempId
    BY <1>1, <1>3, ScanNumbers, CountersBounded, NodesFacts DEF IdsLeft
  <2>2. i - IdBase \in 1..(IdBase - 1) /\ i = IdBase + (i - IdBase)
    BY <1>1, <2>1, CountersBounded
  <2>3. i \in ProperIds
    BY <2>2 DEF ProperIds
  <2>4. i \notin HandedOut
    BY <1>1, <2>1, CountersBounded DEF HandedOut
  <2> QED BY <2>3, <2>4, ProperAreNetIds
<1> QED BY <1>2, <1>3, NodesFacts

\* A placement gives an object without an id one that is new.
LEMMA PlacementBinds ==
  ASSUME SyncInv, NEW w \in Nodes, Names(reg[w], Live(w)),
         NEW o \in Heap[w], o \notin Live(w), IdsLeft(w) >= 1, link[w]
  PROVE  LET a == afterPlacement(w, o)
             id == placementId(w, o)
         IN /\ id \in ProperIds /\ id \notin HandedOut /\ id \notin DOMAIN reg[w].byId
            /\ w = Peer => id \div IdBase = Peer
            /\ RegistryOK(a) /\ a.byId = With(reg[w].byId, id, o) /\ a.fps = reg[w].fps
            /\ hasObject(a, o) /\ a.byPtr[o] = id
<1> DEFINE r == reg[w]
           a == afterPlacement(w, o)
           id == placementId(w, o)
<1>1. /\ SyncInv /\ w \in Nodes /\ RegistryOK(r) /\ Names(r, Live(w)) /\ o \in Ptrs
      /\ DOMAIN r.byId \subseteq HandedOut /\ HandedOut \subseteq ProperIds
  BY InvFacts
<1>2. ~hasObject(r, o) /\ \A i \in DOMAIN r.byId : r.byId[i] # o
  BY <1>1 DEF Names, RegistryOK, IsInverse, hasObject, hasNetworkId
<1>3. CASE w = Host
  <2>1. id = r.nextId /\ a = registerObject(r, o)
    BY <1>2, <1>3, NodesFacts DEF placementId, afterPlacement
  <2>2. r.nextId \in Nat /\ r.nextId >= 1 /\ r.nextId <= MaxId /\ MaxId < IdBase /\ IdBase \in Nat
        /\ MaxId \in Nat
    BY <1>1, <1>3, CountersBounded DEF IdsLeft
  <2>3. id \in ProperIds
    BY <2>1, <2>2 DEF ProperIds
  <2>7. id \notin HandedOut
    BY <2>1, <2>2, <1>1, <1>3, CountersBounded DEF HandedOut
  <2>4. id \notin DOMAIN r.byId
    BY <1>1, <2>7
  <2>5. RegistryOK(a)
    BY <1>1, <2>1, <2>4, RegisterOK
  <2>6. a.byId = With(r.byId, id, o) /\ a.byPtr = With(r.byPtr, o, id) /\ a.fps = r.fps
    BY <1>1, <1>2, <2>1 DEF registerObject, RegistryOK, IsRegistry
  <2> QED BY <1>3, <2>3, <2>4, <2>5, <2>6, <2>7, NodesFacts DEF With, hasObject
<1>4. CASE w = Peer
  <2>1. id = IdBase + nextTempId /\ nextTempId <= MaxTempId
    BY <1>1, <1>4, PlacementOK
  <2>2. a = bindObject(r, id, o)
    BY <1>4, NodesFacts DEF afterPlacement
  <2>3. /\ nextTempId \in Nat /\ nextTempId >= 1 /\ MaxTempId < IdBase /\ IdBase \in Nat /\ MaxTempId \in Nat
        /\ r = reg[Peer] /\ reg[Host].nextId \in Nat /\ reg[Host].nextId <= MaxId + 1 /\ MaxId < IdBase /\ MaxId \in Nat
    BY <1>1, <1>4, CountersBounded
  <2>4. id \in ProperIds
    BY <2>1, <2>3 DEF ProperIds
  <2>5. id \notin HandedOut
    BY <2>1, <2>3 DEF HandedOut
  <2>6. id \notin DOMAIN r.byId
    BY <1>1, <2>5
  <2>7. id \in NetIds
    BY <2>4, ProperAreNetIds
  <2>8. RegistryOK(a)
    BY <1>1, <2>2, <2>7, BindOK
  <2> DEFINE otherId == {i \in DOMAIN r.byId : hasObject(r, o) /\ i = r.byPtr[o] /\ i # id}
             otherPtr == {p \in DOMAIN r.byPtr : hasNetworkId(r, id) /\ p = r.byId[id] /\ p # o}
  <2>9. otherId = {} /\ otherPtr = {}
    BY <1>2, <2>6 DEF hasNetworkId
  <2>10. Without(r.byId, {}) = r.byId /\ Without(r.byPtr, {}) = r.byPtr /\ Without(r.fps, {}) = r.fps
    BY <1>1 DEF Without, RegistryOK, IsRegistry, IsMap
  <2>11. a.byId = With(r.byId, id, o) /\ a.byPtr = With(r.byPtr, o, id) /\ a.fps = r.fps
    BY <1>1, <2>2, <2>9, <2>10 DEF bindObject, RegistryOK, IsRegistry
  <2>12. id \div IdBase = Peer
    BY <2>1, <2>3, IdParts DEF Peer
  <2> QED BY <2>4, <2>5, <2>6, <2>8, <2>11, <2>12 DEF With, hasObject
<1> QED BY <1>1, <1>3, <1>4, NodesFacts

-----------------------------------------------------------------------------
(***************************************************************************)
(* Which ids a hook leaves in the registry.                                *)
(***************************************************************************)

LEMMA SameIdsBound ==
  ASSUME NEW r, RegistryOK(r), NEW id \in DOMAIN r.byId, NEW o \in Ptrs, ~hasObject(r, o)
  PROVE  DOMAIN bindObject(r, id, o).byId = DOMAIN r.byId
<1>1. {i \in DOMAIN r.byId : hasObject(r, o) /\ i = r.byPtr[o] /\ i # id} = {}
  OBVIOUS
<1>2. bindObject(r, id, o).byId = With(Without(r.byId, {}), id, o)
  BY <1>1 DEF bindObject, RegistryOK, IsRegistry
<1> QED BY <1>2 DEF With, Without

LEMMA SameIdsRecovered ==
  ASSUME NEW r, RegistryOK(r), NEW o \in Ptrs, NEW fp
  PROVE  DOMAIN recovered(r, o, fp).byId = DOMAIN r.byId
<1> DEFINE id == recoveredId(r, o, fp)
           b == IF hasObject(r, o) THEN r ELSE bindObject(r, id, o)
<1>1. CASE id = INVALID_OBJECT_ID
  BY <1>1 DEF recovered
<1>2. CASE id # INVALID_OBJECT_ID
  <2>1. id \in DOMAIN r.byId /\ id \in NetIds
    BY <1>2, RecoveredIdOK
  <2>2. recovered(r, o, fp) = updateFingerprint(b, id, fp)
    BY <1>2 DEF recovered
  <2> HIDE DEF id
  <2>3. RegistryOK(b) /\ DOMAIN b.byId = DOMAIN r.byId
    BY <2>1, BindOK, SameIdsBound
  <2> HIDE DEF b
  <2> QED BY <2>2, <2>3, UpdateNames
<1> QED BY <1>1, <1>2

LEMMA SameIdsLookedUp ==
  ASSUME SyncInv, NEW n \in Nodes, NEW r, RegistryOK(r), NEW S \in SUBSET Live(n)
  PROVE  DOMAIN lookedUp(n, r, S).byId = DOMAIN r.byId /\ idsOf(n, r, S) \subseteq DOMAIN r.byId
<1>1. CASE S = {}
  BY <1>1 DEF lookedUp, idsOf
<1>2. CASE S # {}
  <2> DEFINE o == The(S)
             fp == Fp(obj[n][o])
  <2>1. o \in Ptrs
    BY <1>2, TheElement, InvFacts
  <2>2. lookedUp(n, r, S) = recovered(r, o, fp) /\ idsOf(n, r, S) = {recoveredId(r, o, fp)} \ {INVALID_OBJECT_ID}
    BY <1>2 DEF lookedUp, idsOf
  <2> HIDE DEF o, fp
  <2> QED BY <2>1, <2>2, SameIdsRecovered, RecoveredIdOK
<1> QED BY <1>1, <1>2

LEMMA SameIdsRepaired ==
  ASSUME NEW r, RegistryOK(r), NEW o \in Ptrs, NEW o2 \in Ptrs, NEW c \in Contents
  PROVE  DOMAIN repaired(r, o, o2, c).byId = DOMAIN r.byId
<1>1. CASE hasObject(r, o2)
  BY <1>1, RefreshedOK DEF repaired
<1>2. CASE ~hasObject(r, o2) /\ hasObject(r, o)
  <2> DEFINE b == bindObject(r, r.byPtr[o], o2)
  <2>1. r.byPtr[o] \in DOMAIN r.byId /\ r.byPtr[o] \in NetIds
    BY <1>2 DEF RegistryOK, IsRegistry, IsInverse, IsMap, hasObject, hasNetworkId
  <2>2. RegistryOK(b) /\ DOMAIN b.byId = DOMAIN r.byId
    BY <1>2, <2>1, BindOK, SameIdsBound
  <2>3. repaired(r, o, o2, c) = refreshed(b, o2, c)
    BY <1>2 DEF repaired
  <2> HIDE DEF b
  <2> QED BY <2>2, <2>3, RefreshedOK
<1>3. CASE ~hasObject(r, o2) /\ ~hasObject(r, o)
  BY <1>3 DEF repaired
<1> QED BY <1>1, <1>2, <1>3

-----------------------------------------------------------------------------
(***************************************************************************)
(* One lemma per hook and handler.                                         *)
(***************************************************************************)
LEMMA UpFacts ==
  ASSUME AliveInv, Up, NEW n \in Nodes
  PROVE  /\ SyncInv /\ RolesInv /\ CalmInv /\ conn[n] /\ link[n]
         /\ Names(reg[n], Live(n)) /\ RegistryOK(reg[n])
         /\ \A flag \in builderFlags : hasPermission(n, flag) /\ peerHasPermission(n, flag)
<1>1. SyncInv /\ RolesInv /\ CalmInv /\ conn[n] /\ link[n]
  BY DEF AliveInv, RolesInv, Up
<1> QED BY <1>1, AllAllowed, InvFacts DEF AliveInv, Alive

LEMMA IdsAfter ==
  ASSUME SyncInv, NEW n \in Nodes, NEW q, reg' = [reg EXCEPT ![n] = q]
  PROVE  Ids(n)' = DOMAIN q.byId /\ \A m \in Nodes : m # n => Ids(m)' = Ids(m)
  BY InvFacts DEF RegsOK, Ids

LEMMA PlaceFits ==
  ASSUME AliveInv, Up, NEW hs, Fits(hs), NEW n \in Nodes, NEW o \in Heap[n], NEW c \in Contents,
         LocalPlace(n, o, c)
  PROVE  Fits(hs)'
<1> DEFINE id == placementId(n, o)
           a == afterPlacement(n, o)
           q == refreshed(a, o, c)
           m == [type |-> "place", id |-> id, c |-> c]
           msgs == <<m>>
<1>1. SyncInv /\ conn[n] /\ link[n] /\ Names(reg[n], Live(n)) /\ hasPermission(n, "canEdit")
  BY UpFacts DEF builderFlags
<1>2. /\ reg' = [reg EXCEPT ![n] = q] /\ Post(n, msgs) /\ UNCHANGED <<held, locks>> /\ o \notin Live(n)
  BY <1>1 DEF LocalPlace
<1>3. IdsLeft(n) >= 1
  <2>1. IdsLeft(n) > Cardinality(Unsynced(n)) /\ Cardinality(Unsynced(n)) \in Nat
    BY <1>1, UnsyncedFinite DEF LocalPlace
  <2>2. IdsLeft(n) \in Int
    BY <1>1, CountersBounded, NodesFacts DEF IdsLeft
  <2> QED BY <2>1, <2>2
<1>4. /\ id \notin HandedOut /\ RegistryOK(a) /\ a.byId = With(reg[n].byId, id, o)
      /\ n = Peer => id \div IdBase = Peer
  BY <1>1, <1>2, <1>3, PlacementBinds
<1>5. DOMAIN q.byId = Ids(n) \cup {id}
  <2>1. q.byId = a.byId
    BY <1>4, RefreshedOK
  <2> QED BY <1>4, <2>1 DEF With, Ids
<1>6. m.type = "place" /\ m.id = id
  OBVIOUS
<1> HIDE DEF id, a, q, m
<1>7. IsQueue(msgs) /\ Once(msgs) /\ LastWord(msgs) /\ \A t, i : Has(msgs, t, i) <=> t = "place" /\ i = id
  BY <1>6, HasOne
<1>8. Ids(n)' = Ids(n) \cup {id} /\ \A p \in Nodes : p # n => Ids(p)' = Ids(p)
  BY <1>1, <1>2, <1>5, IdsAfter
<1> HIDE DEF msgs
<1>9. CASE n = Peer
  <2>1. UNCHANGED <<locks, Ids(Host)>> /\ Ids(Peer)' = Ids(Peer) \cup {id} /\ held'[Peer] = held[Peer]
    BY <1>2, <1>8, <1>9, NodesFacts
  <2>2. \A i \in Ids(Peer)' : i \notin Ids(Peer) => i \notin HandedOut /\ i \div IdBase = Peer
    BY <1>4, <1>9, <2>1
  <2> QED BY <1>1, <1>2, <1>7, <1>9, <2>1, <2>2, PeerTalks
<1>10. CASE n = Host
  <2>1. Ids(Peer)' = Ids(Peer) /\ Ids(Host)' = Ids(Host) \cup {id} /\ held'[Peer] = held[Peer] /\ PeerLocks' = PeerLocks
    BY <1>2, <1>8, <1>10, NodesFacts DEF PeerLocks
  <2> QED BY <1>1, <1>2, <1>4, <1>7, <1>10, <2>1, HostTalks
<1> QED BY <1>9, <1>10, NodesFacts

LEMMA DiscoverFits ==
  ASSUME AliveInv, Up, NEW hs, Fits(hs), NEW n \in Nodes, Discover(n)
  PROVE  Fits(hs)'
<1> DEFINE S == toDiscover(n)
           count == Cardinality(S)
           first == firstFree(n)
<1>1. SyncInv /\ conn[n] /\ link[n] /\ hasPermission(n, "canEdit")
  BY UpFacts DEF builderFlags
<1>2. S \in SUBSET Unsynced(n) /\ IsFiniteSet(S) /\ count \in Nat
  BY <1>1, UnsyncedFinite DEF toDiscover
<1>3. PICK f \in Numberings(S, first) :
          LET objectOf(i) == CHOOSE o \in S : f[o] = i
              r == IF link[n] THEN bindAll(reg[n], f) ELSE reg[n]
          IN /\ reg' = [reg EXCEPT ![n] = IF n = Host THEN [r EXCEPT !.nextId = @ + count] ELSE r]
             /\ Post(n, [k \in 1..count |->
                          [type |-> "place", id |-> first + k - 1,
                           c |-> obj[n][objectOf(first + k - 1)]]])
  BY <1>1 DEF Discover, firstFree
<1> DEFINE objectOf(i) == CHOOSE o \in S : f[o] = i
           r == bindAll(reg[n], f)
           q == IF n = Host THEN [r EXCEPT !.nextId = @ + count] ELSE r
           msgs == [k \in 1..count |-> [type |-> "place", id |-> first + k - 1,
                                        c |-> obj[n][objectOf(first + k - 1)]]]
<1>4. reg' = [reg EXCEPT ![n] = q] /\ Post(n, msgs)
  BY <1>1, <1>3
<1>5. IdsLeft(n) >= count /\ UNCHANGED <<held, locks>>
  BY <1>1 DEF Discover
<1> HIDE DEF S, count
<1>6. first \in Int /\ \A i \in first..(first + count - 1) : i \in NetIds /\ i \notin HandedOut
  BY <1>1, <1>2, <1>5, ScanNumbers, ScanFresh
<1>7. \A i \in first..(first + count - 1) : n = Peer => i \div IdBase = Peer
  <2>1. ASSUME NEW i \in first..(first + count - 1), n = Peer
        PROVE  i \div IdBase = Peer
    <3>1. first = IdBase + nextTempId /\ IdsLeft(n) = MaxTempId - nextTempId + 1 /\ count # 0
      <4>1. count # 0
        BY <1>2, <1>6
      <4> QED BY <1>1, <1>2, <1>5, <2>1, <4>1, ScanNumbers, NodesFacts DEF IdsLeft
    <3>2. i - IdBase \in 0..(IdBase - 1) /\ i = IdBase + (i - IdBase)
      BY <1>1, <1>2, <1>5, <1>6, <3>1, CountersBounded
    <3> QED BY <3>2, IdParts DEF Peer
  <2> QED BY <2>1
<1> HIDE DEF first
<1>8. /\ f \in [S -> first..(first + count - 1)] /\ \A o, p \in S : f[o] = f[p] => o = p
      /\ \A i \in first..(first + count - 1) : \E o \in S : f[o] = i
  BY <1>2, <1>3, <1>6, NumberingOK DEF count
<1>9. RegistryOK(r) /\ \A i : i \in DOMAIN r.byId <=> i \in Ids(n) \/ i \in first..(first + count - 1)
  <2>1. S \in SUBSET Ptrs /\ S \cap DOMAIN reg[n].byPtr = {} /\ f \in [S -> NetIds]
    BY <1>1, <1>2, <1>6, <1>8, InvFacts DEF Unsynced, hasObject
  <2>2. RegistryOK(reg[n])
    BY <1>1, InvFacts
  <2>3. \A o, p \in S : f[o] = f[p] => o = p
    BY <1>8
  <2>4. /\ RegistryOK(bindAll(reg[n], f))
        /\ \A i : i \in DOMAIN bindAll(reg[n], f).byId <=> i \in DOMAIN reg[n].byId \/ \E o \in S : f[o] = i
    BY ONLY <2>1, <2>2, <2>3, BindAllOK
  <2>5. \A i : (\E o \in S : f[o] = i) <=> i \in first..(first + count - 1)
    BY <1>8
  <2> QED BY <2>4, <2>5 DEF Ids
<1> HIDE DEF r
<1>10. DOMAIN q.byId = DOMAIN r.byId
  BY <1>2, <1>9, CountedOK
<1>11. IsQueue(msgs) /\ Once(msgs) /\ LastWord(msgs)
       /\ \A t, i : Has(msgs, t, i) <=> t = "place" /\ i \in first..(first + count - 1)
  <2>1. DOMAIN msgs = 1..count /\ \A k \in 1..count : msgs[k].type = "place" /\ msgs[k].id = first + k - 1
    OBVIOUS
  <2>2. IsQueue(msgs)
    <3>1. msgs = [k \in 1..count |-> msgs[k]]
      BY <2>1
    <3> DEFINE box == {msgs[k] : k \in 1..count}
    <3>2. \A k \in 1..count : msgs[k] \in box
      OBVIOUS
    <3> HIDE DEF msgs, box
    <3> QED BY <1>2, <3>1, <3>2, Messages1ToK DEF IsQueue
  <2> HIDE DEF msgs
  <2>3. ASSUME NEW i \in first..(first + count - 1)
        PROVE  Has(msgs, "place", i)
    <3>1. (i - first + 1) \in 1..count /\ first + (i - first + 1) - 1 = i
      BY <1>2, <1>6
    <3> QED BY <2>1, <3>1 DEF Has
  <2>4. ASSUME NEW t, NEW i, Has(msgs, t, i)
        PROVE  t = "place" /\ i \in first..(first + count - 1)
    <3>1. PICK k \in 1..count : t = "place" /\ i = first + k - 1
      BY <2>1, <2>4 DEF Has
    <3> QED BY <1>2, <1>6, <3>1
  <2>5. Once(msgs)
    <3>1. \A k, l \in 1..count : first + k - 1 = first + l - 1 => k = l
      BY <1>2, <1>6
    <3> QED BY <2>1, <3>1 DEF Once
  <2> QED BY <2>2, <2>3, <2>4, <2>5, NoneOfType
<1> HIDE DEF q, msgs
<1>12. (Ids(n)' = DOMAIN q.byId) /\ \A p \in Nodes : p # n => Ids(p)' = Ids(p)
  BY <1>1, <1>4, IdsAfter
<1>13. CASE n = Peer
  <2>1. UNCHANGED <<locks, Ids(Host)>> /\ held'[Peer] = held[Peer]
    BY <1>5, <1>12, <1>13, NodesFacts
  <2>2. \A i \in Ids(Peer)' : i \notin Ids(Peer) => i \notin HandedOut /\ i \div IdBase = Peer
    BY <1>6, <1>7, <1>9, <1>10, <1>12, <1>13
  <2>3. \A i \in Ids(Peer) : i \in Ids(Peer)'
    BY <1>9, <1>10, <1>12, <1>13
  <2> QED BY <1>1, <1>4, <1>11, <1>13, <2>1, <2>2, <2>3, PeerTalks
<1>14. CASE n = Host
  <2>1. Ids(Peer)' = Ids(Peer) /\ held'[Peer] = held[Peer] /\ PeerLocks' = PeerLocks
    BY <1>5, <1>12, <1>14, NodesFacts DEF PeerLocks
  <2>2. Ids(Host) \subseteq Ids(Host)' /\ \A i \in first..(first + count - 1) : i \in Ids(Host)' /\ i \notin HandedOut
    BY <1>6, <1>9, <1>10, <1>12, <1>14
  <2> QED BY <1>1, <1>4, <1>11, <1>14, <2>1, <2>2, HostTalks
<1> QED BY <1>13, <1>14, NodesFacts

\* Messages that concern neither placements nor locks.
Plain(msgs) == IsQueue(msgs) /\ \A t, i : Has(msgs, t, i) => t \in {"commit", "permission_update"}

LEMMA PlainFits ==
  ASSUME SyncInv, Up, NEW hs, Fits(hs), NEW n \in Nodes, NEW msgs, Plain(msgs), Post(n, msgs),
         UNCHANGED locks, held'[Peer] = held[Peer], \A m \in Nodes : Ids(m)' = Ids(m)
  PROVE  Fits(hs)'
<1>1. \A t, i : t \in {"place", "delete", "unlock", "lock_request", "lock_denied"} => ~Has(msgs, t, i)
  BY DEF Plain
<1>2. IsQueue(msgs) /\ Once(msgs) /\ LastWord(msgs)
  BY <1>1, NoneOfType DEF Plain
<1>3. Ids(Host)' = Ids(Host) /\ Ids(Peer)' = Ids(Peer) /\ PeerLocks' = PeerLocks
  BY NodesFacts DEF PeerLocks
<1>4. CASE n = Peer
  BY <1>1, <1>2, <1>3, <1>4, PeerTalks
<1>5. CASE n = Host
  BY <1>1, <1>2, <1>3, <1>5, HostTalks
<1> QED BY <1>4, <1>5, NodesFacts

LEMMA CommitIsPlain ==
  ASSUME NEW r, NEW id, NEW os
  PROVE  Plain(commitOf(r, id, os))
<1> DEFINE m == [type |-> "commit", id |-> id, c |-> os[r.byId[id]]]
<1>1. m.type = "commit"
  OBVIOUS
<1>2. commitOf(r, id, os) = <<m>> \/ commitOf(r, id, os) = <<>>
  BY DEF commitOf
<1> HIDE DEF m
<1>3. Plain(<<m>>) /\ Plain(<<>>)
  BY <1>1, HasOne DEF Plain
<1> QED BY <1>2, <1>3

\* What the release of the objects ids says.
LEMMA ReleaseSays ==
  ASSUME NEW n, NEW r, NEW ids
  PROVE  /\ IsQueue(release(n, r, ids))
         /\ \A t, i : Has(release(n, r, ids), t, i) =>
              t = "commit" \/ t = "permission_update" \/ (t = "unlock" /\ ids # {} /\ i = The(ids))
         /\ ids # {} /\ (n = Host \/ ids \subseteq held[n]) =>
              Has(release(n, r, ids), "unlock", The(ids))
<1> DEFINE commit == commitOf(r, The(ids), obj[n])
           unlock == [type |-> "unlock", id |-> The(ids)]
<1>1. CASE ids # {} /\ (n = Host \/ ids \subseteq held[n])
  <2>1. release(n, r, ids) = commit \o <<unlock>>
    BY <1>1 DEF release
  <2>2. unlock.type = "unlock" /\ unlock.id = The(ids)
    OBVIOUS
  <2>3. Plain(commit)
    BY CommitIsPlain
  <2> HIDE DEF commit, unlock
  <2>4. IsQueue(<<unlock>>) /\ \A t, i : Has(<<unlock>>, t, i) <=> t = "unlock" /\ i = The(ids)
    BY <2>2, HasOne
  <2>5. /\ IsQueue(commit \o <<unlock>>)
        /\ \A t, i : Has(commit \o <<unlock>>, t, i) <=> Has(commit, t, i) \/ (t = "unlock" /\ i = The(ids))
    BY <2>3, <2>4, HasJoined DEF Plain
  <2>6. \A t, i : Has(commit, t, i) => t = "commit" \/ t = "permission_update"
    BY <2>3 DEF Plain
  <2> HIDE DEF release
  <2>7. /\ \A t, i : Has(release(n, r, ids), t, i) => Has(commit, t, i) \/ (t = "unlock" /\ i = The(ids))
        /\ Has(release(n, r, ids), "unlock", The(ids)) /\ IsQueue(release(n, r, ids))
    BY ONLY <2>1, <2>5
  <2>8. ids # {}
    BY <1>1
  <2> QED BY ONLY <2>6, <2>7, <2>8
<1>2. CASE ~(ids # {} /\ (n = Host \/ ids \subseteq held[n]))
  <2>1. release(n, r, ids) = <<>>
    BY <1>2 DEF release
  <2> QED BY <1>2, <2>1, HasOne
<1> QED BY <1>1, <1>2

LEMMA TransformFits ==
  ASSUME AliveInv, Up, NEW hs, Fits(hs), NEW n \in Nodes, NEW o \in Heap[n], NEW o2 \in Heap[n],
         NEW c \in Contents, LocalTransform(n, o, o2, c)
  PROVE  Fits(hs)'
<1> DEFINE r == repaired(reg[n], o, o2, c)
           q == recovered(r, o2, Fp(c))
<1>1. /\ SyncInv /\ RegistryOK(reg[n]) /\ conn[n] /\ hasPermission(n, "canEdit")
      /\ o \in Ptrs /\ o2 \in Ptrs
  BY UpFacts, InvFacts DEF builderFlags
<1>2. /\ reg' = [reg EXCEPT ![n] = q] /\ UNCHANGED <<held, locks>>
      /\ Post(n, commitOf(reg'[n], recoveredId(r, o2, Fp(c)), obj'[n]))
  BY <1>1 DEF LocalTransform
<1>3. RegistryOK(r) /\ DOMAIN r.byId = Ids(n)
  BY <1>1, RepairedOK, SameIdsRepaired DEF Ids
<1> HIDE DEF r
<1>4. DOMAIN q.byId = Ids(n)
  BY <1>1, <1>3, SameIdsRecovered
<1> HIDE DEF q
<1>5. \A m \in Nodes : Ids(m)' = Ids(m)
  BY <1>1, <1>2, <1>4, IdsAfter
<1>6. PICK msgs : Plain(msgs) /\ Post(n, msgs)
  BY <1>2, CommitIsPlain
<1> QED BY <1>1, <1>2, <1>5, <1>6, PlainFits

LEMMA DeleteFits ==
  ASSUME AliveInv, Up, NEW hs, Fits(hs), ~hs, NEW o \in Heap[Peer], LocalDelete(Peer, o)
  PROVE  Fits(hs)'
<1> DEFINE fp == Fp(obj[Peer][o])
           id == recoveredId(reg[Peer], o, fp)
           r == recovered(reg[Peer], o, fp)
           m == [type |-> "delete", id |-> id]
           msgs == <<m>>
<1>1. /\ Peer \in Nodes /\ SyncInv /\ RegistryOK(reg[Peer]) /\ conn[Peer]
      /\ hasPermission(Peer, "canDelete") /\ o \in Ptrs
  BY NodesFacts, UpFacts, InvFacts DEF builderFlags
<1>2. /\ UNCHANGED <<held, locks>> /\ o \in Live(Peer)
      /\ IF id # INVALID_OBJECT_ID
         THEN reg' = [reg EXCEPT ![Peer] = removeByNetworkId(r, id)] /\ Post(Peer, msgs)
         ELSE reg' = [reg EXCEPT ![Peer] = r] /\ UNCHANGED chan
  BY <1>1 DEF LocalDelete
<1>3. RegistryOK(r) /\ DOMAIN r.byId = Ids(Peer)
  <2>1. fp \in Prints
    BY <1>1, <1>2, InvFacts
  <2> HIDE DEF fp
  <2> QED BY <1>1, <2>1, RecoveredOK, SameIdsRecovered DEF Ids
<1>4. id # INVALID_OBJECT_ID => id \in Ids(Peer)
  BY <1>1, RecoveredIdOK DEF Ids
<1>5. m.type = "delete" /\ m.id = id
  OBVIOUS
<1> HIDE DEF fp, id, r, m
<1>6. CASE id = INVALID_OBJECT_ID
  <2>1. \A p \in Nodes : Ids(p)' = Ids(p)
    BY <1>1, <1>2, <1>3, <1>6, IdsAfter
  <2> QED BY <1>2, <1>6, <2>1, NothingForLocks
<1>7. CASE id # INVALID_OBJECT_ID
  <2>1. IsQueue(msgs) /\ LastWord(msgs) /\ \A t, i : Has(msgs, t, i) <=> t = "delete" /\ i = id
    BY <1>5, HasOne
  <2>2. DOMAIN removeByNetworkId(r, id).byId = Ids(Peer) \ {id}
    BY <1>3, RemoveByIdOK
  <2>3. Ids(Peer)' = Ids(Peer) \ {id} /\ Ids(Host)' = Ids(Host)
    BY <1>1, <1>2, <1>7, <2>2, IdsAfter, NodesFacts
  <2> HIDE DEF msgs
  <2>4. held'[Peer] = held[Peer] /\ Post(Peer, msgs) /\ UNCHANGED <<locks, Ids(Host)>>
    BY <1>2, <1>7, <2>3
  <2> QED BY <1>1, <1>4, <1>7, <2>1, <2>3, <2>4, PeerTalks
<1> QED BY <1>6, <1>7

LEMMA OldIds ==
  ASSUME SyncInv, NEW n \in Nodes, NEW S \in SUBSET Live(n), NEW old, old = idsOf(n, reg[n], S)
  PROVE  old \subseteq Ids(n) /\ \A i \in old : old = {i} /\ The(old) = i
<1>1. old \subseteq Ids(n)
  BY SameIdsLookedUp, InvFacts DEF Ids
<1>2. \A i \in old : old = {i}
  BY DEF idsOf
<1>3. old # {} => The(old) \in old
  BY TheElement
<1> QED BY <1>1, <1>2, <1>3

\* A selection that is given up, and what a peer then asks for.
LEMMA SelectionFits ==
  ASSUME AliveInv, Up, NEW hs, Fits(hs), NEW n \in Nodes, n = Host => hs,
         NEW S \in SUBSET Live(n), NEW r, NEW old, old = idsOf(n, reg[n], S),
         \A m \in Nodes : Ids(m)' = Ids(m),
         NEW asked, IsQueue(asked), Post(n, release(n, r, old) \o asked),
         \A t, i : Has(asked, t, i) => n = Peer /\ t = "lock_request" /\ i \in Ids(Peer),
         n = Peer => locks' = locks /\ held'[Peer] = held[Peer] \ old,
         n = Host => held'[Peer] = held[Peer] /\ PeerLocks' \subseteq PeerLocks \ old
  PROVE  Fits(hs)'
<1> DEFINE given == release(n, r, old)
           msgs == given \o asked
<1>1. SyncInv
  BY UpFacts
<1>2. old \subseteq Ids(n) /\ \A i \in old : old = {i} /\ The(old) = i
  BY <1>1, OldIds
<1>3. /\ IsQueue(given)
      /\ \A t, i : Has(given, t, i) =>
           t = "commit" \/ t = "permission_update" \/ (t = "unlock" /\ old # {} /\ i = The(old))
      /\ old # {} /\ (n = Host \/ old \subseteq held[n]) => Has(given, "unlock", The(old))
  BY ReleaseSays
<1> HIDE DEF given
<1>4. /\ IsQueue(msgs) /\ \A t, i : Has(msgs, t, i) <=> Has(given, t, i) \/ Has(asked, t, i)
  BY <1>3, HasJoined
<1> HIDE DEF msgs
<1>5. \A t, i : Has(msgs, t, i) => \/ t = "commit" \/ t = "permission_update"
                                   \/ t = "unlock" /\ i \in old
                                   \/ n = Peer /\ t = "lock_request" /\ i \in Ids(Peer)
  <2>1. old # {} => The(old) \in old
    BY TheElement
  <2> QED BY <1>3, <1>4, <2>1
<1>6. LastWord(msgs) /\ Once(msgs) /\ \A i : ~Has(msgs, "delete", i) /\ ~Has(msgs, "place", i) /\ ~Has(msgs, "lock_denied", i)
  <2>1. \A i : ~Has(msgs, "delete", i) /\ ~Has(msgs, "place", i) /\ ~Has(msgs, "lock_denied", i)
    BY <1>5
  <2> QED BY <2>1, NoneOfType
<1>7. Post(n, msgs)
  BY DEF given, msgs
<1>8. CASE n = Peer
  <2>1. UNCHANGED <<locks, Ids(Host)>> /\ Ids(Peer)' = Ids(Peer) /\ held'[Peer] = held[Peer] \ old
    BY <1>8, NodesFacts
  <2>2. ASSUME NEW i \in held[Peer], i \notin held'[Peer]
        PROVE  Has(msgs, "unlock", i)
    <3>1. old = {i} /\ The(old) = i
      BY <1>2, <2>1, <2>2
    <3> QED BY <1>3, <1>4, <1>8, <2>2, <3>1
  <2>3. /\ \A i : Has(msgs, "unlock", i) => i \in Ids(Peer)
        /\ \A i : Has(msgs, "lock_request", i) => i \in Ids(Peer)
    BY <1>2, <1>5, <1>8
  <2> QED BY <1>1, <1>4, <1>6, <1>7, <1>8, <2>1, <2>2, <2>3, PeerTalks
<1>9. CASE n = Host
  <2>1. /\ held'[Peer] = held[Peer] /\ Ids(Peer)' = Ids(Peer) /\ Ids(Host) \subseteq Ids(Host)'
        /\ PeerLocks' \subseteq PeerLocks
    BY <1>9, NodesFacts
  <2>2. \A i : Has(msgs, "unlock", i) => hs /\ i \notin PeerLocks'
    BY <1>5, <1>9
  <2> QED BY <1>1, <1>4, <1>6, <1>7, <1>9, <2>1, <2>2, HostTalks
<1> QED BY <1>8, <1>9, NodesFacts

LEMMA SelectFits ==
  ASSUME AliveInv, Up, NEW hs, Fits(hs), NEW n \in Nodes, n = Host => hs,
         NEW o \in Heap[n], NEW dropped \in SUBSET sel[n], SelectObject(n, o, dropped)
  PROVE  Fits(hs)'
<1> DEFINE before == lookedUp(n, reg[n], dropped)
           old == idsOf(n, reg[n], dropped)
           new == idsOf(n, before, {o})
           asked == IF n = Peer /\ new # {} THEN <<[type |-> "lock_request", id |-> The(new)]>> ELSE <<>>
           q == lookedUp(n, before, {o})
<1>1. SyncInv /\ conn[n] /\ RegistryOK(reg[n]) /\ hasPermission(n, "canLock") /\ sel[n] \subseteq Live(n)
  BY UpFacts, InvFacts DEF builderFlags
<1>2. /\ reg' = [reg EXCEPT ![n] = q] /\ o \in Live(n)
      /\ held' = [held EXCEPT ![n] = (@ \ old) \cup IF n = Host THEN new ELSE {}]
      /\ locks' = IF n = Host
                  THEN [i \in (DOMAIN locks \ old) \cup new |-> IF i \in new THEN Host ELSE locks[i]]
                  ELSE locks
      /\ Post(n, release(n, before, old) \o asked)
  BY <1>1 DEF SelectObject
<1>3. RegistryOK(before) /\ DOMAIN before.byId = Ids(n) /\ dropped \in SUBSET Live(n)
  BY <1>1, LookedUpOK, SameIdsLookedUp, InvFacts DEF Ids
<1> HIDE DEF before
<1>4. DOMAIN q.byId = Ids(n) /\ new \subseteq Ids(n)
  BY <1>1, <1>2, <1>3, SameIdsLookedUp
<1> HIDE DEF q, new
<1>5. \A m \in Nodes : Ids(m)' = Ids(m)
  BY <1>1, <1>2, <1>4, IdsAfter
<1>6. IsQueue(asked) /\ \A t, i : Has(asked, t, i) => n = Peer /\ t = "lock_request" /\ i \in Ids(Peer)
  <2> DEFINE m == [type |-> "lock_request", id |-> The(new)]
  <2>1. m.type = "lock_request" /\ m.id = The(new)
    OBVIOUS
  <2> HIDE DEF m
  <2>2. IsQueue(<<m>>) /\ IsQueue(<<>>) /\ (\A t, i : ~Has(<<>>, t, i))
        /\ \A t, i : Has(<<m>>, t, i) <=> t = "lock_request" /\ i = The(new)
    BY <2>1, HasOne
  <2>3. new # {} => The(new) \in new
    BY TheElement
  <2>4. asked = IF n = Peer /\ new # {} THEN <<m>> ELSE <<>>
    BY DEF m
  <2> HIDE DEF asked
  <2> QED BY <1>4, <2>2, <2>3, <2>4
<1> HIDE DEF asked
<1>7. n = Peer => locks' = locks /\ held'[Peer] = held[Peer] \ old
  BY <1>1, <1>2, NodesFacts DEF SyncInv, LocksOK
<1>8. n = Host => held'[Peer] = held[Peer] /\ PeerLocks' \subseteq PeerLocks \ old
  <2>1. ASSUME n = Host
        PROVE  held'[Peer] = held[Peer]
    BY <1>1, <1>2, <2>1, NodesFacts DEF SyncInv, LocksOK
  <2>2. ASSUME n = Host, NEW i \in PeerLocks'
        PROVE  i \in PeerLocks \ old
    <3>1. locks' = [j \in (DOMAIN locks \ old) \cup new |-> IF j \in new THEN Host ELSE locks[j]]
      BY <1>2, <2>2
    <3>2. i \in DOMAIN locks' /\ locks'[i] = Peer
      BY <2>2 DEF PeerLocks
    <3>3. i \in (DOMAIN locks \ old) \cup new /\ (i \in new => locks'[i] = Host) /\ (i \notin new => locks'[i] = locks[i])
      BY <3>1, <3>2
    <3> QED BY <3>2, <3>3, NodesFacts DEF PeerLocks
  <2> QED BY <2>1, <2>2
<1> HIDE DEF old
<1>9. old = idsOf(n, reg[n], dropped)
  BY DEF old
<1>10. Post(n, release(n, before, old) \o asked)
  BY <1>2
<1> QED BY ONLY AliveInv, Up, Fits(hs), n \in Nodes, n = Host => hs, <1>3, <1>5, <1>6, <1>7, <1>8, <1>9, <1>10, SelectionFits

LEMMA DeselectFits ==
  ASSUME AliveInv, Up, NEW hs, Fits(hs), NEW n \in Nodes, n = Host => hs, DeselectAll(n)
  PROVE  Fits(hs)'
<1> DEFINE r == lookedUp(n, reg[n], sel[n])
           old == idsOf(n, reg[n], sel[n])
<1>1. SyncInv /\ conn[n] /\ RegistryOK(reg[n]) /\ sel[n] \in SUBSET Live(n)
  BY UpFacts, InvFacts
<1>2. /\ reg' = [reg EXCEPT ![n] = r]
      /\ held' = [held EXCEPT ![n] = @ \ old]
      /\ locks' = IF n = Host THEN Without(locks, old) ELSE locks
      /\ Post(n, release(n, r, old))
  BY <1>1 DEF DeselectAll
<1>3. DOMAIN r.byId = Ids(n)
  BY <1>1, SameIdsLookedUp DEF Ids
<1> HIDE DEF r
<1>4. \A m \in Nodes : Ids(m)' = Ids(m)
  BY <1>1, <1>2, <1>3, IdsAfter
<1>5. n = Peer => locks' = locks /\ held'[Peer] = held[Peer] \ old
  BY <1>1, <1>2, NodesFacts DEF SyncInv, LocksOK
<1>6. n = Host => held'[Peer] = held[Peer] /\ PeerLocks' \subseteq PeerLocks \ old
  BY <1>1, <1>2, NodesFacts DEF SyncInv, LocksOK, PeerLocks, Without
<1>7. Post(n, release(n, r, old) \o <<>>) /\ IsQueue(<<>>) /\ \A t, i : ~Has(<<>>, t, i)
  BY <1>2, ReleaseSays, NothingAppended, HasOne
<1>8. old = idsOf(n, reg[n], sel[n])
  OBVIOUS
<1> HIDE DEF old
<1> QED BY ONLY AliveInv, Up, Fits(hs), n \in Nodes, n = Host => hs, <1>1, <1>4, <1>5, <1>6, <1>7, <1>8, SelectionFits

LEMMA BoundIds ==
  ASSUME NEW r, RegistryOK(r), NEW id, NEW o, ~hasObject(r, o)
  PROVE  DOMAIN bindObject(r, id, o).byId = DOMAIN r.byId \cup {id}
<1>1. {i \in DOMAIN r.byId : hasObject(r, o) /\ i = r.byPtr[o] /\ i # id} = {}
  OBVIOUS
<1>2. bindObject(r, id, o).byId = With(Without(r.byId, {}), id, o)
  BY <1>1 DEF bindObject, RegistryOK, IsRegistry
<1> QED BY <1>2 DEF With, Without

\* The next message is on its way.
LEMMA NextIsUnderWay ==
  ASSUME SyncInv, NEW n \in Nodes, NEW t, Receives(n, t)
  PROVE  /\ IsQueue(chan[n]) /\ chan[n] # <<>> /\ Head(chan[n]).type = t
         /\ Head(chan[n]).id = Msg(n).id /\ Has(chan[n], t, Msg(n).id)
  BY NextMessage, QueuesAre DEF Receives, Msg, Has

\* The ids of the messages about locks are known to the host.
LEMMA NamesItself ==
  ASSUME SyncInv, NEW hs, Fits(hs), NEW t \in LockTypes, Receives(Host, t)
  PROVE  namedId(Host, Msg(Host).id) = Msg(Host).id
<1>1. Known(Ids(Host), Msg(Host).id)
  BY NextIsUnderWay, NodesFacts DEF Fits, LocksFit
<1> QED BY <1>1 DEF Known, Ids, namedId, hasNetworkId, canonicalPeerObjectId

\* A handler that answers nothing.
LEMMA NoAnswer ==
  ASSUME SyncInv, Up, NEW n \in Nodes, Consume(n, <<>>)
  PROVE  chan'[n] = Tail(chan[n]) /\ chan'[Other(n)] = chan[Other(n)]
<1>1. chan'[Other(n)] = chan[Other(n)] \o <<>> /\ chan'[n] = Tail(chan[n])
  BY UpConsume
<1>2. IsQueue(chan[Other(n)])
  BY QueuesAre, NodesFacts
<1> QED BY <1>1, <1>2, NothingAppended

\* The host takes a message that is not about locks.
LEMMA HostHears ==
  ASSUME SyncInv, Up, NEW hs, Fits(hs), NEW t, t \notin LockTypes, Receives(Host, t),
         Consume(Host, <<>>), held'[Peer] = held[Peer], PeerLocks' = PeerLocks,
         Ids(Peer)' = Ids(Peer), Ids(Host) \subseteq Ids(Host)'
  PROVE  Fits(hs)'
<1> DEFINE H == Ids(Host)
           P == Ids(Peer)
           I == Ids(Host)'
           G == held[Peer]
           L == PeerLocks
           up == chan[Host]
           down == chan[Peer]
<1>0. Head(up).type = t
  BY NextIsUnderWay, NodesFacts, Zenon
<1>1. /\ chan'[Host] = Tail(up) /\ chan'[Peer] = down
      /\ IsQueue(up) /\ up # <<>> /\ Head(up).type \notin LockTypes
  BY <1>0, NoAnswer, NextIsUnderWay, NodesFacts, Zenon
<1>2. LocksFit(hs, H, P, L, G, up, down) /\ H \subseteq I
  BY DEF Fits
<1>3. Ids(Peer)' = P /\ held'[Peer] = G /\ Ids(Host)' = I /\ PeerLocks' = L
  OBVIOUS
<1> HIDE DEF H, P, I, G, L, up, down
<1>4. LocksFit(hs, I, P, L, G, Tail(up), down)
  BY <1>1, <1>2, LocksHostHears
<1> QED BY <1>1, <1>3, <1>4, FitsAfter

\* The host takes a message that gives a lock up.
LEMMA HostReleases ==
  ASSUME SyncInv, Up, NEW hs, Fits(hs), NEW t, Receives(Host, t), NEW j, j = Msg(Host).id,
         \/ t = "unlock" /\ Ids(Host)' = Ids(Host)
         \/ t = "delete" /\ Ids(Host)' = Ids(Host) \ {j},
         Consume(Host, <<>>), held'[Peer] = held[Peer], locks' = Without(locks, {j}),
         Ids(Peer)' = Ids(Peer)
  PROVE  Fits(hs)'
<1> DEFINE H == Ids(Host)
           P == Ids(Peer)
           I == Ids(Host)'
           G == held[Peer]
           L == PeerLocks
           up == chan[Host]
           down == chan[Peer]
<1>1. /\ chan'[Host] = Tail(up) /\ chan'[Peer] = down
      /\ IsQueue(up) /\ up # <<>> /\ Head(up).type = t /\ j = Head(up).id
  BY NoAnswer, NextIsUnderWay, NodesFacts, Zenon
<1>2. LocksFit(hs, H, P, L, G, up, down)
  BY DEF Fits
<1>3. (Head(up).type = "unlock" /\ I = H) \/ (Head(up).type = "delete" /\ I = H \ {j})
  BY <1>1
<1>4. Ids(Peer)' = P /\ held'[Peer] = G /\ Ids(Host)' = I /\ PeerLocks' = L \ {j}
  BY DEF PeerLocks, Without
<1> HIDE DEF H, P, I, G, L, up, down
<1>5. LocksFit(hs, I, P, L \ {j}, G, Tail(up), down)
  BY ONLY <1>1, <1>2, <1>3, LocksHostReleases
<1> QED BY <1>1, <1>4, <1>5, FitsAfter

\* The peer takes a message.
LEMMA PeerHears ==
  ASSUME SyncInv, Up, NEW hs, Fits(hs), NEW t, Receives(Peer, t), NEW j, j = Msg(Peer).id,
         Consume(Peer, <<>>), PeerLocks' = PeerLocks, Ids(Host)' = Ids(Host),
         IF t = "place" THEN Ids(Peer)' = Ids(Peer) \cup {j} ELSE Ids(Peer)' = Ids(Peer),
         IF t \in {"unlock", "lock_denied"} THEN held[Peer] \ {j} \subseteq held'[Peer]
         ELSE held[Peer] \subseteq held'[Peer],
         t = "lock_granted" /\ j \in Ids(Peer) => j \in held'[Peer]
  PROVE  Fits(hs)'
<1> DEFINE H == Ids(Host)
           P == Ids(Peer)
           Q == Ids(Peer)'
           G == held[Peer]
           K == held'[Peer]
           L == PeerLocks
           up == chan[Host]
           down == chan[Peer]
<1>1. /\ chan'[Peer] = Tail(down) /\ chan'[Host] = up
      /\ IsQueue(down) /\ down # <<>> /\ Head(down).type = t /\ j = Head(down).id
  BY NoAnswer, NextIsUnderWay, NodesFacts, Zenon
<1>2. LocksFit(hs, H, P, L, G, up, down)
  BY DEF Fits
<1>3. /\ IF t = "place" THEN Q = P \cup {j} ELSE Q = P
      /\ IF t \in {"unlock", "lock_denied"} THEN G \ {j} \subseteq K ELSE G \subseteq K
      /\ t = "lock_granted" /\ j \in P => j \in K
  OBVIOUS
<1>4. Ids(Peer)' = Q /\ held'[Peer] = K /\ Ids(Host)' = H /\ PeerLocks' = L
  OBVIOUS
<1> HIDE DEF H, P, Q, G, K, L, up, down
<1>5. LocksFit(hs, H, Q, L, K, up, Tail(down))
  BY ONLY <1>1, <1>2, <1>3, LocksPeerHears
<1> QED BY <1>1, <1>4, <1>5, FitsAfter

LEMMA HandlePlaceFits ==
  ASSUME AliveInv, Up, NEW hs, Fits(hs), NEW n \in Nodes, HandlePlaceObject(n)
  PROVE  Fits(hs)'
<1> DEFINE id == IF n = Host THEN canonicalPeerObjectId(Peer, Msg(n).id) ELSE Msg(n).id
<1>1. /\ SyncInv /\ Names(reg[n], Live(n)) /\ RegistryOK(reg[n])
      /\ peerHasPermission(n, "canEdit") /\ Receives(n, "place")
  BY UpFacts DEF builderFlags, HandlePlaceObject
<1>2. PICK o \in Heap[n] \ Live(n) : reg' = [reg EXCEPT ![n] = bindObject(@, id, o)]
  BY <1>1 DEF HandlePlaceObject
<1>3. Consume(n, <<>>) /\ UNCHANGED <<held, locks>>
  BY <1>1 DEF HandlePlaceObject
<1>4. ~hasObject(reg[n], o)
  BY <1>1, <1>2 DEF Names, RegistryOK, IsInverse, hasObject, hasNetworkId
<1> DEFINE q == bindObject(reg[n], id, o)
<1>5. DOMAIN q.byId = Ids(n) \cup {id}
  BY <1>1, <1>4, BoundIds DEF Ids
<1>6. reg' = [reg EXCEPT ![n] = q]
  BY <1>2
<1> HIDE DEF q
<1>7. Ids(n)' = Ids(n) \cup {id} /\ \A p \in Nodes : p # n => Ids(p)' = Ids(p)
  BY <1>1, <1>5, <1>6, IdsAfter
<1>8. CASE n = Host
  <2>1. /\ Ids(Host) \subseteq Ids(Host)' /\ Ids(Peer)' = Ids(Peer) /\ PeerLocks' = PeerLocks
        /\ held'[Peer] = held[Peer] /\ "place" \notin LockTypes
    BY <1>3, <1>7, <1>8, NodesFacts DEF PeerLocks, LockTypes
  <2> QED BY <1>1, <1>3, <1>8, <2>1, HostHears
<1>9. CASE n = Peer
  <2>1. id = Msg(Peer).id
    BY <1>9, NodesFacts
  <2>2. /\ Ids(Peer)' = Ids(Peer) \cup {Msg(Peer).id} /\ Ids(Host)' = Ids(Host) /\ PeerLocks' = PeerLocks
        /\ held'[Peer] = held[Peer]
    BY <1>3, <1>7, <1>9, <2>1, NodesFacts DEF PeerLocks
  <2> QED BY <1>1, <1>3, <1>9, <2>2, PeerHears
<1> QED BY <1>8, <1>9, NodesFacts

LEMMA HandleDeleteFits ==
  ASSUME AliveInv, Up, NEW hs, Fits(hs), NEW n \in Nodes, HandleDeleteObject(n)
  PROVE  Fits(hs)'
<1>1. /\ SyncInv /\ RegistryOK(reg[n])
      /\ peerHasPermission(n, "canDelete") /\ Receives(n, "delete")
  BY UpFacts DEF builderFlags, HandleDeleteObject
<1>2. CASE n = Peer
  BY <1>1, <1>2, NextIsUnderWay DEF Fits, LocksFit
<1>3. CASE n = Host
  <2> DEFINE j == Msg(Host).id
  <2>1. namedId(Host, j) = j
    BY <1>1, <1>3, NamesItself DEF LockTypes
  <2>2. /\ reg' = [reg EXCEPT ![Host] = removeByNetworkId(@, j)]
        /\ held' = [held EXCEPT ![Host] = @ \ {j}]
        /\ locks' = Without(locks, {j}) /\ Consume(Host, <<>>)
    BY <1>1, <1>3, <2>1 DEF HandleDeleteObject
  <2>3. DOMAIN removeByNetworkId(reg[Host], j).byId = Ids(Host) \ {j}
    BY <1>1, <1>3, RemoveByIdOK DEF Ids
  <2> DEFINE q == removeByNetworkId(reg[Host], j)
  <2>4. reg' = [reg EXCEPT ![Host] = q] /\ held'[Peer] = held[Peer]
    BY <1>1, <2>2, NodesFacts DEF SyncInv, LocksOK
  <2> HIDE DEF q
  <2>5. Ids(Host)' = Ids(Host) \ {j} /\ Ids(Peer)' = Ids(Peer)
    BY <1>1, <2>3, <2>4, IdsAfter, NodesFacts DEF q
  <2> QED BY <1>1, <1>3, <2>2, <2>4, <2>5, HostReleases
<1> QED BY <1>2, <1>3, NodesFacts

LEMMA HandleCommitFits ==
  ASSUME AliveInv, Up, NEW hs, Fits(hs), NEW n \in Nodes, HandleCommitEdit(n)
  PROVE  Fits(hs)'
<1>1. /\ SyncInv /\ Receives(n, "commit") /\ Consume(n, <<>>) /\ UNCHANGED <<reg, held, locks>>
  BY UpFacts DEF HandleCommitEdit
<1>2. Ids(Host)' = Ids(Host) /\ Ids(Peer)' = Ids(Peer) /\ PeerLocks' = PeerLocks /\ "commit" \notin LockTypes
  BY <1>1 DEF Ids, PeerLocks, LockTypes
<1>3. CASE n = Host
  BY <1>1, <1>2, <1>3, HostHears
<1>4. CASE n = Peer
  BY <1>1, <1>2, <1>4, PeerHears
<1> QED BY <1>3, <1>4, NodesFacts

LEMMA HandleUnlockFits ==
  ASSUME AliveInv, Up, NEW hs, Fits(hs), NEW n \in Nodes, HandleUnlockObject(n)
  PROVE  Fits(hs)'
<1>1. /\ SyncInv /\ Receives(n, "unlock") /\ Consume(n, <<>>) /\ UNCHANGED reg
      /\ held' = [held EXCEPT ![n] = @ \ {namedId(n, Msg(n).id)}]
      /\ locks' = IF n = Host THEN Without(locks, {namedId(n, Msg(n).id)}) ELSE locks
  BY UpFacts DEF HandleUnlockObject
<1>2. Ids(Host)' = Ids(Host) /\ Ids(Peer)' = Ids(Peer)
  BY <1>1 DEF Ids
<1>3. CASE n = Host
  <2>1. namedId(Host, Msg(Host).id) = Msg(Host).id
    BY <1>1, <1>3, NamesItself DEF LockTypes
  <2>2. locks' = Without(locks, {Msg(Host).id}) /\ held'[Peer] = held[Peer]
    BY <1>1, <1>3, <2>1, NodesFacts DEF SyncInv, LocksOK
  <2> QED BY <1>1, <1>2, <1>3, <2>2, HostReleases
<1>4. CASE n = Peer
  <2>1. namedId(Peer, Msg(Peer).id) = Msg(Peer).id
    BY NodesFacts DEF namedId
  <2>2. held'[Peer] = held[Peer] \ {Msg(Peer).id} /\ PeerLocks' = PeerLocks
    BY <1>1, <1>4, <2>1, NodesFacts DEF SyncInv, LocksOK, PeerLocks
  <2> QED BY <1>1, <1>2, <1>4, <2>2, PeerHears
<1> QED BY <1>3, <1>4, NodesFacts

\* ~hs: no object of the host's is locked for the host's own user.
LocksOfPeer(hs) == ~hs => DOMAIN locks = PeerLocks

LEMMA LockRequestFits ==
  ASSUME AliveInv, Up, NEW hs, Fits(hs), LocksOfPeer(hs), HandleLockRequest
  PROVE  Fits(hs)'
<1> DEFINE j == Msg(Host).id
           H == Ids(Host)
           P == Ids(Peer)
           G == held[Peer]
           L == PeerLocks
           M == PeerLocks'
           up == chan[Host]
           down == chan[Peer]
<1>1. SyncInv /\ Receives(Host, "lock_request") /\ peerHasPermission(Host, "canLock") /\ UNCHANGED <<reg, held>>
  BY UpFacts, NodesFacts DEF builderFlags, HandleLockRequest
<1>2. namedId(Host, j) = j
  BY <1>1, NamesItself DEF LockTypes
<1>3. PICK t : /\ Consume(Host, <<[type |-> t, id |-> j]>>)
               /\ \/ t = "lock_denied" /\ locks' = locks /\ j \in DOMAIN locks /\ locks[j] # Peer
                  \/ t = "lock_granted" /\ locks' = With(locks, j, Peer)
  BY <1>1, <1>2 DEF HandleLockRequest
<1>4. \/ t = "lock_granted" /\ M = L \cup {j}
      \/ t = "lock_denied" /\ M = L /\ j \notin L /\ hs
  <2>1. CASE locks' = With(locks, j, Peer) /\ t = "lock_granted"
    BY <2>1 DEF With, PeerLocks
  <2>2. CASE t = "lock_denied" /\ locks' = locks /\ j \in DOMAIN locks /\ locks[j] # Peer
    BY <2>2 DEF PeerLocks, LocksOfPeer
  <2> QED BY <1>3, <2>1, <2>2
<1> DEFINE reply == <<[type |-> t, id |-> j]>>
<1>5. chan'[Host] = Tail(up) /\ chan'[Peer] = down \o reply
  BY <1>1, <1>3, UpConsume, NodesFacts, Zenon
<1>6. IsQueue(up) /\ up # <<>> /\ Head(up).type = "lock_request" /\ j = Head(up).id /\ IsQueue(down)
  BY <1>1, NextIsUnderWay, QueuesAre, NodesFacts, Zenon
<1>7. LocksFit(hs, H, P, L, G, up, down)
  BY DEF Fits
<1>8. Ids(Peer)' = P /\ held'[Peer] = G /\ Ids(Host)' = H /\ PeerLocks' = M
  BY <1>1 DEF Ids
<1> HIDE DEF j, H, P, G, L, M, up, down
<1>9. LocksFit(hs, H, P, M, G, Tail(up), down \o reply)
  BY ONLY <1>4, <1>6, <1>7, LocksHostAnswers
<1> HIDE DEF reply
<1> QED BY <1>5, <1>8, <1>9, FitsAfter

LEMMA LockReplyFits ==
  ASSUME AliveInv, Up, NEW hs, Fits(hs), HandleLockReply
  PROVE  Fits(hs)'
<1> DEFINE j == Msg(Peer).id
           localId == IF j \div IdBase = Peer /\ ~hasNetworkId(reg[Peer], j) THEN j % IdBase ELSE j
<1>1. SyncInv /\ UNCHANGED <<reg, locks>> /\ Consume(Peer, <<>>)
  BY UpFacts, NodesFacts DEF HandleLockReply
<1>2. PICK t \in {"lock_granted", "lock_denied"} : Receives(Peer, t)
  BY DEF HandleLockReply
<1>3. Msg(Peer).type = t
  BY <1>2 DEF Receives
<1>4. held' = [held EXCEPT ![Peer] = IF j = INVALID_OBJECT_ID THEN @
                                     ELSE IF t = "lock_granted" THEN @ \cup {localId} ELSE @ \ {localId}]
  BY <1>3 DEF HandleLockReply
<1>5. j \in Ids(Peer) => localId = j
  BY DEF Ids, hasNetworkId
<1>6. t = "lock_granted" => j # INVALID_OBJECT_ID
  <2>1. Msg(Peer) \in Inboxes[Peer]
    BY <1>1, <1>2, ReceivedMessage, NodesFacts
  <2>2. t = "lock_granted" => j \in ProperIds
    BY <1>3, <2>1, InboxMessage, NodesFacts
  <2> QED BY <2>2, ProperAreNetIds DEF NetIds
<1>7. t = "lock_denied" => j \in Ids(Peer)
  <2>1. Has(chan[Peer], t, j)
    BY <1>1, <1>2, NextIsUnderWay, NodesFacts
  <2>2. t = "lock_denied" => hs
    BY <2>1, DropFreeHas DEF Fits, LocksFit
  <2> QED BY <2>1, <2>2 DEF Fits, LocksFit
<1> HIDE DEF j, localId
<1>8. held'[Peer] = IF j = INVALID_OBJECT_ID THEN held[Peer]
                    ELSE IF t = "lock_granted" THEN held[Peer] \cup {localId} ELSE held[Peer] \ {localId}
  BY <1>1, <1>4, NodesFacts DEF SyncInv, LocksOK
<1>9. /\ PeerLocks' = PeerLocks /\ Ids(Host)' = Ids(Host) /\ Ids(Peer)' = Ids(Peer)
      /\ IF t \in {"unlock", "lock_denied"} THEN held[Peer] \ {j} \subseteq held'[Peer]
         ELSE held[Peer] \subseteq held'[Peer]
      /\ t = "lock_granted" /\ j \in Ids(Peer) => j \in held'[Peer]
      /\ t # "place"
  <2>1. PeerLocks' = PeerLocks /\ Ids(Host)' = Ids(Host) /\ Ids(Peer)' = Ids(Peer)
    BY <1>1 DEF PeerLocks, Ids
  <2> QED BY <1>5, <1>6, <1>7, <1>8, <2>1
<1>10. j = Msg(Peer).id
  BY DEF j
<1> QED BY ONLY Up, Fits(hs), <1>1, <1>2, <1>9, <1>10, PeerHears

LEMMA PermissionUpdateFits ==
  ASSUME AliveInv, Up, NEW hs, Fits(hs), HandlePermissionUpdate
  PROVE  Fits(hs)'
<1>1. /\ SyncInv /\ Receives(Peer, "permission_update") /\ Consume(Peer, <<>>) /\ UNCHANGED <<reg, held, locks>>
  BY UpFacts, NodesFacts DEF HandlePermissionUpdate
<1>2. Ids(Host)' = Ids(Host) /\ Ids(Peer)' = Ids(Peer) /\ PeerLocks' = PeerLocks
  BY <1>1 DEF Ids, PeerLocks
<1> QED BY <1>1, <1>2, PeerHears

LEMMA setPeerRoleFits ==
  ASSUME AliveInv, Up, NEW hs, Fits(hs), NEW r, setPeerRole(r)
  PROVE  Fits(hs)'
<1> DEFINE m == [type |-> "permission_update", role |-> r]
           msgs == <<m>>
<1>1. SyncInv /\ Host \in Nodes /\ Post(Host, msgs) /\ UNCHANGED <<reg, held, locks>>
  BY UpFacts, NodesFacts DEF setPeerRole
<1>2. m.type = "permission_update"
  OBVIOUS
<1> HIDE DEF m
<1>3. Plain(msgs)
  BY <1>2, HasOne DEF Plain
<1> HIDE DEF msgs
<1>4. \A n \in Nodes : Ids(n)' = Ids(n)
  BY <1>1 DEF Ids
<1> QED BY <1>1, <1>3, <1>4, PlainFits

-----------------------------------------------------------------------------
(***************************************************************************)
(* The locks and the session.                                              *)
(***************************************************************************)
LocksBase ==
  /\ AliveInv
  /\ ~conn[Host] => DOMAIN locks = {}
  /\ conn[Host] /\ conn[Peer] => link[Host] = link[Peer]

\* What a step does to the locks.
Released == locks' = locks \/ \E S : locks' = Without(locks, S)
LocksStep ==
  \/ Released
  \/ HandleLockRequest
  \/ conn[Host] /\ UNCHANGED session /\ \E o, dropped : SelectObject(Host, o, dropped)

LEMMA UserLocks ==
  ASSUME NEW n \in Nodes, User(n)
  PROVE  \/ Released
         \/ /\ n = Host /\ conn[Host] /\ UNCHANGED session
            /\ \E o, dropped : SelectObject(Host, o, dropped)
<1>1. CASE \/ \E o \in Heap[n], c \in Contents : LocalPlace(n, o, c)
           \/ \E o \in Heap[n], c \in Contents : GdCreate(n, o, c)
           \/ \E o, o2 \in Heap[n], c \in Contents : LocalTransform(n, o, o2, c)
           \/ \E o \in Heap[n], c \in Contents : LocalMove(n, o, c)
           \/ \E o \in Heap[n] : LocalDelete(n, o)
           \/ RequestStateResync(n)
           \/ \E r \in GrantedRoles : setPeerRole(r)
  BY <1>1 DEF Released, LocalPlace, GdCreate, LocalTransform, LocalMove, LocalDelete, RequestStateResync,
              sendStateSnapshot, setPeerRole
<1>2. CASE \E o \in Heap[n], dropped \in SUBSET sel[n] : SelectObject(n, o, dropped)
  <2>1. PICK o \in Heap[n], dropped \in SUBSET sel[n] : SelectObject(n, o, dropped)
    BY <1>2
  <2>2. (conn[n] /\ n = Host) \/ locks' = locks
    BY <2>1 DEF SelectObject
  <2>3. UNCHANGED session
    BY <2>1 DEF SelectObject
  <2> QED BY <2>1, <2>2, <2>3 DEF Released
<1>3. CASE DeselectAll(n)
  BY <1>3 DEF DeselectAll, Released
<1>4. CASE Disconnect(n)
  <2>1. Empty = Without(locks, DOMAIN locks)
    BY DEF Empty, Without
  <2> QED BY <1>4, <2>1 DEF Disconnect, disconnect, Released
<1> QED BY <1>1, <1>2, <1>3, <1>4 DEF User

LEMMA OtherLocks ==
  ASSUME Connect \/ LinkDown \/ (\E n \in Nodes : Discover(n) \/ Handle(n)) \/ UNCHANGED vars
  PROVE  Released \/ HandleLockRequest
<1>1. ASSUME NEW n \in Nodes, Handle(n)
      PROVE  Released \/ HandleLockRequest
  <2>1. CASE HandlePlaceObject(n) \/ HandleCommitEdit(n) \/ HandleLockReply \/ HandlePermissionUpdate
             \/ HandleStateSnapshot \/ HandleStateResyncRequest
    BY <2>1 DEF Released, HandlePlaceObject, HandleCommitEdit, HandleLockReply, HandlePermissionUpdate,
                HandleStateSnapshot, HandleStateResyncRequest, sendStateSnapshot
  <2>2. CASE HandleDeleteObject(n)
    BY <2>2 DEF HandleDeleteObject, Released
  <2>3. CASE HandleUnlockObject(n)
    BY <2>3 DEF HandleUnlockObject, Released
  <2>4. CASE HandleLockRequest
    BY <2>4
  <2>5. CASE HandleEof(n)
    <3>1. Empty = Without(locks, DOMAIN locks)
      BY DEF Empty, Without
    <3> QED BY <2>5, <3>1 DEF HandleEof, disconnect, Released
  <2> QED BY <1>1, <2>1, <2>2, <2>3, <2>4, <2>5 DEF Handle
<1>2. CASE Connect \/ LinkDown \/ (\E n \in Nodes : Discover(n)) \/ UNCHANGED vars
  BY <1>2 DEF Connect, LinkDown, Discover, vars, Released
<1> QED BY <1>1, <1>2

LEMMA LocksChange ==
  ASSUME [Next]_vars
  PROVE  LocksStep
  BY UserLocks, OtherLocks DEF Next, LocksStep

\* What a step does to the session.
LEMMA SessionChange ==
  ASSUME SyncInv, SyncInv', [Next]_vars
  PROVE  UNCHANGED <<conn, link>> \/ Connect \/ LinkDown \/ \E n \in Nodes : disconnect(n)
<1>1. StepKinds
  BY EveryStep
<1>2. CASE HandlePermissionUpdate \/ HandleStateSnapshot \/ \E r \in GrantedRoles : setPeerRole(r)
  BY <1>2 DEF HandlePermissionUpdate, HandleStateSnapshot, setPeerRole, session
<1> QED BY <1>1, <1>2 DEF StepKinds, Talks, Answers, AsksForSnapshot, SendsSnapshot

LEMMA BaseStep ==
  ASSUME OnlyEdits, LocksBase, [Next]_vars
  PROVE  LocksBase' /\ (Up' => (Up /\ UNCHANGED <<conn, link>>) \/ Connect)
<1>1. AliveInv /\ AliveInv' /\ SyncInv /\ SyncInv'
  BY AliveStep DEF LocksBase, AliveInv, RolesInv
<1>2. conn = [n \in Nodes |-> conn[n]] /\ link = [n \in Nodes |-> link[n]]
  BY <1>1 DEF SyncInv, LocksOK
<1>3. UNCHANGED <<conn, link>> \/ Connect \/ LinkDown \/ \E n \in Nodes : disconnect(n)
  BY <1>1, SessionChange
<1>4. LocksStep
  BY LocksChange
<1>5. CASE Connect
  <2>1. /\ ~conn[Host] /\ locks' = locks /\ conn' = [n \in Nodes |-> TRUE] /\ link' = [n \in Nodes |-> TRUE]
    BY <1>5 DEF Connect
  <2> QED BY <1>1, <1>5, <2>1, NodesFacts DEF LocksBase
<1>6. CASE LinkDown
  <2>1. /\ locks' = locks /\ conn' = conn /\ link' = [n \in Nodes |-> FALSE]
    BY <1>6 DEF LinkDown
  <2> QED BY <1>1, <2>1, NodesFacts DEF LocksBase, Up
<1>7. CASE \E n \in Nodes : disconnect(n)
  <2>1. PICK n \in Nodes : disconnect(n)
    BY <1>7
  <2>2. /\ conn' = [conn EXCEPT ![n] = FALSE] /\ locks' = IF n = Host THEN Empty ELSE locks
    BY <2>1 DEF disconnect
  <2>3. ~conn'[n] /\ (n # Host => conn'[Host] = conn[Host])
    BY <1>2, <2>2, NodesFacts
  <2>4. ~conn'[Host] => DOMAIN locks' = {}
    BY <2>2, <2>3 DEF LocksBase, Empty
  <2> QED BY <1>1, <2>3, <2>4, NodesFacts DEF LocksBase, Up
<1>8. CASE UNCHANGED <<conn, link>>
  <2>1. ~conn[Host] => DOMAIN locks' = {}
    <3>1. HandleLockRequest => conn[Host]
      BY HandlersConnected, NodesFacts DEF HandleLockRequest, LocksBase, AliveInv
    <3> QED BY <1>4, <3>1 DEF LocksStep, Released, LocksBase, Without
  <2> QED BY <1>1, <1>8, <2>1 DEF LocksBase, Up
<1> QED BY <1>3, <1>5, <1>6, <1>7, <1>8

\* The steps of a session in which the host's user deletes nothing and selects
\* only if hs.
LockNext(hs) ==
  \/ Connect \/ LinkDown
  \/ \E n \in Nodes : Discover(n) \/ Handle(n)
  \/ User(Peer)
  \/ \E o \in Heap[Host], c \in Contents : LocalPlace(Host, o, c) \/ GdCreate(Host, o, c) \/ LocalMove(Host, o, c)
  \/ \E o, o2 \in Heap[Host], c \in Contents : LocalTransform(Host, o, o2, c)
  \/ /\ hs
     /\ DeselectAll(Host) \/ \E o \in Heap[Host], dropped \in SUBSET sel[Host] : SelectObject(Host, o, dropped)
  \/ RequestStateResync(Host) \/ Disconnect(Host) \/ \E r \in GrantedRoles : setPeerRole(r)

LocksInv(hs) == LocksBase /\ LocksOfPeer(hs) /\ (Up => Fits(hs))

LEMMA LockNextIsNext ==
  ASSUME NEW hs, LockNext(hs)
  PROVE  Next
<1>1. ASSUME User(Host) PROVE Next
  BY <1>1, NodesFacts DEF Next
<1>2. ASSUME User(Peer) PROVE Next
  BY <1>2, NodesFacts DEF Next
<1>3. CASE \/ \E o \in Heap[Host], c \in Contents : LocalPlace(Host, o, c) \/ GdCreate(Host, o, c) \/ LocalMove(Host, o, c)
           \/ \E o, o2 \in Heap[Host], c \in Contents : LocalTransform(Host, o, o2, c)
           \/ DeselectAll(Host) \/ \E o \in Heap[Host], dropped \in SUBSET sel[Host] : SelectObject(Host, o, dropped)
           \/ RequestStateResync(Host) \/ Disconnect(Host) \/ \E r \in GrantedRoles : setPeerRole(r)
  <2>1. User(Host)
    BY <1>3 DEF User
  <2> QED BY <1>1, <2>1
<1>4. CASE Connect \/ LinkDown \/ \E n \in Nodes : Discover(n) \/ Handle(n)
  BY <1>4 DEF Next
<1> QED BY <1>2, <1>3, <1>4 DEF LockNext

LEMMA FitsStep ==
  ASSUME OnlyEdits, NEW hs, hs => "delete" \notin Ops[Peer], LocksBase, LocksOfPeer(hs), Up, Up', Fits(hs),
         [LockNext(hs)]_vars
  PROVE  Fits(hs)'
<1>1. AliveInv /\ SyncInv /\ CalmInv
  BY DEF LocksBase, AliveInv, RolesInv
<1>2. ASSUME NEW n \in Nodes, disconnect(n)
      PROVE  FALSE
  BY <1>1, <1>2 DEF disconnect, Up, SyncInv, LocksOK
<1>3. ASSUME NEW n \in Nodes, RequestStateResync(n)
      PROVE  FALSE
  BY <1>3 DEF RequestStateResync, Acts, OnlyEdits
<1>4. ASSUME NEW n \in Nodes,
             \E o \in Heap[n], c \in Contents : LocalPlace(n, o, c) \/ GdCreate(n, o, c) \/ LocalMove(n, o, c)
      PROVE  Fits(hs)'
  <2>1. PICK o \in Heap[n], c \in Contents : LocalPlace(n, o, c) \/ GdCreate(n, o, c) \/ LocalMove(n, o, c)
    BY <1>4
  <2>2. CASE LocalPlace(n, o, c)
    BY <1>1, <2>2, PlaceFits
  <2>3. CASE GdCreate(n, o, c) \/ LocalMove(n, o, c)
    <3>1. UNCHANGED <<locks, chan, held, reg>>
      BY <2>3 DEF GdCreate, LocalMove
    <3>2. \A m \in Nodes : Ids(m)' = Ids(m)
      BY <3>1 DEF Ids
    <3> QED BY <3>1, <3>2, NothingForLocks
  <2> QED BY <2>1, <2>2, <2>3
<1>5. ASSUME NEW n \in Nodes, \E o, o2 \in Heap[n], c \in Contents : LocalTransform(n, o, o2, c)
      PROVE  Fits(hs)'
  BY <1>1, <1>5, TransformFits
<1>6. ASSUME NEW n \in Nodes, n = Host => hs,
             DeselectAll(n) \/ \E o \in Heap[n], dropped \in SUBSET sel[n] : SelectObject(n, o, dropped)
      PROVE  Fits(hs)'
  BY <1>1, <1>6, SelectFits, DeselectFits
<1>7. CASE User(Peer)
  <2>1. CASE \E o \in Heap[Peer] : LocalDelete(Peer, o)
    <3>1. "delete" \in Ops[Peer]
      BY <2>1 DEF LocalDelete, Acts
    <3> QED BY <1>1, <2>1, <3>1, DeleteFits
  <2>2. CASE Disconnect(Peer)
    BY <1>2, <2>2, NodesFacts DEF Disconnect
  <2> QED BY <1>3, <1>4, <1>5, <1>6, <1>7, <2>1, <2>2, NodesFacts DEF User
<1>8. ASSUME NEW n \in Nodes, Handle(n)
      PROVE  Fits(hs)'
  <2>1. CASE HandleEof(n)
    BY <1>2, <2>1 DEF HandleEof
  <2>2. CASE HandleStateResyncRequest \/ HandleStateSnapshot
    <3>1. \E m \in Nodes, t \in {"chunk", "resync"} : Receives(m, t)
      BY <2>2, NodesFacts DEF HandleStateResyncRequest, HandleStateSnapshot
    <3> QED BY <1>1, <3>1, NextMessage DEF CalmInv, Calm
  <2>3. CASE HandlePlaceObject(n)
    BY <1>1, <2>3, HandlePlaceFits
  <2>4. CASE HandleDeleteObject(n)
    BY <1>1, <2>4, HandleDeleteFits
  <2>5. CASE HandleCommitEdit(n)
    BY <1>1, <2>5, HandleCommitFits
  <2>6. CASE HandleUnlockObject(n)
    BY <1>1, <2>6, HandleUnlockFits
  <2>7. CASE HandleLockRequest
    BY <1>1, <2>7, LockRequestFits
  <2>8. CASE HandleLockReply
    BY <1>1, <2>8, LockReplyFits
  <2>9. CASE HandlePermissionUpdate
    BY <1>1, <2>9, PermissionUpdateFits
  <2> QED BY <1>8, <2>1, <2>2, <2>3, <2>4, <2>5, <2>6, <2>7, <2>8, <2>9 DEF Handle
<1>9. CASE \E n \in Nodes : Discover(n)
  BY <1>1, <1>9, DiscoverFits
<1>10. CASE Connect \/ LinkDown
  BY <1>10, NodesFacts DEF Connect, LinkDown, Up
<1>11. CASE Disconnect(Host)
  BY <1>2, <1>11, NodesFacts DEF Disconnect
<1>12. CASE \E r \in GrantedRoles : setPeerRole(r)
  BY <1>1, <1>12, setPeerRoleFits
<1>13. CASE UNCHANGED vars
  <2>1. UNCHANGED <<locks, chan, held, reg>>
    BY <1>13 DEF vars
  <2>2. \A m \in Nodes : Ids(m)' = Ids(m)
    BY <2>1 DEF Ids
  <2> QED BY <2>1, <2>2, NothingForLocks
<1> QED BY <1>3, <1>4, <1>5, <1>6, <1>7, <1>8, <1>9, <1>10, <1>11, <1>12, <1>13, NodesFacts DEF LockNext

\* A session begins with no ids, no locks and nothing under way.
LEMMA FitsBegins ==
  ASSUME LocksBase, Connect
  PROVE  /\ PeerLocks' = {} /\ DOMAIN locks' = {} /\ \A n \in Nodes : chan'[n] = <<>>
         /\ \A hs : Fits(hs)'
<1>1. /\ \A n \in Nodes : ~conn[n] /\ chan'[n] = <<>> /\ Ids(n)' = {}
      /\ locks' = locks /\ DOMAIN locks = {}
  BY NodesFacts DEF Connect, LocksBase, AliveInv, RolesInv, QueuesClosed, Alive, Ids
<1>2. PeerLocks' = {}
  BY <1>1 DEF PeerLocks
<1>3. ASSUME NEW hs
      PROVE  Fits(hs)'
  <2> DEFINE G == held'[Peer]
  <2>1. Once(<<>>) /\ LastWord(<<>>) /\ (\A t, i : ~Has(<<>>, t, i)) /\ \A i : DropFree(<<>>, i)
    BY HasOne, DropFreeHas
  <2> HIDE DEF G
  <2>2. LocksFit(hs, {}, {}, {}, G, <<>>, <<>>)
    BY <2>1 DEF LocksFit
  <2>3. Ids(Host)' = {} /\ Ids(Peer)' = {} /\ chan'[Host] = <<>> /\ chan'[Peer] = <<>> /\ held'[Peer] = G
    BY <1>1, NodesFacts DEF G
  <2> QED BY ONLY <1>2, <2>2, <2>3, Zenon DEF Fits
<1> QED BY <1>1, <1>2, <1>3

\* The host locks nothing for its own user.
LEMMA FewLocks ==
  ASSUME [LockNext(FALSE)]_vars
  PROVE  Released \/ HandleLockRequest
<1>1. CASE User(Peer)
  BY <1>1, UserLocks, NodesFacts
<1>2. CASE \/ \E o \in Heap[Host], c \in Contents : LocalPlace(Host, o, c) \/ GdCreate(Host, o, c) \/ LocalMove(Host, o, c)
           \/ \E o, o2 \in Heap[Host], c \in Contents : LocalTransform(Host, o, o2, c)
           \/ RequestStateResync(Host)
           \/ \E r \in GrantedRoles : setPeerRole(r)
  BY <1>2 DEF Released, LocalPlace, GdCreate, LocalMove, LocalTransform, RequestStateResync, sendStateSnapshot,
              setPeerRole
<1>3. CASE Disconnect(Host)
  <2>1. Empty = Without(locks, DOMAIN locks)
    BY DEF Empty, Without
  <2> QED BY <1>3, <2>1 DEF Disconnect, disconnect, Released
<1>4. CASE Connect \/ LinkDown \/ (\E n \in Nodes : Discover(n) \/ Handle(n)) \/ UNCHANGED vars
  BY <1>4, OtherLocks
<1> QED BY <1>1, <1>2, <1>3, <1>4 DEF LockNext

LEMMA LocksInvStep ==
  ASSUME OnlyEdits, NEW hs \in BOOLEAN, hs => "delete" \notin Ops[Peer], LocksInv(hs), [LockNext(hs)]_vars
  PROVE  LocksInv(hs)'
<1>1. LocksBase /\ LocksOfPeer(hs) /\ (Up => Fits(hs)) /\ [Next]_vars
  BY LockNextIsNext DEF LocksInv
<1>2. LocksBase' /\ (Up' => (Up /\ UNCHANGED <<conn, link>>) \/ Connect)
  BY <1>1, BaseStep
<1>3. Up' => Fits(hs)'
  BY <1>1, <1>2, FitsStep, FitsBegins
<1>4. LocksOfPeer(hs)'
  <2> SUFFICES ASSUME ~hs
               PROVE  DOMAIN locks' = PeerLocks'
    BY DEF LocksOfPeer
  <2>1. \A i \in DOMAIN locks : locks[i] = Peer
    BY <1>1 DEF LocksOfPeer, PeerLocks
  <2>2. CASE locks' = locks \/ \E S : locks' = Without(locks, S)
    BY <2>1, <2>2 DEF Without, PeerLocks
  <2>3. CASE HandleLockRequest
    <3>1. locks' = locks \/ \E j : locks' = With(locks, j, Peer)
      BY <2>3 DEF HandleLockRequest
    <3> QED BY <2>1, <3>1 DEF With, PeerLocks
  <2>4. Released \/ HandleLockRequest
    <3>1. hs = FALSE
      OBVIOUS
    <3>2. [LockNext(FALSE)]_vars
      BY ONLY <3>1, [LockNext(hs)]_vars
    <3> QED BY <3>2, FewLocks
  <2> QED BY <2>2, <2>3, <2>4 DEF Released
<1> QED BY <1>2, <1>3, <1>4 DEF LocksInv

-----------------------------------------------------------------------------
(***************************************************************************)
(* A peer whose user selects nothing asks for no lock and has none.        *)
(***************************************************************************)
UnaskedNext ==
  \/ Connect \/ LinkDown
  \/ \E n \in Nodes : Discover(n) \/ Handle(n)
  \/ User(Host)
  \/ "select" \notin Ops[Peer] /\ User(Peer)

NoneAsked == \A i : ~Has(chan[Host], "lock_request", i)

UnaskedInv == LocksBase /\ (Up => NoneAsked /\ PeerLocks = {})

LEMMA HasOfTypes ==
  ASSUME NEW T, NEW msgs, OfTypes(msgs, T)
  PROVE  IsQueue(msgs) /\ \A t, i : Has(msgs, t, i) => t \in T
<1>1. PICK S : msgs \in Seq(S) /\ \A m \in S : m.type \in T
  BY DEF OfTypes
<1>2. \A k \in DOMAIN msgs : msgs[k] \in S
  BY <1>1, ElementOfSeq
<1> QED BY <1>1, <1>2 DEF IsQueue, Has

LEMMA NoneAskedPosted ==
  ASSUME SyncInv, Up, NoneAsked, NEW n \in Nodes, NEW msgs, IsQueue(msgs), Post(n, msgs),
         n = Peer => \A i : ~Has(msgs, "lock_request", i)
  PROVE  NoneAsked'
<1>1. chan'[Other(n)] = chan[Other(n)] \o msgs /\ chan'[n] = chan[n] /\ IsQueue(chan[Host])
  BY UpPost, QueuesAre, NodesFacts, Zenon
<1>2. CASE n = Host
  BY <1>1, <1>2 DEF NoneAsked
<1>3. CASE n = Peer
  <2>1. chan'[Host] = chan[Host] \o msgs
    BY <1>1, <1>3, NodesFacts
  <2>2. \A t, i : Has(chan[Host] \o msgs, t, i) <=> Has(chan[Host], t, i) \/ Has(msgs, t, i)
    BY <1>1, HasJoined
  <2> QED BY <1>3, <2>1, <2>2 DEF NoneAsked
<1> QED BY <1>2, <1>3, NodesFacts

LEMMA NoneAskedConsumed ==
  ASSUME SyncInv, Up, NoneAsked, NEW n \in Nodes, NEW t, Receives(n, t), NEW replies, Consume(n, replies),
         OfTypes(replies, ReplyTypes)
  PROVE  NoneAsked'
<1>1. /\ chan'[Other(n)] = chan[Other(n)] \o replies /\ chan'[n] = Tail(chan[n])
      /\ IsQueue(chan[Host]) /\ (n = Host => chan[Host] # <<>>)
  BY UpConsume, QueuesAre, NextIsUnderWay, NodesFacts, Zenon
<1>2. CASE n = Host
  <2>1. \A u, i : Has(Tail(chan[Host]), u, i) => Has(chan[Host], u, i)
    BY <1>1, <1>2, HasRest
  <2> QED BY <1>1, <1>2, <2>1 DEF NoneAsked
<1>3. CASE n = Peer
  <2>1. chan'[Host] = chan[Host] \o replies
    BY <1>1, <1>3, NodesFacts
  <2>2. IsQueue(replies) /\ \A i : ~Has(replies, "lock_request", i)
    BY HasOfTypes DEF ReplyTypes
  <2>3. \A u, i : Has(chan[Host] \o replies, u, i) <=> Has(chan[Host], u, i) \/ Has(replies, u, i)
    BY <1>1, <2>2, HasJoined
  <2> QED BY <2>1, <2>2, <2>3 DEF NoneAsked
<1> QED BY <1>2, <1>3, NodesFacts

LEMMA NoneAskedTalks ==
  ASSUME SyncInv, Up, NoneAsked, Talks(Host)
  PROVE  NoneAsked'
<1>1. CASE UNCHANGED chan
  BY <1>1 DEF NoneAsked
<1>2. CASE \E msgs : OfTypes(msgs, HookTypes) /\ Post(Host, msgs)
  BY <1>2, HasOfTypes, NoneAskedPosted, NodesFacts
<1> QED BY <1>1, <1>2 DEF Talks

LEMMA NoneAskedPlaces ==
  ASSUME SyncInv, Up, NoneAsked, NEW t, t # "lock_request", NEW n \in Nodes,
         UNCHANGED chan \/ \E msgs : OfTypes(msgs, {t}) /\ Post(n, msgs)
  PROVE  NoneAsked'
<1>1. CASE UNCHANGED chan
  BY <1>1 DEF NoneAsked
<1>2. CASE \E msgs : OfTypes(msgs, {t}) /\ Post(n, msgs)
  <2>1. PICK msgs : OfTypes(msgs, {t}) /\ Post(n, msgs)
    BY <1>2
  <2>2. IsQueue(msgs) /\ \A i : ~Has(msgs, "lock_request", i)
    BY <2>1, HasOfTypes
  <2> QED BY <2>1, <2>2, NoneAskedPosted
<1> QED BY <1>1, <1>2

LEMMA NoneAskedStep ==
  ASSUME OnlyEdits, LocksBase, Up, Up', NoneAsked, [UnaskedNext]_vars
  PROVE  NoneAsked'
<1>1. AliveInv /\ SyncInv /\ CalmInv
  BY DEF LocksBase, AliveInv, RolesInv
<1>2. ASSUME NEW n \in Nodes, disconnect(n)
      PROVE  FALSE
  BY <1>1, <1>2 DEF disconnect, Up, SyncInv, LocksOK
<1>3. ASSUME NEW n \in Nodes, RequestStateResync(n)
      PROVE  FALSE
  BY <1>3 DEF RequestStateResync, Acts, OnlyEdits
<1>4. CASE User(Host)
  <2>1. CASE Disconnect(Host)
    BY <1>2, <2>1, NodesFacts DEF Disconnect
  <2>2. CASE \E r \in GrantedRoles : setPeerRole(r)
    <3>1. PICK r \in GrantedRoles : setPeerRole(r)
      BY <2>2
    <3> DEFINE m == [type |-> "permission_update", role |-> r]
    <3>2. Post(Host, <<m>>)
      BY <3>1 DEF setPeerRole
    <3> HIDE DEF m
    <3> QED BY <1>1, <3>2, HasOne, NoneAskedPosted, NodesFacts
  <2>3. CASE \/ \E o \in Heap[Host], c \in Contents : GdCreate(Host, o, c)
             \/ \E o \in Heap[Host], c \in Contents : LocalMove(Host, o, c)
    BY <2>3 DEF GdCreate, LocalMove, NoneAsked
  <2>4. CASE \/ \E o \in Heap[Host], c \in Contents : LocalPlace(Host, o, c)
             \/ \E o, o2 \in Heap[Host], c \in Contents : LocalTransform(Host, o, o2, c)
             \/ \E o \in Heap[Host] : LocalDelete(Host, o)
             \/ \E o \in Heap[Host], dropped \in SUBSET sel[Host] : SelectObject(Host, o, dropped)
             \/ DeselectAll(Host)
    <3>1. Talks(Host)
      BY <2>4, LocalPlaceTalks, LocalTransformTalks, LocalDeleteTalks, SelectObjectTalks, DeselectAllTalks,
         NodesFacts
    <3> QED BY <1>1, <3>1, NoneAskedTalks
  <2> QED BY <1>3, <1>4, <2>1, <2>2, <2>3, <2>4, NodesFacts DEF User
<1>5. CASE "select" \notin Ops[Peer] /\ User(Peer)
  <2>1. CASE Disconnect(Peer)
    BY <1>2, <2>1, NodesFacts DEF Disconnect
  <2>2. CASE \/ \E o \in Heap[Peer], c \in Contents : GdCreate(Peer, o, c)
             \/ \E o \in Heap[Peer], c \in Contents : LocalMove(Peer, o, c)
    BY <2>2 DEF GdCreate, LocalMove, NoneAsked
  <2>3. CASE \E o \in Heap[Peer], c \in Contents : LocalPlace(Peer, o, c)
    <3>1. PICK o \in Heap[Peer], c \in Contents : LocalPlace(Peer, o, c)
      BY <2>3
    <3> DEFINE m == [type |-> "place", id |-> placementId(Peer, o), c |-> c]
    <3>2. (UNCHANGED chan \/ Post(Peer, <<m>>)) /\ m.type \in {"place"}
      BY <3>1 DEF LocalPlace
    <3> HIDE DEF m
    <3>3. UNCHANGED chan \/ \E msgs : OfTypes(msgs, {"place"}) /\ Post(Peer, msgs)
      <4>1. OfTypes(<<m>>, {"place"})
        BY <3>2, MessageOfTypes
      <4> QED BY <3>2, <4>1
    <3>4. "place" # "lock_request"
      OBVIOUS
    <3> QED BY <1>1, <3>3, <3>4, NoneAskedPlaces, NodesFacts
  <2>4. CASE \E o, o2 \in Heap[Peer], c \in Contents : LocalTransform(Peer, o, o2, c)
    <3>1. PICK r, id, os : UNCHANGED chan \/ Post(Peer, commitOf(r, id, os))
      BY <2>4 DEF LocalTransform
    <3>2. CASE UNCHANGED chan
      BY <3>2 DEF NoneAsked
    <3>3. CASE Post(Peer, commitOf(r, id, os))
      <4>1. IsQueue(commitOf(r, id, os)) /\ \A i : ~Has(commitOf(r, id, os), "lock_request", i)
        BY CommitIsPlain DEF Plain
      <4> QED BY <1>1, <3>3, <4>1, NoneAskedPosted, NodesFacts
    <3> QED BY <3>1, <3>2, <3>3
  <2>5. CASE \E o \in Heap[Peer] : LocalDelete(Peer, o)
    <3>1. PICK o \in Heap[Peer] : LocalDelete(Peer, o)
      BY <2>5
    <3> DEFINE m == [type |-> "delete", id |-> recoveredId(reg[Peer], o, Fp(obj[Peer][o]))]
    <3>2. (UNCHANGED chan \/ Post(Peer, <<m>>)) /\ m.type \in {"delete"}
      BY <3>1 DEF LocalDelete
    <3> HIDE DEF m
    <3>3. UNCHANGED chan \/ \E msgs : OfTypes(msgs, {"delete"}) /\ Post(Peer, msgs)
      <4>1. OfTypes(<<m>>, {"delete"})
        BY <3>2, MessageOfTypes
      <4> QED BY <3>2, <4>1
    <3>4. "delete" # "lock_request"
      OBVIOUS
    <3> QED BY <1>1, <3>3, <3>4, NoneAskedPlaces, NodesFacts
  <2>6. CASE DeselectAll(Peer) \/ \E o \in Heap[Peer], dropped \in SUBSET sel[Peer] : SelectObject(Peer, o, dropped)
    BY <1>5, <2>6 DEF DeselectAll, SelectObject, Acts
  <2>7. CASE Peer = Host
    BY <2>7, NodesFacts
  <2> QED BY <1>3, <1>5, <2>1, <2>2, <2>3, <2>4, <2>5, <2>6, <2>7, NodesFacts DEF User
<1>6. ASSUME NEW n \in Nodes, Handle(n)
      PROVE  NoneAsked'
  <2>1. CASE HandleEof(n)
    BY <1>2, <2>1 DEF HandleEof
  <2>2. CASE HandleStateResyncRequest \/ HandleStateSnapshot
    <3>1. \E m \in Nodes, t \in {"chunk", "resync"} : Receives(m, t)
      BY <2>2, NodesFacts DEF HandleStateResyncRequest, HandleStateSnapshot
    <3> QED BY <1>1, <3>1, NextMessage DEF CalmInv, Calm
  <2>3. ASSUME NEW m \in Nodes, Answers(m)
        PROVE  NoneAsked'
    <3>1. PICK t, replies : Receives(m, t) /\ OfTypes(replies, ReplyTypes) /\ Consume(m, replies)
      BY <2>3 DEF Answers
    <3> QED BY <1>1, <3>1, NoneAskedConsumed
  <2>4. CASE HandlePlaceObject(n) \/ HandleDeleteObject(n) \/ HandleCommitEdit(n) \/ HandleUnlockObject(n)
    BY <2>3, <2>4, EditHandlersAnswer
  <2>5. CASE HandleLockRequest \/ HandleLockReply
    BY <2>3, <2>5, LockHandlersAnswer, NodesFacts
  <2>6. CASE HandlePermissionUpdate
    <3>1. Receives(Peer, "permission_update") /\ Consume(Peer, <<>>)
      BY <2>6 DEF HandlePermissionUpdate
    <3> QED BY <1>1, <3>1, NothingOfTypes, NoneAskedConsumed, NodesFacts
  <2> QED BY <1>6, <2>1, <2>2, <2>4, <2>5, <2>6 DEF Handle
<1>7. CASE \E n \in Nodes : Discover(n)
  <2>1. PICK n \in Nodes : Discover(n)
    BY <1>7
  <2>2. UNCHANGED chan \/ \E msgs : OfTypes(msgs, {"place"}) /\ Post(n, msgs)
    BY <1>1, <2>1, DiscoverPlaces
  <2>3. "place" # "lock_request"
    OBVIOUS
  <2> QED BY <1>1, <2>2, <2>3, NoneAskedPlaces
<1>8. CASE Connect \/ LinkDown
  BY <1>8, NodesFacts DEF Connect, LinkDown, Up
<1>9. CASE UNCHANGED vars
  BY <1>9 DEF vars, NoneAsked
<1> QED BY <1>4, <1>5, <1>6, <1>7, <1>8, <1>9 DEF UnaskedNext

LEMMA UnaskedStep ==
  ASSUME OnlyEdits, UnaskedInv, [UnaskedNext]_vars
  PROVE  UnaskedInv'
<1>1. LocksBase /\ (Up => NoneAsked /\ PeerLocks = {}) /\ SyncInv /\ [Next]_vars
  BY NodesFacts DEF UnaskedInv, LocksBase, AliveInv, RolesInv, UnaskedNext, Next
<1>2. LocksBase' /\ (Up' => (Up /\ UNCHANGED <<conn, link>>) \/ Connect)
  BY <1>1, BaseStep
<1>3. CASE Connect
  <2>1. PeerLocks' = {} /\ chan'[Host] = <<>> /\ \A i : ~Has(<<>>, "lock_request", i)
    BY <1>1, <1>3, FitsBegins, HasOne, NodesFacts
  <2> QED BY <1>2, <2>1 DEF UnaskedInv, NoneAsked
<1>4. ASSUME Up, Up'
      PROVE  NoneAsked' /\ PeerLocks' = {}
  <2>1. NoneAsked /\ PeerLocks = {} /\ NoneAsked'
    BY <1>1, <1>4, NoneAskedStep
  <2>2. CASE Released
    BY <2>1, <2>2 DEF Released, PeerLocks, Without
  <2>3. CASE HandleLockRequest
    BY <1>1, <2>1, <2>3, NextIsUnderWay, NodesFacts DEF HandleLockRequest, NoneAsked
  <2>4. CASE conn[Host] /\ \E o, dropped : SelectObject(Host, o, dropped)
    <3>1. PICK o, dropped : SelectObject(Host, o, dropped)
      BY <2>4
    <3> DEFINE old == idsOf(Host, reg[Host], dropped)
               new == idsOf(Host, lookedUp(Host, reg[Host], dropped), {o})
               lock == IF hasPermission(Host, "canLock") THEN new ELSE {}
    <3>2. locks' = [i \in (DOMAIN locks \ old) \cup lock |-> IF i \in lock THEN Host ELSE locks[i]]
      BY <2>4, <3>1 DEF SelectObject
    <3> HIDE DEF old, lock
    <3> QED BY <2>1, <3>2, NodesFacts DEF PeerLocks
  <2>5. LocksStep
    BY <1>1, LocksChange
  <2> QED BY <2>1, <2>2, <2>3, <2>4, <2>5 DEF LocksStep
<1> QED BY <1>2, <1>3, <1>4 DEF UnaskedInv

-----------------------------------------------------------------------------
(***************************************************************************)
(* Whose locks are given up.  A peer that selects objects may lose track   *)
(* of a lock only through a deletion: one by the host's user leaves the    *)
(* host's record of the lock, and with one by its own a refused request    *)
(* for the deleted id can take away the lock of another object.            *)
(***************************************************************************)
LocksKept ==
  "select" \in Ops[Peer] =>
    "delete" \notin Ops[Host] /\ ("select" \in Ops[Host] => "delete" \notin Ops[Peer])

LEMMA LocksBegin ==
  ASSUME Init
  PROVE  UnaskedInv /\ \A hs : LocksInv(hs)
<1>1. AliveInv
  BY AliveInit
<1>2. DOMAIN locks = {} /\ PeerLocks = {} /\ ~Up /\ ~conn[Host]
  BY NodesFacts DEF Init, Empty, PeerLocks, Up
<1>3. LocksBase
  BY <1>1, <1>2 DEF LocksBase
<1> QED BY <1>2, <1>3 DEF UnaskedInv, LocksInv, LocksOfPeer

LEMMA QuietIsUp ==
  ASSUME LocksBase, Quiet
  PROVE  Up
<1>1. conn[Host] /\ conn[Peer] /\ chan[Peer] = <<>> /\ RolesTold
  BY DEF Quiet, LocksBase, AliveInv, RolesInv
<1>2. link[Host]
  BY <1>1 DEF RolesTold, EndUnderWay
<1> QED BY <1>1, <1>2, NodesFacts DEF LocksBase, Up

LEMMA LocksInvSuffices ==
  ASSUME NEW hs, LocksInv(hs)
  PROVE  NoLeakedLock
<1> SUFFICES ASSUME Quiet, NEW i \in DOMAIN locks, locks[i] = Peer
             PROVE  i \in held[Peer]
  BY DEF NoLeakedLock
<1>1. Fits(hs)
  BY QuietIsUp DEF LocksInv
<1>2. i \in PeerLocks /\ chan[Host] = <<>> /\ chan[Peer] = <<>>
  BY DEF PeerLocks, Quiet
<1>3. \/ Grants(<<>>, i) \/ i \in held[Peer] \/ Has(<<>>, "unlock", i) \/ Has(<<>>, "delete", i)
  BY <1>1, <1>2 DEF Fits, LocksFit
<1> QED BY <1>3 DEF Grants, Has

LEMMA UnaskedSuffices ==
  ASSUME UnaskedInv
  PROVE  NoLeakedLock
  BY QuietIsUp DEF UnaskedInv, NoLeakedLock, PeerLocks

(***************************************************************************)
(* While users only edit and nobody deletes what the peer may have locked  *)
(* (LocksKept), the host's m_objectLocks keeps no lock for a peer that     *)
(* does not have it in m_heldLocks and so would never give it up: through  *)
(* requests, grants and refusals under way, replacements of the locked     *)
(* object, disconnections and new sessions.                                *)
(***************************************************************************)
THEOREM LocksAreReleased ==
  ASSUME OnlyEdits, LocksKept
  PROVE  Spec => []NoLeakedLock
<1>1. CASE "select" \notin Ops[Peer]
  <2>1. Init => UnaskedInv
    BY LocksBegin
  <2>2. UnaskedInv /\ [Next]_vars => UnaskedInv'
    <3>1. Next => UnaskedNext
      BY <1>1, NodesFacts DEF Next, UnaskedNext
    <3> QED BY <3>1, UnaskedStep
  <2>3. UnaskedInv => NoLeakedLock
    BY UnaskedSuffices
  <2> QED BY <2>1, <2>2, <2>3, PTL DEF Spec
<1>2. CASE "select" \in Ops[Peer]
  <2> DEFINE hs == "select" \in Ops[Host]
             Inv == LocksInv(hs)
  <2>1. Init => Inv
    BY LocksBegin
  <2>2. Inv /\ [Next]_vars => Inv'
    <3>1. Next => LockNext(hs)
      <4>1. User(Host) => LockNext(hs)
        BY <1>2 DEF User, LocksKept, LocalDelete, SelectObject, DeselectAll, Acts, LockNext
      <4> QED BY <4>1, NodesFacts DEF Next, LockNext
    <3>2. hs \in BOOLEAN /\ (hs => "delete" \notin Ops[Peer])
      BY <1>2 DEF LocksKept
    <3>3. ASSUME Inv, [Next]_vars
          PROVE  LocksInv(hs)'
      <4>1. [LockNext(hs)]_vars /\ LocksInv(hs)
        BY <3>1, <3>3
      <4> HIDE DEF hs
      <4> QED BY <3>2, <4>1, LocksInvStep
    <3> QED BY <3>3
  <2>3. Inv => NoLeakedLock
    BY LocksInvSuffices
  <2> HIDE DEF Inv
  <2> QED BY <2>1, <2>2, <2>3, PTL DEF Spec
<1> QED BY <1>1, <1>2
=============================================================================
