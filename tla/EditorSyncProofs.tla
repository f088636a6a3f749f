-------------------------- MODULE EditorSyncProofs --------------------------
(***************************************************************************)
(* Theorems about EditorSync for every level, heap, set of operations and  *)
(* bound, from the inductive invariant SyncInv: one lemma per action that  *)
(* the action preserves it.                                                *)
(***************************************************************************)
EXTENDS EditorSync, ObjectRegistryOpsProofs, FiniteSetTheorems, SequenceTheorems

\* The ids of both ranges: the low bits of an id are never zero.
ProperIds == (1..(IdBase - 1)) \cup {IdBase + k : k \in 1..(IdBase - 1)}

Entries(ids) == [id : ids, c : Contents]

Messages ==
  [type : {"place", "commit"}, id : ProperIds, c : Contents]
    \cup [type : {"delete", "lock_request", "lock_granted", "unlock"}, id : ProperIds]
    \cup [type : {"lock_denied"}, id : ProperIds \cup {INVALID_OBJECT_ID}]
    \cup [type : {"permission_update"}, role : Roles]
    \cup [type : {"chunk"}, index : Nat, total : Nat, entries : SUBSET Entries(ProperIds)]
    \cup [type : {"resync", "eof"}]

\* What may be in flight to each client: the host gets placements of the peer.
Inboxes ==
  [n \in Nodes |-> {m \in Messages : /\ IdsIn(m) \subseteq HandedOut
                                     /\ LockIdsIn(m) \subseteq LockIds
                                     /\ n = Host /\ m.type = "place" => m.id > IdBase}]

IsMail(ch, box) == ch = [n \in Nodes |-> ch[n]] /\ \A n \in Nodes : ch[n] \in Seq(box[n])

AtMostOne(S) == \A x, y \in S : x = y

EditorsOK ==
  /\ obj = [n \in Nodes |-> obj[n]] /\ base = [n \in Nodes |-> base[n]]
  /\ sel = [n \in Nodes |-> sel[n]]
  /\ \A n \in Nodes :
       /\ IsMap(obj[n], Heap[n], Contents) /\ IsMap(base[n], Heap[n], Contents)
       /\ sel[n] \subseteq Live(n) /\ AtMostOne(sel[n])

RegsOK ==
  /\ reg = [n \in Nodes |-> reg[n]]
  /\ \A n \in Nodes : RegistryOK(reg[n]) /\ DOMAIN reg[n].byId \subseteq HandedOut
  /\ nextTempId \in 1..(MaxTempId + 1) /\ reg[Host].nextId \in 1..(MaxId + 1)

LocksOK ==
  /\ held \in [Nodes -> SUBSET NetIds] /\ IsMap(locks, NetIds, Nodes)
  /\ role \in Roles /\ myRole \in Roles
  /\ conn \in [Nodes -> BOOLEAN] /\ link \in [Nodes -> BOOLEAN]

MailOK ==
  /\ IsMail(chan, Inboxes)
  /\ "entries" \in DOMAIN snap /\ snap.entries \subseteq Entries(HandedOut)

\* The inductive invariant.
SyncInv == EditorsOK /\ RegsOK /\ LocksOK /\ MailOK

-----------------------------------------------------------------------------
(***************************************************************************)
(* Ids.                                                                    *)
(***************************************************************************)

LEMMA NodesFacts ==
  /\ Host \in Nodes /\ Peer \in Nodes /\ Host # Peer
  /\ \A n \in Nodes : Other(n) \in Nodes /\ Other(n) # n /\ (n = Host \/ n = Peer)
  /\ Other(Host) = Peer /\ Other(Peer) = Host
  BY DEF Nodes, Host, Peer, Other

\* The owner and the number of an id.
LEMMA IdParts ==
  ASSUME NEW k \in 0..(IdBase - 1)
  PROVE  /\ k \div IdBase = 0 /\ k % IdBase = k
         /\ (IdBase + k) \div IdBase = 1 /\ (IdBase + k) % IdBase = k
<1>1. IdBase \in Nat /\ IdBase > 0 /\ k \in Nat /\ k < IdBase
  BY SyncAssumption
<1>2. k \div IdBase = 0
  BY <1>1
<1>3. k % IdBase = k
  BY <1>1
<1>4. (IdBase + k) \div IdBase = 1
  BY <1>1
<1>5. (IdBase + k) % IdBase = k
  BY <1>1
<1> QED BY <1>2, <1>3, <1>4, <1>5

\* canonicalPeerObjectId moves the host's ids into the peer's range and keeps
\* the peer's.
LEMMA CanonicalId ==
  ASSUME NEW i \in ProperIds
  PROVE  /\ canonicalPeerObjectId(Peer, i) \in ProperIds
         /\ i % IdBase \in ProperIds
         /\ i < IdBase => canonicalPeerObjectId(Peer, i) = IdBase + i
         /\ i > IdBase => canonicalPeerObjectId(Peer, i) = i
<1>1. IdBase \in Nat /\ IdBase > 0
  BY SyncAssumption
<1>2. CASE i \in 1..(IdBase - 1)
  <2>1. i \div IdBase = 0 /\ i % IdBase = i
    BY <1>2, IdParts
  <2>2. canonicalPeerObjectId(Peer, i) = IdBase + i
    BY <1>1, <1>2, <2>1 DEF canonicalPeerObjectId, Peer
  <2> QED BY <1>1, <1>2, <2>1, <2>2 DEF ProperIds
<1>3. CASE \E k \in 1..(IdBase - 1) : i = IdBase + k
  <2>1. PICK k \in 1..(IdBase - 1) : i = IdBase + k
    BY <1>3
  <2>2. i \div IdBase = 1 /\ i % IdBase = k
    BY <1>1, <2>1, IdParts
  <2>3. canonicalPeerObjectId(Peer, i) = i
    BY <2>2 DEF canonicalPeerObjectId, Peer
  <2> QED BY <1>1, <2>1, <2>2, <2>3 DEF ProperIds
<1> QED BY <1>2, <1>3 DEF ProperIds

LEMMA ProperAreNetIds == ProperIds \subseteq NetIds
  BY SyncAssumption DEF ProperIds, NetIds, INVALID_OBJECT_ID

LEMMA HandedOutProper ==
  ASSUME RegsOK
  PROVE  HandedOut \subseteq ProperIds
  BY SyncAssumption DEF RegsOK, HandedOut, ProperIds

LEMMA HandedOutGrows ==
  ASSUME RegsOK, reg'[Host].nextId \in Int, reg'[Host].nextId >= reg[Host].nextId,
         nextTempId' \in Int, nextTempId' >= nextTempId
  PROVE  HandedOut \subseteq HandedOut'
  BY SyncAssumption DEF RegsOK, HandedOut

\* The ids a lock may name are ids, and grow with the ids handed out.
LEMMA LockIdsProper ==
  ASSUME HandedOut \subseteq ProperIds
  PROVE  HandedOut \subseteq LockIds /\ LockIds \subseteq ProperIds
  BY CanonicalId DEF LockIds, Provisional

LEMMA LockIdsGrow ==
  ASSUME HandedOut \subseteq HandedOut'
  PROVE  LockIds \subseteq LockIds'
  BY DEF LockIds, Provisional

-----------------------------------------------------------------------------
(***************************************************************************)
(* Messages.                                                               *)
(***************************************************************************)

LEMMA OneMessage ==
  ASSUME NEW S, NEW m \in S
  PROVE  <<m>> \in Seq(S)
  OBVIOUS

LEMMA InboxesGrow ==
  ASSUME HandedOut \subseteq HandedOut'
  PROVE  \A n \in Nodes : Inboxes[n] \subseteq Inboxes'[n]
  BY LockIdsGrow DEF Inboxes

LEMMA InboxesSame ==
  ASSUME HandedOut' = HandedOut
  PROVE  LockIds' = LockIds /\ Inboxes' = Inboxes
<1>1. LockIds' = LockIds
  BY DEF LockIds, Provisional
<1> QED BY <1>1 DEF Inboxes

LEMMA MailGrows ==
  ASSUME NEW ch, NEW box, NEW larger, IsMail(ch, box),
         \A n \in Nodes : box[n] \subseteq larger[n]
  PROVE  IsMail(ch, larger)
<1>1. ASSUME NEW n \in Nodes
      PROVE  ch[n] \in Seq(larger[n])
  BY SeqMonotonic, Zenon DEF IsMail
<1> QED BY <1>1 DEF IsMail

LEMMA SentMail ==
  ASSUME NEW ch, NEW box, IsMail(ch, box), NEW n \in Nodes, NEW msgs \in Seq(box[Other(n)])
  PROVE  IsMail(Sent(ch, n, msgs), box)
<1>1. Other(n) \in Nodes
  BY NodesFacts
<1>2. ch[Other(n)] \o msgs \in Seq(box[Other(n)])
  BY <1>1, ConcatProperties DEF IsMail
<1> QED BY <1>1, <1>2 DEF IsMail, Sent

LEMMA TakenMail ==
  ASSUME NEW ch, NEW box, IsMail(ch, box), NEW n \in Nodes, ch[n] # <<>>
  PROVE  /\ Head(ch[n]) \in box[n]
         /\ IsMail([ch EXCEPT ![n] = Tail(@)], box)
<1>1. Head(ch[n]) \in box[n] /\ Tail(ch[n]) \in Seq(box[n])
  BY HeadTailProperties DEF IsMail
<1> QED BY <1>1 DEF IsMail

\* What the fields of a message in flight hold.
LEMMA InboxMessage ==
  ASSUME NEW n \in Nodes, NEW m \in Inboxes[n]
  PROVE  /\ m \in Messages
         /\ m.type \in {"place", "commit"} => m.c \in Contents
         /\ m.type \in {"place", "delete", "commit", "lock_request", "unlock"}
              => m.id \in HandedOut
         /\ m.type = "lock_granted" => m.id \in LockIds
         /\ m.type \in {"place", "delete", "commit", "lock_request", "lock_granted", "unlock"}
              => m.id \in ProperIds
         /\ m.type = "lock_denied" => m.id \in ProperIds \cup {INVALID_OBJECT_ID}
         /\ n = Host /\ m.type = "place" => m.id > IdBase
         /\ m.type = "permission_update" => m.role \in Roles
         /\ m.type = "chunk" => m.entries \subseteq Entries(HandedOut)
<1>1. /\ m \in Messages /\ IdsIn(m) \subseteq HandedOut /\ LockIdsIn(m) \subseteq LockIds
      /\ n = Host /\ m.type = "place" => m.id > IdBase
  BY DEF Inboxes
<1>2. m.type \in {"place", "delete", "commit", "lock_request", "unlock"} => m.id \in HandedOut
  BY <1>1 DEF IdsIn
<1>3. m.type = "chunk" => {e.id : e \in m.entries} \subseteq HandedOut
  BY <1>1 DEF IdsIn
<1>4. m.type = "chunk" => m.entries \subseteq Entries(ProperIds)
  BY <1>1 DEF Messages
<1>5. m.type = "chunk" => m.entries \subseteq Entries(HandedOut)
  BY <1>3, <1>4 DEF Entries
<1>6. /\ m.type \in {"place", "commit"} => m.c \in Contents
      /\ m.type \in {"place", "delete", "commit", "lock_request", "lock_granted", "unlock"}
           => m.id \in ProperIds
      /\ m.type = "lock_denied" => m.id \in ProperIds \cup {INVALID_OBJECT_ID}
      /\ m.type = "permission_update" => m.role \in Roles
  BY <1>1 DEF Messages
<1>7. m.type = "lock_granted" => m.id \in LockIds
  <2> SUFFICES ASSUME m.type = "lock_granted" PROVE m.id \in LockIds
    OBVIOUS
  <2>1. m.id # INVALID_OBJECT_ID
    BY <1>6, ProperAreNetIds DEF NetIds
  <2>2. LockIdsIn(m) = {m.id} \ {INVALID_OBJECT_ID}
    BY DEF LockIdsIn
  <2> QED BY <1>1, <2>1, <2>2
<1> QED BY <1>1, <1>2, <1>5, <1>6, <1>7

\* The messages a client may send, by type.
LEMMA MaySend ==
  ASSUME NEW n \in Nodes, HandedOut \subseteq ProperIds
  PROVE  /\ \A i \in HandedOut, c \in Contents :
              [type |-> "commit", id |-> i, c |-> c] \in Inboxes[n]
         /\ \A i \in HandedOut, c \in Contents : n = Peer \/ i > IdBase =>
              [type |-> "place", id |-> i, c |-> c] \in Inboxes[n]
         /\ \A i \in HandedOut : [type |-> "delete", id |-> i] \in Inboxes[n]
         /\ \A i \in HandedOut, t \in {"lock_request", "unlock"} :
              [type |-> t, id |-> i] \in Inboxes[n]
         /\ \A i \in LockIds : [type |-> "lock_granted", id |-> i] \in Inboxes[n]
         /\ \A i \in LockIds \cup {INVALID_OBJECT_ID} :
              [type |-> "lock_denied", id |-> i] \in Inboxes[n]
         /\ \A r \in Roles : [type |-> "permission_update", role |-> r] \in Inboxes[n]
         /\ \A t \in {"resync", "eof"} : [type |-> t] \in Inboxes[n]
         /\ \A index, total \in Nat, entries \in SUBSET Entries(HandedOut) :
              [type |-> "chunk", index |-> index, total |-> total, entries |-> entries]
                \in Inboxes[n]
<1> DEFINE OK(m) == m \in Messages /\ IdsIn(m) \subseteq HandedOut
                    /\ LockIdsIn(m) \subseteq LockIds
                    /\ (n = Host /\ m.type = "place" => m.id > IdBase)
<1>0. \A m : OK(m) => m \in Inboxes[n]
  BY DEF Inboxes
<1>1. ASSUME NEW i \in HandedOut, NEW c \in Contents
      PROVE  OK([type |-> "commit", id |-> i, c |-> c])
  BY DEF Messages, IdsIn, LockIdsIn
<1>2. ASSUME NEW i \in HandedOut, NEW c \in Contents, n = Peer \/ i > IdBase
      PROVE  OK([type |-> "place", id |-> i, c |-> c])
  BY <1>2, NodesFacts DEF Messages, IdsIn, LockIdsIn
<1>3. ASSUME NEW i \in HandedOut
      PROVE  OK([type |-> "delete", id |-> i])
  BY DEF Messages, IdsIn, LockIdsIn
<1>4. ASSUME NEW i \in HandedOut, NEW t \in {"lock_request", "unlock"}
      PROVE  OK([type |-> t, id |-> i])
  BY DEF Messages, IdsIn, LockIdsIn
<1>9. ASSUME NEW i \in LockIds
      PROVE  OK([type |-> "lock_granted", id |-> i])
  BY LockIdsProper DEF Messages, IdsIn, LockIdsIn
<1>5. ASSUME NEW i \in LockIds \cup {INVALID_OBJECT_ID}
      PROVE  OK([type |-> "lock_denied", id |-> i])
  BY LockIdsProper DEF Messages, IdsIn, LockIdsIn
<1>6. ASSUME NEW r \in Roles
      PROVE  OK([type |-> "permission_update", role |-> r])
  BY DEF Messages, IdsIn, LockIdsIn
<1>7. ASSUME NEW t \in {"resync", "eof"}
      PROVE  OK([type |-> t])
  BY DEF Messages, IdsIn, LockIdsIn
<1>8. ASSUME NEW index \in Nat, NEW total \in Nat, NEW entries \in SUBSET Entries(HandedOut)
      PROVE  OK([type |-> "chunk", index |-> index, total |-> total, entries |-> entries])
  <2> DEFINE m == [type |-> "chunk", index |-> index, total |-> total, entries |-> entries]
  <2>1. m.type = "chunk" /\ m.entries = entries
    OBVIOUS
  <2>2. entries \subseteq Entries(ProperIds)
    BY DEF Entries
  <2>3. m \in Messages
    BY <2>2 DEF Messages
  <2>4. \A e \in entries : e.id \in HandedOut
    BY DEF Entries
  <2>5. IdsIn(m) = {e.id : e \in m.entries}
    <3> HIDE DEF m
    <3> QED BY <2>1 DEF IdsIn
  <2>6. LockIdsIn(m) = {}
    <3> HIDE DEF m
    <3> QED BY <2>1 DEF LockIdsIn
  <2> QED BY <2>1, <2>3, <2>4, <2>5, <2>6
<1> HIDE DEF OK
<1> QED BY <1>0, <1>1, <1>2, <1>3, <1>4, <1>5, <1>6, <1>7, <1>8, <1>9

\* A placement with an id that this step hands out.
LEMMA NewPlacement ==
  ASSUME NEW n \in Nodes, HandedOut' \subseteq ProperIds,
         NEW id \in HandedOut', NEW c \in Contents, n = Peer => id > IdBase
  PROVE  [type |-> "place", id |-> id, c |-> c] \in Inboxes'[Other(n)]
<1>1. [type |-> "place", id |-> id, c |-> c] \in Messages
  BY DEF Messages
<1>2. /\ IdsIn([type |-> "place", id |-> id, c |-> c]) = {id}
      /\ LockIdsIn([type |-> "place", id |-> id, c |-> c]) = {}
  BY DEF IdsIn, LockIdsIn
<1> QED BY <1>1, <1>2, NodesFacts DEF Inboxes

-----------------------------------------------------------------------------
(***************************************************************************)
(* What an action may do to one part of the state.                         *)
(***************************************************************************)

\* Sending messages, after the ids in them were handed out.
LEMMA PostMail ==
  ASSUME MailOK, HandedOut \subseteq HandedOut', snap' = snap,
         NEW n \in Nodes, NEW msgs \in Seq(Inboxes'[Other(n)]), Post(n, msgs)
  PROVE  MailOK'
<1>1. IsMail(chan, Inboxes')
  BY InboxesGrow, MailGrows DEF MailOK
<1>2. IsMail(chan', Inboxes')
  BY <1>1, SentMail DEF Post
<1> QED BY <1>2 DEF MailOK, Entries

LEMMA SameMail ==
  ASSUME MailOK, HandedOut \subseteq HandedOut', snap' = snap, chan' = chan
  PROVE  MailOK'
<1>1. IsMail(chan, Inboxes')
  BY InboxesGrow, MailGrows DEF MailOK
<1> QED BY <1>1 DEF MailOK, Entries

\* Taking a message off the queue, and answering it.
LEMMA ConsumeMail ==
  ASSUME MailOK, HandedOut' = HandedOut, snap' = snap,
         NEW n \in Nodes, chan[n] # <<>>,
         NEW replies \in Seq(Inboxes[Other(n)]), Consume(n, replies)
  PROVE  MailOK'
<1>1. IsMail([chan EXCEPT ![n] = Tail(@)], Inboxes)
  BY TakenMail DEF MailOK
<1>2. IsMail(chan', Inboxes)
  BY <1>1, SentMail DEF Consume
<1>3. Inboxes' = Inboxes
  BY InboxesSame
<1> QED BY <1>2, <1>3 DEF MailOK

\* A message about to be handled is a message that may be in flight.
LEMMA Received ==
  ASSUME MailOK, NEW n \in Nodes, NEW t, Receives(n, t)
  PROVE  chan[n] # <<>> /\ Msg(n) \in Inboxes[n] /\ Msg(n).type = t
<1>1. Head(chan[n]) \in Inboxes[n]
  BY TakenMail DEF MailOK, Receives
<1> QED BY <1>1 DEF Receives, Msg

\* A change to one registry that hands out no id.
LEMMA RegsStep ==
  ASSUME RegsOK, NEW n \in Nodes, NEW q, reg' = [reg EXCEPT ![n] = q], nextTempId' = nextTempId,
         RegistryOK(q), q.nextId = reg[n].nextId, DOMAIN q.byId \subseteq HandedOut
  PROVE  RegsOK' /\ HandedOut' = HandedOut
<1>1. /\ reg' = [m \in Nodes |-> reg'[m]] /\ reg'[n] = q
      /\ \A m \in Nodes : m # n => reg'[m] = reg[m]
      /\ reg'[Host].nextId = reg[Host].nextId
  BY NodesFacts DEF RegsOK
<1>2. HandedOut' = HandedOut
  BY <1>1 DEF HandedOut
<1> QED BY <1>1, <1>2 DEF RegsOK

LEMMA SameRegs ==
  ASSUME RegsOK, reg' = reg, nextTempId' = nextTempId
  PROVE  RegsOK' /\ HandedOut' = HandedOut
  BY DEF RegsOK, HandedOut

\* A change to one client's editor.
LEMMA EditorsStep ==
  ASSUME EditorsOK, NEW n \in Nodes, NEW level, NEW chosen, NEW primed,
         obj' = [obj EXCEPT ![n] = level], sel' = [sel EXCEPT ![n] = chosen],
         base' = [base EXCEPT ![n] = primed],
         IsMap(level, Heap[n], Contents), IsMap(primed, Heap[n], Contents),
         chosen \subseteq DOMAIN level, AtMostOne(chosen)
  PROVE  EditorsOK'
  BY DEF EditorsOK, Live

LEMMA SameEditors ==
  ASSUME EditorsOK, obj' = obj, sel' = sel, base' = base
  PROVE  EditorsOK'
  BY DEF EditorsOK, Live

LEMMA SameLocks ==
  ASSUME LocksOK, held' = held, locks' = locks, UNCHANGED session
  PROVE  LocksOK'
  BY DEF LocksOK, session

\* Sending messages whose ids are not new.
LEMMA PostOldIds ==
  ASSUME MailOK, HandedOut' = HandedOut, snap' = snap,
         NEW n \in Nodes, NEW msgs \in Seq(Inboxes[Other(n)]), Post(n, msgs)
  PROVE  MailOK'
<1>1. Inboxes' = Inboxes
  BY InboxesSame
<1> QED BY <1>1, PostMail

LEMMA InvFacts ==
  ASSUME SyncInv, NEW n \in Nodes
  PROVE  /\ EditorsOK /\ RegsOK /\ LocksOK /\ MailOK /\ HandedOut \subseteq ProperIds
         /\ IsMap(obj[n], Heap[n], Contents) /\ IsMap(base[n], Heap[n], Contents)
         /\ sel[n] \subseteq Live(n) /\ AtMostOne(sel[n])
         /\ Live(n) \subseteq Heap[n] /\ Heap[n] \subseteq Ptrs
         /\ RegistryOK(reg[n]) /\ DOMAIN reg[n].byId \subseteq HandedOut
         /\ \A c \in Contents : Fp(c) \in Prints
         /\ \A o \in Live(n) : obj[n][o] \in Contents /\ o \in Ptrs
<1>1. HandedOut \subseteq ProperIds
  BY HandedOutProper DEF SyncInv
<1>2. Heap[n] \subseteq Ptrs /\ \A c \in Contents : Fp(c) \in Prints
  BY SyncAssumption
<1> QED BY <1>1, <1>2 DEF SyncInv, EditorsOK, RegsOK, IsMap, Live

-----------------------------------------------------------------------------
(***************************************************************************)
(* The hooks' helpers.                                                     *)
(***************************************************************************)

LEMMA RefreshedOK ==
  ASSUME NEW r, RegistryOK(r), NEW o, NEW c \in Contents
  PROVE  /\ RegistryOK(refreshed(r, o, c)) /\ refreshed(r, o, c).byId = r.byId
         /\ refreshed(r, o, c).nextId = r.nextId
<1>1. Fp(c) \in Prints
  BY SyncAssumption
<1> QED BY <1>1, UpdateOK DEF refreshed

LEMMA CommitOfOK ==
  ASSUME HandedOut \subseteq ProperIds, NEW n \in Nodes, NEW r, DOMAIN r.byId \subseteq HandedOut,
         NEW id, NEW H, NEW os, IsMap(os, H, Contents)
  PROVE  commitOf(r, id, os) \in Seq(Inboxes[n])
<1>1. CASE hasNetworkId(r, id) /\ r.byId[id] \in DOMAIN os
  <2>1. id \in HandedOut /\ os[r.byId[id]] \in Contents
    BY <1>1 DEF hasNetworkId, IsMap
  <2>2. [type |-> "commit", id |-> id, c |-> os[r.byId[id]]] \in Inboxes[n]
    BY <2>1, MaySend
  <2>3. commitOf(r, id, os) = <<[type |-> "commit", id |-> id, c |-> os[r.byId[id]]]>>
    BY <1>1 DEF commitOf
  <2> QED BY <2>2, <2>3, OneMessage
<1>2. CASE ~(hasNetworkId(r, id) /\ r.byId[id] \in DOMAIN os)
  BY <1>2, EmptySeq DEF commitOf
<1> QED BY <1>1, <1>2

LEMMA TheElement ==
  ASSUME NEW S, S # {}
  PROVE  The(S) \in S
  BY DEF The

LEMMA LookedUpOK ==
  ASSUME SyncInv, NEW n \in Nodes, NEW r, RegistryOK(r), DOMAIN r.byId \subseteq HandedOut,
         NEW S \in SUBSET Live(n)
  PROVE  /\ RegistryOK(lookedUp(n, r, S)) /\ DOMAIN lookedUp(n, r, S).byId \subseteq HandedOut
         /\ lookedUp(n, r, S).nextId = r.nextId
         /\ idsOf(n, r, S) \subseteq HandedOut /\ idsOf(n, r, S) \subseteq ProperIds
<1>1. CASE S = {}
  BY <1>1 DEF lookedUp, idsOf
<1>2. CASE S # {}
  <2> DEFINE o == The(S)
             fp == Fp(obj[n][o])
  <2>1. o \in S
    BY <1>2, TheElement
  <2>2. o \in Ptrs /\ fp \in Prints
    BY <2>1, InvFacts
  <2>3. lookedUp(n, r, S) = recovered(r, o, fp)
    BY <1>2 DEF lookedUp
  <2>4. idsOf(n, r, S) = {recoveredId(r, o, fp)} \ {INVALID_OBJECT_ID}
    BY <1>2 DEF idsOf
  <2> HIDE DEF o, fp
  <2>5. /\ RegistryOK(recovered(r, o, fp)) /\ DOMAIN recovered(r, o, fp).byId \subseteq DOMAIN r.byId
        /\ recovered(r, o, fp).nextId = r.nextId
    BY <2>2, RecoveredOK
  <2>6. recoveredId(r, o, fp) # INVALID_OBJECT_ID => recoveredId(r, o, fp) \in DOMAIN r.byId
    BY RecoveredIdOK
  <2> QED BY <2>3, <2>4, <2>5, <2>6, InvFacts
<1> QED BY <1>1, <1>2

LEMMA ReleaseOK ==
  ASSUME SyncInv, NEW n \in Nodes, NEW m \in Nodes, NEW r, DOMAIN r.byId \subseteq HandedOut,
         NEW ids \in SUBSET HandedOut
  PROVE  release(n, r, ids) \in Seq(Inboxes[m])
<1>1. CASE ids # {} /\ (n = Host \/ ids \subseteq held[n])
  <2>1. commitOf(r, The(ids), obj[n]) \in Seq(Inboxes[m])
    BY InvFacts, CommitOfOK
  <2>2. The(ids) \in HandedOut
    BY <1>1, TheElement
  <2>3. [type |-> "unlock", id |-> The(ids)] \in Inboxes[m]
    BY <2>2, MaySend, InvFacts
  <2>4. <<[type |-> "unlock", id |-> The(ids)]>> \in Seq(Inboxes[m])
    BY <2>3, OneMessage
  <2>5. release(n, r, ids) = commitOf(r, The(ids), obj[n]) \o <<[type |-> "unlock", id |-> The(ids)]>>
    BY <1>1 DEF release
  <2> QED BY <2>1, <2>4, <2>5, ConcatProperties
<1>2. CASE ~(ids # {} /\ (n = Host \/ ids \subseteq held[n]))
  BY <1>2, EmptySeq DEF release
<1> QED BY <1>1, <1>2

-----------------------------------------------------------------------------
(***************************************************************************)
(* Placing objects.                                                        *)
(***************************************************************************)

LEMMA CountersBounded ==
  ASSUME SyncInv
  PROVE  /\ reg[Host].nextId \in Nat /\ reg[Host].nextId >= 1 /\ reg[Host].nextId <= MaxId + 1
         /\ nextTempId \in Nat /\ nextTempId >= 1 /\ nextTempId <= MaxTempId + 1
         /\ MaxId \in Nat /\ MaxTempId \in Nat /\ IdBase \in Nat
         /\ MaxId < IdBase /\ MaxTempId < IdBase
  BY SyncAssumption DEF SyncInv, RegsOK

\* The number of objects without an id is a number.
LEMMA UnsyncedFinite ==
  ASSUME SyncInv, NEW n \in Nodes, NEW S \in SUBSET Unsynced(n)
  PROVE  IsFiniteSet(S) /\ Cardinality(S) \in Nat
<1>1. S \in SUBSET Ptrs
  BY InvFacts DEF Unsynced
<1>2. IsFiniteSet(S)
  BY <1>1, SyncAssumption, FS_Subset
<1> QED BY <1>2, FS_CardinalityType

\* The ids of the peer's next placements.
LEMMA TempIds ==
  ASSUME SyncInv, nextTempId <= MaxTempId
  PROVE  canonicalPeerObjectId(Peer, nextTempId) = IdBase + nextTempId
<1>1. nextTempId \in ProperIds /\ nextTempId < IdBase
  BY CountersBounded DEF ProperIds
<1> QED BY <1>1, CanonicalId

\* The host's next id is in no registry.
LEMMA HostIdFresh ==
  ASSUME SyncInv, NEW n \in Nodes, NEW i \in Nat, i >= reg[Host].nextId, i <= IdBase
  PROVE  i \notin DOMAIN reg[n].byId
<1>1. i \notin HandedOut
  BY CountersBounded DEF HandedOut
<1> QED BY <1>1, InvFacts

LEMMA PlacementOK ==
  ASSUME SyncInv, NEW n \in Nodes, NEW o \in Heap[n], IdsLeft(n) >= 1
  PROVE  /\ RegistryOK(afterPlacement(n, o))
         /\ DOMAIN afterPlacement(n, o).byId \subseteq DOMAIN reg[n].byId \cup {placementId(n, o)}
         /\ n = Peer => /\ placementId(n, o) = IdBase + nextTempId /\ nextTempId <= MaxTempId
         /\ n = Host => /\ afterPlacement(n, o).nextId \in {reg[n].nextId, reg[n].nextId + 1}
                        /\ afterPlacement(n, o).nextId <= MaxId + 1
                        /\ \/ placementId(n, o) \in HandedOut
                           \/ /\ placementId(n, o) = reg[n].nextId
                              /\ afterPlacement(n, o).nextId = reg[n].nextId + 1
<1> DEFINE bound == IF n = Host THEN registerObject(reg[n], o)
                    ELSE bindObject(reg[n], placementId(n, o), o)
           id == placementId(n, o)
<1>1. /\ RegistryOK(reg[n]) /\ o \in Ptrs
      /\ reg[n] = [byId |-> reg[n].byId, byPtr |-> reg[n].byPtr,
                   fps |-> reg[n].fps, nextId |-> reg[n].nextId]
  BY InvFacts DEF RegistryOK, IsRegistry
<1>2. /\ RegistryOK(bound) /\ DOMAIN bound.byId \subseteq DOMAIN reg[n].byId \cup {id}
      /\ n = Peer => id = IdBase + nextTempId /\ nextTempId <= MaxTempId
      /\ n = Host => /\ bound.nextId \in {reg[n].nextId, reg[n].nextId + 1}
                     /\ bound.nextId <= MaxId + 1
                     /\ \/ id \in HandedOut
                        \/ id = reg[n].nextId /\ bound.nextId = reg[n].nextId + 1
  <2>1. CASE n = Peer
    <3>1. nextTempId <= MaxTempId
      BY <2>1, CountersBounded, NodesFacts DEF IdsLeft
    <3>2. id = IdBase + nextTempId
      BY <2>1, <3>1, TempIds DEF placementId
    <3>3. id \in NetIds
      BY <3>2, CountersBounded DEF NetIds, INVALID_OBJECT_ID
    <3>4. bound = bindObject(reg[n], id, o)
      BY <2>1, NodesFacts
    <3> HIDE DEF bound, id
    <3> QED BY <1>1, <2>1, <3>1, <3>2, <3>3, <3>4, BindOK, NodesFacts
  <2>2. CASE n = Host
    <3>1. /\ bound = registerObject(reg[n], o) /\ reg[n].nextId <= MaxId
          /\ reg[n].nextId \in Nat /\ MaxId \in Nat
      BY <2>2, CountersBounded DEF IdsLeft
    <3>2. reg[n].nextId \notin DOMAIN reg[n].byId
      BY <2>2, <3>1, CountersBounded, HostIdFresh
    <3>3. CASE hasObject(reg[n], o)
      <4>1. bound = reg[n]
        BY <3>1, <3>3 DEF registerObject
      <4>2. id = reg[n].byPtr[o]
        BY <2>2, <3>3, NodesFacts DEF placementId
      <4>3. id \in HandedOut
        BY <3>3, <4>2, <1>1, InvFacts DEF RegistryOK, IsInverse, hasObject, hasNetworkId
      <4> HIDE DEF bound, id
      <4> QED BY <1>1, <2>2, <3>1, <4>1, <4>3, NodesFacts
    <3>4. CASE ~hasObject(reg[n], o)
      <4>1. id = reg[n].nextId
        BY <2>2, <3>4, NodesFacts DEF placementId
      <4>2. bound.nextId = reg[n].nextId + 1
        BY <1>1, <3>1, <3>4 DEF registerObject
      <4> HIDE DEF bound, id
      <4> QED BY <1>1, <2>2, <3>1, <3>2, <4>1, <4>2, RegisterOK, NodesFacts
    <3> QED BY <3>3, <3>4
  <2> QED BY <2>1, <2>2, NodesFacts
<1>3. afterPlacement(n, o) = IF link[n] THEN bound ELSE removeByObject(bound, o)
  BY DEF afterPlacement
<1> HIDE DEF bound
<1>4. /\ RegistryOK(removeByObject(bound, o))
      /\ DOMAIN removeByObject(bound, o).byId \subseteq DOMAIN bound.byId
      /\ removeByObject(bound, o).nextId = bound.nextId
  BY <1>2, RemoveByObjectOK
<1> QED BY <1>2, <1>3, <1>4

\* A new object leaves the selection alone.
LEMMA PlacedLevel ==
  ASSUME SyncInv, NEW n \in Nodes, NEW o \in Heap[n], NEW c \in Contents
  PROVE  /\ IsMap(With(obj[n], o, c), Heap[n], Contents)
         /\ sel[n] \subseteq DOMAIN With(obj[n], o, c)
<1>1. IsMap(obj[n], Heap[n], Contents) /\ sel[n] \subseteq DOMAIN obj[n]
  BY InvFacts DEF Live
<1> QED BY <1>1 DEF IsMap, With

LEMMA LocalPlaceInv ==
  ASSUME SyncInv, NEW n \in Nodes, NEW o \in Heap[n], NEW c \in Contents, LocalPlace(n, o, c)
  PROVE  SyncInv' /\ HandedOut \subseteq HandedOut'
<1>1. EditorsOK'
  <2>1. /\ obj' = [obj EXCEPT ![n] = With(obj[n], o, c)]
        /\ IsMap(With(obj[n], o, c), Heap[n], Contents)
        /\ sel[n] \subseteq DOMAIN With(obj[n], o, c)
    BY PlacedLevel DEF LocalPlace
  <2>2. sel' = [sel EXCEPT ![n] = sel[n]]
    BY InvFacts DEF LocalPlace, EditorsOK
  <2>3. \/ base' = [base EXCEPT ![n] = Without(base[n], {o})]
        \/ base' = [base EXCEPT ![n] = base[n]]
    BY InvFacts DEF LocalPlace, EditorsOK
  <2>4. IsMap(Without(base[n], {o}), Heap[n], Contents)
    BY InvFacts, WithoutMap
  <2> QED BY <2>1, <2>2, <2>3, <2>4, InvFacts, EditorsStep
<1>2. IdsLeft(n) >= 1
  <2>1. Cardinality(Unsynced(n)) \in Nat /\ IdsLeft(n) > Cardinality(Unsynced(n))
    BY UnsyncedFinite DEF LocalPlace
  <2>2. IdsLeft(n) \in Int
    BY CountersBounded, NodesFacts DEF IdsLeft
  <2> QED BY <2>1, <2>2
<1>3. CASE conn[n] /\ hasPermission(n, "canEdit")
  <2> DEFINE q == refreshed(afterPlacement(n, o), o, c)
             id == placementId(n, o)
             msgs == <<[type |-> "place", id |-> id, c |-> c]>>
  <2>1. /\ reg' = [reg EXCEPT ![n] = q] /\ Post(n, msgs)
        /\ nextTempId' = IF n = Peer THEN nextTempId + 1 ELSE nextTempId
    BY <1>3 DEF LocalPlace
  <2>2. /\ RegistryOK(q) /\ DOMAIN q.byId \subseteq DOMAIN reg[n].byId \cup {id}
        /\ n = Peer => id = IdBase + nextTempId /\ nextTempId <= MaxTempId
        /\ n = Host => /\ q.nextId \in {reg[n].nextId, reg[n].nextId + 1}
                       /\ q.nextId <= MaxId + 1
                       /\ id \in HandedOut \/ (id = reg[n].nextId /\ q.nextId = reg[n].nextId + 1)
    BY <1>2, PlacementOK, RefreshedOK
  <2> HIDE DEF q, id
  <2>3. /\ reg' = [m \in Nodes |-> reg'[m]] /\ reg'[n] = q
        /\ \A m \in Nodes : m # n => reg'[m] = reg[m]
    BY <2>1, InvFacts DEF RegsOK
  <2>4. /\ reg'[Host].nextId \in 1..(MaxId + 1) /\ reg'[Host].nextId >= reg[Host].nextId
        /\ nextTempId' \in 1..(MaxTempId + 1) /\ nextTempId' >= nextTempId
    BY <2>1, <2>2, <2>3, CountersBounded, NodesFacts
  <2>5. HandedOut \subseteq HandedOut'
    BY <2>4, InvFacts, HandedOutGrows
  <2>6. id \in HandedOut'
    <3>1. CASE n = Peer
      BY <3>1, <2>1, <2>2, CountersBounded DEF HandedOut
    <3>2. CASE n = Host
      BY <3>2, <2>2, <2>3, <2>5, CountersBounded DEF HandedOut
    <3> QED BY <3>1, <3>2, NodesFacts
  <2>7. RegsOK'
    <3>1. \A m \in Nodes : RegistryOK(reg'[m]) /\ DOMAIN reg'[m].byId \subseteq HandedOut'
      BY <2>2, <2>3, <2>5, <2>6, InvFacts
    <3> QED BY <2>3, <2>4, <3>1 DEF RegsOK
  <2>8. MailOK'
    <3>1. HandedOut' \subseteq ProperIds
      BY <2>7, SyncAssumption DEF RegsOK, HandedOut, ProperIds
    <3>2. n = Peer => id > IdBase
      BY <2>2, CountersBounded
    <3>3. [type |-> "place", id |-> id, c |-> c] \in Inboxes'[Other(n)]
      BY <2>6, <3>1, <3>2, NewPlacement
    <3>4. msgs \in Seq(Inboxes'[Other(n)])
      BY <3>3, OneMessage
    <3> HIDE DEF msgs
    <3> QED BY <2>1, <2>5, <3>4, InvFacts, PostMail DEF LocalPlace
  <2>9. LocksOK'
    BY InvFacts, SameLocks DEF LocalPlace
  <2> QED BY <1>1, <2>5, <2>7, <2>8, <2>9 DEF SyncInv
<1>4. CASE ~(conn[n] /\ hasPermission(n, "canEdit"))
  <2>1. /\ reg' = [reg EXCEPT ![n] = refreshed(reg[n], o, c)]
        /\ nextTempId' = nextTempId /\ chan' = chan /\ snap' = snap
    BY <1>4 DEF LocalPlace
  <2>2. RegsOK' /\ HandedOut' = HandedOut
    BY <2>1, InvFacts, RefreshedOK, RegsStep
  <2> QED BY <1>1, <2>1, <2>2, InvFacts, SameMail, SameLocks DEF SyncInv, LocalPlace
<1> QED BY <1>3, <1>4

LEMMA GdCreateInv ==
  ASSUME SyncInv, NEW n \in Nodes, NEW o \in Heap[n], NEW c \in Contents, GdCreate(n, o, c)
  PROVE  SyncInv' /\ HandedOut \subseteq HandedOut'
<1>1. EditorsOK'
  <2>1. /\ obj' = [obj EXCEPT ![n] = With(obj[n], o, c)]
        /\ IsMap(With(obj[n], o, c), Heap[n], Contents)
        /\ sel[n] \subseteq DOMAIN With(obj[n], o, c)
    BY PlacedLevel DEF GdCreate
  <2>2. sel' = [sel EXCEPT ![n] = sel[n]] /\ base' = [base EXCEPT ![n] = base[n]]
    BY InvFacts DEF GdCreate, EditorsOK
  <2> QED BY <2>1, <2>2, InvFacts, EditorsStep
<1>2. /\ RegsOK' /\ HandedOut' = HandedOut /\ LocksOK'
      /\ chan' = chan /\ snap' = snap
  BY InvFacts, SameRegs, SameLocks DEF GdCreate
<1> QED BY <1>1, <1>2, InvFacts, SameMail DEF SyncInv

-----------------------------------------------------------------------------
(***************************************************************************)
(* Giving an id to every object of a set.                                  *)
(***************************************************************************)

LEMMA NumberingOK ==
  ASSUME NEW S, IsFiniteSet(S), NEW first \in Int, NEW f \in Numberings(S, first)
  PROVE  /\ f \in [S -> first..(first + Cardinality(S) - 1)]
         /\ \A o, p \in S : f[o] = f[p] => o = p
         /\ \A i \in first..(first + Cardinality(S) - 1) : \E o \in S : f[o] = i
<1> DEFINE numbers == first..(first + Cardinality(S) - 1)
<1>1. f \in [S -> numbers] /\ \A o, p \in S : f[o] = f[p] => o = p
  BY DEF Numberings
<1>2. Cardinality(S) \in Nat
  BY FS_CardinalityType
<1>3. IsFiniteSet(numbers) /\ Cardinality(numbers) = Cardinality(S)
  <2> DEFINE k == Cardinality(S)
  <2>1. k \in Nat /\ first + k - 1 \in Int /\ numbers = first..(first + k - 1)
    BY <1>2
  <2> HIDE DEF k, numbers
  <2>2. /\ IsFiniteSet(numbers)
        /\ Cardinality(numbers) = IF first > first + k - 1 THEN 0 ELSE (first + k - 1) - first + 1
    BY <2>1, FS_Interval
  <2>3. Cardinality(numbers) = k
    BY <2>1, <2>2
  <2> QED BY <2>2, <2>3 DEF k
<1> HIDE DEF numbers
<1>4. f \in Injection(S, numbers)
  BY <1>1 DEF Injection, IsInjective
<1>5. f \in Surjection(S, numbers)
  BY <1>3, <1>4, FS_Injection
<1>6. \A i \in numbers : \E o \in S : f[o] = i
  BY <1>5 DEF Surjection
<1> QED BY <1>1, <1>6 DEF numbers

LEMMA CountedOK ==
  ASSUME NEW r, RegistryOK(r), NEW k \in Nat
  PROVE  /\ RegistryOK([r EXCEPT !.nextId = @ + k])
         /\ [r EXCEPT !.nextId = @ + k].byId = r.byId
         /\ [r EXCEPT !.nextId = @ + k].byPtr = r.byPtr
         /\ [r EXCEPT !.nextId = @ + k].nextId = r.nextId + k
<1> DEFINE q == [r EXCEPT !.nextId = @ + k]
<1>1. /\ r = [byId |-> r.byId, byPtr |-> r.byPtr, fps |-> r.fps, nextId |-> r.nextId]
      /\ r.nextId \in NetIds
  BY DEF RegistryOK, IsRegistry
<1>2. /\ q.byId = r.byId /\ q.byPtr = r.byPtr /\ q.fps = r.fps /\ q.nextId = r.nextId + k
      /\ q = [byId |-> q.byId, byPtr |-> q.byPtr, fps |-> q.fps, nextId |-> q.nextId]
  BY <1>1
<1> HIDE DEF q
<1>3. q.nextId \in NetIds
  BY <1>1, <1>2 DEF NetIds, INVALID_OBJECT_ID
<1>4. RegistryOK(q)
  BY <1>2, <1>3 DEF RegistryOK, IsRegistry, IsInverse, hasObject, hasNetworkId
<1> QED BY <1>2, <1>4 DEF q

LEMMA HandOutOK ==
  ASSUME SyncInv, NEW n \in Nodes, NEW S \in SUBSET Unsynced(n), NEW first \in Int,
         NEW f \in Numberings(S, first), \A o \in S : f[o] \in NetIds
  PROVE  /\ RegistryOK(bindAll(reg[n], f))
         /\ \A i \in DOMAIN bindAll(reg[n], f).byId :
              i \in DOMAIN reg[n].byId \/ \E o \in S : f[o] = i
         /\ bindAll(reg[n], f).nextId = reg[n].nextId
<1>1. /\ f \in [S -> first..(first + Cardinality(S) - 1)]
      /\ \A o, p \in S : f[o] = f[p] => o = p
  BY UnsyncedFinite, NumberingOK
<1>2. f \in [S -> NetIds]
  BY <1>1
<1>3. S \in SUBSET Ptrs /\ S \cap DOMAIN reg[n].byPtr = {}
  BY InvFacts DEF Unsynced, hasObject
<1> QED BY <1>1, <1>2, <1>3, InvFacts, BindAllOK

\* A sequence of messages, one for every number up to k.
LEMMA Messages1ToK ==
  ASSUME NEW box, NEW k \in Nat, NEW msgs, msgs = [i \in 1..k |-> msgs[i]],
         \A i \in 1..k : msgs[i] \in box
  PROVE  msgs \in Seq(box)
  OBVIOUS

\* The ids a scan gives to count objects.
firstFree(n) == IF n = Host THEN reg[Host].nextId ELSE canonicalPeerObjectId(Peer, nextTempId)

LEMMA ScanNumbers ==
  ASSUME SyncInv, NEW n \in Nodes, NEW count \in Nat, IdsLeft(n) >= count
  PROVE  /\ firstFree(n) \in Int
         /\ n = Host => firstFree(n) = reg[n].nextId
         /\ n = Peer /\ count # 0 => firstFree(n) = IdBase + nextTempId
         /\ \A i \in firstFree(n)..(firstFree(n) + count - 1) : i \in NetIds
<1>1. CASE n = Host
  BY <1>1, CountersBounded, NodesFacts DEF firstFree, NetIds, INVALID_OBJECT_ID
<1>2. CASE n = Peer
  <2>1. nextTempId + count <= MaxTempId + 1
    BY <1>2, CountersBounded, NodesFacts DEF IdsLeft
  <2>2. firstFree(n) \in Int
    BY <1>2, CountersBounded, NodesFacts DEF firstFree, canonicalPeerObjectId, Peer
  <2>3. CASE count # 0
    <3>1. nextTempId <= MaxTempId
      BY <2>1, <2>3, CountersBounded
    <3>2. firstFree(n) = IdBase + nextTempId
      BY <1>2, <3>1, TempIds, NodesFacts DEF firstFree
    <3> QED BY <1>2, <3>2, CountersBounded, NodesFacts DEF NetIds, INVALID_OBJECT_ID
  <2>4. CASE count = 0
    BY <1>2, <2>2, <2>4, NodesFacts
  <2> QED BY <2>3, <2>4
<1> QED BY <1>1, <1>2, NodesFacts

\* They are handed out once the counters have moved.
LEMMA ScannedIds ==
  ASSUME SyncInv, NEW n \in Nodes, NEW count \in Nat, IdsLeft(n) >= count,
         reg'[Host].nextId = IF n = Host THEN reg[Host].nextId + count ELSE reg[Host].nextId,
         nextTempId' = IF n = Peer THEN nextTempId + count ELSE nextTempId
  PROVE  /\ reg'[Host].nextId \in 1..(MaxId + 1) /\ nextTempId' \in 1..(MaxTempId + 1)
         /\ HandedOut \subseteq HandedOut'
         /\ \A i \in firstFree(n)..(firstFree(n) + count - 1) :
              i \in HandedOut' /\ (n = Peer => i > IdBase)
<1>1. /\ reg'[Host].nextId \in 1..(MaxId + 1) /\ nextTempId' \in 1..(MaxTempId + 1)
      /\ reg'[Host].nextId >= reg[Host].nextId /\ nextTempId' >= nextTempId
  BY CountersBounded, NodesFacts DEF IdsLeft
<1>2. HandedOut \subseteq HandedOut'
  BY <1>1, CountersBounded, InvFacts, HandedOutGrows
<1>3. ASSUME NEW i \in firstFree(n)..(firstFree(n) + count - 1)
      PROVE  i \in HandedOut' /\ (n = Peer => i > IdBase)
  <2>1. firstFree(n) \in Int /\ count # 0 /\ i \in Int
        /\ i >= firstFree(n) /\ i <= firstFree(n) + count - 1
    BY ScanNumbers
  <2>2. CASE n = Host
    <3>1. i \in 1..(reg'[Host].nextId - 1)
      BY <1>1, <2>1, <2>2, ScanNumbers, CountersBounded
    <3> QED BY <2>2, <3>1, NodesFacts DEF HandedOut
  <2>3. CASE n = Peer
    <3>1. firstFree(n) = IdBase + nextTempId /\ nextTempId' = nextTempId + count
      BY <2>1, <2>3, ScanNumbers
    <3>2. i - IdBase \in 1..(nextTempId' - 1) /\ i = IdBase + (i - IdBase)
      BY <1>1, <2>1, <3>1, CountersBounded
    <3>3. i \in HandedOut'
      BY <3>2 DEF HandedOut
    <3> QED BY <2>1, <3>1, <3>3, CountersBounded
  <2> QED BY <2>2, <2>3, NodesFacts
<1> QED BY <1>1, <1>2, <1>3

LEMMA DiscoverInv ==
  ASSUME SyncInv, NEW n \in Nodes, Discover(n)
  PROVE  SyncInv' /\ HandedOut \subseteq HandedOut'
<1> DEFINE S == toDiscover(n)
           count == Cardinality(S)
           first == firstFree(n)
<1>1. EditorsOK'
  <2> DEFINE X == S \cup {o \in Live(n) : hasObject(reg[n], o)}
  <2>1. base' = [base EXCEPT ![n] = Without(base[n], X)]
    BY DEF Discover
  <2> HIDE DEF X
  <2>2. IsMap(Without(base[n], X), Heap[n], Contents)
    BY InvFacts, WithoutMap
  <2>3. obj' = [obj EXCEPT ![n] = obj[n]] /\ sel' = [sel EXCEPT ![n] = sel[n]]
    BY InvFacts DEF Discover, EditorsOK
  <2> QED BY <2>1, <2>2, <2>3, InvFacts, EditorsStep DEF Live
<1>2. LocksOK' /\ snap' = snap
  BY InvFacts, SameLocks DEF Discover
<1>3. CASE hasPermission(n, "canEdit")
  <2>1. S \in SUBSET Unsynced(n) /\ IsFiniteSet(S) /\ count \in Nat
    BY UnsyncedFinite DEF toDiscover
  <2>2. PICK f \in Numberings(S, first) :
          LET objectOf(i) == CHOOSE o \in S : f[o] = i
              r == IF link[n] THEN bindAll(reg[n], f) ELSE reg[n]
          IN /\ reg' = [reg EXCEPT ![n] = IF n = Host THEN [r EXCEPT !.nextId = @ + count] ELSE r]
             /\ Post(n, [k \in 1..count |->
                          [type |-> "place", id |-> first + k - 1,
                           c |-> obj[n][objectOf(first + k - 1)]]])
    BY <1>3 DEF Discover, firstFree
  <2> DEFINE objectOf(i) == CHOOSE o \in S : f[o] = i
             r == IF link[n] THEN bindAll(reg[n], f) ELSE reg[n]
             q == IF n = Host THEN [r EXCEPT !.nextId = @ + count] ELSE r
             msgs == [k \in 1..count |-> [type |-> "place", id |-> first + k - 1,
                                          c |-> obj[n][objectOf(first + k - 1)]]]
  <2>3. reg' = [reg EXCEPT ![n] = q] /\ Post(n, msgs)
    BY <2>2
  <2>4. /\ IdsLeft(n) >= count
        /\ nextTempId' = IF n = Peer THEN nextTempId + count ELSE nextTempId
    BY <1>3 DEF Discover
  <2> HIDE DEF S, count
  <2>5. /\ f \in [S -> first..(first + count - 1)]
        /\ \A i \in first..(first + count - 1) : \E o \in S : f[o] = i
        /\ first \in Int /\ \A o \in S : f[o] \in NetIds
    <3>1. first \in Int /\ \A i \in first..(first + count - 1) : i \in NetIds
      BY <2>1, <2>4, ScanNumbers
    <3>2. /\ f \in [S -> first..(first + count - 1)]
          /\ \A i \in first..(first + count - 1) : \E o \in S : f[o] = i
      BY <2>1, <3>1, NumberingOK DEF count
    <3> QED BY <3>1, <3>2
  <2> HIDE DEF first
  <2>6. /\ RegistryOK(r) /\ r.nextId = reg[n].nextId
        /\ \A i \in DOMAIN r.byId : i \in HandedOut \/ i \in first..(first + count - 1)
    <3>1. CASE link[n]
      <4>1. /\ RegistryOK(bindAll(reg[n], f)) /\ bindAll(reg[n], f).nextId = reg[n].nextId
            /\ \A i \in DOMAIN bindAll(reg[n], f).byId :
                 i \in DOMAIN reg[n].byId \/ \E o \in S : f[o] = i
        <5> HIDE DEF objectOf, r, q, msgs
        <5>1. /\ f \in Numberings(S, first) /\ first \in Int /\ S \in SUBSET Unsynced(n)
              /\ \A o \in S : f[o] \in NetIds
          BY <2>1, <2>2, <2>5
        <5> QED BY ONLY <5>1, SyncInv, n \in Nodes, HandOutOK, Zenon
      <4> QED BY <2>5, <3>1, <4>1, InvFacts
    <3>2. CASE ~link[n]
      BY <3>2, InvFacts
    <3> QED BY <3>1, <3>2
  <2> HIDE DEF r
  <2>7. /\ RegistryOK(q) /\ DOMAIN q.byId = DOMAIN r.byId
        /\ q.nextId = IF n = Host THEN reg[n].nextId + count ELSE reg[n].nextId
    BY <2>1, <2>6, CountedOK
  <2> HIDE DEF q
  <2>8. /\ reg' = [m \in Nodes |-> reg'[m]] /\ reg'[n] = q
        /\ \A m \in Nodes : m # n => reg'[m] = reg[m]
    <3> HIDE DEF msgs
    <3> QED BY <2>3, InvFacts DEF RegsOK
  <2>9. /\ reg'[Host].nextId \in 1..(MaxId + 1) /\ nextTempId' \in 1..(MaxTempId + 1)
        /\ HandedOut \subseteq HandedOut'
        /\ \A i \in first..(first + count - 1) : i \in HandedOut' /\ (n = Peer => i > IdBase)
    <3>1. reg'[Host].nextId = IF n = Host THEN reg[Host].nextId + count ELSE reg[Host].nextId
      BY <2>7, <2>8, NodesFacts
    <3> QED BY <2>1, <2>4, <3>1, ScannedIds DEF first
  <2>10. RegsOK'
    <3>1. \A m \in Nodes : RegistryOK(reg'[m]) /\ DOMAIN reg'[m].byId \subseteq HandedOut'
      BY <2>6, <2>7, <2>8, <2>9, InvFacts
    <3> QED BY <2>8, <2>9, <3>1 DEF RegsOK
  <2>11. MailOK'
    <3>1. HandedOut' \subseteq ProperIds
      BY <2>10, SyncAssumption DEF RegsOK, HandedOut, ProperIds
    <3>2. ASSUME NEW k \in 1..count
          PROVE  msgs[k] \in Inboxes'[Other(n)]
      <4> DEFINE id == first + k - 1
                 c == obj[n][objectOf(id)]
      <4>1. id \in first..(first + count - 1)
        BY <2>1, <2>5
      <4>2. id \in HandedOut' /\ (n = Peer => id > IdBase)
        BY <2>9, <4>1
      <4>3. objectOf(id) \in S
        BY <2>5, <4>1
      <4>4. c \in Contents
        BY <2>1, <4>3, InvFacts DEF Unsynced
      <4>5. msgs[k] = [type |-> "place", id |-> id, c |-> c]
        OBVIOUS
      <4> HIDE DEF id, c, msgs
      <4> QED BY <3>1, <4>2, <4>4, <4>5, NewPlacement
    <3>3. msgs = [k \in 1..count |-> msgs[k]]
      OBVIOUS
    <3> HIDE DEF msgs
    <3>4. msgs \in Seq(Inboxes'[Other(n)])
      BY <2>1, <3>2, <3>3, Messages1ToK
    <3> QED BY <1>2, <2>3, <2>9, <3>4, InvFacts, PostMail
  <2> QED BY <1>1, <1>2, <2>9, <2>10, <2>11 DEF SyncInv
<1>4. CASE ~hasPermission(n, "canEdit")
  <2>1. RegsOK' /\ HandedOut' = HandedOut /\ chan' = chan
    BY <1>4, InvFacts, SameRegs DEF Discover
  <2> QED BY <1>1, <1>2, <2>1, InvFacts, SameMail DEF SyncInv
<1> QED BY <1>3, <1>4

-----------------------------------------------------------------------------
(***************************************************************************)
(* Editing, deleting and selecting objects.                                *)
(***************************************************************************)

LEMMA RepairedOK ==
  ASSUME NEW r, RegistryOK(r), NEW o \in Ptrs, NEW o2 \in Ptrs, NEW c \in Contents
  PROVE  /\ RegistryOK(repaired(r, o, o2, c))
         /\ DOMAIN repaired(r, o, o2, c).byId \subseteq DOMAIN r.byId
         /\ repaired(r, o, o2, c).nextId = r.nextId
<1>1. CASE hasObject(r, o2)
  BY <1>1, RefreshedOK DEF repaired
<1>2. CASE ~hasObject(r, o2) /\ hasObject(r, o)
  <2> DEFINE b == bindObject(r, r.byPtr[o], o2)
  <2>1. r.byPtr[o] \in DOMAIN r.byId /\ r.byPtr[o] \in NetIds
    BY <1>2 DEF RegistryOK, IsRegistry, IsInverse, IsMap, hasObject, hasNetworkId
  <2>2. RegistryOK(b) /\ DOMAIN b.byId \subseteq DOMAIN r.byId /\ b.nextId = r.nextId
    BY <2>1, BindOK
  <2>3. repaired(r, o, o2, c) = refreshed(b, o2, c)
    BY <1>2 DEF repaired
  <2> HIDE DEF b
  <2> QED BY <2>2, <2>3, RefreshedOK
<1>3. CASE ~hasObject(r, o2) /\ ~hasObject(r, o)
  BY <1>3 DEF repaired
<1> QED BY <1>1, <1>2, <1>3

LEMMA LocalTransformInv ==
  ASSUME SyncInv, NEW n \in Nodes, NEW o \in Heap[n], NEW o2 \in Heap[n], NEW c \in Contents,
         LocalTransform(n, o, o2, c)
  PROVE  SyncInv' /\ HandedOut \subseteq HandedOut'
<1> DEFINE level == With(Without(obj[n], {o}), o2, c)
           chosen == IF o \in sel[n] THEN (sel[n] \ {o}) \cup {o2} ELSE sel[n]
           r == repaired(reg[n], o, o2, c)
           q == recovered(r, o2, Fp(c))
<1>1. /\ obj' = [obj EXCEPT ![n] = level] /\ sel' = [sel EXCEPT ![n] = chosen]
      /\ base' = [base EXCEPT ![n] = base[n]]
      /\ reg' = [reg EXCEPT ![n] = q] /\ nextTempId' = nextTempId
      /\ snap' = snap /\ held' = held /\ locks' = locks /\ UNCHANGED session
      /\ o2 = o \/ o2 \notin DOMAIN obj[n]
  BY InvFacts DEF LocalTransform, EditorsOK, Live
<1>2. IsMap(level, Heap[n], Contents) /\ chosen \subseteq DOMAIN level /\ AtMostOne(chosen)
  <2>1. IsMap(obj[n], Heap[n], Contents) /\ sel[n] \subseteq DOMAIN obj[n] /\ AtMostOne(sel[n])
    BY InvFacts DEF Live
  <2>2. IsMap(level, Heap[n], Contents) /\ DOMAIN level = (DOMAIN obj[n] \ {o}) \cup {o2}
    BY <2>1 DEF IsMap, With, Without
  <2> HIDE DEF level
  <2> QED BY <2>1, <2>2 DEF AtMostOne
<1>3. EditorsOK'
  <2> HIDE DEF level, chosen
  <2> QED BY <1>1, <1>2, InvFacts, EditorsStep
<1>4. /\ RegistryOK(q) /\ DOMAIN q.byId \subseteq HandedOut /\ q.nextId = reg[n].nextId
  <2>1. o \in Ptrs /\ o2 \in Ptrs /\ Fp(c) \in Prints
    BY InvFacts
  <2>2. RegistryOK(r) /\ DOMAIN r.byId \subseteq DOMAIN reg[n].byId /\ r.nextId = reg[n].nextId
    BY <2>1, InvFacts, RepairedOK
  <2> HIDE DEF r
  <2> QED BY <2>1, <2>2, InvFacts, RecoveredOK
<1> DEFINE id == recoveredId(r, o2, Fp(c))
<1>5. IF conn[n] /\ hasPermission(n, "canEdit")
      THEN Post(n, commitOf(reg'[n], id, obj'[n]))
      ELSE UNCHANGED chan
  BY DEF LocalTransform
<1> HIDE DEF level, chosen, r, q, id
<1>6. RegsOK' /\ HandedOut' = HandedOut /\ LocksOK'
  BY <1>1, <1>4, InvFacts, RegsStep, SameLocks
<1>7. MailOK'
  <2>1. reg'[n] = q /\ obj'[n] = level
    BY <1>1, InvFacts DEF RegsOK, EditorsOK
  <2>2. commitOf(reg'[n], id, obj'[n]) \in Seq(Inboxes[Other(n)])
    BY <1>2, <1>4, <2>1, CommitOfOK, InvFacts, NodesFacts
  <2> QED BY <1>1, <1>5, <1>6, <2>2, InvFacts, PostOldIds, SameMail
<1> QED BY <1>3, <1>6, <1>7 DEF SyncInv

LEMMA LocalMoveInv ==
  ASSUME SyncInv, NEW n \in Nodes, NEW o \in Heap[n], NEW c \in Contents, LocalMove(n, o, c)
  PROVE  SyncInv' /\ HandedOut \subseteq HandedOut'
<1> DEFINE level == [obj[n] EXCEPT ![o] = c]
<1>1. /\ obj' = [obj EXCEPT ![n] = level] /\ sel' = [sel EXCEPT ![n] = sel[n]]
      /\ base' = [base EXCEPT ![n] = base[n]]
  BY InvFacts DEF LocalMove, EditorsOK
<1>2. IsMap(level, Heap[n], Contents) /\ sel[n] \subseteq DOMAIN level
  <2>1. IsMap(obj[n], Heap[n], Contents) /\ sel[n] \subseteq DOMAIN obj[n]
    BY InvFacts DEF Live
  <2> QED BY <2>1 DEF IsMap
<1> HIDE DEF level
<1>3. EditorsOK'
  BY <1>1, <1>2, InvFacts, EditorsStep
<1>4. RegsOK' /\ HandedOut' = HandedOut /\ LocksOK'
  BY InvFacts, SameRegs, SameLocks DEF LocalMove
<1> QED BY <1>3, <1>4, InvFacts, SameMail DEF SyncInv, LocalMove

LEMMA LocalDeleteInv ==
  ASSUME SyncInv, NEW n \in Nodes, NEW o \in Heap[n], LocalDelete(n, o)
  PROVE  SyncInv' /\ HandedOut \subseteq HandedOut'
<1> DEFINE fp == Fp(obj[n][o])
           id == recoveredId(reg[n], o, fp)
           r == recovered(reg[n], o, fp)
<1>1. o \in Ptrs /\ fp \in Prints
  BY InvFacts DEF LocalDelete
<1>2. /\ obj' = [obj EXCEPT ![n] = Without(obj[n], {o})] /\ sel' = [sel EXCEPT ![n] = sel[n] \ {o}]
      /\ snap' = snap /\ nextTempId' = nextTempId /\ held' = held /\ locks' = locks
      /\ UNCHANGED session
  BY DEF LocalDelete
<1>3. \/ /\ id # INVALID_OBJECT_ID
         /\ reg' = [reg EXCEPT ![n] = removeByNetworkId(r, id)]
         /\ base' = [base EXCEPT ![n] = Without(base[n], {o})]
         /\ Post(n, <<[type |-> "delete", id |-> id]>>)
      \/ /\ reg' = [reg EXCEPT ![n] = r]
         /\ base' = base /\ chan' = chan
  BY DEF LocalDelete
<1> HIDE DEF fp
<1>4. RegistryOK(r) /\ DOMAIN r.byId \subseteq HandedOut /\ r.nextId = reg[n].nextId
  BY <1>1, InvFacts, RecoveredOK
<1>5. id # INVALID_OBJECT_ID => id \in HandedOut
  BY InvFacts, RecoveredIdOK
<1> HIDE DEF r, id
<1>6. EditorsOK'
  <2>1. /\ IsMap(Without(obj[n], {o}), Heap[n], Contents)
        /\ sel[n] \ {o} \subseteq DOMAIN Without(obj[n], {o})
        /\ IsMap(Without(base[n], {o}), Heap[n], Contents) /\ AtMostOne(sel[n] \ {o})
    <3>1. /\ IsMap(obj[n], Heap[n], Contents) /\ sel[n] \subseteq DOMAIN obj[n]
          /\ IsMap(base[n], Heap[n], Contents) /\ AtMostOne(sel[n])
      BY InvFacts DEF Live
    <3> QED BY <3>1 DEF IsMap, Without, AtMostOne
  <2>2. \/ base' = [base EXCEPT ![n] = Without(base[n], {o})]
        \/ base' = [base EXCEPT ![n] = base[n]]
    BY <1>3, InvFacts DEF EditorsOK
  <2> QED BY <1>2, <2>1, <2>2, InvFacts, EditorsStep
<1>7. /\ RegistryOK(removeByNetworkId(r, id)) /\ removeByNetworkId(r, id).nextId = reg[n].nextId
      /\ DOMAIN removeByNetworkId(r, id).byId \subseteq HandedOut
  BY <1>4, RemoveByIdOK
<1>8. RegsOK' /\ HandedOut' = HandedOut /\ LocksOK'
  BY <1>2, <1>3, <1>4, <1>7, InvFacts, RegsStep, SameLocks
<1>9. MailOK'
  <2>1. id # INVALID_OBJECT_ID =>
          <<[type |-> "delete", id |-> id]>> \in Seq(Inboxes[Other(n)])
    BY <1>5, MaySend, InvFacts, NodesFacts, OneMessage
  <2> QED BY <1>2, <1>3, <1>8, <2>1, InvFacts, PostOldIds, SameMail
<1> QED BY <1>6, <1>8, <1>9 DEF SyncInv

LEMMA SelectObjectInv ==
  ASSUME SyncInv, NEW n \in Nodes, NEW o \in Heap[n], NEW dropped \in SUBSET sel[n],
         SelectObject(n, o, dropped)
  PROVE  SyncInv' /\ HandedOut \subseteq HandedOut'
<1> DEFINE before == lookedUp(n, reg[n], dropped)
           old == idsOf(n, reg[n], dropped)
           new == idsOf(n, before, {o})
           lock == IF hasPermission(n, "canLock") THEN new ELSE {}
           after == lookedUp(n, before, {o})
           request == IF n = Peer /\ lock # {}
                      THEN <<[type |-> "lock_request", id |-> The(lock)]>> ELSE <<>>
<1>1. /\ o \in Live(n) /\ sel' = [sel EXCEPT ![n] = {o}] /\ reg' = [reg EXCEPT ![n] = after]
      /\ obj' = obj /\ base' = base /\ nextTempId' = nextTempId /\ snap' = snap
      /\ UNCHANGED session
  BY DEF SelectObject
<1>2. \/ /\ held' = [held EXCEPT ![n] = (@ \ old) \cup IF n = Host THEN lock ELSE {}]
         /\ locks' = IF n = Host
                     THEN [i \in (DOMAIN locks \ old) \cup lock |-> IF i \in lock THEN Host ELSE locks[i]]
                     ELSE locks
         /\ Post(n, release(n, before, old) \o request)
      \/ held' = held /\ locks' = locks /\ chan' = chan
  BY DEF SelectObject
<1>3. dropped \in SUBSET Live(n) /\ {o} \in SUBSET Live(n)
  BY <1>1, InvFacts
<1>4. /\ RegistryOK(before) /\ DOMAIN before.byId \subseteq HandedOut
      /\ before.nextId = reg[n].nextId /\ old \subseteq HandedOut
  BY <1>3, InvFacts, LookedUpOK
<1> HIDE DEF before, old
<1>5. /\ RegistryOK(after) /\ DOMAIN after.byId \subseteq HandedOut
      /\ after.nextId = reg[n].nextId /\ new \subseteq HandedOut
  BY <1>3, <1>4, LookedUpOK
<1> HIDE DEF after, new
<1>6. lock \subseteq HandedOut /\ lock \subseteq NetIds
  BY <1>5, InvFacts, ProperAreNetIds
<1>7. request \in Seq(Inboxes[Other(n)])
  <2>1. CASE n = Peer /\ lock # {}
    <3>1. The(lock) \in HandedOut
      BY <1>6, <2>1, TheElement
    <3>2. [type |-> "lock_request", id |-> The(lock)] \in Inboxes[Other(n)]
      BY <3>1, MaySend, InvFacts, NodesFacts
    <3>3. request = <<[type |-> "lock_request", id |-> The(lock)]>>
      BY <2>1
    <3> QED BY <3>2, <3>3, OneMessage
  <2>2. CASE ~(n = Peer /\ lock # {})
    BY <2>2, EmptySeq
  <2> QED BY <2>1, <2>2
<1> HIDE DEF lock, request
<1>8. EditorsOK'
  BY <1>1, InvFacts DEF EditorsOK, AtMostOne, Live
<1>9. RegsOK' /\ HandedOut' = HandedOut
  BY <1>1, <1>5, InvFacts, RegsStep
<1>10. LocksOK'
  <2>1. LocksOK /\ n \in Nodes /\ Host \in Nodes
    BY InvFacts, NodesFacts
  <2>2. held' \in [Nodes -> SUBSET NetIds]
    BY <1>2, <1>6, <2>1 DEF LocksOK
  <2>3. IsMap(locks', NetIds, Nodes)
    BY <1>2, <1>6, <2>1 DEF LocksOK, IsMap
  <2> QED BY <1>1, <2>1, <2>2, <2>3 DEF LocksOK, session
<1>11. MailOK'
  <2>1. release(n, before, old) \in Seq(Inboxes[Other(n)])
    BY <1>4, ReleaseOK, NodesFacts
  <2>2. release(n, before, old) \o request \in Seq(Inboxes[Other(n)])
    BY <1>7, <2>1, ConcatProperties
  <2> QED BY <1>1, <1>2, <1>9, <2>2, InvFacts, PostOldIds, SameMail
<1> QED BY <1>8, <1>9, <1>10, <1>11 DEF SyncInv

LEMMA DeselectAllInv ==
  ASSUME SyncInv, NEW n \in Nodes, DeselectAll(n)
  PROVE  SyncInv' /\ HandedOut \subseteq HandedOut'
<1> DEFINE old == idsOf(n, reg[n], sel[n])
           r == lookedUp(n, reg[n], sel[n])
<1>1. /\ sel' = [sel EXCEPT ![n] = {}] /\ reg' = [reg EXCEPT ![n] = r]
      /\ obj' = obj /\ base' = base /\ nextTempId' = nextTempId /\ snap' = snap
      /\ UNCHANGED session
      /\ \/ /\ held' = [held EXCEPT ![n] = @ \ old]
            /\ locks' = IF n = Host THEN Without(locks, old) ELSE locks
            /\ Post(n, release(n, r, old))
         \/ held' = held /\ locks' = locks /\ chan' = chan
  BY DEF DeselectAll
<1>2. /\ RegistryOK(r) /\ DOMAIN r.byId \subseteq HandedOut
      /\ r.nextId = reg[n].nextId /\ old \subseteq HandedOut
  BY InvFacts, LookedUpOK
<1> HIDE DEF r, old
<1>3. EditorsOK'
  BY <1>1, InvFacts DEF EditorsOK, AtMostOne, Live
<1>4. RegsOK' /\ HandedOut' = HandedOut
  BY <1>1, <1>2, InvFacts, RegsStep
<1>5. LocksOK'
  <2>1. LocksOK
    BY InvFacts
  <2>2. IsMap(Without(locks, old), NetIds, Nodes)
    BY <2>1, WithoutMap DEF LocksOK
  <2> QED BY <1>1, <2>1, <2>2 DEF LocksOK, session
<1>6. MailOK'
  <2>1. release(n, r, old) \in Seq(Inboxes[Other(n)])
    BY <1>2, ReleaseOK, NodesFacts
  <2> QED BY <1>1, <1>4, <2>1, InvFacts, PostOldIds, SameMail
<1> QED BY <1>3, <1>4, <1>5, <1>6 DEF SyncInv

-----------------------------------------------------------------------------
(***************************************************************************)
(* The session.                                                            *)
(***************************************************************************)

LEMMA ConnectInv ==
  ASSUME SyncInv, Connect
  PROVE  SyncInv' /\ HandedOut \subseteq HandedOut'
<1>1. EditorsOK'
  BY InvFacts DEF Connect, SyncInv, EditorsOK, Live
<1>2. RegsOK' /\ HandedOut' = HandedOut
  BY SameRegs DEF Connect, SyncInv
<1>3. LocksOK'
  BY DEF Connect, SyncInv, LocksOK, Roles
<1> QED BY <1>1, <1>2, <1>3, SameMail DEF Connect, SyncInv

LEMMA DisconnectInv ==
  ASSUME SyncInv, NEW n \in Nodes, disconnect(n)
  PROVE  SyncInv' /\ HandedOut \subseteq HandedOut'
<1>1. EditorsOK'
  <2>1. obj' = [obj EXCEPT ![n] = obj[n]] /\ sel' = [sel EXCEPT ![n] = sel[n]]
    BY InvFacts DEF disconnect, EditorsOK
  <2>2. base' = [base EXCEPT ![n] = Empty] /\ IsMap(Empty, Heap[n], Contents)
    BY EmptyMap DEF disconnect
  <2> QED BY <2>1, <2>2, InvFacts, EditorsStep DEF Live
<1>2. RegsOK' /\ HandedOut' = HandedOut
  <2>1. reg' = [reg EXCEPT ![n] = clear(reg[n])] /\ nextTempId' = nextTempId
    BY DEF disconnect
  <2>2. /\ RegistryOK(clear(reg[n])) /\ clear(reg[n]).nextId = reg[n].nextId
        /\ DOMAIN clear(reg[n]).byId \subseteq HandedOut
    BY InvFacts, ClearOK
  <2> QED BY <2>1, <2>2, InvFacts, RegsStep
<1>3. LocksOK'
  <2>1. IsMap(Empty, NetIds, Nodes)
    BY EmptyMap
  <2> QED BY <2>1 DEF disconnect, SyncInv, LocksOK, Roles
<1>4. MailOK'
  <2> DEFINE ch == [chan EXCEPT ![n] = <<>>]
             msgs == <<[type |-> "eof"]>>
  <2>1. IsMail(ch, Inboxes)
    BY EmptySeq DEF SyncInv, MailOK, IsMail
  <2>2. msgs \in Seq(Inboxes[Other(n)])
    BY MaySend, InvFacts, NodesFacts, OneMessage
  <2>3. chan' = Sent(ch, n, msgs) /\ snap' = snap
    BY DEF disconnect
  <2> HIDE DEF ch, msgs
  <2>4. IsMail(chan', Inboxes)
    BY <2>1, <2>2, <2>3, SentMail
  <2>5. Inboxes' = Inboxes
    BY <1>2, InboxesSame
  <2> QED BY <1>2, <2>3, <2>4, <2>5 DEF SyncInv, MailOK
<1> QED BY <1>1, <1>2, <1>3, <1>4 DEF SyncInv

LEMMA CutMail ==
  ASSUME NEW S, NEW q \in Seq(S), NEW k \in Nat, k <= Len(q), NEW m \in S
  PROVE  Append(SubSeq(q, 1, k), m) \in Seq(S)
<1>1. \A i \in 1..k : q[i] \in S
  BY ElementOfSeq, LenProperties
<1>2. SubSeq(q, 1, k) \in Seq(S)
  BY <1>1, SubSeqProperties
<1> QED BY <1>2, AppendProperties

\* A cut in the connection keeps a prefix of each queue.
LEMMA LinkDownInv ==
  ASSUME SyncInv, LinkDown
  PROVE  SyncInv' /\ HandedOut \subseteq HandedOut'
<1>1. EditorsOK' /\ RegsOK' /\ HandedOut' = HandedOut /\ snap' = snap
  BY SameEditors, SameRegs DEF LinkDown, SyncInv
<1>2. LocksOK'
  BY DEF LinkDown, SyncInv, LocksOK
<1>3. MailOK'
  <2>1. PICK kept \in [Nodes -> 0..(Len(chan[Host]) + Len(chan[Peer]))] :
          /\ \A n \in Nodes : kept[n] <= Len(chan[n])
          /\ chan' = [n \in Nodes |-> Append(SubSeq(chan[n], 1, kept[n]), [type |-> "eof"])]
    BY DEF LinkDown
  <2>2. ASSUME NEW n \in Nodes
        PROVE  chan'[n] \in Seq(Inboxes[n])
    <3>1. chan[n] \in Seq(Inboxes[n]) /\ Len(chan[n]) \in Nat
      BY LenProperties DEF SyncInv, MailOK, IsMail
    <3>2. kept[n] \in Nat /\ kept[n] <= Len(chan[n])
      <4> DEFINE atHost == Len(chan[Host])
                 atPeer == Len(chan[Peer])
                 longest == atHost + atPeer
      <4>1. atHost \in Nat /\ atPeer \in Nat
        BY NodesFacts, LenProperties DEF SyncInv, MailOK, IsMail
      <4>2. kept \in [Nodes -> 0..longest] /\ kept[n] <= Len(chan[n])
        BY <2>1
      <4> HIDE DEF atHost, atPeer
      <4> QED BY <4>1, <4>2
    <3>3. [type |-> "eof"] \in Inboxes[n]
      BY MaySend, InvFacts
    <3>4. chan'[n] = Append(SubSeq(chan[n], 1, kept[n]), [type |-> "eof"])
      BY <2>1
    <3> QED BY <3>1, <3>2, <3>3, <3>4, CutMail
  <2>3. Inboxes' = Inboxes
    BY <1>1, InboxesSame
  <2> QED BY <1>1, <2>1, <2>2, <2>3 DEF SyncInv, MailOK, IsMail
<1> QED BY <1>1, <1>2, <1>3 DEF SyncInv

LEMMA setPeerRoleInv ==
  ASSUME SyncInv, NEW r \in GrantedRoles, setPeerRole(r)
  PROVE  SyncInv' /\ HandedOut \subseteq HandedOut'
<1>1. EditorsOK' /\ RegsOK' /\ HandedOut' = HandedOut /\ snap' = snap /\ r \in Roles
  BY SameEditors, SameRegs, SyncAssumption DEF setPeerRole, SyncInv
<1>2. LocksOK'
  BY <1>1 DEF setPeerRole, SyncInv, LocksOK
<1>3. <<[type |-> "permission_update", role |-> r]>> \in Seq(Inboxes[Other(Host)])
  BY <1>1, MaySend, InvFacts, NodesFacts, OneMessage
<1> QED BY <1>1, <1>2, <1>3, InvFacts, NodesFacts, PostOldIds DEF setPeerRole, SyncInv

-----------------------------------------------------------------------------
(***************************************************************************)
(* The handlers of the messages about objects, locks and roles.            *)
(***************************************************************************)

LEMMA NamedIdOK ==
  ASSUME NEW n \in Nodes, NEW i \in ProperIds
  PROVE  namedId(n, i) \in ProperIds /\ namedId(n, i) \in NetIds
  BY CanonicalId, ProperAreNetIds DEF namedId

LEMMA ReceivedMessage ==
  ASSUME SyncInv, NEW n \in Nodes, NEW t, Receives(n, t)
  PROVE  /\ chan[n] # <<>> /\ Msg(n) \in Inboxes[n] /\ Msg(n).type = t
         /\ <<>> \in Seq(Inboxes[Other(n)])
  BY InvFacts, Received, EmptySeq

LEMMA HandlePlaceObjectInv ==
  ASSUME SyncInv, NEW n \in Nodes, HandlePlaceObject(n)
  PROVE  SyncInv' /\ HandedOut \subseteq HandedOut'
<1> DEFINE m == Msg(n)
           id == IF n = Host THEN canonicalPeerObjectId(Peer, m.id) ELSE m.id
<1>1. /\ chan[n] # <<>> /\ m \in Inboxes[n] /\ m.type = "place" /\ <<>> \in Seq(Inboxes[Other(n)])
  BY ReceivedMessage DEF HandlePlaceObject
<1>2. m.c \in Contents /\ m.id \in HandedOut /\ m.id \in ProperIds /\ (n = Host => m.id > IdBase)
  BY <1>1, InboxMessage
<1>3. id \in HandedOut /\ id \in NetIds
  BY <1>2, CanonicalId, ProperAreNetIds
<1>4. /\ Consume(n, <<>>) /\ snap' = snap /\ LocksOK' /\ sel' = sel /\ base' = base
      /\ nextTempId' = nextTempId
  BY InvFacts, SameLocks DEF HandlePlaceObject
<1>5. CASE peerHasPermission(n, "canEdit")
  <2>1. PICK o \in Heap[n] \ Live(n) :
          /\ obj' = [obj EXCEPT ![n] = With(obj[n], o, m.c)]
          /\ reg' = [reg EXCEPT ![n] = bindObject(reg[n], id, o)]
    BY <1>5 DEF HandlePlaceObject
  <2> HIDE DEF m, id
  <2>2. EditorsOK'
    <3>1. sel' = [sel EXCEPT ![n] = sel[n]] /\ base' = [base EXCEPT ![n] = base[n]]
      BY <1>4, InvFacts DEF EditorsOK
    <3> QED BY <1>2, <2>1, <3>1, PlacedLevel, InvFacts, EditorsStep
  <2>3. RegsOK' /\ HandedOut' = HandedOut
    <3>1. o \in Ptrs
      BY InvFacts
    <3>2. /\ RegistryOK(bindObject(reg[n], id, o)) /\ bindObject(reg[n], id, o).nextId = reg[n].nextId
          /\ DOMAIN bindObject(reg[n], id, o).byId \subseteq HandedOut
      BY <1>3, <3>1, InvFacts, BindOK
    <3> QED BY <1>4, <2>1, <3>2, InvFacts, RegsStep
  <2> QED BY <1>1, <1>4, <2>2, <2>3, InvFacts, ConsumeMail DEF SyncInv
<1>6. CASE ~peerHasPermission(n, "canEdit")
  <2>1. obj' = obj /\ reg' = reg
    BY <1>6 DEF HandlePlaceObject
  <2> HIDE DEF m, id
  <2>2. EditorsOK' /\ RegsOK' /\ HandedOut' = HandedOut
    BY <1>4, <2>1, InvFacts, SameEditors, SameRegs
  <2> QED BY <1>1, <1>4, <2>2, InvFacts, ConsumeMail DEF SyncInv
<1> QED BY <1>5, <1>6

LEMMA HandleDeleteObjectInv ==
  ASSUME SyncInv, NEW n \in Nodes, HandleDeleteObject(n)
  PROVE  SyncInv' /\ HandedOut \subseteq HandedOut'
<1> DEFINE id == namedId(n, Msg(n).id)
           gone == objectsOf(n, id)
<1>1. /\ chan[n] # <<>> /\ <<>> \in Seq(Inboxes[Other(n)])
  BY ReceivedMessage DEF HandleDeleteObject
<1>2. /\ Consume(n, <<>>) /\ snap' = snap /\ base' = base /\ nextTempId' = nextTempId
      /\ UNCHANGED session
  BY DEF HandleDeleteObject
<1>3. CASE peerHasPermission(n, "canDelete")
  <2>1. /\ obj' = [obj EXCEPT ![n] = Without(obj[n], gone)]
        /\ sel' = [sel EXCEPT ![n] = sel[n] \ gone]
        /\ reg' = [reg EXCEPT ![n] = removeByNetworkId(reg[n], id)]
        /\ held' = [held EXCEPT ![n] = held[n] \ {id}]
        /\ locks' = IF n = Host THEN Without(locks, {id}) ELSE locks
    BY <1>3 DEF HandleDeleteObject
  <2> HIDE DEF id, gone
  <2>2. EditorsOK'
    <3>1. /\ IsMap(Without(obj[n], gone), Heap[n], Contents)
          /\ sel[n] \ gone \subseteq DOMAIN Without(obj[n], gone) /\ AtMostOne(sel[n] \ gone)
      <4>1. IsMap(obj[n], Heap[n], Contents) /\ sel[n] \subseteq DOMAIN obj[n] /\ AtMostOne(sel[n])
        BY InvFacts DEF Live
      <4> QED BY <4>1 DEF IsMap, Without, AtMostOne
    <3>2. base' = [base EXCEPT ![n] = base[n]]
      BY <1>2, InvFacts DEF EditorsOK
    <3> QED BY <2>1, <3>1, <3>2, InvFacts, EditorsStep
  <2>3. RegsOK' /\ HandedOut' = HandedOut
    <3>1. /\ RegistryOK(removeByNetworkId(reg[n], id))
          /\ removeByNetworkId(reg[n], id).nextId = reg[n].nextId
          /\ DOMAIN removeByNetworkId(reg[n], id).byId \subseteq HandedOut
      BY InvFacts, RemoveByIdOK
    <3> QED BY <1>2, <2>1, <3>1, InvFacts, RegsStep
  <2>4. LocksOK'
    <3>1. LocksOK
      BY InvFacts
    <3>2. IsMap(Without(locks, {id}), NetIds, Nodes)
      BY <3>1, WithoutMap DEF LocksOK
    <3> QED BY <1>2, <2>1, <3>1, <3>2 DEF LocksOK, session
  <2> QED BY <1>1, <1>2, <2>2, <2>3, <2>4, InvFacts, ConsumeMail DEF SyncInv
<1>4. CASE ~peerHasPermission(n, "canDelete")
  <2>1. UNCHANGED <<obj, sel, reg, held, locks>>
    BY <1>4 DEF HandleDeleteObject
  <2>2. EditorsOK' /\ RegsOK' /\ HandedOut' = HandedOut /\ LocksOK'
    BY <1>2, <2>1, InvFacts, SameEditors, SameRegs, SameLocks
  <2> QED BY <1>1, <1>2, <2>2, InvFacts, ConsumeMail DEF SyncInv
<1> QED BY <1>3, <1>4

LEMMA HandleCommitEditInv ==
  ASSUME SyncInv, NEW n \in Nodes, HandleCommitEdit(n)
  PROVE  SyncInv' /\ HandedOut \subseteq HandedOut'
<1> DEFINE m == Msg(n)
           edited == objectsOf(n, editedId(n, m.id))
           level == [o \in DOMAIN obj[n] |-> IF o \in edited THEN m.c ELSE obj[n][o]]
<1>1. /\ chan[n] # <<>> /\ m \in Inboxes[n] /\ m.type = "commit" /\ <<>> \in Seq(Inboxes[Other(n)])
  BY ReceivedMessage DEF HandleCommitEdit
<1>2. m.c \in Contents
  BY <1>1, InboxMessage
<1>3. /\ Consume(n, <<>>) /\ snap' = snap
      /\ sel' = [sel EXCEPT ![n] = sel[n]] /\ base' = [base EXCEPT ![n] = base[n]]
      /\ obj' = [obj EXCEPT ![n] = level] \/ obj' = [obj EXCEPT ![n] = obj[n]]
  BY InvFacts DEF HandleCommitEdit, EditorsOK
<1>4. RegsOK' /\ HandedOut' = HandedOut /\ LocksOK'
  BY InvFacts, SameRegs, SameLocks DEF HandleCommitEdit
<1> HIDE DEF m, edited
<1>5. IsMap(level, Heap[n], Contents) /\ sel[n] \subseteq DOMAIN level
  <2>1. IsMap(obj[n], Heap[n], Contents) /\ sel[n] \subseteq DOMAIN obj[n]
    BY InvFacts DEF Live
  <2> QED BY <1>2, <2>1 DEF IsMap
<1> HIDE DEF level
<1>6. EditorsOK'
  BY <1>3, <1>5, InvFacts, EditorsStep DEF Live
<1> QED BY <1>1, <1>3, <1>4, <1>6, InvFacts, ConsumeMail DEF SyncInv

LEMMA HandleUnlockObjectInv ==
  ASSUME SyncInv, NEW n \in Nodes, HandleUnlockObject(n)
  PROVE  SyncInv' /\ HandedOut \subseteq HandedOut'
<1>1. /\ chan[n] # <<>> /\ <<>> \in Seq(Inboxes[Other(n)])
  BY ReceivedMessage DEF HandleUnlockObject
<1>2. EditorsOK' /\ RegsOK' /\ HandedOut' = HandedOut
  BY InvFacts, SameEditors, SameRegs DEF HandleUnlockObject
<1>3. LocksOK'
  <2>1. LocksOK /\ IsMap(Without(locks, {namedId(n, Msg(n).id)}), NetIds, Nodes)
    BY InvFacts, WithoutMap DEF LocksOK
  <2> QED BY <2>1 DEF HandleUnlockObject, LocksOK, session
<1> QED BY <1>1, <1>2, <1>3, InvFacts, ConsumeMail DEF HandleUnlockObject, SyncInv

LEMMA HandleLockRequestInv ==
  ASSUME SyncInv, HandleLockRequest
  PROVE  SyncInv' /\ HandedOut \subseteq HandedOut'
<1> DEFINE id == namedId(Host, Msg(Host).id)
<1>1. /\ chan[Host] # <<>> /\ Msg(Host) \in Inboxes[Host] /\ Msg(Host).type = "lock_request"
  BY ReceivedMessage, NodesFacts DEF HandleLockRequest
<1>2. id \in LockIds /\ id \in NetIds
  <2>1. Msg(Host).id \in HandedOut /\ Msg(Host).id \in ProperIds
    BY <1>1, InboxMessage, NodesFacts
  <2>2. id \in LockIds
    BY <2>1 DEF namedId, LockIds, Provisional
  <2> QED BY <2>1, <2>2, NamedIdOK, NodesFacts
<1>3. EditorsOK' /\ RegsOK' /\ HandedOut' = HandedOut /\ snap' = snap
  BY InvFacts, NodesFacts, SameEditors, SameRegs DEF HandleLockRequest
<1>4. /\ \/ Consume(Host, <<[type |-> "lock_denied", id |-> INVALID_OBJECT_ID]>>)
         \/ Consume(Host, <<[type |-> "lock_denied", id |-> id]>>)
         \/ Consume(Host, <<[type |-> "lock_granted", id |-> id]>>)
      /\ locks' = locks \/ locks' = With(locks, id, Peer)
      /\ held' = held /\ UNCHANGED session
  BY DEF HandleLockRequest
<1> HIDE DEF id
<1>5. LocksOK'
  <2>1. LocksOK /\ IsMap(With(locks, id, Peer), NetIds, Nodes)
    BY <1>2, InvFacts, NodesFacts, WithMap DEF LocksOK
  <2> QED BY <1>4, <2>1 DEF LocksOK, session
<1>6. /\ <<[type |-> "lock_denied", id |-> INVALID_OBJECT_ID]>> \in Seq(Inboxes[Other(Host)])
      /\ <<[type |-> "lock_denied", id |-> id]>> \in Seq(Inboxes[Other(Host)])
      /\ <<[type |-> "lock_granted", id |-> id]>> \in Seq(Inboxes[Other(Host)])
  BY <1>2, MaySend, InvFacts, NodesFacts, OneMessage
<1> QED BY <1>1, <1>3, <1>4, <1>5, <1>6, InvFacts, NodesFacts, ConsumeMail DEF SyncInv

LEMMA HandleLockReplyInv ==
  ASSUME SyncInv, HandleLockReply
  PROVE  SyncInv' /\ HandedOut \subseteq HandedOut'
<1> DEFINE m == Msg(Peer)
           localId == IF m.id \div IdBase = Peer /\ ~hasNetworkId(reg[Peer], m.id)
                      THEN m.id % IdBase ELSE m.id
<1>1. PICK t \in {"lock_granted", "lock_denied"} : Receives(Peer, t)
  BY DEF HandleLockReply
<1>2. /\ chan[Peer] # <<>> /\ m \in Inboxes[Peer] /\ m.type = t /\ <<>> \in Seq(Inboxes[Other(Peer)])
  BY <1>1, ReceivedMessage, NodesFacts
<1>3. m.type = "lock_granted" => localId \in NetIds
  BY <1>2, InboxMessage, CanonicalId, ProperAreNetIds, NodesFacts
<1>4. EditorsOK' /\ RegsOK' /\ HandedOut' = HandedOut /\ snap' = snap
  BY InvFacts, NodesFacts, SameEditors, SameRegs DEF HandleLockReply
<1>5. /\ held' = [held EXCEPT ![Peer] =
                   IF m.id = INVALID_OBJECT_ID THEN @
                   ELSE IF m.type = "lock_granted" THEN @ \cup {localId} ELSE @ \ {localId}]
      /\ Consume(Peer, <<>>) /\ locks' = locks /\ UNCHANGED session
  BY DEF HandleLockReply
<1> HIDE DEF m, localId
<1>6. LocksOK'
  BY <1>3, <1>5, InvFacts, NodesFacts DEF LocksOK, session
<1> QED BY <1>2, <1>4, <1>5, <1>6, InvFacts, NodesFacts, ConsumeMail DEF SyncInv

LEMMA HandlePermissionUpdateInv ==
  ASSUME SyncInv, HandlePermissionUpdate
  PROVE  SyncInv' /\ HandedOut \subseteq HandedOut'
<1>1. /\ chan[Peer] # <<>> /\ Msg(Peer) \in Inboxes[Peer] /\ Msg(Peer).type = "permission_update"
      /\ <<>> \in Seq(Inboxes[Other(Peer)])
  BY ReceivedMessage, NodesFacts DEF HandlePermissionUpdate
<1>2. Msg(Peer).role \in Roles
  BY <1>1, InboxMessage, NodesFacts
<1>3. EditorsOK' /\ RegsOK' /\ HandedOut' = HandedOut /\ snap' = snap
  BY InvFacts, NodesFacts, SameEditors, SameRegs DEF HandlePermissionUpdate
<1>4. LocksOK'
  BY <1>2, InvFacts, NodesFacts DEF HandlePermissionUpdate, LocksOK
<1> QED BY <1>1, <1>3, <1>4, InvFacts, NodesFacts, ConsumeMail DEF SyncInv, HandlePermissionUpdate

-----------------------------------------------------------------------------
(***************************************************************************)
(* Resynchronisation.                                                      *)
(***************************************************************************)

\* A registry of finitely many objects has finitely many ids.
LEMMA FiniteRegistry ==
  ASSUME NEW r, RegistryOK(r)
  PROVE  IsFiniteSet(DOMAIN r.byId)
<1>1. r.byId \in [DOMAIN r.byId -> Ptrs]
  BY DEF RegistryOK, IsRegistry, IsMap
<1>2. ASSUME NEW i \in DOMAIN r.byId, NEW j \in DOMAIN r.byId, r.byId[i] = r.byId[j]
      PROVE  i = j
  BY <1>2 DEF RegistryOK, IsInverse
<1>3. r.byId \in Injection(DOMAIN r.byId, Ptrs)
  BY <1>1, <1>2 DEF Injection, IsInjective
<1> QED BY <1>3, SyncAssumption, FS_Injection

LEMMA NewChunk ==
  ASSUME NEW n \in Nodes, HandedOut' \subseteq ProperIds, NEW index \in Nat, NEW total \in Nat,
         NEW entries \in SUBSET Entries(HandedOut')
  PROVE  [type |-> "chunk", index |-> index, total |-> total, entries |-> entries] \in Inboxes'[n]
<1> DEFINE m == [type |-> "chunk", index |-> index, total |-> total, entries |-> entries]
<1>1. m.type = "chunk" /\ m.entries = entries
  OBVIOUS
<1>2. entries \subseteq Entries(ProperIds)
  BY DEF Entries
<1>3. m \in Messages
  BY <1>2 DEF Messages
<1>4. \A e \in entries : e.id \in HandedOut'
  BY DEF Entries
<1>5. IdsIn(m) = {e.id : e \in m.entries}
  <2> HIDE DEF m
  <2> QED BY <1>1 DEF IdsIn
<1>6. IdsIn(m) \subseteq HandedOut'
  BY <1>1, <1>4, <1>5
<1> HIDE DEF m
<1>8. LockIdsIn(m) = {}
  BY <1>1 DEF LockIdsIn
<1>7. m \in Inboxes'[n]
  BY <1>1, <1>3, <1>6, <1>8 DEF Inboxes
<1> QED BY <1>7 DEF m

LEMMA ChunksOK ==
  ASSUME NEW n \in Nodes, HandedOut' \subseteq ProperIds,
         NEW entries \in SUBSET Entries(HandedOut'), IsFiniteSet(entries)
  PROVE  chunksOf(entries) \in Seq(Inboxes'[n])
<1> DEFINE rank(e) == Cardinality({d \in entries : d.id < e.id})
           count == Cardinality(entries)
           total == IF count = 0 THEN 1 ELSE 1 + (count - 1) \div ChunkSize
           part(k) == {e \in entries : rank(e) \div ChunkSize = k - 1}
           chunk(k) == [type |-> "chunk", index |-> k - 1, total |-> total, entries |-> part(k)]
           chunks == [k \in 1..total |-> chunk(k)]
<1>1. total \in Nat
  <2>1. count \in Nat /\ ChunkSize \in Nat \ {0}
    BY FS_CardinalityType, SyncAssumption
  <2> HIDE DEF count
  <2>2. CASE count = 0
    BY <2>2
  <2>3. CASE count # 0
    <3>1. (count - 1) \div ChunkSize \in Nat
      BY <2>1, <2>3
    <3> QED BY <2>3, <3>1
  <2> QED BY <2>2, <2>3
<1>2. chunksOf(entries) = chunks
  BY DEF chunksOf
<1> HIDE DEF total
<1>3. ASSUME NEW k \in 1..total
      PROVE  chunks[k] \in Inboxes'[n]
  <2>1. part(k) \in SUBSET Entries(HandedOut') /\ k - 1 \in Nat /\ chunks[k] = chunk(k)
    BY <1>1
  <2> HIDE DEF part, chunks
  <2> QED BY <1>1, <2>1, NewChunk
<1>4. chunks = [k \in 1..total |-> chunks[k]]
  OBVIOUS
<1> HIDE DEF chunks
<1> QED BY <1>1, <1>2, <1>3, <1>4, Messages1ToK

LEMMA SnapshotSent ==
  ASSUME SyncInv, NEW ch, IsMail(ch, Inboxes), sendStateSnapshot(ch)
  PROVE  SyncInv' /\ HandedOut \subseteq HandedOut'
<1> DEFINE S == Unsynced(Host)
           count == Cardinality(S)
<1>1. IsFiniteSet(S) /\ count \in Nat /\ IdsLeft(Host) >= count
  BY UnsyncedFinite, NodesFacts DEF sendStateSnapshot
<1>2. PICK f \in Numberings(S, reg[Host].nextId) :
        LET r == bindAll(reg[Host], f)
            live == retain(r, {i \in DOMAIN r.byId : r.byId[i] \in Live(Host)})
        IN /\ reg' = [reg EXCEPT ![Host] = [live EXCEPT !.nextId = @ + count]]
           /\ chan' = Sent(ch, Host, chunksOf(
                {[id |-> i, c |-> obj[Host][live.byId[i]]] : i \in DOMAIN live.byId}))
  BY DEF sendStateSnapshot
<1> DEFINE r == bindAll(reg[Host], f)
           sound == {i \in DOMAIN r.byId : r.byId[i] \in Live(Host)}
           live == retain(r, sound)
           entry(i) == [id |-> i, c |-> obj[Host][live.byId[i]]]
           entries == {entry(i) : i \in DOMAIN live.byId}
           q == [live EXCEPT !.nextId = @ + count]
<1>3. reg' = [reg EXCEPT ![Host] = q] /\ chan' = Sent(ch, Host, chunksOf(entries))
  BY <1>2
<1>4. EditorsOK' /\ LocksOK' /\ snap' = snap /\ nextTempId' = nextTempId
  BY InvFacts, NodesFacts, SameEditors, SameLocks DEF sendStateSnapshot
<1> HIDE DEF S, count
<1>5. /\ reg[Host].nextId \in Int /\ \A o \in S : f[o] \in NetIds
      /\ \A o \in S : f[o] \in firstFree(Host)..(firstFree(Host) + count - 1)
  <2>1. /\ firstFree(Host) = reg[Host].nextId /\ reg[Host].nextId \in Int
        /\ \A i \in firstFree(Host)..(firstFree(Host) + count - 1) : i \in NetIds
    BY <1>1, NodesFacts, ScanNumbers
  <2>2. f \in [S -> reg[Host].nextId..(reg[Host].nextId + count - 1)]
    BY <1>1, <2>1, NumberingOK DEF count
  <2> QED BY <2>1, <2>2
<1>6. /\ RegistryOK(r) /\ r.nextId = reg[Host].nextId
      /\ \A i \in DOMAIN r.byId : i \in DOMAIN reg[Host].byId \/ \E o \in S : f[o] = i
  <2>1. /\ f \in Numberings(S, reg[Host].nextId) /\ S \in SUBSET Unsynced(Host)
        /\ reg[Host].nextId \in Int /\ \A o \in S : f[o] \in NetIds
        /\ Host \in Nodes
    BY <1>2, <1>5, NodesFacts DEF S
  <2> HIDE DEF r
  <2>2. /\ RegistryOK(bindAll(reg[Host], f)) /\ bindAll(reg[Host], f).nextId = reg[Host].nextId
        /\ \A i \in DOMAIN bindAll(reg[Host], f).byId :
             i \in DOMAIN reg[Host].byId \/ \E o \in S : f[o] = i
    BY ONLY <2>1, SyncInv, HandOutOK, Zenon
  <2> QED BY <2>2 DEF r
<1> HIDE DEF r
<1>7. /\ RegistryOK(live) /\ live.nextId = reg[Host].nextId
      /\ \A i \in DOMAIN live.byId : i \in DOMAIN r.byId /\ live.byId[i] \in Live(Host)
  BY <1>6, RetainOK
<1> HIDE DEF live
<1>8. RegistryOK(q) /\ q.byId = live.byId /\ q.nextId = reg[Host].nextId + count
  BY <1>1, <1>7, CountedOK
<1> HIDE DEF q
<1>9. /\ reg' = [m \in Nodes |-> reg'[m]] /\ reg'[Host] = q
      /\ \A m \in Nodes : m # Host => reg'[m] = reg[m]
  BY <1>3, InvFacts, NodesFacts DEF RegsOK
<1>10. /\ reg'[Host].nextId \in 1..(MaxId + 1) /\ nextTempId' \in 1..(MaxTempId + 1)
       /\ HandedOut \subseteq HandedOut'
       /\ \A i \in firstFree(Host)..(firstFree(Host) + count - 1) : i \in HandedOut'
  BY <1>1, <1>4, <1>8, <1>9, NodesFacts, ScannedIds
<1>11. \A i \in DOMAIN live.byId : i \in HandedOut'
  BY <1>5, <1>6, <1>7, <1>10, InvFacts, NodesFacts
<1>12. RegsOK'
  <2>1. \A m \in Nodes : RegistryOK(reg'[m]) /\ DOMAIN reg'[m].byId \subseteq HandedOut'
    BY <1>8, <1>9, <1>10, <1>11, InvFacts
  <2> QED BY <1>9, <1>10, <2>1 DEF RegsOK
<1>13. MailOK'
  <2>1. HandedOut' \subseteq ProperIds
    BY <1>12, SyncAssumption DEF RegsOK, HandedOut, ProperIds
  <2>2. entries \in SUBSET Entries(HandedOut')
    <3>1. ASSUME NEW i \in DOMAIN live.byId
          PROVE  entry(i) \in Entries(HandedOut')
      BY <1>7, <1>11, InvFacts, NodesFacts DEF Entries
    <3> HIDE DEF entry
    <3> QED BY <3>1
  <2>3. IsFiniteSet(entries)
    <3> DEFINE g == [i \in DOMAIN live.byId |-> entry(i)]
    <3>1. g \in Surjection(DOMAIN live.byId, entries)
      <4> HIDE DEF entry
      <4> QED BY DEF Surjection
    <3> HIDE DEF g, entries
    <3> QED BY <1>7, <3>1, FiniteRegistry, FS_Surjection
  <2> HIDE DEF entries
  <2>4. chunksOf(entries) \in Seq(Inboxes'[Other(Host)])
    BY <2>1, <2>2, <2>3, ChunksOK, NodesFacts
  <2>5. IsMail(ch, Inboxes')
    BY <1>10, InboxesGrow, MailGrows
  <2>6. IsMail(chan', Inboxes')
    BY <1>3, <2>4, <2>5, SentMail, NodesFacts
  <2> QED BY <1>4, <1>10, <2>6 DEF SyncInv, MailOK, Entries
<1> QED BY <1>4, <1>10, <1>12, <1>13 DEF SyncInv

\* f gives each object of D, none of them known to r, an id of its own, and what
\* bindAll makes of it.
Bindable(r, D, f) ==
  /\ RegistryOK(r)
  /\ D \subseteq Ptrs /\ D \cap DOMAIN r.byPtr = {}
  /\ f \in [D -> NetIds] /\ \A o, p \in D : f[o] = f[p] => o = p

BoundTo(q, r, D, f) ==
  /\ RegistryOK(q) /\ q.nextId = r.nextId
  /\ D \subseteq DOMAIN q.byPtr
  /\ \A i : i \in DOMAIN q.byId <=> i \in DOMAIN r.byId \/ \E o \in D : f[o] = i

LEMMA BindableBound ==
  ASSUME NEW r, NEW D, NEW f, Bindable(r, D, f)
  PROVE  BoundTo(bindAll(r, f), r, D, f)
<1>1. /\ RegistryOK(r) /\ D \in SUBSET Ptrs /\ f \in [D -> NetIds]
      /\ D \cap DOMAIN r.byPtr = {} /\ \A o, p \in D : f[o] = f[p] => o = p
  BY DEF Bindable
<1> QED BY <1>1, BindAllOK DEF BoundTo

\* A set of one element.
LEMMA OnlyOne ==
  ASSUME NEW S, IsFiniteSet(S), Cardinality(S) = 1, NEW x \in S, NEW y \in S
  PROVE  x = y
  BY FS_Singleton

LEMMA SnapshotApplied ==
  ASSUME SyncInv, NEW entries \in SUBSET Entries(HandedOut), applyStateSnapshot(entries),
         nextTempId' = nextTempId, locks' = locks, UNCHANGED session
  PROVE  EditorsOK' /\ RegsOK' /\ HandedOut' = HandedOut /\ LocksOK'
<1> DEFINE ids == {e.id : e \in entries}
           contentOf(i) == (CHOOSE e \in entries : e.id = i).c
           kept == retain(reg[Peer], ids)
           gone == {o \in Live(Peer) : findNetworkId(reg[Peer], o) \notin ids}
           claims(o) == findLikelyNetworkId(kept, Fp(obj[Peer][o]))
<1>1. PICK thief \in SUBSET Unsynced(Peer) :
        /\ \A o \in thief : claims(o) # INVALID_OBJECT_ID
        /\ \A o \in Unsynced(Peer) : claims(o) # INVALID_OBJECT_ID =>
             Cardinality({p \in thief : claims(p) = claims(o)}) = 1
        /\ LET r == bindAll(kept, [o \in thief |-> claims(o)])
               missing == ids \ DOMAIN r.byId
           IN \E made \in [missing -> Heap[Peer] \ (Live(Peer) \ gone)] :
                /\ \A i, j \in missing : made[i] = made[j] => i = j
                /\ \A i \in missing : ~hasObject(r, made[i])
                /\ LET new == {made[i] : i \in missing}
                       idFor == [o \in new |-> CHOOSE i \in missing : made[i] = o]
                       final == bindAll(r, idFor)
                   IN /\ reg' = [reg EXCEPT ![Peer] = final]
                      /\ obj' = [obj EXCEPT ![Peer] =
                                   [o \in (Live(Peer) \ gone) \cup new |->
                                      IF hasObject(final, o) THEN contentOf(final.byPtr[o]) ELSE @[o]]]
        /\ sel' = [sel EXCEPT ![Peer] = @ \ gone]
        /\ base' = [base EXCEPT ![Peer] = Without(@, Unsynced(Peer))]
        /\ held' = [held EXCEPT ![Peer] = {}]
  BY DEF applyStateSnapshot
<1> DEFINE taken == [o \in thief |-> claims(o)]
           r == bindAll(kept, taken)
           missing == ids \ DOMAIN r.byId
<1>2. PICK made \in [missing -> Heap[Peer] \ (Live(Peer) \ gone)] :
        /\ \A i, j \in missing : made[i] = made[j] => i = j
        /\ \A i \in missing : ~hasObject(r, made[i])
        /\ LET new == {made[i] : i \in missing}
               idFor == [o \in new |-> CHOOSE i \in missing : made[i] = o]
               final == bindAll(r, idFor)
           IN /\ reg' = [reg EXCEPT ![Peer] = final]
              /\ obj' = [obj EXCEPT ![Peer] =
                           [o \in (Live(Peer) \ gone) \cup new |->
                              IF hasObject(final, o) THEN contentOf(final.byPtr[o]) ELSE @[o]]]
  BY <1>1
<1> DEFINE new == {made[i] : i \in missing}
           idFor == [o \in new |-> CHOOSE i \in missing : made[i] = o]
           final == bindAll(r, idFor)
           level == [o \in (Live(Peer) \ gone) \cup new |->
                       IF hasObject(final, o) THEN contentOf(final.byPtr[o]) ELSE obj[Peer][o]]
<1>3. reg' = [reg EXCEPT ![Peer] = final] /\ obj' = [obj EXCEPT ![Peer] = level]
  BY <1>2
<1>4. /\ sel' = [sel EXCEPT ![Peer] = sel[Peer] \ gone]
      /\ base' = [base EXCEPT ![Peer] = Without(base[Peer], Unsynced(Peer))]
      /\ held' = [held EXCEPT ![Peer] = {}]
  BY <1>1
<1>5. /\ ids \subseteq HandedOut /\ ids \subseteq NetIds
      /\ \A i \in ids : contentOf(i) \in Contents
  <2>1. \A e \in entries : e.id \in HandedOut /\ e.c \in Contents
    BY DEF Entries
  <2>2. ASSUME NEW i \in ids
        PROVE  (CHOOSE e \in entries : e.id = i) \in entries
    OBVIOUS
  <2> QED BY <2>1, <2>2, InvFacts, NodesFacts, ProperAreNetIds
<1>6. gone \subseteq Live(Peer)
  OBVIOUS
<1> HIDE DEF ids, contentOf, gone
<1>7. /\ RegistryOK(kept) /\ DOMAIN kept.byId \subseteq ids /\ kept.nextId = reg[Peer].nextId
      /\ DOMAIN kept.byPtr \subseteq DOMAIN reg[Peer].byPtr
  BY InvFacts, NodesFacts, RetainOK
<1> HIDE DEF kept
\* The removal hooks' bindings.
<1>8. /\ RegistryOK(r) /\ DOMAIN r.byId \subseteq ids /\ r.nextId = reg[Peer].nextId
  <2>1. \A o \in thief : claims(o) \in DOMAIN kept.byId
    BY <1>1, <1>7, LikelyIsRegistered
  <2>2. ASSUME NEW o \in thief, NEW p \in thief, claims(o) = claims(p)
        PROVE  o = p
    <3> DEFINE same == {x \in thief : claims(x) = claims(o)}
    <3>1. same \in SUBSET Unsynced(Peer) /\ Cardinality(same) = 1
      BY <1>1
    <3>2. o \in same /\ p \in same
      BY <2>2
    <3> HIDE DEF same
    <3> QED BY <3>1, <3>2, OnlyOne, UnsyncedFinite, NodesFacts
  <2> HIDE DEF claims
  <2>3. taken \in [thief -> NetIds] /\ \A o, p \in thief : taken[o] = taken[p] => o = p
    BY <1>5, <1>7, <2>1, <2>2
  <2>4. \A o \in thief : taken[o] \in ids
    BY <1>7, <2>1
  <2>5. thief \in SUBSET Ptrs /\ thief \cap DOMAIN kept.byPtr = {}
    BY <1>7, InvFacts, NodesFacts DEF Unsynced, hasObject
  <2> HIDE DEF taken
  <2>6. BoundTo(r, kept, thief, taken)
    <3>1. Bindable(kept, thief, taken)
      BY <1>7, <2>3, <2>5 DEF Bindable
    <3> HIDE DEF r
    <3>2. BoundTo(bindAll(kept, taken), kept, thief, taken)
      BY ONLY <3>1, BindableBound
    <3> QED BY <3>2 DEF r
  <2> HIDE DEF r
  <2> QED BY <1>7, <2>4, <2>6 DEF BoundTo
<1> HIDE DEF claims, taken, r
\* The objects made from the snapshot.
<1>9. /\ RegistryOK(final) /\ DOMAIN final.byId \subseteq ids /\ final.nextId = reg[Peer].nextId
      /\ new \subseteq DOMAIN final.byPtr
  <2>1. ASSUME NEW o \in new
        PROVE  idFor[o] \in missing /\ made[idFor[o]] = o
    <3>1. \E i \in missing : made[i] = o
      OBVIOUS
    <3> QED BY <3>1
  <2>2. new \in SUBSET Ptrs /\ new \cap DOMAIN r.byPtr = {}
    BY <1>2, InvFacts, NodesFacts DEF hasObject
  <2>3. missing \subseteq ids /\ missing \subseteq NetIds
    BY <1>5
  <2>4. idFor = [o \in new |-> idFor[o]]
    OBVIOUS
  <2> HIDE DEF new, idFor, missing
  <2>5. idFor \in [new -> NetIds] /\ \A o, p \in new : idFor[o] = idFor[p] => o = p
    BY <2>1, <2>3, <2>4
  <2> HIDE DEF final
  <2>6. BoundTo(final, r, new, idFor)
    <3>1. Bindable(r, new, idFor)
      BY <1>8, <2>2, <2>5 DEF Bindable
    <3>2. BoundTo(bindAll(r, idFor), r, new, idFor)
      BY ONLY <3>1, BindableBound
    <3> QED BY <3>2 DEF final
  <2> QED BY <1>8, <2>1, <2>3, <2>6 DEF BoundTo
<1>10. new \subseteq Heap[Peer]
  BY <1>2
<1> HIDE DEF new, idFor, final
<1>11. /\ IsMap(level, Heap[Peer], Contents)
       /\ sel[Peer] \ gone \subseteq DOMAIN level /\ AtMostOne(sel[Peer] \ gone)
  <2>1. ASSUME NEW o \in (Live(Peer) \ gone) \cup new
        PROVE  o \in Heap[Peer] /\ level[o] \in Contents
    <3>1. o \in Heap[Peer]
      BY <1>10, InvFacts, NodesFacts
    <3>2. CASE hasObject(final, o)
      <4>1. final.byPtr[o] \in ids
        BY <1>9, <3>2 DEF RegistryOK, IsInverse, hasObject, hasNetworkId
      <4> QED BY <1>5, <3>1, <3>2, <4>1
    <3>3. CASE ~hasObject(final, o)
      <4>1. o \in Live(Peer)
        BY <1>9, <3>3 DEF hasObject
      <4> QED BY <3>1, <3>3, <4>1, InvFacts, NodesFacts
    <3> QED BY <3>2, <3>3
  <2>2. DOMAIN level = (Live(Peer) \ gone) \cup new /\ level = [o \in DOMAIN level |-> level[o]]
    OBVIOUS
  <2> HIDE DEF level
  <2>3. IsMap(level, Heap[Peer], Contents)
    BY <2>1, <2>2 DEF IsMap
  <2> QED BY <2>2, <2>3, InvFacts, NodesFacts DEF AtMostOne
<1> HIDE DEF level
<1>12. EditorsOK'
  <2>1. IsMap(Without(base[Peer], Unsynced(Peer)), Heap[Peer], Contents)
    BY InvFacts, NodesFacts, WithoutMap
  <2> QED BY <1>3, <1>4, <1>11, <2>1, InvFacts, NodesFacts, EditorsStep
<1>13. RegsOK' /\ HandedOut' = HandedOut
  BY <1>3, <1>5, <1>9, InvFacts, NodesFacts, RegsStep
<1>14. LocksOK'
  BY <1>4, InvFacts, NodesFacts DEF LocksOK, session
<1> QED BY <1>12, <1>13, <1>14

LEMMA HandleStateSnapshotInv ==
  ASSUME SyncInv, HandleStateSnapshot
  PROVE  SyncInv' /\ HandedOut \subseteq HandedOut'
<1> DEFINE m == Msg(Peer)
<1>1. /\ Receives(Peer, "chunk") /\ Consume(Peer, <<>>)
      /\ UNCHANGED <<locks, nextTempId, session>>
  BY DEF HandleStateSnapshot
<1>2. /\ chan[Peer] # <<>> /\ m \in Inboxes[Peer] /\ m.type = "chunk"
      /\ <<>> \in Seq(Inboxes[Other(Peer)])
  BY <1>1, ReceivedMessage, NodesFacts
<1>3. \/ UNCHANGED <<obj, sel, reg, base, held, snap>>
      \/ applyStateSnapshot(collected(m).entries) /\ snap' = NoSnapshot
      \/ snap' = collected(m) /\ UNCHANGED <<obj, sel, reg, base, held>>
  BY DEF HandleStateSnapshot
<1> HIDE DEF m
<1>4. /\ "entries" \in DOMAIN collected(m)
      /\ collected(m).entries \subseteq Entries(HandedOut)
  <2>1. m.entries \subseteq Entries(HandedOut)
    BY <1>2, InboxMessage, NodesFacts
  <2>2. CASE m.index = 0
    BY <2>1, <2>2 DEF collected
  <2>3. CASE m.index # 0
    <3> DEFINE later == [snap EXCEPT !.got = @ + 1, !.entries = @ \cup m.entries]
    <3>1. DOMAIN later = DOMAIN snap
      OBVIOUS
    <3>2. later.entries = snap.entries \cup m.entries
      BY DEF SyncInv, MailOK
    <3>3. collected(m) = later
      BY <2>3 DEF collected
    <3> HIDE DEF later
    <3> QED BY <2>1, <3>1, <3>2, <3>3 DEF SyncInv, MailOK
  <2> QED BY <2>2, <2>3
<1>5. /\ EditorsOK' /\ RegsOK' /\ HandedOut' = HandedOut /\ LocksOK'
      /\ "entries" \in DOMAIN snap' /\ snap'.entries \subseteq Entries(HandedOut)
  <2>1. CASE UNCHANGED <<obj, sel, reg, base, held, snap>>
    BY <1>1, <2>1, SameEditors, SameRegs, SameLocks DEF SyncInv, MailOK
  <2>2. CASE applyStateSnapshot(collected(m).entries) /\ snap' = NoSnapshot
    <3>1. EditorsOK' /\ RegsOK' /\ HandedOut' = HandedOut /\ LocksOK'
      BY <1>1, <1>4, <2>2, SnapshotApplied
    <3> QED BY <2>2, <3>1 DEF NoSnapshot
  <2>3. CASE snap' = collected(m) /\ UNCHANGED <<obj, sel, reg, base, held>>
    BY <1>1, <1>4, <2>3, SameEditors, SameRegs, SameLocks DEF SyncInv
  <2> QED BY <1>3, <2>1, <2>2, <2>3
<1>6. MailOK'
  <2>1. IsMail([chan EXCEPT ![Peer] = Tail(@)], Inboxes)
    BY <1>2, TakenMail, NodesFacts DEF SyncInv, MailOK
  <2>2. IsMail(chan', Inboxes)
    BY <1>1, <1>2, <2>1, SentMail, NodesFacts DEF Consume
  <2>3. Inboxes' = Inboxes
    BY <1>5, InboxesSame
  <2> QED BY <1>5, <2>2, <2>3 DEF MailOK, Entries
<1> QED BY <1>5, <1>6 DEF SyncInv

LEMMA RequestStateResyncInv ==
  ASSUME SyncInv, NEW n \in Nodes, RequestStateResync(n)
  PROVE  SyncInv' /\ HandedOut \subseteq HandedOut'
<1>1. CASE n = Host
  BY <1>1, SnapshotSent DEF RequestStateResync, SyncInv, MailOK
<1>2. CASE n = Peer
  <2>1. /\ Post(Peer, <<[type |-> "resync"]>>)
        /\ UNCHANGED <<obj, sel, reg, base, held, locks, nextTempId, snap, session>>
    BY <1>2, NodesFacts DEF RequestStateResync
  <2>2. <<[type |-> "resync"]>> \in Seq(Inboxes[Other(Peer)])
    BY InvFacts, NodesFacts, MaySend, OneMessage
  <2>3. EditorsOK' /\ RegsOK' /\ HandedOut' = HandedOut /\ LocksOK'
    BY <2>1, SameEditors, SameRegs, SameLocks DEF SyncInv
  <2> QED BY <2>1, <2>2, <2>3, PostOldIds, NodesFacts DEF SyncInv
<1> QED BY <1>1, <1>2, NodesFacts

LEMMA HandleStateResyncRequestInv ==
  ASSUME SyncInv, HandleStateResyncRequest
  PROVE  SyncInv' /\ HandedOut \subseteq HandedOut'
<1>1. chan[Host] # <<>>
  BY ReceivedMessage, NodesFacts DEF HandleStateResyncRequest
<1>2. IsMail([chan EXCEPT ![Host] = Tail(@)], Inboxes)
  BY <1>1, TakenMail, NodesFacts DEF SyncInv, MailOK
<1> QED BY <1>2, SnapshotSent DEF HandleStateResyncRequest

-----------------------------------------------------------------------------
(***************************************************************************)
(* The invariant.                                                          *)
(***************************************************************************)

LEMMA InitInv == Init => SyncInv
<1> SUFFICES ASSUME Init
             PROVE  SyncInv
  OBVIOUS
<1>1. RegistryOK(EmptyRegistry) /\ EmptyRegistry.nextId = 1 /\ DOMAIN EmptyRegistry.byId = {}
  BY EmptyRegistryOK DEF EmptyRegistry, Empty
<1>2. EditorsOK
  <2>1. ASSUME NEW n \in Nodes
        PROVE  IsMap(obj[n], Heap[n], Contents)
    BY SyncAssumption DEF Init, IsMap
  <2>2. \A n \in Nodes : IsMap(Empty, Heap[n], Contents)
    BY DEF IsMap, Empty
  <2> QED BY <2>1, <2>2 DEF Init, EditorsOK, AtMostOne, Live
<1>3. RegsOK
  BY <1>1, NodesFacts, SyncAssumption DEF Init, RegsOK
<1>4. LocksOK
  BY DEF Init, LocksOK, IsMap, Empty, Roles
<1>5. MailOK
  <2>1. \A n \in Nodes : <<>> \in Seq(Inboxes[n])
    BY EmptySeq
  <2> QED BY <2>1 DEF Init, MailOK, IsMail, NoSnapshot
<1> QED BY <1>2, <1>3, <1>4, <1>5 DEF SyncInv

LEMMA UserInv ==
  ASSUME SyncInv, NEW n \in Nodes, User(n)
  PROVE  SyncInv' /\ HandedOut \subseteq HandedOut'
<1>1. CASE \E o \in Heap[n], c \in Contents : LocalPlace(n, o, c)
  BY <1>1, LocalPlaceInv
<1>2. CASE \E o \in Heap[n], c \in Contents : GdCreate(n, o, c)
  BY <1>2, GdCreateInv
<1>3. CASE \E o, o2 \in Heap[n], c \in Contents : LocalTransform(n, o, o2, c)
  BY <1>3, LocalTransformInv
<1>4. CASE \E o \in Heap[n], c \in Contents : LocalMove(n, o, c)
  BY <1>4, LocalMoveInv
<1>5. CASE \E o \in Heap[n] : LocalDelete(n, o)
  BY <1>5, LocalDeleteInv
<1>6. CASE \E o \in Heap[n], dropped \in SUBSET sel[n] : SelectObject(n, o, dropped)
  BY <1>6, SelectObjectInv
<1>7. CASE DeselectAll(n)
  BY <1>7, DeselectAllInv
<1>8. CASE RequestStateResync(n)
  BY <1>8, RequestStateResyncInv
<1>9. CASE Disconnect(n)
  BY <1>9, DisconnectInv DEF Disconnect
<1>10. CASE \E r \in GrantedRoles : setPeerRole(r)
  BY <1>10, setPeerRoleInv
<1> QED BY <1>1, <1>2, <1>3, <1>4, <1>5, <1>6, <1>7, <1>8, <1>9, <1>10 DEF User

LEMMA HandleInv ==
  ASSUME SyncInv, NEW n \in Nodes, Handle(n)
  PROVE  SyncInv' /\ HandedOut \subseteq HandedOut'
<1>1. CASE HandlePlaceObject(n)
  BY <1>1, HandlePlaceObjectInv
<1>2. CASE HandleDeleteObject(n)
  BY <1>2, HandleDeleteObjectInv
<1>3. CASE HandleCommitEdit(n)
  BY <1>3, HandleCommitEditInv
<1>4. CASE HandleUnlockObject(n)
  BY <1>4, HandleUnlockObjectInv
<1>5. CASE HandleEof(n)
  BY <1>5, DisconnectInv DEF HandleEof
<1>6. CASE HandleLockRequest
  BY <1>6, HandleLockRequestInv
<1>7. CASE HandleStateResyncRequest
  BY <1>7, HandleStateResyncRequestInv
<1>8. CASE HandleLockReply
  BY <1>8, HandleLockReplyInv
<1>9. CASE HandlePermissionUpdate
  BY <1>9, HandlePermissionUpdateInv
<1>10. CASE HandleStateSnapshot
  BY <1>10, HandleStateSnapshotInv
<1> QED BY <1>1, <1>2, <1>3, <1>4, <1>5, <1>6, <1>7, <1>8, <1>9, <1>10 DEF Handle

LEMMA StepGrows == SyncInv /\ [Next]_vars => SyncInv' /\ HandedOut \subseteq HandedOut'
<1> SUFFICES ASSUME SyncInv, [Next]_vars
             PROVE  SyncInv' /\ HandedOut \subseteq HandedOut'
  OBVIOUS
<1>1. CASE Connect
  BY <1>1, ConnectInv
<1>2. CASE LinkDown
  BY <1>2, LinkDownInv
<1>3. CASE \E n \in Nodes : User(n) \/ Discover(n) \/ Handle(n)
  BY <1>3, UserInv, DiscoverInv, HandleInv
<1>4. CASE UNCHANGED vars
  BY <1>4, SameEditors, SameRegs, SameLocks, SameMail DEF vars, session, SyncInv
<1> QED BY <1>1, <1>2, <1>3, <1>4 DEF Next

LEMMA StepInv == SyncInv /\ [Next]_vars => SyncInv'
  BY StepGrows

LEMMA InvImpliesTypeOK == SyncInv => TypeOK
<1> SUFFICES ASSUME SyncInv
             PROVE  TypeOK
  OBVIOUS
<1>1. ASSUME NEW S, AtMostOne(S)
      PROVE  Cardinality(S) <= 1
  <2>1. CASE S = {}
    BY <2>1, FS_EmptySet
  <2>2. CASE S # {}
    <3>1. PICK x \in S : TRUE
      BY <2>2
    <3>2. S = {x}
      BY <1>1, <3>1 DEF AtMostOne
    <3> QED BY <3>2, FS_Singleton
  <2> QED BY <2>1, <2>2
<1>2. \A n \in Nodes : Cardinality(sel[n]) <= 1
  BY <1>1 DEF SyncInv, EditorsOK
<1>3. \A n \in Nodes : IsRegistry(reg[n])
  BY DEF SyncInv, RegsOK, RegistryOK
<1> QED BY <1>2, <1>3 DEF SyncInv, EditorsOK, LocksOK, TypeOK

-----------------------------------------------------------------------------
(***************************************************************************)
(* The lock tables: a second invariant, on top of SyncInv.                 *)
(***************************************************************************)

HeldIds == LockIds \cup {i % IdBase : i \in LockIds}

LockTableOK ==
  /\ DOMAIN locks \subseteq LockIds /\ held[Host] \subseteq HandedOut
  /\ held[Peer] \subseteq HeldIds

LEMMA HeldIdsGrow ==
  ASSUME HandedOut \subseteq HandedOut'
  PROVE  HeldIds \subseteq HeldIds'
  BY LockIdsGrow DEF HeldIds

\* Tables that only lose ids.
LEMMA LocksShrink ==
  ASSUME LockTableOK, HandedOut \subseteq HandedOut', DOMAIN locks' \subseteq DOMAIN locks,
         held'[Host] \subseteq held[Host], held'[Peer] \subseteq held[Peer]
  PROVE  LockTableOK'
  BY LockIdsGrow, HeldIdsGrow DEF LockTableOK

\* The host locks what it selects; the peer asks first.
LEMMA SelectObjectLocks ==
  ASSUME SyncInv, LockTableOK, HandedOut \subseteq HandedOut',
         NEW n \in Nodes, NEW o \in Heap[n], NEW dropped \in SUBSET sel[n],
         SelectObject(n, o, dropped)
  PROVE  LockTableOK'
<1> DEFINE before == lookedUp(n, reg[n], dropped)
           old == idsOf(n, reg[n], dropped)
           new == idsOf(n, before, {o})
           lock == IF hasPermission(n, "canLock") THEN new ELSE {}
<1>1. o \in Live(n)
  BY DEF SelectObject
<1>2. \/ /\ held' = [held EXCEPT ![n] = (@ \ old) \cup IF n = Host THEN lock ELSE {}]
         /\ locks' = IF n = Host
                     THEN [i \in (DOMAIN locks \ old) \cup lock |-> IF i \in lock THEN Host ELSE locks[i]]
                     ELSE locks
      \/ held' = held /\ locks' = locks
  BY DEF SelectObject
<1>3. dropped \in SUBSET Live(n) /\ {o} \in SUBSET Live(n)
  BY <1>1, InvFacts
<1>4. RegistryOK(before) /\ DOMAIN before.byId \subseteq HandedOut
  BY <1>3, InvFacts, LookedUpOK
<1> HIDE DEF before, old
<1>5. new \subseteq HandedOut
  BY <1>3, <1>4, LookedUpOK
<1>6. lock \subseteq HandedOut
  BY <1>5
<1> HIDE DEF new, lock
<1>7. held \in [Nodes -> SUBSET NetIds]
  BY InvFacts, NodesFacts DEF LocksOK
<1>8. CASE n = Host
  <2>1. \/ /\ DOMAIN locks' = (DOMAIN locks \ old) \cup lock
            /\ held'[Host] = (held[Host] \ old) \cup lock /\ held'[Peer] = held[Peer]
        \/ held' = held /\ locks' = locks
    BY <1>2, <1>7, <1>8, NodesFacts
  <2> QED BY <1>6, <2>1, LockIdsGrow, HeldIdsGrow DEF LockTableOK, LockIds
<1>9. CASE n = Peer
  <2>1. /\ locks' = locks /\ held'[Host] = held[Host]
        /\ held'[Peer] \subseteq held[Peer]
    BY <1>2, <1>7, <1>9, NodesFacts
  <2> QED BY <2>1, LocksShrink
<1> QED BY <1>8, <1>9, NodesFacts

LEMMA DeselectAllLocks ==
  ASSUME SyncInv, LockTableOK, HandedOut \subseteq HandedOut', NEW n \in Nodes, DeselectAll(n)
  PROVE  LockTableOK'
<1> DEFINE old == idsOf(n, reg[n], sel[n])
<1>1. \/ /\ held' = [held EXCEPT ![n] = @ \ old]
         /\ locks' = IF n = Host THEN Without(locks, old) ELSE locks
      \/ held' = held /\ locks' = locks
  BY DEF DeselectAll
<1> HIDE DEF old
<1>2. held \in [Nodes -> SUBSET NetIds]
  BY InvFacts, NodesFacts DEF LocksOK
<1>3. /\ DOMAIN locks' \subseteq DOMAIN locks
      /\ held'[Host] \subseteq held[Host] /\ held'[Peer] \subseteq held[Peer]
  BY <1>1, <1>2, NodesFacts DEF Without
<1> QED BY <1>3, LocksShrink

\* Deletions, unlocks and the end of a session take ids out of the tables.
LEMMA disconnectLocks ==
  ASSUME SyncInv, LockTableOK, HandedOut \subseteq HandedOut', NEW n \in Nodes, disconnect(n)
  PROVE  LockTableOK'
<1>1. held' = [held EXCEPT ![n] = {}] /\ locks' = IF n = Host THEN Empty ELSE locks
  BY DEF disconnect
<1>2. held \in [Nodes -> SUBSET NetIds]
  BY InvFacts, NodesFacts DEF LocksOK
<1>3. /\ DOMAIN locks' \subseteq DOMAIN locks
      /\ held'[Host] \subseteq held[Host] /\ held'[Peer] \subseteq held[Peer]
  BY <1>1, <1>2, NodesFacts DEF Empty
<1> QED BY <1>3, LocksShrink

LEMMA ReleasingHandlersLocks ==
  ASSUME SyncInv, LockTableOK, HandedOut \subseteq HandedOut', NEW n \in Nodes,
         HandleDeleteObject(n) \/ HandleUnlockObject(n)
  PROVE  LockTableOK'
<1> DEFINE id == namedId(n, Msg(n).id)
<1>1. \/ /\ held' = [held EXCEPT ![n] = @ \ {id}]
         /\ locks' = IF n = Host THEN Without(locks, {id}) ELSE locks
      \/ held' = held /\ locks' = locks
  BY DEF HandleDeleteObject, HandleUnlockObject
<1> HIDE DEF id
<1>2. held \in [Nodes -> SUBSET NetIds]
  BY InvFacts, NodesFacts DEF LocksOK
<1>3. /\ DOMAIN locks' \subseteq DOMAIN locks
      /\ held'[Host] \subseteq held[Host] /\ held'[Peer] \subseteq held[Peer]
  BY <1>1, <1>2, NodesFacts DEF Without
<1> QED BY <1>3, LocksShrink

\* The id that a lock request names was handed out; an unknown one becomes a
\* provisional one.
LEMMA HandleLockRequestLocks ==
  ASSUME SyncInv, LockTableOK, HandedOut \subseteq HandedOut', HandleLockRequest
  PROVE  LockTableOK'
<1> DEFINE id == namedId(Host, Msg(Host).id)
<1>1. Msg(Host) \in Inboxes[Host] /\ Msg(Host).type = "lock_request"
  BY ReceivedMessage, NodesFacts DEF HandleLockRequest
<1>2. Msg(Host).id \in HandedOut
  BY <1>1, InboxMessage, NodesFacts
<1>3. id \in LockIds
  BY <1>2 DEF namedId, LockIds, Provisional
<1>4. held' = held /\ (locks' = locks \/ locks' = With(locks, id, Peer))
  BY DEF HandleLockRequest
<1> HIDE DEF id
<1>5. DOMAIN locks' \subseteq DOMAIN locks \cup {id}
  BY <1>4 DEF With
<1> QED BY <1>3, <1>4, <1>5, LockIdsGrow, HeldIdsGrow DEF LockTableOK

\* The peer holds what it was granted, or what handleLockReply cuts off it.
LEMMA HandleLockReplyLocks ==
  ASSUME SyncInv, LockTableOK, HandedOut \subseteq HandedOut', HandleLockReply
  PROVE  LockTableOK'
<1> DEFINE m == Msg(Peer)
           localId == IF m.id \div IdBase = Peer /\ ~hasNetworkId(reg[Peer], m.id)
                      THEN m.id % IdBase ELSE m.id
<1>1. PICK t \in {"lock_granted", "lock_denied"} : Receives(Peer, t)
  BY DEF HandleLockReply
<1>2. m \in Inboxes[Peer] /\ m.type = t
  BY <1>1, ReceivedMessage, NodesFacts
<1>3. m.type = "lock_granted" => m.id \in LockIds
  BY <1>2, InboxMessage, NodesFacts
<1>4. m.type = "lock_granted" => localId \in HeldIds
  BY <1>3 DEF HeldIds
<1>5. /\ held' = [held EXCEPT ![Peer] =
                   IF m.id = INVALID_OBJECT_ID THEN @
                   ELSE IF m.type = "lock_granted" THEN @ \cup {localId} ELSE @ \ {localId}]
      /\ locks' = locks
  BY DEF HandleLockReply
<1> HIDE DEF m, localId
<1>6. held \in [Nodes -> SUBSET NetIds]
  BY InvFacts, NodesFacts DEF LocksOK
<1>7. held'[Host] = held[Host] /\ held'[Peer] \subseteq held[Peer] \cup HeldIds
  BY <1>4, <1>5, <1>6, NodesFacts
<1> QED BY <1>5, <1>7, LockIdsGrow, HeldIdsGrow DEF LockTableOK

LEMMA HandleStateSnapshotLocks ==
  ASSUME SyncInv, LockTableOK, HandedOut \subseteq HandedOut', HandleStateSnapshot
  PROVE  LockTableOK'
<1>1. locks' = locks /\ (held' = held \/ held' = [held EXCEPT ![Peer] = {}])
  BY DEF HandleStateSnapshot, applyStateSnapshot
<1>2. held \in [Nodes -> SUBSET NetIds]
  BY InvFacts, NodesFacts DEF LocksOK
<1>3. held'[Host] \subseteq held[Host] /\ held'[Peer] \subseteq held[Peer]
  BY <1>1, <1>2, NodesFacts
<1> QED BY <1>1, <1>3, LocksShrink

LEMMA LockTableStep == SyncInv /\ LockTableOK /\ [Next]_vars => LockTableOK'
<1> SUFFICES ASSUME SyncInv, LockTableOK, [Next]_vars
             PROVE  LockTableOK'
  OBVIOUS
<1>1. HandedOut \subseteq HandedOut'
  BY StepGrows
<1>2. ASSUME held' = held, locks' = locks
      PROVE  LockTableOK'
  BY <1>1, <1>2, LocksShrink
<1>3. CASE Connect \/ LinkDown \/ UNCHANGED vars
  BY <1>2, <1>3 DEF Connect, LinkDown, vars
<1>4. ASSUME NEW n \in Nodes, User(n)
      PROVE  LockTableOK'
  <2>1. CASE \E o \in Heap[n], dropped \in SUBSET sel[n] : SelectObject(n, o, dropped)
    BY <1>1, <2>1, SelectObjectLocks
  <2>2. CASE DeselectAll(n)
    BY <1>1, <2>2, DeselectAllLocks
  <2>3. CASE Disconnect(n)
    BY <1>1, <2>3, disconnectLocks DEF Disconnect
  <2>4. CASE \/ \E o \in Heap[n], c \in Contents : LocalPlace(n, o, c) \/ GdCreate(n, o, c)
             \/ \E o, o2 \in Heap[n], c \in Contents : LocalTransform(n, o, o2, c)
             \/ \E o \in Heap[n], c \in Contents : LocalMove(n, o, c)
             \/ \E o \in Heap[n] : LocalDelete(n, o)
    BY <1>2, <2>4 DEF LocalPlace, GdCreate, LocalTransform, LocalMove, LocalDelete
  <2>5. CASE RequestStateResync(n) \/ \E r \in GrantedRoles : setPeerRole(r)
    BY <1>2, <2>5 DEF RequestStateResync, sendStateSnapshot, setPeerRole
  <2> QED BY <1>4, <2>1, <2>2, <2>3, <2>4, <2>5 DEF User
<1>5. ASSUME NEW n \in Nodes, Discover(n)
      PROVE  LockTableOK'
  BY <1>2, <1>5 DEF Discover
<1>6. ASSUME NEW n \in Nodes, Handle(n)
      PROVE  LockTableOK'
  <2>1. CASE HandleDeleteObject(n) \/ HandleUnlockObject(n)
    BY <1>1, <2>1, ReleasingHandlersLocks
  <2>2. CASE HandleEof(n)
    BY <1>1, <2>2, disconnectLocks DEF HandleEof
  <2>3. CASE HandleLockRequest
    BY <1>1, <2>3, HandleLockRequestLocks
  <2>4. CASE HandleLockReply
    BY <1>1, <2>4, HandleLockReplyLocks
  <2>5. CASE HandleStateSnapshot
    BY <1>1, <2>5, HandleStateSnapshotLocks
  <2>6. CASE \/ HandlePlaceObject(n) \/ HandleCommitEdit(n)
             \/ HandlePermissionUpdate \/ HandleStateResyncRequest
    BY <1>2, <2>6 DEF HandlePlaceObject, HandleCommitEdit, HandlePermissionUpdate,
                      HandleStateResyncRequest, sendStateSnapshot
  <2> QED BY <1>6, <2>1, <2>2, <2>3, <2>4, <2>5, <2>6 DEF Handle
<1> QED BY <1>3, <1>4, <1>5, <1>6 DEF Next

LEMMA LockTableInit == Init => LockTableOK
  BY NodesFacts DEF Init, LockTableOK, Empty

LEMMA InvImpliesHandedOut == SyncInv /\ LockTableOK => IdsHandedOut
<1> SUFFICES ASSUME SyncInv, LockTableOK
             PROVE  IdsHandedOut
  OBVIOUS
<1>1. ASSUME NEW n \in Nodes, NEW k \in DOMAIN chan[n]
      PROVE  IdsIn(chan[n][k]) \subseteq HandedOut /\ LockIdsIn(chan[n][k]) \subseteq LockIds
  <2>1. chan[n] \in Seq(Inboxes[n])
    BY DEF SyncInv, MailOK, IsMail
  <2> HIDE DEF Inboxes
  <2>2. chan[n][k] \in Inboxes[n]
    BY <2>1
  <2> QED BY <2>2 DEF Inboxes
<1>2. \A e \in snap.entries : e.id \in HandedOut
  BY DEF SyncInv, MailOK, Entries
<1>3. \A n \in Nodes : DOMAIN reg[n].byId \subseteq HandedOut
  BY DEF SyncInv, RegsOK
<1>4. /\ DOMAIN locks \subseteq LockIds /\ held[Host] \subseteq HandedOut
      /\ held[Peer] \subseteq LockIds \cup {i % IdBase : i \in LockIds}
  BY DEF LockTableOK, HeldIds
<1> QED BY <1>1, <1>2, <1>3, <1>4 DEF IdsHandedOut

-----------------------------------------------------------------------------
(***************************************************************************)
(* Whatever the two users, the timers, the network and the handlers do, in *)
(* any order, each client's editor, registry, locks and roles hold what    *)
(* SessionManager declares them to hold.                                   *)
(***************************************************************************)
THEOREM SessionTypes == Spec => []TypeOK
  BY InitInv, StepInv, InvImpliesTypeOK, PTL DEF Spec

(***************************************************************************)
(* Both clients' registries stay inverse maps through every hook, scan,    *)
(* remote operation, recovery, reconnection and snapshot: no id names an   *)
(* object that is registered under another id.                             *)
(***************************************************************************)
THEOREM SessionRegistries == Spec => []RegistriesInverse
<1>1. SyncInv => RegistriesInverse
  BY DEF SyncInv, RegsOK, RegistryOK, RegistriesInverse
<1> QED BY <1>1, InitInv, StepInv, PTL DEF Spec

(***************************************************************************)
(* The handlers and the snapshots invent no id: every id in a registry, in *)
(* flight about an object, collected or held by the host was handed out by *)
(* one of the two counters, so that a later object never gets an id that   *)
(* is in use.  Only locks, their answers and what the peer holds may name  *)
(* more: what handleLockRequest makes of an id that the host does not have *)
(* any more, and of that only canonicalPeerObjectId's images (the peer     *)
(* also what handleLockReply cuts off them).                               *)
(***************************************************************************)
THEOREM SessionIds == Spec => []IdsHandedOut
<1>1. Init => SyncInv /\ LockTableOK
  BY InitInv, LockTableInit
<1>2. (SyncInv /\ LockTableOK) /\ [Next]_vars => (SyncInv /\ LockTableOK)'
  BY StepInv, LockTableStep
<1> QED BY <1>1, <1>2, InvImpliesHandedOut, PTL DEF Spec

(***************************************************************************)
(* The host's handlers do what the role allows: once the peer is a viewer, *)
(* no message of it changes the host's level or takes a lock.              *)
(***************************************************************************)
THEOREM ViewerIsPowerless == Spec => ViewerChangesNothing
<1>1. ASSUME role = "Viewer", Handle(Host)
      PROVE  obj'[Host] = obj[Host] /\ DOMAIN locks' \subseteq DOMAIN locks
  <2>1. ~peerHasPermission(Host, "canEdit") /\ ~peerHasPermission(Host, "canDelete")
        /\ ~peerHasPermission(Host, "canLock")
    BY <1>1 DEF peerHasPermission, permissionsForRole
  <2>2. CASE HandlePlaceObject(Host)
    BY <2>1, <2>2 DEF HandlePlaceObject
  <2>3. CASE HandleDeleteObject(Host)
    BY <2>1, <2>3 DEF HandleDeleteObject
  <2>4. CASE HandleCommitEdit(Host)
    BY <2>1, <2>4 DEF HandleCommitEdit
  <2>5. CASE HandleUnlockObject(Host)
    BY <2>5 DEF HandleUnlockObject, Without
  <2>6. CASE HandleEof(Host)
    BY <2>6 DEF HandleEof, disconnect, Empty
  <2>7. CASE HandleLockRequest
    BY <2>1, <2>7 DEF HandleLockRequest
  <2>8. CASE HandleStateResyncRequest
    BY <2>8 DEF HandleStateResyncRequest, sendStateSnapshot
  <2> QED BY <1>1, <2>2, <2>3, <2>4, <2>5, <2>6, <2>7, <2>8, NodesFacts DEF Handle
<1>2. [Next]_vars => [role = "Viewer" /\ Handle(Host) =>
         obj'[Host] = obj[Host] /\ DOMAIN locks' \subseteq DOMAIN locks]_vars
  BY <1>1
<1> QED BY <1>2, PTL DEF Spec, ViewerChangesNothing

=============================================================================
