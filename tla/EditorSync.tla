----------------------------- MODULE EditorSync -----------------------------
(***************************************************************************)
(* One editing session of two clients, the host and its one peer: what     *)
(* SessionManager and the editor hooks do to the two editors, the two      *)
(* registries, the locks and the messages between them.                    *)
(*                                                                         *)
(* Every hook and every message handler runs to its end on the client's    *)
(* main thread, so each is one action.  The control connection delivers    *)
(* in order; what recvLoop posted and tick has not drained yet counts as   *)
(* in flight.  An object's type, transform and save string together are    *)
(* one abstract content.  At most one object is selected at a time.        *)
(***************************************************************************)
EXTENDS ObjectRegistryOps, Permissions, Sequences, FiniteSets

CONSTANTS
  Contents,    \* what an object can look like
  Heap,        \* the addresses of each client's objects
  Levels,      \* the levels a client can have open when the program starts
  Ops,         \* the operations each client's user performs in this instance
  GrantedRoles,\* the roles the host's user gives
  Twins,       \* two objects may have the same content
  IdBase,      \* 2^24: an id is playerId * IdBase + a number below IdBase
  ChunkSize,   \* objects in one snapshot chunk (SNAPSHOT_CHUNK_BUDGET)
  MaxId, MaxTempId,   \* bounds on m_nextId and m_nextTempId
  MaxChan,            \* users act only while fewer messages are in flight
  MaxSessions         \* bound on the sessions

Host == 0        \* HOST_PLAYER_ID
Peer == 1        \* handleHostHello's assignedPeerId
Nodes == {Host, Peer}
Other(n) == 1 - n

Fp(c) == [kind |-> 1, at |-> c, text |-> c]

ASSUME SyncAssumption ==
  /\ Contents \subseteq Nat \ {0}
  /\ Tolerance = 0
  /\ Prints = {Fp(c) : c \in Contents}
  /\ IsFiniteSet(Ptrs) /\ Heap \in [Nodes -> SUBSET Ptrs]
  /\ \A level \in Levels : IsMap(level, Ptrs, Contents)
  /\ GrantedRoles \subseteq Roles
  /\ Twins \in BOOLEAN
  /\ IdBase \in Nat /\ ChunkSize \in Nat \ {0}
  /\ MaxId \in Nat /\ MaxId < IdBase
  /\ MaxTempId \in Nat /\ MaxTempId < IdBase

VARIABLES
  obj,        \* each client's editor: address -> content
  sel,        \* the selected objects
  reg,        \* each client's ObjectRegistry
  base,       \* m_baselineLocalObjects: address -> content at priming
  held,       \* m_heldLocks
  locks,      \* the host's m_objectLocks: id -> player
  role,       \* the host's record of the peer's role
  myRole,     \* the peer's own role
  nextTempId, \* the peer's m_nextTempId
  chan,       \* the messages on their way to each client
  conn,       \* the client's session is Connected
  link,       \* its transport is connected
  snap,       \* the peer's snapshot being collected
  sessions

vars == <<obj, sel, reg, base, held, locks, role, myRole, nextTempId, chan,
          conn, link, snap, sessions>>
session == <<role, myRole, conn, link, sessions>>

NoSnapshot == [total |-> 0, got |-> 0, entries |-> {}]

Init ==
  /\ obj \in [Nodes -> Levels] /\ \A n \in Nodes : DOMAIN obj[n] \subseteq Heap[n]
  /\ sel = [n \in Nodes |-> {}]
  /\ reg = [n \in Nodes |-> EmptyRegistry]
  /\ base = [n \in Nodes |-> Empty]
  /\ held = [n \in Nodes |-> {}]
  /\ locks = Empty
  /\ role = "Builder" /\ myRole = "Owner"
  /\ nextTempId = 1
  /\ chan = [n \in Nodes |-> <<>>]
  /\ conn = [n \in Nodes |-> FALSE]
  /\ link = [n \in Nodes |-> FALSE]
  /\ snap = NoSnapshot
  /\ sessions = 0

-----------------------------------------------------------------------------
(***************************************************************************)
(* Helpers.                                                                *)
(***************************************************************************)

Live(n) == DOMAIN obj[n]
Unsynced(n) == {o \in Live(n) : ~hasObject(reg[n], o)}

\* The part of client n's level that the session knows: id -> content.
Shared(n) ==
  [i \in {i \in DOMAIN reg[n].byId : reg[n].byId[i] \in Live(n)} |-> obj[n][reg[n].byId[i]]]

\* Mutant of canonicalPeerObjectId: ids of the peer's own range are shifted too.
shiftsAlways(peer, id) == (peer * IdBase) + id

\* The owner of an id is in its high byte.
canonicalPeerObjectId(peer, id) ==
  IF id \div IdBase = peer THEN id ELSE (peer * IdBase) + (id % IdBase)

hasPermission(n, flag) ==
  flag \in permissionsForRole(IF n = Host THEN "Owner" ELSE myRole)

\* Mutant of peerHasPermission: the receiver asks what it may do itself.
asksOwnPermission(n, flag) == hasPermission(n, flag)

\* What the receiver n of a message thinks its sender may do.
peerHasPermission(n, flag) ==
  flag \in permissionsForRole(IF n = Host THEN role ELSE "Owner")

\* The messages reach the other client when the transport is up and the other
\* client still has the session.
Sent(ch, n, msgs) ==
  IF conn[n] /\ link[n] /\ conn[Other(n)] THEN [ch EXCEPT ![Other(n)] = @ \o msgs] ELSE ch
Post(n, msgs) == chan' = Sent(chan, n, msgs)
Consume(n, replies) == chan' = Sent([chan EXCEPT ![n] = Tail(@)], n, replies)

\* The next message for client n is of this type.
Msg(n) == Head(chan[n])
Receives(n, type) == chan[n] # <<>> /\ Msg(n).type = type

\* What the user does in this instance: user operations stop at the bounds.
Acts(n, op) ==
  /\ op \in Ops[n]
  /\ conn[n] \/ "offline" \in Ops[n]
  /\ Len(chan[Host]) + Len(chan[Peer]) < MaxChan

IdsLeft(n) == IF n = Host THEN MaxId - reg[Host].nextId + 1 ELSE MaxTempId - nextTempId + 1

\* Without Twins, nothing in sight looks like c.
FreshLook(c) ==
  Twins \/ \A n \in Nodes :
    /\ \A o \in Live(n) : obj[n][o] # c
    /\ \A i \in DOMAIN reg[n].fps : reg[n].fps[i] # Fp(c)
    /\ \A k \in DOMAIN chan[n] : chan[n][k].type \in {"place", "commit"} => chan[n][k].c # c

-----------------------------------------------------------------------------
(***************************************************************************)
(* Placing objects.                                                        *)
(***************************************************************************)

\* Mutant of placementId: the peer announces its bare counter.
bareTempId(n, o) ==
  IF n = Peer THEN nextTempId
  ELSE IF hasObject(reg[n], o) THEN reg[n].byPtr[o] ELSE reg[n].nextId

\* The id under which client n announces o.
placementId(n, o) ==
  IF n = Peer THEN canonicalPeerObjectId(Peer, nextTempId)
  ELSE IF hasObject(reg[n], o) THEN reg[n].byPtr[o] ELSE reg[n].nextId

\* A placement that could not be sent leaves the object unregistered.
afterPlacement(n, o) ==
  LET r == IF n = Host THEN registerObject(reg[n], o)
                       ELSE bindObject(reg[n], placementId(n, o), o)
  IN IF link[n] THEN r ELSE removeByObject(r, o)

refreshed(r, o, c) == updateFingerprint(r, findNetworkId(r, o), Fp(c))

\* createObject and its hook.
LocalPlace(n, o, c) ==
  /\ Acts(n, "place") /\ IdsLeft(n) > Cardinality(Unsynced(n))
  /\ o \in Heap[n] \ Live(n) /\ FreshLook(c)
  /\ obj' = [obj EXCEPT ![n] = With(@, o, c)]
  /\ IF conn[n] /\ hasPermission(n, "canEdit")
     THEN /\ reg' = [reg EXCEPT ![n] = refreshed(afterPlacement(n, o), o, c)]
          /\ nextTempId' = IF n = Peer THEN nextTempId + 1 ELSE nextTempId
          /\ base' = IF link[n] THEN [base EXCEPT ![n] = Without(@, {o})] ELSE base
          /\ Post(n, <<[type |-> "place", id |-> placementId(n, o), c |-> c]>>)
     ELSE /\ reg' = [reg EXCEPT ![n] = refreshed(@, o, c)]
          /\ UNCHANGED <<nextTempId, base, chan>>
  /\ UNCHANGED <<sel, held, locks, snap, session>>

\* The editor makes an object without going through the hook (paste, undo).
GdCreate(n, o, c) ==
  /\ Acts(n, "scan") /\ IdsLeft(n) > Cardinality(Unsynced(n))
  /\ o \in Heap[n] \ Live(n) /\ FreshLook(c)
  /\ obj' = [obj EXCEPT ![n] = With(@, o, c)]
  /\ UNCHANGED <<sel, reg, base, held, locks, nextTempId, chan, snap, session>>

\* The k-th of the objects of S gets the number first + k - 1, in any order.
Numberings(S, first) ==
  {f \in [S -> first..(first + Cardinality(S) - 1)] : \A o, p \in S : f[o] = f[p] => o = p}

\* Mutant of toDiscover: the scan looks only for changes of the baseline.
discoversChanges(n) == {o \in Unsynced(n) : o \in DOMAIN base[n] /\ base[n][o] # obj[n][o]}

\* discoverUnsyncedObjects, every 0.15 s: every object that has no id and does
\* not look as it did at priming is placed.
toDiscover(n) ==
  {o \in Unsynced(n) : o \notin DOMAIN base[n] \/ base[n][o] # obj[n][o]}

Discover(n) ==
  /\ "scan" \in Ops[n] /\ conn[n]
  /\ toDiscover(n) # {} \/ \E o \in Live(n) : hasObject(reg[n], o) /\ o \in DOMAIN base[n]
  /\ base' = [base EXCEPT ![n] =
                Without(@, toDiscover(n) \cup {o \in Live(n) : hasObject(reg[n], o)})]
  /\ IF hasPermission(n, "canEdit")
     THEN LET count == Cardinality(toDiscover(n))
              first == IF n = Host THEN reg[Host].nextId
                       ELSE canonicalPeerObjectId(Peer, nextTempId)
          IN /\ IdsLeft(n) >= count
             /\ \E f \in Numberings(toDiscover(n), first) :
                  LET objectOf(i) == CHOOSE o \in toDiscover(n) : f[o] = i
                      r == IF link[n] THEN bindAll(reg[n], f) ELSE reg[n]
                  IN /\ reg' = [reg EXCEPT ![n] =
                                  IF n = Host THEN [r EXCEPT !.nextId = @ + count] ELSE r]
                     /\ Post(n, [k \in 1..count |->
                                  [type |-> "place", id |-> first + k - 1,
                                   c |-> obj[n][objectOf(first + k - 1)]]])
             /\ nextTempId' = IF n = Peer THEN nextTempId + count ELSE nextTempId
     ELSE UNCHANGED <<reg, nextTempId, chan>>
  /\ UNCHANGED <<obj, sel, held, locks, snap, session>>

-----------------------------------------------------------------------------
(***************************************************************************)
(* Editing, deleting and selecting objects.                                *)
(***************************************************************************)

\* sendCommitEdit: nothing when the id is gone.
commitOf(r, id, os) ==
  IF hasNetworkId(r, id) /\ r.byId[id] \in DOMAIN os
  THEN <<[type |-> "commit", id |-> id, c |-> os[r.byId[id]]]>>
  ELSE <<>>

\* Mutant of repaired: a replaced object is not bound again.
repairsNothing(r, o, o2, c) == IF hasObject(r, o2) THEN refreshed(r, o2, c) ELSE r

\* scaleObjects, transformObjects, rotateObjects: the editor may replace the
\* object o by a new one, o2, which repairTransformedObjects binds to o's id.
repaired(r, o, o2, c) ==
  IF hasObject(r, o2) THEN refreshed(r, o2, c)
  ELSE IF hasObject(r, o) THEN refreshed(bindObject(r, r.byPtr[o], o2), o2, c)
  ELSE r

LocalTransform(n, o, o2, c) ==
  /\ Acts(n, IF o = o2 THEN "edit" ELSE "replace")
  /\ o \in Live(n) /\ o2 \in (Heap[n] \ Live(n)) \cup {o} /\ FreshLook(c)
  /\ obj' = [obj EXCEPT ![n] = With(Without(@, {o}), o2, c)]
  /\ sel' = [sel EXCEPT ![n] = IF o \in @ THEN (@ \ {o}) \cup {o2} ELSE @]
  /\ LET r == repaired(reg[n], o, o2, c)
     IN /\ reg' = [reg EXCEPT ![n] = recovered(r, o2, Fp(c))]
        /\ IF conn[n] /\ hasPermission(n, "canEdit")
           THEN Post(n, commitOf(reg'[n], recoveredId(r, o2, Fp(c)), obj'[n]))
           ELSE UNCHANGED chan
  /\ UNCHANGED <<base, held, locks, nextTempId, snap, session>>

\* A drag: no hook sees it.
LocalMove(n, o, c) ==
  /\ Acts(n, "move")
  /\ o \in sel[n] /\ FreshLook(c)
  /\ obj' = [obj EXCEPT ![n][o] = c]
  /\ UNCHANGED <<sel, reg, base, held, locks, nextTempId, chan, snap, session>>

\* removeObject and its hook.  A user without the permission deletes locally.
LocalDelete(n, o) ==
  /\ Acts(n, "delete")
  /\ o \in Live(n)
  /\ obj' = [obj EXCEPT ![n] = Without(@, {o})]
  /\ sel' = [sel EXCEPT ![n] = @ \ {o}]
  /\ LET id == recoveredId(reg[n], o, Fp(obj[n][o]))
         r == recovered(reg[n], o, Fp(obj[n][o]))
     IN IF conn[n] /\ id # INVALID_OBJECT_ID /\ hasPermission(n, "canDelete")
        THEN /\ reg' = [reg EXCEPT ![n] = removeByNetworkId(r, id)]
             /\ base' = [base EXCEPT ![n] = Without(@, {o})]
             /\ Post(n, <<[type |-> "delete", id |-> id]>>)
        ELSE /\ reg' = [reg EXCEPT ![n] = r]
             /\ UNCHANGED <<base, chan>>
  /\ UNCHANGED <<held, locks, nextTempId, snap, session>>

\* The ids of the selected objects S (at most one), and the registry after the
\* hooks looked them up.
The(S) == CHOOSE x \in S : TRUE
idsOf(n, r, S) ==
  IF S = {} THEN {} ELSE {recoveredId(r, The(S), Fp(obj[n][The(S)]))} \ {INVALID_OBJECT_ID}
lookedUp(n, r, S) == IF S = {} THEN r ELSE recovered(r, The(S), Fp(obj[n][The(S)]))

\* Mutant of release: no unlock.
releasesNoLock(n, r, ids) ==
  IF ids # {} /\ (n = Host \/ ids \subseteq held[n]) THEN commitOf(r, The(ids), obj[n]) ELSE <<>>

\* onLocalObjectDeselected sends the final content and the unlock, a peer only
\* if it holds the lock.
release(n, r, ids) ==
  IF ids # {} /\ (n = Host \/ ids \subseteq held[n])
  THEN commitOf(r, The(ids), obj[n]) \o <<[type |-> "unlock", id |-> The(ids)]>>
  ELSE <<>>

\* selectObject releases the object it replaces, selectObjects (again) the whole
\* selection; then the new object is locked.
SelectObject(n, o, dropped) ==
  /\ Acts(n, "select")
  /\ o \in Live(n) /\ dropped \in {sel[n], sel[n] \ {o}}
  /\ sel' = [sel EXCEPT ![n] = {o}]
  /\ LET before == lookedUp(n, reg[n], dropped)
         old == idsOf(n, reg[n], dropped)
         new == idsOf(n, before, {o})
         lock == IF hasPermission(n, "canLock") THEN new ELSE {}
     IN /\ reg' = [reg EXCEPT ![n] = lookedUp(n, before, {o})]
        /\ IF conn[n]
           THEN /\ held' = [held EXCEPT ![n] = (@ \ old) \cup IF n = Host THEN lock ELSE {}]
                /\ locks' = IF n = Host
                            THEN [i \in (DOMAIN locks \ old) \cup lock |->
                                    IF i \in lock THEN Host ELSE locks[i]]
                            ELSE locks
                /\ Post(n, release(n, before, old) \o
                           IF n = Peer /\ lock # {}
                           THEN <<[type |-> "lock_request", id |-> The(lock)]>>
                           ELSE <<>>)
           ELSE UNCHANGED <<held, locks, chan>>
  /\ UNCHANGED <<obj, base, nextTempId, snap, session>>

DeselectAll(n) ==
  /\ Acts(n, "select")
  /\ sel[n] # {}
  /\ sel' = [sel EXCEPT ![n] = {}]
  /\ LET old == idsOf(n, reg[n], sel[n])
         r == lookedUp(n, reg[n], sel[n])
     IN /\ reg' = [reg EXCEPT ![n] = r]
        /\ IF conn[n]
           THEN /\ held' = [held EXCEPT ![n] = @ \ old]
                /\ locks' = IF n = Host THEN Without(locks, old) ELSE locks
                /\ Post(n, release(n, r, old))
           ELSE UNCHANGED <<held, locks, chan>>
  /\ UNCHANGED <<obj, base, nextTempId, snap, session>>

-----------------------------------------------------------------------------
(***************************************************************************)
(* The session.                                                            *)
(***************************************************************************)

\* The hello exchange and the priming of the baseline in the same tick: until
\* then neither client sends anything about objects.
Connect ==
  /\ ~conn[Host] /\ ~conn[Peer] /\ sessions < MaxSessions
  /\ conn' = [n \in Nodes |-> TRUE] /\ link' = [n \in Nodes |-> TRUE]
  /\ role' = "Builder" /\ myRole' = "Builder"
  /\ base' = obj
  /\ sessions' = sessions + 1
  /\ UNCHANGED <<obj, sel, reg, held, locks, nextTempId, chan, snap>>

\* disconnect(): the counters and a half-received snapshot survive it.
disconnect(n) ==
  /\ conn' = [conn EXCEPT ![n] = FALSE]
  /\ link' = [link EXCEPT ![n] = FALSE]
  /\ reg' = [reg EXCEPT ![n] = clear(@)]
  /\ base' = [base EXCEPT ![n] = Empty]
  /\ held' = [held EXCEPT ![n] = {}]
  /\ locks' = IF n = Host THEN Empty ELSE locks
  /\ chan' = Sent([chan EXCEPT ![n] = <<>>], n, <<[type |-> "eof"]>>)
  /\ myRole' = IF n = Peer THEN "Owner" ELSE myRole
  /\ UNCHANGED <<obj, sel, role, nextTempId, snap, sessions>>

Disconnect(n) == "disconnect" \in Ops[n] /\ conn[n] /\ disconnect(n)

HandleEof(n) == Receives(n, "eof") /\ disconnect(n)

\* The connection breaks: what the network had not delivered is lost, and both
\* receive threads report the end.
LinkDown ==
  /\ \A n \in Nodes : "disconnect" \in Ops[n] /\ conn[n] /\ link[n]
  /\ link' = [n \in Nodes |-> FALSE]
  /\ \E kept \in [Nodes -> 0..(Len(chan[Host]) + Len(chan[Peer]))] :
       /\ \A n \in Nodes : kept[n] <= Len(chan[n])
       /\ chan' = [n \in Nodes |-> Append(SubSeq(chan[n], 1, kept[n]), [type |-> "eof"])]
  /\ UNCHANGED <<obj, sel, reg, base, held, locks, role, myRole, nextTempId, conn, snap, sessions>>

\* Mutant of setPeerRole: the message is built before the record changes.
announcesOldRole(r) ==
  /\ Acts(Host, "role") /\ conn[Host]
  /\ role' = r
  /\ Post(Host, <<[type |-> "permission_update", role |-> role]>>)
  /\ UNCHANGED <<obj, sel, reg, base, held, locks, myRole, nextTempId, conn, link, snap, sessions>>

setPeerRole(r) ==
  /\ Acts(Host, "role") /\ conn[Host]
  /\ role' = r
  /\ Post(Host, <<[type |-> "permission_update", role |-> r]>>)
  /\ UNCHANGED <<obj, sel, reg, base, held, locks, myRole, nextTempId, conn, link, snap, sessions>>

HandlePermissionUpdate ==
  /\ Receives(Peer, "permission_update")
  /\ myRole' = Msg(Peer).role
  /\ Consume(Peer, <<>>)
  /\ UNCHANGED <<obj, sel, reg, base, held, locks, role, nextTempId, conn, link, snap, sessions>>

-----------------------------------------------------------------------------
(***************************************************************************)
(* The handlers of the messages about objects and locks.  A handler sets   *)
(* m_applyingRemote around its calls into the editor; what the hooks those *)
(* calls trigger then call of the SessionManager tests it first and does   *)
(* nothing: no message of a hook is part of a handler here.                *)
(***************************************************************************)

\* The host takes an id it does not know for a provisional id of the peer.
namedId(n, id) ==
  IF n = Host /\ ~hasNetworkId(reg[Host], id) THEN canonicalPeerObjectId(Peer, id) ELSE id

\* The editor object of an id; a stale entry names none.
objectsOf(n, id) ==
  {o \in Live(n) : hasNetworkId(reg[n], id) /\ reg[n].byId[id] = o}

HandlePlaceObject(n) ==
  /\ Receives(n, "place")
  /\ IF peerHasPermission(n, "canEdit")
     THEN LET id == IF n = Host THEN canonicalPeerObjectId(Peer, Msg(n).id) ELSE Msg(n).id
          IN \E o \in Heap[n] \ Live(n) :
               /\ obj' = [obj EXCEPT ![n] = With(@, o, Msg(n).c)]
               /\ reg' = [reg EXCEPT ![n] = bindObject(@, id, o)]
     ELSE UNCHANGED <<obj, reg>>
  /\ Consume(n, <<>>)
  /\ UNCHANGED <<sel, base, held, locks, nextTempId, snap, session>>

HandleDeleteObject(n) ==
  /\ Receives(n, "delete")
  /\ IF peerHasPermission(n, "canDelete")
     THEN LET id == namedId(n, Msg(n).id)
          IN /\ obj' = [obj EXCEPT ![n] = Without(@, objectsOf(n, id))]
             /\ sel' = [sel EXCEPT ![n] = @ \ objectsOf(n, id)]
             /\ reg' = [reg EXCEPT ![n] = removeByNetworkId(@, id)]
             /\ held' = [held EXCEPT ![n] = @ \ {id}]
             /\ locks' = IF n = Host THEN Without(locks, {id}) ELSE locks
     ELSE UNCHANGED <<obj, sel, reg, held, locks>>
  /\ Consume(n, <<>>)
  /\ UNCHANGED <<base, nextTempId, snap, session>>

HandleLockRequest ==
  /\ Receives(Host, "lock_request")
  /\ LET id == namedId(Host, Msg(Host).id)
     IN IF ~peerHasPermission(Host, "canLock")
        THEN /\ Consume(Host, <<[type |-> "lock_denied", id |-> INVALID_OBJECT_ID]>>)
             /\ UNCHANGED locks
        ELSE IF id \in DOMAIN locks /\ locks[id] # Peer
        THEN /\ Consume(Host, <<[type |-> "lock_denied", id |-> id]>>)
             /\ UNCHANGED locks
        ELSE /\ Consume(Host, <<[type |-> "lock_granted", id |-> id]>>)
             /\ locks' = With(locks, id, Peer)
  /\ UNCHANGED <<obj, sel, reg, base, held, nextTempId, snap, session>>

HandleLockReply ==
  /\ \E t \in {"lock_granted", "lock_denied"} : Receives(Peer, t)
  /\ LET localId == IF Msg(Peer).id \div IdBase = Peer /\ ~hasNetworkId(reg[Peer], Msg(Peer).id)
                    THEN Msg(Peer).id % IdBase ELSE Msg(Peer).id
     IN held' = [held EXCEPT ![Peer] =
                   IF Msg(Peer).id = INVALID_OBJECT_ID THEN @
                   ELSE IF Msg(Peer).type = "lock_granted" THEN @ \cup {localId} ELSE @ \ {localId}]
  /\ Consume(Peer, <<>>)
  /\ UNCHANGED <<obj, sel, reg, base, locks, nextTempId, snap, session>>

\* The host's alias as in the other handlers; the peer tries the low bits of an
\* id of its own that it no longer has.
editedId(n, id) ==
  IF n = Peer /\ id \div IdBase = Peer /\ ~hasNetworkId(reg[Peer], id)
     /\ hasNetworkId(reg[Peer], id % IdBase)
  THEN id % IdBase
  ELSE namedId(n, id)

HandleCommitEdit(n) ==
  /\ Receives(n, "commit")
  /\ obj' = IF peerHasPermission(n, "canEdit")
            THEN [obj EXCEPT ![n] = [o \in DOMAIN @ |->
                    IF o \in objectsOf(n, editedId(n, Msg(n).id)) THEN Msg(n).c ELSE @[o]]]
            ELSE obj
  /\ Consume(n, <<>>)
  /\ UNCHANGED <<sel, reg, base, held, locks, nextTempId, snap, session>>

\* No permission and no ownership is asked for.
HandleUnlockObject(n) ==
  /\ Receives(n, "unlock")
  /\ held' = [held EXCEPT ![n] = @ \ {namedId(n, Msg(n).id)}]
  /\ locks' = IF n = Host THEN Without(locks, {namedId(n, Msg(n).id)}) ELSE locks
  /\ Consume(n, <<>>)
  /\ UNCHANGED <<obj, sel, reg, base, nextTempId, snap, session>>

-----------------------------------------------------------------------------
(***************************************************************************)
(* Resynchronisation.                                                      *)
(***************************************************************************)

\* sendStateSnapshot: every object of the host gets an id, entries of objects
\* that are gone are dropped, and the rest travels in chunks of ChunkSize.
chunksOf(entries) ==
  LET rank(e) == Cardinality({d \in entries : d.id < e.id})
      count == Cardinality(entries)
      total == IF count = 0 THEN 1 ELSE 1 + (count - 1) \div ChunkSize
  IN [k \in 1..total |->
        [type |-> "chunk", index |-> k - 1, total |-> total,
         entries |-> {e \in entries : rank(e) \div ChunkSize = k - 1}]]

\* Mutant of sendStateSnapshot: objects without an id are left out.
sendsKnownOnly(ch) ==
  /\ chan' = Sent(ch, Host, chunksOf(
                 {[id |-> i, c |-> Shared(Host)[i]] : i \in DOMAIN Shared(Host)}))
  /\ UNCHANGED <<obj, sel, reg, base, held, locks, nextTempId, snap, session>>

sendStateSnapshot(ch) ==
  /\ IdsLeft(Host) >= Cardinality(Unsynced(Host))
  /\ \E f \in Numberings(Unsynced(Host), reg[Host].nextId) :
       LET r == bindAll(reg[Host], f)
           live == retain(r, {i \in DOMAIN r.byId : r.byId[i] \in Live(Host)})
       IN /\ reg' = [reg EXCEPT ![Host] =
                       [live EXCEPT !.nextId = @ + Cardinality(Unsynced(Host))]]
          /\ chan' = Sent(ch, Host, chunksOf(
                       {[id |-> i, c |-> obj[Host][live.byId[i]]] : i \in DOMAIN live.byId}))
  /\ UNCHANGED <<obj, sel, base, held, locks, nextTempId, snap, session>>

RequestStateResync(n) ==
  /\ Acts(n, "resync") /\ conn[n]
  /\ IF n = Host
     THEN sendStateSnapshot(chan)
     ELSE /\ Post(Peer, <<[type |-> "resync"]>>)
          /\ UNCHANGED <<obj, sel, reg, base, held, locks, nextTempId, snap, session>>

HandleStateResyncRequest ==
  /\ Receives(Host, "resync")
  /\ sendStateSnapshot([chan EXCEPT ![Host] = Tail(@)])

\* applyStateSnapshot, first half: drop the ids that are not in the snapshot,
\* then remove the objects without an id.  Their removal hook takes an object
\* that looks like a registered one for it, and the id goes with it (thief).
applyStateSnapshot(entries) ==
  LET ids == {e.id : e \in entries}
      contentOf(i) == (CHOOSE e \in entries : e.id = i).c
      kept == retain(reg[Peer], ids)
      gone == {o \in Live(Peer) : findNetworkId(reg[Peer], o) \notin ids}
      claims(o) == findLikelyNetworkId(kept, Fp(obj[Peer][o]))
  IN \E thief \in SUBSET Unsynced(Peer) :
       /\ \A o \in thief : claims(o) # INVALID_OBJECT_ID
       /\ \A o \in Unsynced(Peer) : claims(o) # INVALID_OBJECT_ID =>
            Cardinality({p \in thief : claims(p) = claims(o)}) = 1
       /\ LET r == bindAll(kept, [o \in thief |-> claims(o)])
              missing == ids \ DOMAIN r.byId
          IN \E made \in [missing -> Heap[Peer] \ (Live(Peer) \ gone)] :
               /\ \A i, j \in missing : made[i] = made[j] => i = j
               /\ \A i \in missing : ~hasObject(r, made[i])
               /\ LET new == {made[i] : i \in missing}
                      idFor == [o \in new |-> CHOOSE i \in missing : made[i] = o]
                      final == bindAll(r, idFor)
                  IN /\ reg' = [reg EXCEPT ![Peer] = final]
                     /\ obj' = [obj EXCEPT ![Peer] =
                                  [o \in (Live(Peer) \ gone) \cup new |->
                                     IF hasObject(final, o) THEN contentOf(final.byPtr[o]) ELSE @[o]]]
       /\ sel' = [sel EXCEPT ![Peer] = @ \ gone]
       /\ base' = [base EXCEPT ![Peer] = Without(@, Unsynced(Peer))]
       /\ held' = [held EXCEPT ![Peer] = {}]

\* Mutant of collected: the first chunk does not start over.
collectsOnTop(m) ==
  [total |-> m.total, got |-> snap.got + 1, entries |-> snap.entries \cup m.entries]

\* A chunk without objects does not survive the wire: its payload ends in '|',
\* split drops the empty last field and decodeSnapshotChunk rejects the rest.
collected(m) ==
  IF m.index = 0
  THEN [total |-> m.total, got |-> 1, entries |-> m.entries]
  ELSE [snap EXCEPT !.got = @ + 1, !.entries = @ \cup m.entries]

HandleStateSnapshot ==
  /\ Receives(Peer, "chunk")
  /\ IF Msg(Peer).entries = {}
     THEN UNCHANGED <<obj, sel, reg, base, held, snap>>
     ELSE IF collected(Msg(Peer)).got = collected(Msg(Peer)).total
     THEN applyStateSnapshot(collected(Msg(Peer)).entries) /\ snap' = NoSnapshot
     ELSE snap' = collected(Msg(Peer)) /\ UNCHANGED <<obj, sel, reg, base, held>>
  /\ Consume(Peer, <<>>)
  /\ UNCHANGED <<locks, nextTempId, session>>

-----------------------------------------------------------------------------
User(n) ==
  \/ \E o \in Heap[n], c \in Contents : LocalPlace(n, o, c)
  \/ \E o \in Heap[n], c \in Contents : GdCreate(n, o, c)
  \/ \E o, o2 \in Heap[n], c \in Contents : LocalTransform(n, o, o2, c)
  \/ \E o \in Heap[n], c \in Contents : LocalMove(n, o, c)
  \/ \E o \in Heap[n] : LocalDelete(n, o)
  \/ \E o \in Heap[n], dropped \in SUBSET sel[n] : SelectObject(n, o, dropped)
  \/ DeselectAll(n)
  \/ RequestStateResync(n)
  \/ Disconnect(n)
  \/ n = Host /\ \E r \in GrantedRoles : setPeerRole(r)

Handle(n) ==
  \/ HandlePlaceObject(n)
  \/ HandleDeleteObject(n)
  \/ HandleCommitEdit(n)
  \/ HandleUnlockObject(n)
  \/ HandleEof(n)
  \/ n = Host /\ (HandleLockRequest \/ HandleStateResyncRequest)
  \/ n = Peer /\ (HandleLockReply \/ HandlePermissionUpdate \/ HandleStateSnapshot)

Next ==
  \/ Connect
  \/ LinkDown
  \/ \E n \in Nodes : User(n) \/ Discover(n) \/ Handle(n)

Spec == Init /\ [][Next]_vars

-----------------------------------------------------------------------------
(***************************************************************************)
(* Every variable holds what its declaration in SessionManager.hpp says;   *)
(* the queues hold the message types of MessageTypes.hpp that concern      *)
(* objects, locks, roles and resynchronisation.                            *)
(***************************************************************************)
TypeOK ==
  /\ \A n \in Nodes :
       /\ IsMap(obj[n], Heap[n], Contents) /\ IsMap(base[n], Heap[n], Contents)
       /\ IsRegistry(reg[n])
       /\ sel[n] \subseteq Live(n) /\ Cardinality(sel[n]) <= 1
       /\ held[n] \subseteq NetIds
  /\ IsMap(locks, NetIds, Nodes)
  /\ role \in Roles /\ myRole \in Roles
  /\ conn \in [Nodes -> BOOLEAN] /\ link \in [Nodes -> BOOLEAN]

Quiet == conn[Host] /\ conn[Peer] /\ chan[Host] = <<>> /\ chan[Peer] = <<>>

(***************************************************************************)
(* The registries of both clients stay inverse maps through every mix of   *)
(* hooks, remote operations, recoveries and snapshots (ObjectRegistry is   *)
(* what every handler relies on to find the object an id names).           *)
(***************************************************************************)
RegistriesInverse == \A n \in Nodes : IsInverse(reg[n])

\* The ids the two counters have passed.
HandedOut ==
  (1..(reg[Host].nextId - 1)) \cup {IdBase + k : k \in 1..(nextTempId - 1)}

IdsIn(m) ==
  CASE m.type \in {"place", "delete", "commit", "lock_request", "unlock"} -> {m.id}
    [] m.type = "chunk" -> {e.id : e \in m.entries}
    [] OTHER -> {}

(***************************************************************************)
(* No id is invented but by a late lock request: whatever a registry, a    *)
(* collected snapshot, the host's m_heldLocks or a message of an object's  *)
(* user names was handed out by m_nextId or m_nextTempId before.  An id    *)
(* made up would later be given to an object that other messages do not    *)
(* mean.  handleLockRequest does make one up when the host has deleted the *)
(* object: it locks and grants what canonicalPeerObjectId makes of its id. *)
(* Only the locks, their answers and the peer's m_heldLocks may name such  *)
(* an id, or what handleLockReply cuts off it.                             *)
(***************************************************************************)
Provisional == {canonicalPeerObjectId(Peer, i) : i \in HandedOut}
LockIds == HandedOut \cup Provisional
LockIdsIn(m) ==
  IF m.type \in {"lock_granted", "lock_denied"} THEN {m.id} \ {INVALID_OBJECT_ID} ELSE {}

IdsHandedOut ==
  /\ \A n \in Nodes :
       /\ DOMAIN reg[n].byId \subseteq HandedOut
       /\ \A k \in DOMAIN chan[n] :
            IdsIn(chan[n][k]) \subseteq HandedOut /\ LockIdsIn(chan[n][k]) \subseteq LockIds
  /\ {e.id : e \in snap.entries} \subseteq HandedOut
  /\ DOMAIN locks \subseteq LockIds /\ held[Host] \subseteq HandedOut
  /\ held[Peer] \subseteq LockIds \cup {i % IdBase : i \in LockIds}

(***************************************************************************)
(* While every role allows deleting and all objects look different, no id  *)
(* of a connected client names an object that is gone: the handlers use    *)
(* the pointer they find without asking whether it is still alive.         *)
(***************************************************************************)
NoDangling ==
  \A n \in Nodes : conn[n] => \A i \in DOMAIN reg[n].byId : reg[n].byId[i] \in Live(n)

(***************************************************************************)
(* When nothing is in flight the two clients agree on every shared object. *)
(***************************************************************************)
Converged == Quiet => Shared(Host) = Shared(Peer)

(***************************************************************************)
(* An unselected object is the same on both sides once nothing is in       *)
(* flight: a drag is sent when the selection is given up.                  *)
(***************************************************************************)
ConvergedUnselected ==
  Quiet => \A i \in DOMAIN Shared(Host) \cup DOMAIN Shared(Peer) :
    \/ \E n \in Nodes : hasNetworkId(reg[n], i) /\ reg[n].byId[i] \in sel[n]
    \/ /\ i \in DOMAIN Shared(Host) \cap DOMAIN Shared(Peer)
       /\ Shared(Host)[i] = Shared(Peer)[i]

(***************************************************************************)
(* The host keeps no lock for a peer that does not know it has it and so   *)
(* will never give it up (deselecting sends the unlock only for m_heldLocks).*)
(***************************************************************************)
NoLeakedLock == Quiet => \A i \in DOMAIN locks : locks[i] = Peer => i \in held[Peer]

(***************************************************************************)
(* The roles agree unless a change is on its way, across reconnections.    *)
(***************************************************************************)
RolesAgree ==
  conn[Host] /\ conn[Peer] /\ (\A k \in DOMAIN chan[Peer] :
      chan[Peer][k].type \notin {"permission_update", "eof"})
    => role = myRole

(***************************************************************************)
(* From the moment the host makes the peer a viewer, nothing the peer has  *)
(* sent or sends changes the host's level or takes a lock.                 *)
(***************************************************************************)
ViewerChangesNothing ==
  [][role = "Viewer" /\ Handle(Host) =>
       obj'[Host] = obj[Host] /\ DOMAIN locks' \subseteq DOMAIN locks]_vars

(***************************************************************************)
(* After the last chunk the peer has as many objects as the chunks hold,   *)
(* each under its id and those of this chunk as they are in it, and no     *)
(* other object is left, half-received snapshots of earlier sessions       *)
(* notwithstanding.  Two things can spoil it: an id whose object is gone   *)
(* (a viewer's deletion leaves one) and an object without an id that looks *)
(* like a registered one.                                                  *)
(***************************************************************************)
LastChunk ==
  /\ Receives(Peer, "chunk") /\ Msg(Peer).entries # {}
  /\ Msg(Peer).index = Msg(Peer).total - 1
SoundPeer ==
  /\ \A i \in DOMAIN reg[Peer].byId : reg[Peer].byId[i] \in Live(Peer)
  /\ \A o \in Unsynced(Peer), i \in DOMAIN reg[Peer].fps : reg[Peer].fps[i] # Fp(obj[Peer][o])
SnapshotExact ==
  [][LastChunk /\ SoundPeer /\ Handle(Peer) =>
       /\ Unsynced(Peer)' = {}
       /\ Cardinality(DOMAIN reg'[Peer].byId) - (Msg(Peer).total - 1) * ChunkSize \in 1..ChunkSize
       /\ \A e \in Msg(Peer).entries :
            e.id \in DOMAIN Shared(Peer)' /\ Shared(Peer)'[e.id] = e.c]_vars

(***************************************************************************)
(* A resync brings everything across: when the last chunk is applied and   *)
(* nothing else is on its way, the host has no object that the session     *)
(* does not know, and the peer's level is the host's, also where the host  *)
(* built off line, or could not send a placement before the connection     *)
(* broke, and the next session's baseline took the object for known.       *)
(***************************************************************************)
ResyncCopiesAll ==
  [][LastChunk /\ SoundPeer /\ Handle(Peer) /\ Quiet' =>
       Unsynced(Host) = {} /\ Unsynced(Peer)' = {} /\ Shared(Peer)' = Shared(Host)]_vars

-----------------------------------------------------------------------------
(***************************************************************************)
(* What the repository says of the session; the runs named Claim... show   *)
(* where the code does something else.                                     *)
(***************************************************************************)

(***************************************************************************)
(* "Peer requests deletion of a NetworkObjectId" (PROTOCOL.md): no other   *)
(* id's object goes with it.                                               *)
(***************************************************************************)
DeletesNamedObject ==
  [][Receives(Host, "delete") /\ Handle(Host) =>
       DOMAIN reg[Host].byId \ {Msg(Host).id} \subseteq DOMAIN reg'[Host].byId]_vars

(***************************************************************************)
(* "Request exclusive edit lock on a NetworkObjectId" (PROTOCOL.md): never *)
(* both clients hold one with nothing in flight.                           *)
(***************************************************************************)
ExclusiveLock == Quiet => held[Host] \cap held[Peer] = {}

(***************************************************************************)
(* "Full serialised object list. Peer rebuilds editor state from this."    *)
(* (PROTOCOL.md): after a snapshot of one chunk the peer has as many       *)
(* objects as the snapshot.                                                *)
(***************************************************************************)
RebuildsFromSnapshot ==
  [][Receives(Peer, "chunk") /\ Msg(Peer).total = 1 /\ Handle(Peer) =>
       Cardinality(DOMAIN obj'[Peer]) = Cardinality(Msg(Peer).entries)]_vars
=============================================================================
