---------------------------- MODULE SharedLevel ----------------------------
(***************************************************************************)
(* What live editing promises when one client writes and the other         *)
(* watches: the watcher's copy of the shared objects goes through the      *)
(* writer's changes, all of them, in the order they were made.  Nothing    *)
(* here knows of addresses, registries, locks or scans.                    *)
(***************************************************************************)
EXTENDS Naturals, Sequences

CONSTANTS Ids, Looks   \* of the shared objects

VARIABLES
  level,     \* the writer's shared objects: id -> look
  view,      \* the watcher's
  pending    \* the changes the watcher has not seen

levelVars == <<level, view, pending>>

LevelOps == [type : {"place", "commit"}, id : Ids, c : Looks] \cup [type : {"delete"}, id : Ids]

\* A change to a level.
Effect(l, op) ==
  CASE op.type = "delete" -> [i \in DOMAIN l \ {op.id} |-> l[i]]
    [] op.type = "place" -> [i \in DOMAIN l \cup {op.id} |-> IF i = op.id THEN op.c ELSE l[i]]
    [] op.type = "commit" -> [i \in DOMAIN l |-> IF i = op.id THEN op.c ELSE l[i]]

\* One after the other: the level after the first k changes, for every k.
Effects(l, ops) ==
  LET after[k \in 0..Len(ops)] == IF k = 0 THEN l ELSE Effect(after[k - 1], ops[k])
  IN after[Len(ops)]

LevelInit == level = [i \in {} |-> 0] /\ view = level /\ pending = <<>>

\* One handler of the writer may make several changes, and every one is new:
\* it places an id the level does not have, or touches one that it has.
Write ==
  /\ Len(pending') > Len(pending) /\ SubSeq(pending', 1, Len(pending)) = pending
  /\ LET ops == SubSeq(pending', Len(pending) + 1, Len(pending'))
     IN /\ \A k \in DOMAIN ops : ops[k] \in LevelOps
        /\ \A k \in DOMAIN ops :
             ops[k].type = "place" <=>
               ops[k].id \notin DOMAIN Effects(level, SubSeq(ops, 1, k - 1))
        /\ level' = Effects(level, ops)
  /\ UNCHANGED view

Watch ==
  /\ pending # <<>>
  /\ view' = Effect(view, Head(pending))
  /\ pending' = Tail(pending)
  /\ UNCHANGED level

LevelNext == Write \/ Watch
LevelSpec == LevelInit /\ [][LevelNext]_levelVars
LevelFairSpec == LevelSpec /\ WF_levelVars(Watch)
=============================================================================
