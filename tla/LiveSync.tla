------------------------------ MODULE LiveSync ------------------------------
(***************************************************************************)
(* EditorSync while one client only watches: it implements SharedLevel,    *)
(* whichever client the writer is.                                         *)
(***************************************************************************)
EXTENDS EditorSync

VARIABLE writer   \* the client whose user acts

liveVars == <<vars, writer>>

LiveInit == Init /\ writer \in Nodes

LiveNext ==
  /\ Connect \/ User(writer) \/ \E n \in Nodes : Discover(n) \/ Handle(n)
  /\ UNCHANGED writer

\* The scheduler ticks every frame: the queue drains and the editor is scanned.
LiveSpec ==
  /\ LiveInit /\ [][LiveNext]_liveVars
  /\ \A n \in Nodes : WF_vars(Handle(n)) /\ WF_vars(Discover(n))

LevelMsg(m) == m.type \in {"place", "delete", "commit"}

\* Those of the messages of q, in their order.
Changes(q) ==
  LET among[k \in 0..Len(q)] ==
        IF k = 0 THEN <<>>
        ELSE IF LevelMsg(q[k]) THEN Append(among[k - 1], q[k])
        ELSE among[k - 1]
  IN among[Len(q)]

OneWriter == INSTANCE SharedLevel WITH
  Ids <- 1..(2 * IdBase),
  Looks <- Contents,
  level <- Shared(writer),
  view <- Shared(Other(writer)),
  pending <- Changes(chan[Other(writer)])

(***************************************************************************)
(* The watcher's level is the writer's level of some moments ago: no       *)
(* change is lost, repeated or applied to another object, whatever the     *)
(* writer's hooks, scans, replaced pointers and lock traffic do            *)
(* ("Both players place blocks that appear on each other's screens",       *)
(* MILESTONES.md), and every change arrives.                               *)
(***************************************************************************)
WatcherCatchesUp == OneWriter!LevelFairSpec

(***************************************************************************)
(* An object that the editor made without the hook (paste, undo) does not  *)
(* stay unknown to the session: the scan registers it unless it is deleted *)
(* first.                                                                  *)
(***************************************************************************)
ScanFinds ==
  \A o \in Ptrs :
    conn[writer] /\ o \in Unsynced(writer) \ DOMAIN base[writer] ~> o \notin Unsynced(writer)
=============================================================================
