---------------------------- MODULE MCEditorSync ----------------------------
(* The session with three addresses per client, for TLC. *)
EXTENDS EditorSync, TLC

CONSTANTS h1, h2, h3, p1, p2, p3

Heap2 == (Host :> {h1, h2}) @@ (Peer :> {p1, p2})
Heap3 == (Host :> {h1, h2, h3}) @@ (Peer :> {p1, p2, p3})
AllPtrs == {h1, h2, h3, p1, p2, p3}

MCPrints == {Fp(c) : c \in Contents}

\* Levels.
NoObjects == {Empty}
UpToOneObject ==
  {Empty} \cup {With(Empty, o, c) : o \in {h1, p1}, c \in Contents}

\* The addresses of one client are interchangeable.
MCSymmetry ==
  {f @@ g : f \in Permutations({h1, h2, h3}), g \in Permutations({p1, p2, p3})}

\* Which user does what.
Does(h, p) == (Host :> h) @@ (Peer :> p)
Editing == {"place", "edit", "replace", "delete", "scan"}
BothBuild == Does({"place", "edit", "delete", "scan", "select", "move"}, {"place", "scan"})
Resyncs ==
  Does({"place", "delete", "resync", "disconnect", "offline"}, {"resync", "disconnect"})
AllTogether ==
  Does({"place", "replace", "delete", "select", "resync", "role", "disconnect"},
       {"place", "replace", "delete", "scan", "select"})

\* The runs named Claim...
BothDelete == Does({"place", "delete"}, {"place", "delete"})
BothSelect == Does({"place", "select"}, {"select"})
HostPushes == Does({"place", "resync"}, {"place"})
=============================================================================
