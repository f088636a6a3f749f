----------------------------- MODULE MCLiveSync -----------------------------
(* The session with one writer, for TLC. *)
EXTENDS LiveSync, MCEditorSync

OneWrites == Does(Editing \cup {"select"}, Editing \cup {"select"})
=============================================================================
