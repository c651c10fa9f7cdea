--------------------------- MODULE MCMetaWatcher ----------------------------
(* Small instances of MetaWatcher. *)
EXTENDS MetaWatcher
=============================================================================
