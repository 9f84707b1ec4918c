----------------------------- MODULE MCMetaCache -----------------------------
(* MetaCache on a small instance: the downloads of one path, one at a time. *)
EXTENDS MetaCache
=============================================================================
