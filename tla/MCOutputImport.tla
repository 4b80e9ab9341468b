---------------------------- MODULE MCOutputImport ----------------------------
(* Two paths of the closure, one or both of them to copy, which may share a    *)
(* NAR of two chunks or have one each; one metadata permit, no, one or two NAR *)
(* permits; batches of one path, so that Nix runs twice, and a helper that     *)
(* takes no more than one path.                                                *)
EXTENDS OutputImport

CONSTANTS p, q, m, n
=============================================================================
