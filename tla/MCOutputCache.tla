---------------------------- MODULE MCOutputCache ----------------------------
(* Two paths, one of which refers to the other, so that the copy of one also *)
(* writes the entry of the other; a prewarm task and handlers for both.      *)
EXTENDS OutputCache, TLC

CONSTANTS app, lib, k1, k2, warmLib, getApp, getLib, getLib2

MCRefs == app :> {app, lib} @@ lib :> {lib}
MCConnOf == [t \in Tasks |-> IF t = getLib2 THEN k2 ELSE k1]
MCPathOf == [t \in Tasks |-> IF t = getApp THEN app ELSE lib]
=============================================================================
