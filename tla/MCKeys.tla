-------------------------------- MODULE MCKeys --------------------------------
(* Three processes, each of any kind: three clients, so that one can remove    *)
(* the lock that another made after a third; a client and two starts of the    *)
(* server; `key show` between two others.                                      *)
EXTENDS Keys

CONSTANTS a, b, c, none
=============================================================================
