------------------------------- MODULE MCSession -------------------------------
(* One session, of a trusted client or with a ticket of one use that others    *)
(* use too, and one permit that other builds hold.  Lists of no path, of one   *)
(* full chunk, of more than one, and of more paths than a reader takes; upload *)
(* limits below and above what is missing, and one that overflows.             *)
EXTENDS Session

CONSTANTS a

MCLimits == {[number |-> 1, unit |-> 1], [number |-> 1, unit |-> 2], [number |-> 5, unit |-> 2]}
=============================================================================
