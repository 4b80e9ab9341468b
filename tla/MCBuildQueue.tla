----------------------------- MODULE MCBuildQueue -----------------------------
(* Two requests for one permit, and one recent entry fewer than requests: one *)
(* runs or records while the other waits, starts or is refused.  A restart    *)
(* cuts both off, and requests that come after it use the same ids again.     *)
EXTENDS BuildQueue

CONSTANTS a, b
=============================================================================
