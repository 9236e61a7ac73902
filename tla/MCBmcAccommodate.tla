-------------------------- MODULE MCBmcAccommodate --------------------------
(* Two machines; ODIM can add the first of them twice.                     *)
EXTENDS BmcAccommodate

CONSTANTS h1, h2, a1, a2, b1

MCHosts == {h1, h2}
MCIds == {a1, a2, b1}
MCHostOf == [i \in MCIds |-> IF i = b1 THEN h2 ELSE h1]
MCAllKinds == DisturbanceKinds

\* For the question whether the objects follow ODIM: users leave them alone.
MCSync == {"odimAdd", "odimRemoveManaged", "odimFault", "reset", "touch", "crash"}

\* What is enough for the disagreement.
MCEvent == {"odimAdd", "event"}
=============================================================================
