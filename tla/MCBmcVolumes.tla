---------------------------- MODULE MCBmcVolumes ----------------------------
(* BmcVolumes for TLC: one machine, IDs enough for the volumes it gets.    *)
EXTENDS BmcVolumes

CONSTANTS b1, v1, v2, v3, d1, d2, i1, i2, i3, i12

MCBmcs == {b1}
MCNames == {v1, v2}

\* With a second volume in ODIM whose name comes to the same object name.
MCTitles == {v1, v2, v3}
MCNameOf == [t \in MCTitles |-> IF t = v3 THEN v2 ELSE t]

\* One name, so that the machine has one object at a time.
MCOneName == {v2}
MCSameOne == [t \in MCOneName |-> t]
MCDrivesOne == [t \in MCOneName |-> d1]

\* Both names are for the same drives.
MCDrivesOf == [t \in MCTitles |-> IF t = v3 THEN d2 ELSE d1]

\* Volume i12 is listed as i2.
MCIds3 == {i1, i2, i12}
MCLast == [i \in MCIds3 |-> IF i = i12 THEN i2 ELSE i]

MCIds4 == {i1, i2, i3, i12}
MCLastSame == [i \in MCIds4 |-> i]

\* i12 is not the first. And the one order that stands for all when no ID is another's
\* last character.
MCSomeOrder == {<<i1, i12>>}
MCInOrder == {<<i1, i2>>, <<i1, i3>>, <<i1, i12>>, <<i2, i3>>, <<i2, i12>>, <<i3, i12>>}

MCContains == [k \in MCBmcs \X MCNames |-> MCBmcs]
MCContainsOne == [k \in MCBmcs \X MCOneName |-> MCBmcs]

Setup(m, k, n) == [mode |-> m, kinds |-> k, times |-> n]

MCSafety ==
    {Setup("Accommodate", {"create", "delete", "touch", "reset", "odimCreate", "odimDelete",
                           "odimFault", "crash"}, 4),
     Setup("Accommodate", {"odimCreate", "odimDelete", "event"}, 4)}

MCLasting ==
    {Setup("Accommodate", {"odimCreate", "odimDelete", "odimFault", "listFault", "reset"}, 5),
     Setup("Accommodate", {"odimCreate", "odimFault", "listFault", "reset", "event"}, 5),
     Setup("Revert", DisturbanceKinds, 4)}

=============================================================================
