---------------------------- MODULE MCBmcOrigins ----------------------------
(* BmcOrigins for TLC: two machines, up to three resources in any order.   *)
EXTENDS BmcOrigins

CONSTANTS m1, m2

MCMachines == {m1, m2}

\* What can be above or below something of m1 comes three times, the rest twice; Chassis
\* and Fabrics are treated as Tasks.
Related == {Collection("Systems"), AllOf(m1), Named("Bmc", m1), Named("BiosSetting", m1),
            Named("Volume", m1)}

MCSpecs == SeqOf(Resources \ {Collection("Chassis"), Collection("Fabrics")}, 2)
            \cup SeqOf(Related, 3)

=============================================================================
