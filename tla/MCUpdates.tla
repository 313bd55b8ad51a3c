------------------------------- MODULE MCUpdates -------------------------------
(* The packages of the HPM.1 update that TLC tries.                        *)
EXTENDS Updates

HpmPackages ==
    {<<[kind |-> "backup", component |-> 0, length |-> 0],
       [kind |-> "upload", component |-> 1, length |-> 5],
       [kind |-> "upload", component |-> 2, length |-> 2]>>,
     <<[kind |-> "upload", component |-> 1, length |-> 3],
       [kind |-> "prepare", component |-> 1, length |-> 0]>>}
=============================================================================
