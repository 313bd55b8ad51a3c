------------------------------ MODULE MCConsoles ------------------------------
(* A short console output with repeated bytes, through a queue smaller     *)
(* than a packet.                                                          *)
EXTENDS Consoles

Printed == <<"a", "a", "b", "a", "b", "b">>
===============================================================================
