-------------------------- MODULE MCWasteDetection --------------------------
(***************************************************************************)
(* A volume and a public IP in the tenancy, an instance in a compartment   *)
(* that can be deleted; the IP may be assigned to a private IP.            *)
(***************************************************************************)
EXTENDS WasteDetection

CONSTANTS vol, ip, private, inst, tenancy, compartment

MCHome == [r \in Resources |-> IF r \in Rented THEN tenancy ELSE compartment]
=============================================================================
