------------------------------ MODULE MCTransport ------------------------------
(* TransportUsers for TLC: three users and pools of two slots, so that a    *)
(* pool runs out while a user is waiting for a slot.                        *)
EXTENDS TransportUsers
===============================================================================
