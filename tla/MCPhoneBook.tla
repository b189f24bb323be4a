---------------------------- MODULE MCPhoneBook ----------------------------
(* The contacts page with three slots on the device and one on the SIM     *)
(* card, so that the second page of two rows can hold a row of each.       *)
EXTENDS PhoneBook
=============================================================================
