---------------------------- MODULE MCBulkEmail ----------------------------
(* Two people, who share an address or have one each. *)
EXTENDS BulkEmail

CONSTANTS here, there

AddressBook == {<<here, here>>, <<here, there>>}
=============================================================================
