------------------------- MODULE MCVendorInterface -------------------------
(* Small instances of VendorInterface. *)
EXTENDS VendorInterface
=============================================================================
