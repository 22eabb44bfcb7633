----------------------------- MODULE MCListing -----------------------------
(* A small instance of Listing.                                            *)
EXTENDS Listing

MCKeys    == 1..5
MCDrivers == {"memory", "fs", "s3", "other"}
MCLimits  == {0, 1, 3, 4}
=============================================================================
