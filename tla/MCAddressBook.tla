--------------------------- MODULE MCAddressBook ---------------------------
(* Three addresses, of which two may be defaults and a third is being      *)
(* written, and two or three requests at the same time.                    *)
EXTENDS AddressBook, TLC

Symmetry == Permutations(Addresses) \cup Permutations(Sessions)
=============================================================================
