----------------------------- MODULE MCArangeIP -----------------------------
(* Model-checking instance of ArangeIP: segments just below, at and above  *)
(* the 255 that triggers the carry, and 0, which only ever increments.     *)
EXTENDS ArangeIP

MCOctets == {0, 254, 255, 256}
=============================================================================
