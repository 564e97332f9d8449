--------------------------- MODULE MCStoreFactory ---------------------------
(* Model-checking instance of StoreFactory.  Names, owners, kinds and data *)
(* are model values given in the .cfg files.                               *)
EXTENDS StoreFactory
=============================================================================
