----------------------------- MODULE MCGitLoader -----------------------------
(* Model-checking instance of GitLoader.  Stores carry no kind here: the  *)
(* loader never reads it.                                                 *)
EXTENDS GitLoader

MCNoKinds == {}
=============================================================================
