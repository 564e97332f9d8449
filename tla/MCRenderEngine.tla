--------------------------- MODULE MCRenderEngine ---------------------------
EXTENDS RenderEngine

(***************************************************************************)
(* Every single call, and every call made after one of three calls that    *)
(* write output first: an inline error (base64Decode), a secret lookup     *)
(* (whose outcome depends on when SetSecretGetter runs), and a draw.       *)
(***************************************************************************)
MCPrefix ==
    {[fn |-> "base64Decode", valid |-> FALSE],
     [fn |-> "secretValue"],
     [fn |-> "randEnum", items |-> <<"a", "b">>]}

MCWeights == {-1, 0, 2}

MCTemplates == {<<c>> : c \in Call} \cup {<<p, c>> : p \in MCPrefix, c \in Call}
=============================================================================
