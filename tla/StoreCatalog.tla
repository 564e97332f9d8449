---------------------------- MODULE StoreCatalog ----------------------------
(***************************************************************************)
(* What the StoreGetterAndSetter interface of pkg/testing/store.go         *)
(* promises its callers: a catalog of stores, identified by the pair       *)
(* (name, owner) that CreateStore checks, where every call is one atomic   *)
(* change.  A store is seen here without the Kind.Enabled flag, which the  *)
(* factory recomputes on every save.                                       *)
(***************************************************************************)
CONSTANTS Names, Owners, Kinds, Data, NoKind

VARIABLE catalog

Entry == [name: Names, owner: Owners, kind: Kinds \cup {NoKind}, data: Data]

SameKey(a, b) == a.name = b.name /\ a.owner = b.owner

Init == catalog = {}

\* CreateStore succeeds only for a key that is not taken.
Create(s) ==
    /\ ~\E c \in catalog : SameKey(c, s)
    /\ catalog' = catalog \cup {s}

\* UpdateStore replaces the store with the same key.
Update(s) ==
    \E c \in catalog :
        /\ SameKey(c, s)
        /\ catalog' = (catalog \ {c}) \cup {s}

\* DeleteStore removes the store of that name.
Delete(n) == catalog' = {c \in catalog : c.name # n}

Next ==
    \/ \E s \in Entry : Create(s) \/ Update(s)
    \/ \E n \in Names : Delete(n)

Spec == Init /\ [][Next]_catalog
=============================================================================
