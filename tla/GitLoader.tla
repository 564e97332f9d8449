------------------------------ MODULE GitLoader ------------------------------
(***************************************************************************)
(* The git-backed loader extension, extensions/store-git/pkg/server.go,    *)
(* serving ListTestSuite and Verify to concurrent gRPC handlers, composed  *)
(* with the store catalog (StoreCatalog) that the main server reads the    *)
(* request's store from.                                                   *)
(*                                                                         *)
(* A store's URL, credentials and "targetpath" property are one value of   *)
(* Data; a cloned repository is identified by the Data it was cloned with. *)
(* clientCache is the package-level Go map: getClient reads it (line 134)  *)
(* and assigns it (line 151).  A map assignment is a window during which   *)
(* the Go runtime's hashWriting flag is set; the model keeps that window   *)
(* as two steps so other handlers can run inside it.  The clone directory  *)
(* is "/tmp/" + store name, shared by all handlers and stores of one name. *)
(***************************************************************************)
EXTENDS Naturals, FiniteSets

CONSTANTS
    Handlers,   \* gRPC handler goroutines
    Names, Owners, Kinds, NoKind, Data,
    NoStore,    \* the request carries no store (GetStoreFromContext = nil)
    None,       \* no call, options or reply
    Missing,    \* no clientCache entry
    CatalogOps  \* the catalog operations that may happen: a subset of
                \* {"create", "update", "delete"}

VARIABLES
    catalog,    \* the stores known to the main server
    cache,      \* clientCache: store name -> cached gitOptions (its Data)
    writing,    \* handlers inside a clientCache assignment
    dir,        \* per store name: the clone directory /tmp/<name>
    pc,         \* per handler: its position in the call
    call,       \* per handler: [rpc, store] of the call in progress
    opt,        \* per handler: the gitOptions getClient returned
    reply,      \* per handler: the last reply it sent
    up          \* the extension process is running

vars == <<catalog, cache, writing, dir, pc, call, opt, reply, up>>

Cat == INSTANCE StoreCatalog

Absent  == "absent"
Partial == "partial"

(* "list" and "verify" are ListTestSuite and Verify; "stub" is any of the  *)
(* seven handlers that return at once (CreateTestSuite, GetTestSuite,      *)
(* DeleteTestSuite and the test-case handlers); "nilSuite" is              *)
(* UpdateTestSuite or ListTestCases, which use the nil suite that          *)
(* GetTestSuite returns with a nil error.                                  *)
Rpc == {"list", "verify", "stub", "nilSuite"}
Listed == {"list", "verify"}
Call == [rpc: Rpc, store: Cat!Entry \cup {NoStore}]

\* The repository a listing read: the Data of a clone, or no file at all.
Listing == Data \cup {"empty", "broken"}

Reply == [rpc: Rpc, store: Cat!Entry \cup {NoStore}, ok: BOOLEAN,
          repo: Listing \cup {None}, with: Data \cup {None}, success: BOOLEAN]

\* What loader.ListTestSuite finds in the directory: the suites of a
\* finished clone, nothing when it is gone, unreadable files mid-clone.
ReadDir(d) == CASE d \in Data  -> d
                [] d = Absent  -> "empty"
                [] d = Partial -> "broken"

-----------------------------------------------------------------------------
Init ==
    /\ catalog = {}
    /\ cache = [n \in Names |-> Missing]
    /\ writing = {}
    /\ dir = [n \in Names |-> Absent]
    /\ pc = [h \in Handlers |-> "idle"]
    /\ call = [h \in Handlers |-> None]
    /\ opt = [h \in Handlers |-> None]
    /\ reply = [h \in Handlers |-> None]
    /\ up = TRUE

\* The main server changes its stores while the extension serves requests.
CatalogStep ==
    /\ \/ "create" \in CatalogOps /\ \E s \in Cat!Entry : Cat!Create(s)
       \/ "update" \in CatalogOps /\ \E s \in Cat!Entry : Cat!Update(s)
       \/ "delete" \in CatalogOps /\ \E n \in Names : Cat!Delete(n)
    /\ UNCHANGED <<cache, writing, dir, pc, call, opt, reply, up>>

\* A ListTestSuite or Verify request arrives with a store of the catalog
\* in its context, or with none.
Receive(h, r, s) ==
    /\ up
    /\ pc[h] = "idle"
    /\ s \in catalog \cup {NoStore}
    /\ pc' = [pc EXCEPT ![h] = IF r \in Listed THEN "getClient" ELSE r]
    /\ call' = [call EXCEPT ![h] = [rpc |-> r, store |-> s]]
    /\ UNCHANGED <<catalog, cache, writing, dir, opt, reply, up>>

(* The reply of ListTestSuite, or of Verify around it.  Verify discards    *)
(* the listing's error: Success is computed from Verify's own named       *)
(* result err, still nil (line 123).  `with` records the options used.    *)
Respond(h, ok, repo) ==
    /\ reply' = [reply EXCEPT ![h] =
                    [rpc |-> call[h].rpc, store |-> call[h].store, ok |-> ok,
                     repo |-> repo, with |-> opt[h], success |-> TRUE]]
    /\ pc' = [pc EXCEPT ![h] = "idle"]
    /\ call' = [call EXCEPT ![h] = None]
    /\ opt' = [opt EXCEPT ![h] = None]

\* getClient with no store in the context: an error reply.
NoConnection(h) ==
    /\ pc[h] = "getClient"
    /\ call[h].store = NoStore
    /\ Respond(h, FALSE, None)
    /\ UNCHANGED <<catalog, cache, writing, dir, up>>

\* getClient finds options cached under the store's name and returns them.
CacheHit(h) ==
    LET n == call[h].store.name
    IN  /\ pc[h] = "getClient"
        /\ call[h].store # NoStore
        /\ cache[n] # Missing
        /\ opt' = [opt EXCEPT ![h] = cache[n]]
        /\ pc' = [pc EXCEPT ![h] = "removeAll"]
        /\ UNCHANGED <<catalog, cache, writing, dir, call, reply, up>>

\* A miss builds options from the store and starts the map assignment.
CacheMiss(h) ==
    LET n == call[h].store.name
    IN  /\ pc[h] = "getClient"
        /\ call[h].store # NoStore
        /\ cache[n] = Missing
        /\ opt' = [opt EXCEPT ![h] = call[h].store.data]
        /\ writing' = writing \cup {h}
        /\ pc' = [pc EXCEPT ![h] = "assign"]
        /\ UNCHANGED <<catalog, cache, dir, call, reply, up>>

\* The assignment clientCache[store.Name] = opt completes.
CacheAssign(h) ==
    /\ pc[h] = "assign"
    /\ cache' = [cache EXCEPT ![call[h].store.name] = opt[h]]
    /\ writing' = writing \ {h}
    /\ pc' = [pc EXCEPT ![h] = "removeAll"]
    /\ UNCHANGED <<catalog, dir, call, opt, reply, up>>

\* os.RemoveAll(opt.cache).
RemoveAll(h) ==
    /\ pc[h] = "removeAll"
    /\ dir' = [dir EXCEPT ![call[h].store.name] = Absent]
    /\ pc' = [pc EXCEPT ![h] = "clone"]
    /\ UNCHANGED <<catalog, cache, writing, call, opt, reply, up>>

\* git.PlainClone starts writing the directory...
CloneStart(h) ==
    /\ pc[h] = "clone"
    /\ dir[call[h].store.name] = Absent
    /\ dir' = [dir EXCEPT ![call[h].store.name] = Partial]
    /\ pc' = [pc EXCEPT ![h] = "cloning"]
    /\ UNCHANGED <<catalog, cache, writing, call, opt, reply, up>>

\* ...and finishes with the repository of opt's URL,
CloneDone(h) ==
    /\ pc[h] = "cloning"
    /\ dir' = [dir EXCEPT ![call[h].store.name] = opt[h]]
    /\ pc' = [pc EXCEPT ![h] = "read"]
    /\ UNCHANGED <<catalog, cache, writing, call, opt, reply, up>>

\* Mutant: the clone error not returned, the listing goes on.
CloneFailContinue(h) ==
    /\ pc[h] = "cloning"
    /\ dir' = [dir EXCEPT ![call[h].store.name] = Absent]
    /\ pc' = [pc EXCEPT ![h] = "read"]
    /\ UNCHANGED <<catalog, cache, writing, call, opt, reply, up>>

\* ...or fails (network, authentication); go-git removes the directory it
\* created and ListTestSuite returns the error.
CloneFail(h) ==
    /\ pc[h] = "cloning"
    /\ dir' = [dir EXCEPT ![call[h].store.name] = Absent]
    /\ Respond(h, FALSE, None)
    /\ UNCHANGED <<catalog, cache, writing, up>>

\* ...or finds the directory, which another handler's clone has created
\* since this handler's RemoveAll, already holding a repository: PlainInit
\* fails with ErrRepositoryAlreadyExists, go-git leaves a directory it did
\* not create in place, and ListTestSuite returns the error.
CloneExists(h) ==
    /\ pc[h] = "clone"
    /\ dir[call[h].store.name] # Absent
    /\ Respond(h, FALSE, None)
    /\ UNCHANGED <<catalog, cache, writing, dir, up>>

\* loader.ListTestSuite reads the yaml files under the directory.
ReadSuites(h) ==
    LET found == ReadDir(dir[call[h].store.name])
    IN  /\ pc[h] = "read"
        /\ Respond(h, found # "broken", IF found = "broken" THEN None ELSE found)
        /\ UNCHANGED <<catalog, cache, writing, dir, up>>

\* The stub handlers return an empty reply and a nil error.
Stub(h) ==
    /\ pc[h] = "stub"
    /\ Respond(h, TRUE, None)
    /\ UNCHANGED <<catalog, cache, writing, dir, up>>

(* UpdateTestSuite reads oldSuite.Items and ListTestCases suite.Items off  *)
(* a nil pointer.  grpc-go does not recover handler panics, so the process *)
(* exits: every call in flight is lost with the clientCache; the clone     *)
(* directories stay on disk as they were.                                  *)
NilSuitePanic(h) ==
    /\ pc[h] = "nilSuite"
    /\ up' = FALSE
    /\ cache' = [n \in Names |-> Missing]
    /\ writing' = {}
    /\ pc' = [g \in Handlers |-> "idle"]
    /\ call' = [g \in Handlers |-> None]
    /\ opt' = [g \in Handlers |-> None]
    /\ UNCHANGED <<catalog, dir, reply>>

\* The extension is started again, with the empty map of line 156.
Restart ==
    /\ ~up
    /\ up' = TRUE
    /\ UNCHANGED <<catalog, cache, writing, dir, pc, call, opt, reply>>

Next ==
    \/ CatalogStep
    \/ \E h \in Handlers :
          \/ \E r \in Rpc, s \in Cat!Entry \cup {NoStore} : Receive(h, r, s)
          \/ NoConnection(h) \/ CacheHit(h) \/ CacheMiss(h) \/ CacheAssign(h)
          \/ RemoveAll(h) \/ CloneStart(h) \/ CloneExists(h) \/ CloneDone(h)
          \/ CloneFail(h)
          \/ ReadSuites(h) \/ Stub(h) \/ NilSuitePanic(h)
    \/ Restart

Spec == Init /\ [][Next]_vars

-----------------------------------------------------------------------------
TypeOK ==
    /\ catalog \subseteq Cat!Entry
    /\ cache \in [Names -> Data \cup {Missing}]
    /\ writing \subseteq Handlers
    /\ dir \in [Names -> Data \cup {Absent, Partial}]
    /\ pc \in [Handlers -> {"idle", "getClient", "assign", "removeAll",
                            "clone", "cloning", "read", "stub", "nilSuite"}]
    /\ call \in [Handlers -> Call \cup {None}]
    /\ opt \in [Handlers -> Data \cup {None}]
    /\ reply \in [Handlers -> Reply \cup {None}]
    /\ up \in BOOLEAN

(* The Go runtime aborts the process when a clientCache assignment        *)
(* overlaps another access to the map: no handler looks up clientCache     *)
(* (line 134, the step that leaves getClient with a store in the context) *)
(* while another handler's assignment of line 151 is in progress.  A call *)
(* with no store returns at line 131 and never touches the map.            *)
MapAccessExclusive ==
    [][\A g \in Handlers :
          /\ pc[g] = "getClient" /\ call[g].store # NoStore
          /\ pc'[g] # "getClient" /\ up'
          => writing \ {g} = {}]_vars

(* A successful listing returns the suites of exactly the repository its  *)
(* own clone fetched with the options getClient gave it.  Every handler of *)
(* a store name uses the one directory /tmp/<name> (line 143), so another  *)
(* handler's RemoveAll or clone between this handler's clone and its read  *)
(* can put an empty or different directory under it.                      *)
ListingMatchesClone ==
    \A h \in Handlers :
        reply[h] # None /\ reply[h].rpc \in Listed /\ reply[h].ok =>
            reply[h].repo = reply[h].with

(* A successful listing is of the repository the requested store points   *)
(* at when the request is made, with that store's URL and credentials.    *)
ListingUsesCurrentStore ==
    \A h \in Handlers :
        reply[h] # None /\ reply[h].rpc \in Listed /\ reply[h].ok =>
            reply[h].repo = reply[h].store.data
=============================================================================
