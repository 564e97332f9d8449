---------------------------- MODULE StoreFactory ----------------------------
(***************************************************************************)
(* The YAML-backed store factory of pkg/testing/store.go.                  *)
(*                                                                         *)
(* The whole StoreConfig lives in one file, stores.yaml.  Every mutating   *)
(* call is a read-modify-write of that file with no lock: getStoreConfig   *)
(* reads and decodes it, the handler edits the decoded copy, and save      *)
(* normalises the plugin list and writes the whole file back.  The model   *)
(* keeps the two I/O points of a call as two steps of a client, so calls   *)
(* of different clients (concurrent gRPC requests) interleave between      *)
(* them.                                                                   *)
(*                                                                         *)
(* A store keeps its name, owner, kind name and Kind.Enabled flag; all     *)
(* other fields (URL, credentials, properties, description) are one value  *)
(* of the set Data.  The YAML encoding of StoreConfig round-trips these    *)
(* fields exactly, so decoding what save wrote gives back the same config. *)
(* A file that is not valid YAML (edited by hand, or a write cut inside an *)
(* item) is not a config at all: yaml.Unmarshal returns an error.          *)
(***************************************************************************)
EXTENDS Naturals, Sequences, SequencesExt

CONSTANTS
    Clients,        \* concurrent callers of the factory
    Names,          \* store names
    Owners,         \* store owners
    Kinds,          \* store kind (plugin) names
    NoKind,         \* the empty kind name ""
    Data,           \* everything else a store carries
    MaxStores,      \* bound on the length of the stores list
    MaxReadFaults,  \* bound on failed reads of stores.yaml
    MaxWriteFaults  \* bound on writes of stores.yaml cut short

ASSUME NoKind \notin Kinds
ASSUME {MaxStores, MaxReadFaults, MaxWriteFaults} \subseteq Nat

VARIABLES
    file,     \* the StoreConfig held by stores.yaml
    parses,   \* stores.yaml is valid YAML (else file is EmptyConfig)
    pc,       \* per client: "idle", "read" once getStoreConfig returned, or
              \* "writing" between os.WriteFile's truncation and its write
    req,      \* per client: the call in progress
    snap,     \* per client: the StoreConfig its getStoreConfig returned, and
              \* while "writing" the normalised config save is writing
    faults,   \* read failures so far
    wfaults,  \* writes cut short so far
    got       \* per client: what its last getter call returned

vars == <<file, parses, pc, req, snap, faults, wfaults, got>>

Store == [name: Names, owner: Owners, kind: Kinds \cup {NoKind},
          data: Data, enabled: BOOLEAN]
Plugin == [name: Kinds, enabled: BOOLEAN]

\* A caller hands in a store whose Kind.Enabled is still false.
Incoming == {s \in Store : ~s.enabled}

Request == [op: {"create", "update"}, store: Incoming]
           \cup [op: {"delete"}, name: Names]

\* The read-only calls: GetStores, GetStoresByOwner, GetStore, GetStoreKinds.
Query == [op: {"stores", "kinds"}] \cup [op: {"byOwner"}, owner: Owners]
         \cup [op: {"store"}, name: Names]

None == [op |-> "none"]

\* getStoreConfig starts from &StoreConfig{}: no stores, no plugins.
EmptyConfig == [stores |-> <<>>, plugins |-> <<>>]

(***************************************************************************)
(* save, lines 220-246: every store with a kind gets Kind.Enabled = true;  *)
(* the first plugin of that name is enabled, or the store's kind is        *)
(* appended to the plugins when there is none.  Then the whole config is   *)
(* written.                                                                *)
(***************************************************************************)
EnableKind(s) == IF s.kind # NoKind THEN [s EXCEPT !.enabled = TRUE] ELSE s

\* Mutants: a dropped `Kind.Name != ""` guard; a found plugin left disabled;
\* a lookup that only matches plugins already enabled.
AddPluginAnyKind(plugins, s) ==
    LET j == SelectInSeq(plugins, LAMBDA p : p.name = s.kind)
    IN  IF j # 0 THEN [plugins EXCEPT ![j].enabled = TRUE]
        ELSE Append(plugins, [name |-> s.kind, enabled |-> TRUE])

AddPluginNoEnable(plugins, s) ==
    LET j == SelectInSeq(plugins, LAMBDA p : p.name = s.kind)
    IN  IF s.kind = NoKind \/ j # 0 THEN plugins
        ELSE Append(plugins, [name |-> s.kind, enabled |-> TRUE])

AddPluginEnabledOnly(plugins, s) ==
    LET j == SelectInSeq(plugins, LAMBDA p : p.name = s.kind /\ p.enabled)
    IN  IF s.kind = NoKind THEN plugins
        ELSE IF j # 0 THEN [plugins EXCEPT ![j].enabled = TRUE]
        ELSE Append(plugins, [name |-> s.kind, enabled |-> TRUE])

AddPlugin(plugins, s) ==
    LET j == SelectInSeq(plugins, LAMBDA p : p.name = s.kind)
    IN  IF s.kind = NoKind THEN plugins
        ELSE IF j # 0 THEN [plugins EXCEPT ![j].enabled = TRUE]
        ELSE Append(plugins, [name |-> s.kind, enabled |-> TRUE])

Save(cfg) ==
    LET stores == [i \in DOMAIN cfg.stores |-> EnableKind(cfg.stores[i])]
    IN  [stores  |-> stores,
         plugins |-> FoldLeft(AddPlugin, cfg.plugins, stores)]

\* The first store of a given name; the loops of Update and Delete break there.
FirstNamed(stores, n) == SelectInSeq(stores, LAMBDA s : s.name = n)

Done(c) ==
    /\ pc' = [pc EXCEPT ![c] = "idle"]
    /\ req' = [req EXCEPT ![c] = None]
    /\ snap' = [snap EXCEPT ![c] = EmptyConfig]

\* A call that returns an error before save, leaving the file alone.
Return(c) == Done(c) /\ UNCHANGED <<file, parses>>

(* save up to os.WriteFile's open with O_TRUNC: the normalised config is   *)
(* marshalled and the file is now empty until the write lands.             *)
SaveStart(c, cfg) ==
    /\ file' = EmptyConfig
    /\ parses' = TRUE
    /\ pc' = [pc EXCEPT ![c] = "writing"]
    /\ snap' = [snap EXCEPT ![c] = Save(cfg)]
    /\ UNCHANGED req

(* What a write cut short (ENOSPC, the process killed) leaves: the YAML of *)
(* the first k stores, cut at an item boundary, and no plugins section,    *)
(* which Marshal emits after the stores; or, cut inside an item, text that *)
(* does not parse.  Each element is <<config, parses>>.                    *)
Torn(cfg) == {<<[stores |-> SubSeq(cfg.stores, 1, k), plugins |-> <<>>], TRUE>> :
                 k \in 0..Len(cfg.stores)}
             \cup {<<EmptyConfig, FALSE>>}

-----------------------------------------------------------------------------
(***************************************************************************)
(* A shipped stores.yaml may list plugins, enabled or not, before any      *)
(* store exists, or may not parse; a missing file reads as the empty       *)
(* config.                                                                 *)
(***************************************************************************)
Init ==
    /\ \/ /\ file \in {EmptyConfig}
                     \cup {[stores |-> <<>>, plugins |-> <<p>>] : p \in Plugin}
          /\ parses = TRUE
       \/ /\ file = EmptyConfig
          /\ parses = FALSE
    /\ pc = [c \in Clients |-> "idle"]
    /\ req = [c \in Clients |-> None]
    /\ snap = [c \in Clients |-> EmptyConfig]
    /\ faults = 0
    /\ wfaults = 0
    /\ got = [c \in Clients |-> None]

(***************************************************************************)
(* getStoreConfig: the config yaml.Unmarshal decodes from the file, or its *)
(* error when the file does not parse; or, after a failed os.ReadFile, not *)
(* only a missing file, the empty config with err = nil (the else branch   *)
(* at line 263).  Each element is [cfg, err, faults'].                     *)
(***************************************************************************)
\* Mutant: the decode error dropped like the read error, leaving the empty config.
GetStoreConfigIgnoreDecode ==
    {[cfg |-> file, err |-> FALSE, faults |-> faults]}
    \cup (IF faults < MaxReadFaults
          THEN {[cfg |-> EmptyConfig, err |-> FALSE, faults |-> faults + 1]}
          ELSE {})

GetStoreConfig ==
    {[cfg |-> file, err |-> ~parses, faults |-> faults]}
    \cup (IF faults < MaxReadFaults
          THEN {[cfg |-> EmptyConfig, err |-> FALSE, faults |-> faults + 1]}
          ELSE {})

(* getStoreConfig, the first step of each mutating call; on its error the  *)
(* call returns it at once.                                                *)
ReadConfig(c, r) ==
    /\ pc[c] = "idle"
    /\ r.op = "create" => Len(file.stores) < MaxStores
    /\ \E rd \in GetStoreConfig :
          /\ faults' = rd.faults
          /\ IF rd.err
             THEN UNCHANGED <<pc, req, snap>>
             ELSE /\ pc' = [pc EXCEPT ![c] = "read"]
                  /\ req' = [req EXCEPT ![c] = r]
                  /\ snap' = [snap EXCEPT ![c] = rd.cfg]
    /\ UNCHANGED <<file, parses, wfaults, got>>

(***************************************************************************)
(* The getters, each one read of the file.  GetStore's loop has no break:  *)
(* it returns the last store of that name, as a pointer (a sequence of at  *)
(* most one store here).  A decode error is returned as op "error".       *)
(***************************************************************************)
Answer(q, cfg) ==
    CASE q.op = "stores"  -> cfg.stores
      [] q.op = "byOwner" -> SelectSeq(cfg.stores, LAMBDA s : s.owner = q.owner)
      [] q.op = "store"   ->
            LET i == SelectLastInSeq(cfg.stores, LAMBDA s : s.name = q.name)
            IN  IF i = 0 THEN <<>> ELSE <<cfg.stores[i]>>
      [] q.op = "kinds"   -> cfg.plugins

Get(c, q) ==
    /\ pc[c] = "idle"
    /\ \E rd \in GetStoreConfig :
          /\ got' = [got EXCEPT ![c] =
                        IF rd.err THEN [op |-> "error", val |-> <<>>]
                        ELSE [op |-> q.op, val |-> Answer(q, rd.cfg)]]
          /\ faults' = rd.faults
    /\ UNCHANGED <<file, parses, pc, req, snap, wfaults>>

(* CreateStore: rejects a store whose (name, owner) is in the snapshot,    *)
(* otherwise appends it and saves.                                         *)
CreateStore(c) ==
    LET cfg   == snap[c]
        s     == req[c].store
        exist == \E i \in DOMAIN cfg.stores :
                    cfg.stores[i].name = s.name /\ cfg.stores[i].owner = s.owner
    IN  /\ pc[c] = "read"
        /\ req[c].op = "create"
        /\ IF exist THEN Return(c)
           ELSE SaveStart(c, [cfg EXCEPT !.stores = Append(@, s)])
        /\ UNCHANGED <<faults, wfaults, got>>

(* UpdateStore: replaces the first store with the same name, whatever its  *)
(* owner, and saves; an unknown name is an error and nothing is written.   *)
UpdateStore(c) ==
    LET cfg == snap[c]
        s   == req[c].store
        i   == FirstNamed(cfg.stores, s.name)
    IN  /\ pc[c] = "read"
        /\ req[c].op = "update"
        /\ IF i = 0 THEN Return(c)
           ELSE SaveStart(c, [cfg EXCEPT !.stores[i] = s])
        /\ UNCHANGED <<faults, wfaults, got>>

\* Mutant: Stores[:i] kept, the tail after the removed store dropped.
DeleteStoreTruncate(c) ==
    LET cfg == snap[c]
        i   == FirstNamed(cfg.stores, req[c].name)
    IN  /\ pc[c] = "read"
        /\ req[c].op = "delete"
        /\ SaveStart(c, IF i = 0 THEN cfg
                        ELSE [cfg EXCEPT !.stores = SubSeq(@, 1, i - 1)])
        /\ UNCHANGED <<faults, wfaults, got>>

(* DeleteStore: removes the first store with that name and saves, found or *)
(* not.                                                                    *)
DeleteStore(c) ==
    LET cfg == snap[c]
        i   == FirstNamed(cfg.stores, req[c].name)
    IN  /\ pc[c] = "read"
        /\ req[c].op = "delete"
        /\ SaveStart(c, IF i = 0 THEN cfg
                        ELSE [cfg EXCEPT !.stores = RemoveAt(@, i)])
        /\ UNCHANGED <<faults, wfaults, got>>

(* The write of os.WriteFile: the marshalled config lands, or, within the  *)
(* bound, the write is cut short and leaves a torn file; either way the    *)
(* call returns.  Each element is <<config, parses, wfaults'>>.            *)
Written(c) ==
    {<<snap[c], TRUE, wfaults>>}
    \cup (IF wfaults < MaxWriteFaults
          THEN {<<t[1], t[2], wfaults + 1>> : t \in Torn(snap[c])} ELSE {})

WriteFile(c) ==
    /\ pc[c] = "writing"
    /\ \E wr \in Written(c) :
          file' = wr[1] /\ parses' = wr[2] /\ wfaults' = wr[3]
    /\ Done(c)
    /\ UNCHANGED <<faults, got>>

Next ==
    \E c \in Clients :
        \/ \E r \in Request : ReadConfig(c, r)
        \/ \E q \in Query : Get(c, q)
        \/ CreateStore(c)
        \/ UpdateStore(c)
        \/ DeleteStore(c)
        \/ WriteFile(c)

Spec == Init /\ [][Next]_vars

-----------------------------------------------------------------------------
(* stores.yaml as it stands once the write in flight, if any, has landed. *)
Content == IF \E c \in Clients : pc[c] = "writing"
           THEN snap[CHOOSE c \in Clients : pc[c] = "writing"]
           ELSE file

TypeOK ==
    /\ file \in [stores: Seq(Store), plugins: Seq(Plugin)]
    /\ parses \in BOOLEAN
    /\ Len(file.stores) <= MaxStores + Cardinality(Clients)
    /\ pc \in [Clients -> {"idle", "read", "writing"}]
    /\ req \in [Clients -> Request \cup {None}]
    /\ \A c \in Clients : snap[c] \in [stores: Seq(Store), plugins: Seq(Plugin)]
    /\ faults \in 0..MaxReadFaults
    /\ wfaults \in 0..MaxWriteFaults
    /\ \A c \in Clients :
          \/ got[c] = None
          \/ got[c] = [op |-> "error", val |-> <<>>]
          \/ got[c].op \in {"stores", "byOwner", "store"} /\ got[c].val \in Seq(Store)
          \/ got[c].op = "kinds" /\ got[c].val \in Seq(Plugin)

(* The key of a store is (name, owner), which CreateStore checks: no two   *)
(* stores in stores.yaml share that pair, whatever sequence of Create,     *)
(* Update and Delete calls led there.  UpdateStore matches by name only,   *)
(* so with two owners Create(n, o1), Create(n, o2), Update(n, o2) breaks   *)
(* it; no run keeps it, README section 3 gives the cfg that shows it.      *)
StoreKeyUnique ==
    LET st == Content.stores
    IN  \A i, j \in DOMAIN st :
            i # j => ~(st[i].name = st[j].name /\ st[i].owner = st[j].owner)

(* After every save each store that names a kind is marked enabled and an  *)
(* enabled plugin of that kind is registered, so GetStoreKinds lists every *)
(* kind some store uses, whatever sequence of calls led there.            *)
PluginsCoverStores ==
    \A i \in DOMAIN file.stores :
        file.stores[i].kind # NoKind =>
            /\ file.stores[i].enabled
            /\ \E j \in DOMAIN file.plugins :
                   file.plugins[j].name = file.stores[i].kind /\ file.plugins[j].enabled

(* save never registers a plugin twice: two stores of one kind, or a kind  *)
(* saved again later, leave a single plugin entry of that name.            *)
PluginsUnique ==
    \A i, j \in DOMAIN file.plugins :
        i # j => file.plugins[i].name # file.plugins[j].name

(* A stores.yaml that does not parse is never saved over while reads     *)
(* succeed: yaml.Unmarshal's error ends every call before save, so the     *)
(* stores in it stay for a person to repair, however many calls come.      *)
(* (A failed read is taken for an empty file instead: store_readerror.)    *)
UnparsedFileKept ==
    [][~parses => UNCHANGED <<file, parses>>]_vars

(***************************************************************************)
(* Refinement: the file, read as a set of stores without the Enabled flag, *)
(* changes only by the atomic catalog operations of StoreCatalog.  While   *)
(* a save is between truncation and write, the catalog is what it writes.  *)
(***************************************************************************)
View(s) == [name |-> s.name, owner |-> s.owner, kind |-> s.kind, data |-> s.data]

Catalog == INSTANCE StoreCatalog
              WITH catalog <- {View(Content.stores[i]) : i \in DOMAIN Content.stores}

(* Each call of the factory takes effect as one atomic catalog operation   *)
(* of the StoreGetterAndSetter interface.                                  *)
CatalogRefinement == Catalog!Spec
=============================================================================
