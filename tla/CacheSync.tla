------------------------------ MODULE CacheSync ------------------------------
(***************************************************************************)
(* The in-memory Cache of the legacy server (src/src/caching/cache.rs)    *)
(* and its concurrency: sync_cache sets an AtomicBool `lock`, clears the  *)
(* object, user and pubkey maps and fills them again from Postgres; every *)
(* accessor first spins in check_lock until the flag is clear and then    *)
(* works on the DashMaps, which take their own per-shard locks.           *)
(* Writers are the request handlers: each commits a change of one entry   *)
(* to Postgres and then calls the cache method for it. An entry's value   *)
(* is abstracted to a version number, Absent when the row does not exist. *)
(***************************************************************************)
EXTENDS Naturals, Sequences, FiniteSets

CONSTANTS
    Keys,            \* ids of the rows of each map
    Writers,         \* request handlers
    WriterEntry,     \* Writers -> <<map, key>>: the entry a handler changes
    MaxVersion,      \* bound on the versions written to an entry
    MaxSyncs,        \* bound on the sync_cache calls
    MaxSyncFailures  \* bound on the failing Postgres calls of sync_cache

\* The maps in the order sync_cache fills them.
MapOrder == <<"object", "user", "pubkey">>
Maps == {"object", "user", "pubkey"}
Absent == 0

\* The cache methods of each map: there is no update_pubkey.
OpsOf(m) == IF m = "pubkey" THEN {"add", "remove"} ELSE {"add", "update", "remove"}

ASSUME WriterEntry \in [Writers -> Maps \X Keys]

VARIABLES
    db,        \* Postgres: map -> key -> version (Absent = no row)
    cache,     \* the DashMaps: map -> key -> version (Absent = no entry)
    lock,      \* Cache::lock
    sync,      \* the sync_cache call in progress
    syncs,     \* sync_cache calls made
    failures,  \* Postgres calls of sync_cache that failed
    synced,    \* whether a sync_cache call has returned Ok
    written,   \* map -> key -> the last version committed (ids are not reused)
    wr         \* per handler: pc, the cache method it calls, the version

vars == <<db, cache, lock, sync, syncs, failures, synced, written, wr>>

Entries == [Maps -> [Keys -> 0..MaxVersion]]

-----------------------------------------------------------------------------
(* The code                                                                *)

\* Cache::new: empty maps, the flag clear.
Init ==
    /\ db \in [Maps -> [Keys -> {Absent, 1}]]
    /\ cache = [m \in Maps |-> [k \in Keys |-> Absent]]
    /\ lock = FALSE
    /\ sync = [pc |-> "idle", map |-> 1, rows |-> {}]
    /\ syncs = 0 /\ failures = 0 /\ synced = FALSE
    /\ written = db
    /\ wr = [w \in Writers |-> [pc |-> "idle", op |-> "add", ver |-> Absent]]

\* A query of sync_cache returns an error: the `?` returns at once and the
\* flag is never cleared.
SyncFails ==
    /\ failures < MaxSyncFailures
    /\ failures' = failures + 1
    /\ sync' = [sync EXCEPT !.pc = "idle"]
    /\ UNCHANGED <<db, cache, lock, syncs, synced, written, wr>>

\* sync_cache: lock.store(true), then the three maps are cleared.
SyncStart ==
    /\ sync.pc = "idle" /\ syncs < MaxSyncs
    /\ lock' = TRUE
    /\ cache' = [m \in Maps |-> [k \in Keys |-> Absent]]
    /\ sync' = [pc |-> "client", map |-> 1, rows |-> {}]
    /\ syncs' = syncs + 1
    /\ UNCHANGED <<db, failures, synced, written, wr>>

\* db.get_client().await?
SyncClient ==
    /\ sync.pc = "client"
    /\ \/ SyncFails
       \/ /\ sync' = [sync EXCEPT !.pc = "query"]
          /\ UNCHANGED <<db, cache, lock, syncs, failures, synced, written, wr>>

\* get_all_objects_with_relations / User::all / DbPubkey::all: the rows of
\* the current map as Postgres has them now.
SyncQuery ==
    LET m == MapOrder[sync.map] IN
    /\ sync.pc = "query"
    /\ \/ SyncFails
       \/ /\ sync' = [sync EXCEPT !.pc = "insert",
                        !.rows = {<<k, db[m][k]>> : k \in {k \in Keys : db[m][k] # Absent}}]
          /\ UNCHANGED <<db, cache, lock, syncs, failures, synced, written, wr>>

SyncInsert ==
    LET m == MapOrder[sync.map] IN
    /\ sync.pc = "insert"
    /\ \/ /\ sync.rows = {}
          /\ sync' = IF sync.map < Len(MapOrder)
                     THEN [sync EXCEPT !.pc = "query", !.map = @ + 1]
                     ELSE [sync EXCEPT !.pc = "unlock"]
          /\ UNCHANGED <<cache, failures>>
       \/ \E r \in sync.rows :
             /\ cache' = [cache EXCEPT ![m][r[1]] = r[2]]
             /\ sync' = [sync EXCEPT !.rows = @ \ {r}]
             /\ UNCHANGED failures
       \/ /\ m = "pubkey" /\ sync.rows # {}
          /\ SyncFails
    /\ UNCHANGED <<db, lock, syncs, synced, written, wr>>

\* lock.store(false); Ok(()).
SyncUnlock ==
    /\ sync.pc = "unlock"
    /\ lock' = FALSE
    /\ sync' = [sync EXCEPT !.pc = "idle"]
    /\ synced' = TRUE
    /\ UNCHANGED <<db, cache, syncs, failures, written, wr>>

\* A handler commits its change of the entry to Postgres: a new row, a new
\* version of an existing row, or its deletion.
Commit(w) ==
    LET e == WriterEntry[w]  cur == db[e[1]][e[2]]  v == written[e[1]][e[2]] + 1 IN
    /\ wr[w].pc = "idle"
    /\ \E op \in OpsOf(e[1]) :
         /\ IF op = "add" THEN cur = Absent ELSE cur # Absent
         /\ op # "remove" => v <= MaxVersion
         /\ db' = [db EXCEPT ![e[1]][e[2]] = IF op = "remove" THEN Absent ELSE v]
         /\ written' = [written EXCEPT ![e[1]][e[2]] = IF op = "remove" THEN @ ELSE v]
         /\ wr' = [wr EXCEPT ![w] = [pc |-> "check", op |-> op,
                                     ver |-> IF op = "remove" THEN Absent ELSE v]]
    /\ UNCHANGED <<cache, lock, sync, syncs, failures, synced>>

\* Mutant: the cache method goes to the maps without check_lock.
CheckLockSkipped(w) ==
    /\ wr[w].pc = "check"
    /\ wr' = [wr EXCEPT ![w].pc = "apply"]
    /\ UNCHANGED <<db, cache, lock, sync, syncs, failures, synced, written>>

\* check_lock: `while lock.load() {}`; the handler passes once the flag is
\* clear, and spins for as long as it is set.
CheckLock(w) ==
    /\ wr[w].pc = "check"
    /\ ~lock
    /\ wr' = [wr EXCEPT ![w].pc = "apply"]
    /\ UNCHANGED <<db, cache, lock, sync, syncs, failures, synced, written>>

\* The cache method after check_lock: add_* inserts, update_* replaces an
\* entry only where get_mut finds one, remove_* removes.
Apply(w) ==
    LET e == WriterEntry[w]  c == cache[e[1]][e[2]] IN
    /\ wr[w].pc = "apply"
    /\ cache' = [cache EXCEPT ![e[1]][e[2]] =
                   CASE wr[w].op = "add" -> wr[w].ver
                     [] wr[w].op = "update" -> IF c # Absent THEN wr[w].ver ELSE c
                     [] OTHER -> Absent]
    /\ wr' = [wr EXCEPT ![w].pc = "idle"]
    /\ UNCHANGED <<db, lock, sync, syncs, failures, synced, written>>

Next ==
    \/ SyncStart \/ SyncClient \/ SyncQuery \/ SyncInsert \/ SyncUnlock
    \/ \E w \in Writers : Commit(w) \/ CheckLock(w) \/ Apply(w)

Spec == Init /\ [][Next]_vars

-----------------------------------------------------------------------------
(* Properties                                                              *)

TypeOK ==
    /\ db \in Entries /\ cache \in Entries /\ lock \in BOOLEAN
    /\ sync.pc \in {"idle", "client", "query", "insert", "unlock"}
    /\ sync.map \in 1..Len(MapOrder) /\ sync.rows \subseteq Keys \X (1..MaxVersion)
    /\ written \in Entries
    /\ wr \in [Writers -> [pc : {"idle", "check", "apply"},
                           op : {"add", "update", "remove"}, ver : 0..MaxVersion]]

\* Once a sync_cache call has returned Ok, whenever no sync_cache call is
\* running, the flag is clear and no handler of an entry is between its
\* commit and the end of its cache method, the entry holds exactly the row
\* of Postgres: a handler whose cache method passed check_lock just before
\* a sync set the flag and cleared the maps, or whose update_* found no
\* entry, loses nothing, because the rows the sync reads already hold its
\* commit; and one whose commit the sync did not read waits in check_lock
\* until the stale row is in the map.
CacheMatchesDbWhenQuiet ==
    \A m \in Maps, k \in Keys :
        (/\ synced /\ sync.pc = "idle" /\ ~lock
         /\ \A w \in Writers : WriterEntry[w] = <<m, k>> => wr[w].pc = "idle")
            => cache[m][k] = db[m][k]

=============================================================================
