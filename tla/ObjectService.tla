---------------------------- MODULE ObjectService ----------------------------
(***************************************************************************)
(* ObjectServiceImpl of the server (components/server/src/grpc/object.rs): *)
(* the gRPC handlers for objects. A handler checks the caller's            *)
(* permissions, calls the database handler, which runs one Postgres        *)
(* transaction, then puts the returned object into the in-memory cache,    *)
(* then updates the search index, then answers. tonic runs the handlers of *)
(* concurrent requests as interleaved tasks, and every await between those *)
(* steps is a point where another handler may run.                         *)
(* An object is abstracted to its status and a version: every committed    *)
(* write of the database gives it a fresh version.                         *)
(***************************************************************************)
EXTENDS Naturals, FiniteSets

CONSTANTS
    Handlers,     \* concurrent request tasks
    Objects,      \* object ids
    Ops,          \* the handlers requests call
    MaxRequests,  \* bound on the requests served
    MaxVersion    \* bound on the versions the database gives out

None == 0

\* ObjectStatus, as far as the handlers tell them apart.
Live == {"staging", "available"}
Statuses == Live \cup {"absent", "deleted"}

AllOps == {"create", "upload_url", "download_url", "finish", "update", "clone",
           "delete", "get", "get_many", "authors", "title", "hashes"}

ASSUME Ops \subseteq AllOps /\ MaxVersion \in Nat

VARIABLES
    db,         \* Postgres: object -> [status, ver]
    committed,  \* object -> the versions the database has committed for it
    nextVer,    \* the last version given out
    cache,      \* the object cache: object -> cached version (None = absent)
    search,     \* the search index: object -> indexed version (None = absent)
    hs,         \* handler -> [op, obj, proxy, pc, ver]
    resp,       \* handler -> its last answer [ok, obj, ver]
    requests    \* requests served so far

vars == <<db, committed, nextVer, cache, search, hs, resp, requests>>

Idle == [op |-> "none", obj |-> None, proxy |-> FALSE, pc |-> "idle", ver |-> None]

-----------------------------------------------------------------------------
(* The database handler, the cache and the search index                    *)

\* One transaction of the database handler commits `st` for object o.
Commit(o, st) ==
    /\ nextVer < MaxVersion
    /\ nextVer' = nextVer + 1
    /\ db' = [db EXCEPT ![o] = [status |-> st, ver |-> nextVer + 1]]
    /\ committed' = [committed EXCEPT ![o] = @ \cup {nextVer + 1}]

\* The handler's call returns an error (tonic_internal!, tonic_invalid!):
\* the transaction rolled back and the handler answers at once.
Fails(h) ==
    /\ hs' = [hs EXCEPT ![h] = Idle]
    /\ resp' = [resp EXCEPT ![h] = [ok |-> FALSE, obj |-> hs[h].obj, ver |-> None]]
    /\ UNCHANGED <<db, committed, nextVer, cache, search>>

\* Where a handler goes after its database call: the cache put of
\* create_object, clone_object, update_object and the proxy's
\* finish_object_staging, then the search index update of every writing
\* handler, then the answer.
AfterDb(op, proxy) ==
    IF op \in {"create", "clone", "update"} \/ (op = "finish" /\ proxy) THEN "cache"
    ELSE IF op \in {"delete", "authors", "title", "hashes"} THEN "search"
    ELSE "respond"

\* The database call succeeds and committed version v of object o.
Done(h, o, v) ==
    hs' = [hs EXCEPT ![h].obj = o, ![h].ver = v,
                     ![h].pc = AfterDb(hs[h].op, hs[h].proxy)]

-----------------------------------------------------------------------------
(* The handlers                                                            *)

\* Every handler: get_token_from_md, the request's ids, and
\* authorizer.check_permissions; create_object and update_object then look
\* the user up in the cache (not_found), create_object rejects a service
\* account changing the data class. Each of these answers with an error.
\* GetObject and GetObjects read the cache right after the check.
Receive(h, op, o, proxy) ==
    /\ hs[h].pc = "idle" /\ requests < MaxRequests
    /\ proxy => op = "finish"
    /\ requests' = requests + 1
    /\ \/ /\ hs' = [hs EXCEPT ![h] = [Idle EXCEPT !.op = op, !.obj = o,
                                                  !.proxy = proxy, !.pc = "db"]]
          /\ UNCHANGED resp
       \/ /\ hs' = [hs EXCEPT ![h] = Idle]                \* rejected
          /\ resp' = [resp EXCEPT ![h] = [ok |-> FALSE, obj |-> o, ver |-> None]]
    /\ UNCHANGED <<db, committed, nextVer, cache, search>>

\* database_handler.create_resource: a new object, staging until finished.
CreateObject(h) ==
    \/ \E o \in Objects :
          /\ db[o].status = "absent"
          /\ Commit(o, "staging")
          /\ Done(h, o, nextVer + 1)
          /\ UNCHANGED <<cache, search, resp>>
    \/ Fails(h)

\* get_upload_url (get_presigend_upload): the URL is built from the cache
\* and the data proxy; nothing is written.
GetUploadUrl(h) ==
    \/ /\ hs' = [hs EXCEPT ![h] = Idle]
       /\ resp' = [resp EXCEPT ![h] = [ok |-> TRUE, obj |-> hs[h].obj, ver |-> None]]
       /\ UNCHANGED <<db, committed, nextVer, cache, search>>
    \/ Fails(h)

\* finish_object_staging: a user's request completes the multipart upload
\* through the proxy, which updates the cache itself; the proxy's own
\* request calls finish_object and the handler puts the result in the cache.
FinishObjectStaging(h) ==
    LET o == hs[h].obj IN
    \/ /\ db[o].status \in Live
       /\ Commit(o, "available")
       /\ Done(h, o, nextVer + 1)
       /\ cache' = IF hs[h].proxy THEN cache ELSE [cache EXCEPT ![o] = nextVer + 1]
       /\ UNCHANGED <<search, resp>>
    \/ Fails(h)

\* update_grpc_object (update_object): a new revision or an update in
\* place of a live object, in one transaction.
UpdateGrpcObject(h) ==
    LET o == hs[h].obj IN
    \/ /\ db[o].status \in Live
       /\ Commit(o, db[o].status)
       /\ Done(h, o, nextVer + 1)
       /\ UNCHANGED <<cache, search, resp>>
    \/ Fails(h)

\* update_object_authors, update_object_title and set_object_hashes:
\* update_author, update_title and set_or_check_hashes write a live object
\* as update_grpc_object does; add_stats_to_object only reads the cache.
UpdateObjectAuthors(h) == UpdateGrpcObject(h)
\* get_download_url (get_presigned_download) answers as get_upload_url does:
\* a URL or an error, with nothing written.
GetDownloadUrl(h) == GetUploadUrl(h)
UpdateObjectTitle(h) == UpdateGrpcObject(h)
SetObjectHashes(h) == UpdateGrpcObject(h)

\* clone_object: a copy of a live object under a new id.
CloneObject(h) ==
    \/ \E n \in Objects :
          /\ db[hs[h].obj].status \in Live /\ db[n].status = "absent"
          /\ Commit(n, "available")
          /\ Done(h, n, nextVer + 1)
          /\ UNCHANGED <<cache, search, resp>>
    \/ Fails(h)

\* delete_resource: the object is marked deleted; the handler removes it
\* from the search index and leaves the cache alone.
DeleteObject(h) ==
    LET o == hs[h].obj IN
    \/ /\ db[o].status \in Live
       /\ Commit(o, "deleted")
       /\ Done(h, o, nextVer + 1)
       /\ UNCHANGED <<cache, search, resp>>
    \/ Fails(h)

\* The database call of the handler in progress.
DbCall(h) ==
    /\ hs[h].pc = "db"
    /\ CASE hs[h].op = "create" -> CreateObject(h)
         [] hs[h].op = "upload_url" -> GetUploadUrl(h)
         [] hs[h].op = "download_url" -> GetDownloadUrl(h)
         [] hs[h].op = "finish" -> FinishObjectStaging(h)
         [] hs[h].op = "update" -> UpdateGrpcObject(h)
         [] hs[h].op = "clone" -> CloneObject(h)
         [] hs[h].op = "delete" -> DeleteObject(h)
         [] hs[h].op = "authors" -> UpdateObjectAuthors(h)
         [] hs[h].op = "title" -> UpdateObjectTitle(h)
         [] hs[h].op = "hashes" -> SetObjectHashes(h)
    /\ UNCHANGED requests

\* cache.add_object / cache.upsert_object with the object the database
\* call returned.
CachePut(h) ==
    /\ hs[h].pc = "cache"
    /\ cache' = [cache EXCEPT ![hs[h].obj] = hs[h].ver]
    /\ hs' = [hs EXCEPT ![h].pc = "search"]
    /\ UNCHANGED <<db, committed, nextVer, search, resp, requests>>

\* search_utils::update_search_index with the returned object, or
\* remove_from_search_index after a delete.
SearchUpdate(h) ==
    /\ hs[h].pc = "search"
    /\ search' = [search EXCEPT ![hs[h].obj] =
                      IF hs[h].op = "delete" THEN None ELSE hs[h].ver]
    /\ hs' = [hs EXCEPT ![h].pc = "respond"]
    /\ UNCHANGED <<db, committed, nextVer, cache, resp, requests>>

\* The answer: the object the database call returned, with its rule
\* bindings from the cache; a user's finish_object_staging answers with
\* the object it finds in the cache (not_found if none).
Respond(h) ==
    /\ hs[h].pc = "respond"
    /\ LET o == hs[h].obj
           v == IF hs[h].op = "finish" /\ ~hs[h].proxy THEN cache[o] ELSE hs[h].ver
       IN resp' = [resp EXCEPT ![h] = [ok |-> v # None, obj |-> o, ver |-> v]]
    /\ hs' = [hs EXCEPT ![h] = Idle]
    /\ UNCHANGED <<db, committed, nextVer, cache, search, requests>>

\* get_object: the cached object, or not_found.
GetObject(h, o) ==
    /\ hs[h].pc = "idle" /\ requests < MaxRequests
    /\ requests' = requests + 1
    /\ resp' = [resp EXCEPT ![h] = [ok |-> cache[o] # None, obj |-> o, ver |-> cache[o]]]
    /\ UNCHANGED <<db, committed, nextVer, cache, search, hs>>

\* get_objects: every id must be cached, else not_found for the request.
GetObjects(h, os) ==
    /\ hs[h].pc = "idle" /\ requests < MaxRequests
    /\ requests' = requests + 1
    /\ resp' = [resp EXCEPT ![h] = [ok |-> \A o \in os : cache[o] # None,
                                    obj |-> None, ver |-> None]]
    /\ UNCHANGED <<db, committed, nextVer, cache, search, hs>>

-----------------------------------------------------------------------------
\* One object exists, staging or available, as sync_cache and the index
\* left it at start-up: cache and index hold its version.
Init ==
    \E o \in Objects, st \in Live :
        /\ db = [x \in Objects |-> IF x = o THEN [status |-> st, ver |-> 1]
                                   ELSE [status |-> "absent", ver |-> None]]
        /\ committed = [x \in Objects |-> IF x = o THEN {1} ELSE {}]
        /\ cache = [x \in Objects |-> IF x = o THEN 1 ELSE None]
        /\ search = cache
    /\ nextVer = 1
    /\ hs = [h \in Handlers |-> Idle]
    /\ resp = [h \in Handlers |-> [ok |-> FALSE, obj |-> None, ver |-> None]]
    /\ requests = 0

Next ==
    \E h \in Handlers :
        \/ \E op \in Ops \ {"get", "get_many"}, o \in Objects, proxy \in BOOLEAN :
              Receive(h, op, o, proxy)
        \/ "get" \in Ops /\ \E o \in Objects : GetObject(h, o)
        \/ "get_many" \in Ops /\ \E os \in SUBSET Objects \ {{}} : GetObjects(h, os)
        \/ DbCall(h) \/ CachePut(h) \/ SearchUpdate(h) \/ Respond(h)

Spec == Init /\ [][Next]_vars

-----------------------------------------------------------------------------
(* Properties                                                              *)

\* Once no request is in flight, the cache holds the version of every live
\* object that the database holds, as it does after any sequence of
\* update_object calls one at a time: the handlers put into the cache
\* after their own commit, without looking at what is cached.
CacheMatchesDbWhenIdle ==
    (\A h \in Handlers : hs[h].pc = "idle")
        => \A o \in Objects : db[o].status \in Live => cache[o] = db[o].ver

=============================================================================
