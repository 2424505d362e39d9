# TLA+ models of the Aruna metadata server and data proxy

This directory holds TLA+ models of parts of the repository and the TLC
configurations that check them. `PROJECT.json` has the machine-readable
inventory: the components, runs, mutants and findings, the map from each
definition to the source lines it models, and the hazards.

## The system

- **aruna-server** (`src/aruna-server/src`) is the new metadata server.
  - `storage/store.rs` owns one LMDB environment, opened through milli. It
    holds the milli documents (one per node, addressed by a u32 idx), the
    `relations`, `relation_infos`, `issuers` and `read_group_perms`
    databases, and the DUP_SORT `events` database.
  - Beside LMDB it keeps a petgraph multigraph behind an `RwLock`. Vertex i
    is the node with idx i, and there is one edge per relation.
  - `transactions/group.rs` turns gRPC requests into write transactions.
    `run_request` draws an event id (`Ulid::new().0`), and `execute`
    then runs in `spawn_blocking`. It opens the single LMDB write
    transaction, creates nodes and relations through the store, and
    commits. Any `?` drops the transaction, which aborts it.
  - Token resolution (`get_requester_from_token_id`) and permission lookup
    (`get_permissions`) read the graph.
- **Legacy server** (`src/src`) authorises requests through an in-memory
  cache of Postgres (`caching/cache.rs`). It checks OIDC tokens with keys
  that `auth/issuer_handler.rs` refreshes. The cache holds three DashMaps
  (objects, users, pubkeys). `sync_cache` refills them from Postgres under
  an `AtomicBool` flag that every accessor spins on in `check_lock`.
  Request handlers commit to Postgres and then call the cache's `add_*`,
  `update_*` and `remove_*` methods.
- **Server gRPC services** (`src/components/server/src/grpc`).
  `object.rs` serves the object API. It goes through a database handler,
  an in-memory cache and a Meilisearch index.
- **Data proxy** (`src/components/data_proxy`) stores object data in S3.
  `BufferedS3Sink` cuts a stream into single or multipart uploads, and
  `data_server/server.rs` serves the HTTP upload and download routes.
  Each route is a pipeline of three stages joined by two bounded
  channels: the request body, a middleware and the storage backend (the
  other way round for a download). The middleware and backend crates are
  not in the repository.

## Modules

### `Store` (instantiated by `MCStore`)

`Store` models the storage engine, the three group write transactions
and two readers of the shared graph: `Store::get_permissions` and
GetUsersFromGroup.

State:

| variable | code |
|---|---|
| `db` | what LMDB has committed: `docs` (milli documents, position = idx), `ids` (external_documents_ids), `rels` (`relations`, keyed by source), `events`, `perms` (`read_group_perms`) |
| `txn` | the open `RwTxn`'s view: a copy of `db` that becomes `db` on commit |
| `writer` | the holder of LMDB's write lock |
| `graphNodes`, `graphEdges` | the petgraph graph. Vertices carry their variant and, in the model only, their external id, so that vertices can be told apart. Edges are kept in insertion order. |
| `hs[h]` | handler h: the request it serves, the event id it drew, and the step it is at |
| `now`, `issued` | the millisecond clock and the group ids Ulid::new() has given out |
| `responses` | the answers to CreateGroup requests |

Actions, one per step between two shared-state effects:

- `RunCreateGroup`, `RunAddUser`, `RunUserAccessGroup`: `run_request`.
  The event id is drawn here.
- `WriteTxn`: `Store::write_txn`. It blocks while another transaction is
  open, and it may fail.
- `CreateNode`: `Store::create_node`. Its disjuncts, in the code's order:
  - indexing fails;
  - `add_node`, then the `assert_eq!` panics;
  - `add_node`, then `events.put` fails;
  - success.
- `CreateRelation`: `Store::create_relation`. It puts into `relations`,
  then adds the graph edge. It is used by `CreateGroupRelation` and
  `AddUserRelation`.
- `CreateGroupCommit`, `AddUserCommit`, `UserAccessGroupCommit`: the rest
  of each closure, up to `commit`. Each has its NotFound and failure exits.
- `Finish`: the closure returns, the transaction is dropped or committed,
  the lock is freed and the answer is sent.

`group.rs` and `store.rs` under `src/` do not fit together. `group.rs`
calls a two-argument `store.create_node(&mut wtxn, &group)` (group.rs:99)
and `wtxn.get_txn()`, `get_ro_graph()` and `commit(event_id, affected, _)`
(group.rs:94, 112, 384) on a wrapper `WriteTxn` that nothing under `src/`
defines. `store.rs` takes three arguments and works on a plain
`heed::RwTxn` (store.rs:160, 217). The model follows `store.rs` for what
each store call does and `group.rs` for the order of the calls. The
wrapper's `commit` is modelled as `CommitEvents`: the event records and
an LMDB commit, with no staging of the graph, since `store.rs` writes the
graph eagerly (store.rs:207, 266) and never rolls it back. The findings
of store_dirty_read and store_restart rest on `store.rs` alone.
- `RunGetPermissions`, `ReadLookup`, `ReadGraph`: a reader, such as the
  authorizer, calls `get_permissions`. It may fail in `read_txn`, and it
  looks up both ids in the snapshot, which gives Unauthorized when one is
  missing. It then drops the read transaction and reads the shared
  graph. The permission it computes there (`get_permissions` over the
  graph, whose source is not in the repository) is not modelled.
  `ReadsSeeOnlyCommitted` is about the graph it is computed on.
- `RunGetUsersFromGroup`, `MembersLookup`, `MembersRead`: the closure of
  `GetUsersFromGroupRequest::run_request`. It looks up the group in its
  read transaction, and then walks the group's incoming permission edges
  in the shared graph (`get_relations`).
- `Restart`: a crash. `Store::new` reopens LMDB and `load_graph` rebuilds
  the graph from `db`.
- `Tick`: the clock advances.

Abstractions:

- Documents carry only their variant and id. Names, descriptions and the
  field codec are left out.
- Indices are 1-based.
- The users are registered before the run. Their events carry id 0, older
  than any drawn in the run.
- `controller.authorize` and the impersonation check are left out. They
  return before any state changes.
- The requester's idx lookup always succeeds, because only registered users
  send requests.
- `wtxn.commit`, `add_read_permission_universe`, `load_graph` and milli's
  idx assignment are called from `src/` but not defined there. They are
  modelled from spec.md (§4.3, §4.4, §4.5, §4.9) and marked spec_modelled.
  `db.hist` is a history field: it holds every relation some commit
  wrote, so that the properties can tell a committed edge from one that
  a failed or open transaction left in the graph.

### `TokenResolution` (instantiated by `MCTokenResolution`)

`TokenResolution` models `Store::get_requester_from_token_id` as
operators.

- `ResolveNeighbors` is RECURSIVE. It walks `Neighbors(Tok)`, which are
  petgraph's outgoing neighbors, newest edge first.
- `ResolveServiceAccount` models the ServiceAccount arm, whose `find`
  picks the first Group.
- `HasUlid` models `get_ulid_from_idx` against the read transaction.

The input is a whole small graph, chosen in `Init`:

- the variant of each vertex;
- each vertex's outgoing edges, in insertion order;
- which vertices the read transaction has committed. `Store` shows that
  the shared graph can hold vertices that never committed.

The single action `Resolve` records the outcome. The model enumerates
every graph of three vertices with up to two edges per vertex, which is
263,424 graphs.

### `AuthCache` (instantiated by `MCAuthCache`)

`AuthCache` models `Cache::check_permissions_with_contexts` and
`Cache::traverse_down` of `src/src/caching/cache.rs`, called by
`PermissionHandler::check_permissions_verbose` for a user token. Both are
RECURSIVE operators:

| operator | code |
|---|---|
| `ScanContexts` | the `for ctx in ctxs` loop. Resource contexts go into a map, where a later one for the same id replaces the earlier. Any other variant returns at once. |
| `CheckPermitted` | the `for (id, got_perm) in permitted` loop, with the direct hit, then `traverse_down` |
| `TraverseDown`, `Bfs`, `VisitChildren` | the breadth-first walk over the children, which removes satisfied contexts and fails on a context that needs more than the entry gives |

`Init` chooses the input. For a user token, that is the hierarchy (a
DAG over 3 objects), a permitted list of up to 2 entries on distinct
objects, a context list of up to 2 contexts, and the cached user's flags.
`Check` runs `check_permissions_verbose` once. Its result is `Verdict`.

A token signed by a data proxy (`token.proxy`) takes the other branch of
`check_permissions_verbose`, which is `ProxyCheck`. `token_handler.rs` is
not in the repository, so what `process_token` returns is an input. That
is the intent action, the cached objects whose `endpoints` list the
signing endpoint (`token.at`), and the cached users whose
`trusted_endpoints` list it (`token.trusted`). The contexts may then be
of any variant. `ProxyCheck` does three things:

- it appends `Context::proxy()`, taken as `GlobalProxy`;
- it denies a token without an action;
- it applies the Impersonate and FetchInfo checks (`IntentAllows`) and
  then `Cache::check_proxy_ctxs` (`ProxyCtxOk`) to every context.

All error returns are a denial.

The module also holds `Cache::upstream_dfs_iterative` and
`Cache::upstream_dfs_recursive`, the searches that list the paths from an
object up to its projects. They are pure functions of the hierarchy,
written as RECURSIVE operators that follow the code:

- `DfsLoop` is the iterative loop. It keeps a queue of parents, pushed to
  the front, and a stack of split indices, and it truncates the current
  path after each project.
- `DfsRecursive` and `DfsParents` are the recursive version.

`ParentSeq` is `get_parents()`, in a fixed order. An object without
parents is a project, because every other resource is created below one.
The reference `UpPaths` is the set of paths from an object up to a
project, defined directly by recursion over parents.

The reference is spec.md §4.8. `Effective(o)` is the highest level
granted on `o` or on any resource above it, found through
`TransitiveClosure`. `SpecGranted` holds when every context is met.

### `CacheSync` (instantiated by `MCCacheSync`)

`CacheSync` models the concurrency of the legacy `Cache` in
`src/src/caching/cache.rs`. `db` is Postgres and `cache` the three maps,
both as map -> key -> version, with `Absent` for a missing row.

| action | code |
|---|---|
| `SyncStart` | `sync_cache`: `lock.store(true)` and the three `clear()` calls |
| `SyncClient` | `db.get_client().await?` |
| `SyncQuery` | `get_all_objects_with_relations`, `User::all`, `DbPubkey::all`: the rows of the current map as Postgres has them |
| `SyncInsert` | one iteration of an insert loop; `PubKeyEnum::try_from` may fail |
| `SyncFails` | a `?` of `sync_cache`: it returns with the flag still set |
| `SyncUnlock` | `lock.store(false)` |
| `Commit(w)` | a handler's Postgres commit of its entry: a new row, a new version or a deletion |
| `CheckLock(w)` | `check_lock`: the handler waits while the flag is set |
| `Apply(w)` | the cache method: `add_*` inserts, `update_*` replaces only an entry `get_mut` finds, `remove_*` removes; there is no `update_pubkey` |

The handlers' commits are not in the repository. The model has one
`sync_cache` caller, which makes its calls one after the other.

### `IssuerRefresh`

`IssuerRefresh` models one `Issuer` of `src/src/auth/issuer_handler.rs`.
`check_token` takes `&mut self`, so the checks of one issuer run one at a
time.

- `keys` is the set of key ids in `decoding_keys`.
- `elapsed` is the time in minutes since `last_updated`, saturated at
  `Window`. The code only compares that time with 5 minutes.
- `CheckToken(kid, valid)` covers every path of `check_token`:
  - no kid;
  - a known key;
  - an unknown key, followed by each way `refresh_jwks` can fail (too
    soon, not OIDC, no endpoint, the GET fails) or succeed.
- `valid` abstracts `get_validate_claims`.
- The OIDC provider is the environment. `Rotate` changes the key ids it
  publishes, and `Tick` lets a minute pass.
- `Init` covers both constructors. `new_with_endpoint` fetches the
  provider's keys, and `new_with_keys` takes any keys, of any issuer type,
  with no endpoint.

### `BufferedS3Sink`

`BufferedS3Sink` models `process_bytes` of the data proxy's S3 sink. The
function is split at its awaits, and `pc` records where the call in
progress is. Its actions are:

- `InitializeMultipart`. It sets `part_number` before its S3 call, which
  may fail.
- `UploadPart`. It splits off the buffer before its S3 call.
- `SendEtag`. It blocks while the channel of capacity 2 is full.
- `CheckFinished`.
- `UploadSingle`.
- `FinishMultipart`.
- `ReturnTrue`.

Bytes are abstracted to sizes, with the 5 MiB threshold scaled to 2. S3 is
`s3Parts`, the parts of the upload by number, and `stored`, the finished
object as its part sizes. The environment has two actions. `Call` is the
pipeline calling `process_bytes` once the previous call has returned
Ok(false), ending with an empty finished call. `ReceiveEtag` is the owner
of the receiver taking an etag. Neither the pipeline nor the receiver's
owner is under `src/`. `Init` covers both modes of `BufferedS3Sink::new`,
with and without a sender. A `single_part_upload` sink is given its
upload id and part number.

The refinement: `S3Upload` is the promise of a sink of the upload
pipeline. Its state is the bytes received, whether the stream has ended,
and the stored object. It accepts writes until the end, then stores
exactly what it received, or fails. `BufferedS3Sink` instantiates it with
`received <- sent` and `ended <- finSent`. `object` maps to what S3 holds
once `process_bytes` has returned Ok(true): the given part, or the sum of
the stored parts. `ImplementsS3Upload == Upload!Spec` is checked as a
PROPERTY. Every part upload, etag send and S3 call is a stuttering step
of the abstract spec.

### `ObjectService` (instantiated by `MCObjectService`)

`ObjectService` models the handlers of
`components/server/src/grpc/object.rs`. tonic runs each request as a task,
and the tasks interleave at every await. A handler `h` walks through
`hs[h].pc`:

1. `Receive`: the token, the ids, `check_permissions`, and for
   create/update the user lookup and the data-class check. Each of these
   may answer with an error. `GetObject` and `GetObjects` answer from the
   cache in the same step.
2. `DbCall`: the database handler's call, one Postgres transaction. It
   is `CreateObject`, `GetUploadUrl`, `GetDownloadUrl`, `FinishObjectStaging`,
   `UpdateGrpcObject`, `UpdateObjectAuthors`, `UpdateObjectTitle`,
   `SetObjectHashes`, `CloneObject` or `DeleteObject`, by request. Every
   one of them may fail (`Fails`).
3. `CachePut`: `cache.add_object` or `cache.upsert_object`. It applies to
   create, clone, update and the proxy's finish (`AfterDb`).
4. `SearchUpdate`: `update_search_index`, or `remove_from_search_index`
   after a delete.
5. `Respond`.

An object is its status and a version. Each commit gives it a fresh
version, and `committed[o]` records every version committed.

The database handler, the server's cache and `search_utils` are not under
`src/`. They are modelled from how `object.rs` calls them:
- a transaction is atomic;
- a cache or index update is a put or a remove;
- only `complete_multipart_upload`, which is passed the cache, updates
  the cache itself.

### `DataServer`

`DataServer` models `data_server/server.rs` for one request. `mode` is the
route taken, and `resp` is the handler's answer.

- `single_upload`, `multi_upload` and `download` are the handlers up to
  their pipelines. Each early return is one value of `check`, and
  `Rejection` gives its answer. An `Err` from `verify_sign_url` is
  unwrapped, so that answer is a panic. A passing request starts the
  three stages (`Start`). A download answers 200 at once, and its body
  streams afterwards.
- The first stage is `handle_payload` for an upload (`PayloadItem`,
  `PayloadEnd`, `PayloadError`, `PayloadSend`). `buf` is its `BytesMut`,
  and a buffer longer than `UPLOAD_CHUNK_SIZE` is sent as a chunk. An
  `Err` item is unwrapped, which is a panic. For a download, the first
  stage is the spawned backend task (`DownloadSend`, `DownloadEnd`,
  `DownloadFail`). Its `Err` is dropped by `tokio::spawn`.
- The middleware forwards from `ch1` to `ch2`, and finishes when `ch1` is
  closed and empty. `Ch1Closed` says that `ch1` closes once the first
  stage has returned and dropped its sender.
- The last stage is the backend for an upload (`BackendRecv`,
  `BackendEnd`, `BackendFail`), and the `stream!` body for a download
  (`StreamYield`, `StreamEnd`).
- `JoinSingle` and `JoinMulti` are `try_join!`. It answers 500 on the first
  `Err`, and 200 when all three stages are done. `Polled` stops every
  stage of an upload once one has failed, because `try_join!` drops the
  other futures.

The middleware and the backend are modelled as the contract `server.rs`
relies on: they forward, or consume, until the sender before them is
dropped, and the backend may fail at any time. Their actions have no
entry in the map. Bytes are numbers and a chunk is its size. The
location, the headers and the ETag are left out.

The refinement: an upload is checked against the same `S3Upload` as the
sink. `received` is the bytes `handle_payload` has taken from the client,
and `ended` is the end of the client's stream. `object` is the backend's
bytes once the answer is 200. A rejected, failed or panicked upload is
`Fail`, and a download stutters.

## Runs

| run | cfg | expect | shows |
|---|---|---|---|
| store_safety | `MCStore.cfg` | pass | `TypeOK`, `CommittedStateInGraph` (every committed document is the graph vertex at its idx, and every committed relation is a graph edge, whatever failed or crashed before), `ResponsesTruthful` (a CreateGroup answered Ok is committed, one answered with an error left no group) |
| store_dirty_read | `MCStore_dirty_read.cfg` | violation | `ReadsSeeOnlyCommitted` (the graph read by `get_permissions`, by GetUsersFromGroup and by UserAccessGroup's choice of affected users holds only committed vertices and edges): `get_permissions` evaluates a graph holding a vertex that was never committed. A CreateGroup failed after `add_node`, and its vertex stays in the graph (spec.md §4.2, §5, §7). The same vertex makes every later `create_node` panic at `assert_eq!`. |
| store_restart | `MCStore_restart.cfg` | violation | `RestartPreservesGraph`: `relations.put` overwrote an edge, so the rebuilt graph loses it (spec.md §4.4) |
| store_event_order | `MCStore_event_order.cfg` | violation | `EventIdsIncrease`: event ids commit out of order (spec.md §3.6) |
| store_parallel_edges | `MCStore_parallel_edges.cfg` | violation | `PermissionEdgesUnique`: CreateGroup adds user --ADMIN--> group, and a later AddUser of the same user to the group adds a second permission edge between them, both committed with no failure and no crash; `AddUserRequestTx::execute` never looks for an existing edge (group.rs:248), while spec.md §3(5) allows at most one |
| token_sound | `MCTokenResolution.cfg` | pass | `TypeOK`: over every graph of three vertices, every variant and every commit state, the resolution yields Unauthorized, a User, or a ServiceAccount with the Group it found |
| auth_sound | `MCAuthCache.cfg` | pass | `GrantSound` (a granted user-token request meets every context under spec.md §4.8), `PermissionMonotonic` (lowering one context's level never turns a grant into a denial, for either kind of token), `UpstreamDfsPaths` (both upstream searches list every path up to a project exactly once) |
| cache_sync | `MCCacheSync.cfg` | pass | `TypeOK`, `CacheMatchesDbWhenQuiet`: once a sync has succeeded, an entry whose handler is done holds the Postgres row whenever no sync runs and the flag is clear. A handler's `update_*` that passed `check_lock` just before a sync cleared the maps finds no entry, but the sync's query already holds its commit; a handler that commits after the query waits in `check_lock` and overwrites the stale row. |
| issuer_refresh | `MCIssuerRefresh.cfg` | pass | `TypeOK`, `KeyEventuallyTrusted` (a key the OIDC provider keeps publishing is trusted in the end, despite rotations and failed fetches) |
| s3_sink | `MCBufferedS3Sink.cfg` | pass | `TypeOK` (the etag channel never holds more than 2), `UploadPartsWellFormed` (once `process_bytes` returns Ok(true), the parts are numbered 1..n in order with every part but the last at least the threshold, or the one given part), `ImplementsS3Upload` (the sink refines `S3Upload`: it stores exactly the bytes passed in, and only after the end of the stream, or fails) |
| data_server | `MCDataServer.cfg` | pass | `ImplementsS3Upload` (an upload through `handle_payload`, the middleware and the backend refines `S3Upload`: a 200 means every byte taken from the client reached the backend, through full channels and chunk boundaries), `RequestCompletes` (every accepted request is answered, and a download's body ends, because each stage's end drops its sender and closes the next channel) |
| object_cache_race | `MCObjectService_race.cfg` | violation | `CacheMatchesDbWhenIdle`: two `update_object` calls commit versions 2 and 3, then put into the cache in the order 3, 2, so once both have answered the cache serves version 2 while the database holds 3 (object.rs:334) |

Each property of a passing run has a mutant in `PROJECT.json`, a plausible
bug in the modelled code, and TLC finds each mutant violated:

| property | mutated code |
|---|---|
| `TypeOK` | relations keyed by target |
| `CommittedStateInGraph` | the `relations` scan skips the first key |
| `ResponsesTruthful` | the commit error is ignored |
| `TypeOK` (token) | the group is not attached to the service account requester |
| `GrantSound` | a direct entry removes a context whatever its level |
| `PermissionMonotonic` | a direct entry removes a context only at exactly its level |
| `UpstreamDfsPaths` | the iterative search records a split index before pushing the object |
| `TypeOK` (issuer) | JWKs without a kid are kept |
| `KeyEventuallyTrusted` | the refresh stamps the time but keeps the old keys |
| `TypeOK` (sink) | the etag is sent as on an unbounded channel |
| `UploadPartsWellFormed` | the part number is not advanced after a part |
| `ImplementsS3Upload` | the buffer is not split off before a part is uploaded |
| `ImplementsS3Upload` (data server) | `handle_payload` returns at the end of the stream without sending the buffer |
| `RequestCompletes` | the handler keeps a clone of `payload_sender` until `try_join!` returns |
| `TypeOK` (cache sync) | the insert loop's test for the last map is `<=`, so a fourth map is queried |
| `CacheMatchesDbWhenQuiet` | a cache method skips `check_lock` |

### Bounds

`Store` (MCStore):

- 2 handlers, 2 users, 2 group ids, and the permissions READ and ADMIN;
- 2 random ULID parts and 2 milliseconds;
- 3 requests, 1 failing LMDB call and 1 crash.

Three requests is the smallest number that reaches every path. One way is
a group created, a failure, and a second CreateGroup that hits the stale
vertex and panics. Another is two CreateGroups by one user, or CreateGroup
followed by AddUser, racing for the lock. A third way is a
CreateGroup that fails after `add_node`, then a reader of another group
that reads the graph. The run reaches about 1.4 million distinct
states in about 2 minutes.

`AuthCache`:

- 3 objects, enough for a chain of three or a parent with two children;
- the levels NONE, READ and WRITE;
- up to 2 permitted entries and 2 contexts;
- for proxy-signed tokens: 4 intent actions (none, Impersonate,
  FetchInfo and another), every set of objects at the endpoint, every set
  of trusting users, and up to 2 contexts of every variant.

The run reaches 216,832 distinct states in about 110 s.

Two entries are what it takes for the order of the permitted list to
matter. Two contexts are what it takes for contexts to collapse.

The upstream searches run on every hierarchy of the state, and on the two
hierarchies of `MCDfsHierarchies`. Three objects give only one split, so
`MCDfsHierarchies` adds two larger ones. The first is the hierarchy of
`test_upstream_dfs_001`. The second has six resources, two projects and
nested splits, so that the iterative version pops its split stack more
than once for a single object. The run takes about 1 min.

`CacheSync`:

- 2 keys per map, starting present or absent in Postgres;
- 2 handlers, one changing an object and one a pubkey, so that one entry
  is refilled by the first insert loop and one by the last;
- 2 versions per entry, 2 `sync_cache` calls and 1 failing Postgres call,
  so that a failed sync can be repaired by a second one (332,784 states,
  about 5 s).

Each handler has its own entry. Two handlers of one entry race without
any sync (the `object_cache_race` run shows the same race in the new
server), and that race is not this run's question.

`IssuerRefresh`:

- 3 key ids;
- a 5-minute window;
- 2 rotations and 2 failed fetches, so that a rotation can happen inside
  the window and a fetch can fail twice in a row.

`BufferedS3Sink`:

- a threshold of 2, with chunk sizes 1 to 3, so that a chunk can fall
  below, reach or pass the threshold;
- 3 chunks with data, which can produce three parts and fill the channel
  of capacity 2;
- 1 failing S3 call.

`ObjectService`:

- 2 tasks and 2 objects, one of which exists at the start;
- 3 requests, `update_object` and `get_object` only, in the race run.

`DataServer`:

- `UPLOAD_CHUNK_SIZE` scaled to 2, with items of 1 or 2 bytes, so that a
  buffer can stay below, land on or pass the chunk size;
- uploads of up to 5 bytes, which give two full chunks and a tail, or an
  empty last chunk;
- a download of 3 bytes;
- channels of capacity 1 instead of 10, so that every stage blocks on a
  full channel (866 states).

Coverage shows every action and every disjunct of the passing runs firing.

### Fairness

`IssuerRefresh`: `FairSpec` assumes weak fairness of `Tick` and, for each
key id, of a check of a valid token with that id. Time passes, and the
property is about clients who keep presenting tokens. No fairness is
assumed for fetch failures or rotations, which are bounded.

`Store`, `BufferedS3Sink` and `CacheSync` are checked for safety only.
The liveness questions they raise depend on code that is not under
`src/`. The owner of the etag receiver must keep draining the channel
of capacity 2, and a later `sync_cache` call must clear the flag that a
failed one left set. Nothing under `src/` calls `BufferedS3Sink::new`
or `sync_cache`, so no fairness for them could be justified from the code.

`DataServer`: `Spec` assumes weak fairness of every stage's steps.
`try_join!` polls all three futures, and tokio runs the spawned download
tasks. It also assumes that the client eventually sends more, ends its
body or goes away. `payload.next()` has no timeout, so nothing in the
code forces this (see the hazards). No fairness is assumed for backend
failures.

`CHECK_DEADLOCK FALSE` is set in these places:

- `Store`, because the bounded model stops once its requests are spent.
  The server itself would then idle.
- `AuthCache`, because it is a single check.
- `BufferedS3Sink`, because the upload ends.
- `ObjectService`, because its requests are bounded.
- `DataServer`, because the request ends. `RequestCompletes` checks that
  it never stops before its answer.
- `CacheSync`, because its syncs and versions are bounded. After a failed
  sync with no later call, handlers spin in `check_lock`; the model shows
  that as a state with no step.

## Observations not covered by a run

At most 12 runs are kept. These disagreements were found while modelling
and are stated here without a run:

- Besides the failed writes that store_dirty_read shows, a reader also
  sees the vertex and the edges of a write transaction that is still
  open (store.rs:207, 266). Token resolution reads the same graph.
- `download` spawns the backend download and drops its `Err`
  (server.rs:133). The channels then close normally and the body ends
  cleanly, so a client gets a truncated object under 200 OK.
  `DataServer` reaches this, with `DownloadFail` then `StreamEnd` having
  streamed fewer than `ObjectSize` bytes.
- `multi_upload` builds its location from `path.0`, the part number, as
  the bucket and `path.1`, the bucket, as the path, and never uses the key
  (server.rs:275).
- Two Resource contexts for the same id collapse into the later one
  (cache.rs:237, `HashMap::insert`). With contexts `[READ on 1, NONE on
  1]` and a NONE permission on 1, the request is granted, although
  spec.md §4.8 requires READ.
- `get_requester_from_token_id` takes the first User neighbor of the
  token, whatever the edge type (store.rs:341). spec.md §4.7(4) resolves
  only through the OwnedByUser edge.
- A delete and a concurrent update of the same object can leave the
  deleted object in the search index (object.rs:436). `ObjectService`
  reaches this, but no run checks it.
- `check_permissions_with_contexts` passes a `User(other)` context for
  any requester that is not a service account (cache.rs:240). spec.md
  §4.8 requires the requester to be that user or a global admin.
- The first non-Resource context decides the whole check, and the contexts
  after it are never looked at (cache.rs:234).
- `AddUser` adds a second permission edge when the user already has one
  (group.rs:248). `Store` reaches the state.
- A service account in two groups resolves with its newest group
  (store.rs:369).
- A failed JWKS fetch does not advance `last_updated`, so every token with
  an unknown kid refetches (issuer_handler.rs:89). A key that the provider
  revokes stays trusted until an unknown kid triggers a refresh.
- No error path of the S3 sink sends `abort_multipart_upload`. When
  `upload_part` fails, its bytes have already been split off the buffer.
- `get_all_deactivated` in cache.rs returns the active users.
- `check_permissions_with_contexts` denies requests that spec.md §4.8
  grants (cache.rs:269). With permitted `[(2, NONE), (3, READ)]`, 3 below
  2 and a context READ on 3, `traverse_down` from 2 meets the context,
  which needs more than NONE, and returns Err. The later direct READ entry
  on 3 is never reached. TLC found this against the property
  `checked /\ SpecGranted => granted` over `MCAuthCache`'s inputs.
- A `?` in `sync_cache` after `lock.store(true)` leaves the flag set
  (cache.rs:51). Every later accessor spins in `check_lock` until another
  `sync_cache` call succeeds, and the spin occupies a tokio worker.
  `CacheSync` reaches this state; whether another call comes depends on
  a caller that is not under `src/`.
- Through a proxy-signed token whose action is neither Impersonate nor
  FetchInfo, `check_proxy_ctxs` grants a `User(uid, READ)` context when
  the cached user `uid` trusts the endpoint (cache.rs:203). spec.md §4.8
  requires the requester of a User context to be that user or a global
  admin, and gives GlobalProxy a shortcut only for resources. This looks
  like intended behaviour, the `trusted_endpoints` feature, which spec.md
  does not describe. No run checks proxy-signed grants.
- `get_all_deactivated` keeps the users whose `active` flag is set
  (cache.rs:169), so it returns the active users, not the deactivated
  ones. It only reads the maps and is not modelled.
- `store.rs:14` imports `init::init_issuer`, but `init.rs` defines
  `init_issuers` with another signature.
- `sync_cache`, the `upstream_dfs_*` helpers and `BufferedS3Sink::new`
  have no caller under `src/`.
- The Resource decoder reads the fields with ids 13 and 22 as
  `license_tag` and `title` (`src/aruna-server/src/models.rs:140,143`), but
  constants.rs names those fields "license" and "tag". `revision` is always
  decoded as 0 (models.rs:130).
- `src/middlelayer/update_db_handler.rs:138` takes two arguments and returns
  a 4-tuple. `components/server/src/grpc/object.rs:329` passes three arguments and expects a pair. The
  middlelayer and the gRPC handlers under `src/` come from different
  versions, so `ObjectService` models the database calls from the handler's
  side only.

## Plan for later sittings

1. The NATS notification handler: `register_event` and
   `acknowledge_from_reply`, whose early return on a bad hmac and
   `try_join_all` leave acknowledgements partial.
2. A passing property for `ObjectService`: its run over all handlers was
   dropped because what it checked held by construction.

The run cap means that new questions have to replace or merge existing
runs.

## Not modelled

- milli's search and the field codec, which convert data.
- Postgres CRUD and the middlelayer, whose SQL is out of TLC's reach.
- NATS transport.
- The gRPC and HTTP facades.
- The data proxy's map cache and persistence.
- The aruna-data error and transform types.
- The integration tests.

`PROJECT.json` gives the reason for each.
