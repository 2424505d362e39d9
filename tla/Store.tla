-------------------------------- MODULE Store --------------------------------
(***************************************************************************)
(* The storage engine of the metadata server (aruna-server/src/storage)   *)
(* and the write transactions of aruna-server/src/transactions/group.rs.  *)
(*                                                                         *)
(* Committed state (LMDB through milli, survives a crash), in `db`:       *)
(*   docs    the milli documents; the document at position i has idx i    *)
(*   ids     external_documents_ids: external id -> idx (0 = absent)      *)
(*   rels    the `relations` database, keyed by the source idx            *)
(*   events  the DUP_SORT `events` database, a set of <<idx, event id>>   *)
(*   perms   the `read_group_perms` database: group idx -> set of idx     *)
(*   hist    (history only) every relation some commit wrote              *)
(* An open write transaction works on a private copy, `txn`, that becomes *)
(* `db` on commit and is dropped on any error.                            *)
(*                                                                         *)
(* Volatile state: the petgraph graph behind its RwLock (`graphNodes`,    *)
(* vertex i, and `graphEdges`, the edges in insertion order),             *)
(* the holder of the single LMDB write transaction, and the handlers.     *)
(*                                                                         *)
(* Indices are 1-based here: model idx i is the code's u32 idx i-1.       *)
(***************************************************************************)
EXTENDS Naturals, Sequences, FiniteSets, SequencesExt, TLC

CONSTANTS
    Handlers,       \* request handler tasks that run concurrently
    Users,          \* external ids of the users registered before the run
    GroupIds,       \* external ids that Ulid::new() may give a new group
    AddUserPerms,   \* permission edge types an AddUserRequest may carry
    UlidRandom,     \* random parts of ULIDs drawn within one millisecond
    MaxMs,          \* bound on the millisecond clock read by Ulid::new()
    MaxRequests,    \* bound on the number of requests received
    MaxFailures,    \* bound on LMDB / milli operations that return an error
    MaxCrashes,     \* bound on process crashes
    NoHandler,      \* model value: no handler holds the write transaction
    NoTxn           \* model value: no write transaction is open

ASSUME /\ Users # {} /\ Users \cap GroupIds = {}
       /\ NoHandler \notin Handlers
       /\ UlidRandom = 0..(Cardinality(UlidRandom) - 1)
       /\ \A n \in {MaxMs, MaxRequests, MaxFailures, MaxCrashes} : n \in Nat

ExtIds == Users \cup GroupIds

\* constants.rs relation_types
PERMISSION_NONE == 2
PERMISSION_READ == 3
PERMISSION_ADMIN == 6
PermissionTypes == PERMISSION_NONE..PERMISSION_ADMIN

ASSUME AddUserPerms \subseteq PermissionTypes

VARIABLES
    db,          \* committed LMDB state
    txn,         \* the open write transaction's view, or NoTxn
    writer,      \* handler holding the write transaction, or NoHandler
    graphNodes,  \* Seq of Doc: vertex i
    graphEdges,  \* Seq of <<source, target, edge type>>, insertion order
    hs,          \* per handler: the request it serves and where it is
    now,         \* millisecond clock read by Ulid::new()
    issued,      \* group ids already generated by Ulid::new()
    responses,   \* answers sent for CreateGroup requests: [gid, ok]
    requests, failures, crashes   \* counters for the bounds

vars == <<db, txn, writer, graphNodes, graphEdges, hs, now, issued,
          responses, requests, failures, crashes>>

-----------------------------------------------------------------------------
(* Helpers translated from the code                                        *)

\* The u128 of a fresh Ulid::new(): 48 bits of milliseconds above random bits.
Eid(ms, r) == ms * Cardinality(UlidRandom) + r

\* Store::get_idx_from_ulid: the idx of an external id in a snapshot.
GetIdxFromUlid(view, id) == view.ids[id]

\* A milli document, and a graph vertex: the vertex weight is the NodeVariant;
\* its external id is kept in the model only, to tell vertices apart.
Doc(variant, id) == [variant |-> variant, id |-> id]

\* milli assigns a new document the smallest unused docid.
MilliNextIdx(view) == Len(view.docs) + 1

\* Mutant: the relation is keyed by its target instead of its source.
PutRelationByTarget(rels, s, t, ty) == (t :> <<s, t, ty>>) @@ rels

\* Store::create_relation, KV half: `relations` is not DUP_SORT and keyed
\* by the source idx, so put replaces the source's previous relation.
PutRelation(rels, s, t, ty) == (s :> <<s, t, ty>>) @@ rels

\* read_group_perms universe of a new group holds the group itself.
AddReadPermissionUniverse(perms, g) == (g :> ({g} \cup
    (IF g \in DOMAIN perms THEN perms[g] ELSE {}))) @@ perms

\* wtxn.commit(event_id, affected, _): one event record per affected idx;
\* the history records the relations the commit makes durable.
CommitEvents(view, eid, affected) ==
    [view EXCEPT !.events = @ \cup {<<i, eid>> : i \in affected},
                 !.hist = @ \cup {view.rels[s] : s \in DOMAIN view.rels}]

\* Mutant: the scan of `relations` starts after the first key.
LoadGraphEdgesSkipFirst(d) ==
    LET srcs == SetToSortSeq(DOMAIN d.rels, <)
    IN [i \in 1..(Len(srcs) - 1) |-> d.rels[srcs[i + 1]]]

\* load_graph: one vertex per document in ascending idx order, then one
\* edge per record of `relations` in ascending key order.
LoadGraphEdges(d) ==
    LET srcs == SetToSortSeq(DOMAIN d.rels, <)
    IN [i \in 1..Len(srcs) |-> d.rels[srcs[i]]]

\* The users registered before the run, in the order of their idx.
UserAt == CHOOSE f \in [1..Cardinality(Users) -> Users] : ToSet(f) = Users

Idle == [pc |-> "idle", kind |-> "none", user |-> CHOOSE u \in Users : TRUE,
         gid |-> CHOOSE u \in Users : TRUE, perm |-> PERMISSION_NONE,
         eid |-> 0, uidx |-> 0, gidx |-> 0]

-----------------------------------------------------------------------------
Init ==
    /\ db = [docs   |-> [i \in DOMAIN UserAt |-> Doc("User", UserAt[i])],
             ids    |-> [x \in ExtIds |-> IF x \in Users
                                          THEN CHOOSE i \in DOMAIN UserAt : UserAt[i] = x
                                          ELSE 0],
             rels   |-> <<>>,
             events |-> {<<i, 0>> : i \in DOMAIN UserAt},
             perms  |-> <<>>,
             hist   |-> {}]
    /\ txn = NoTxn
    /\ writer = NoHandler
    /\ graphNodes = db.docs
    /\ graphEdges = <<>>
    /\ hs = [h \in Handlers |-> Idle]
    /\ now = 1
    /\ issued = {}
    /\ responses = {}
    /\ requests = 0 /\ failures = 0 /\ crashes = 0

\* The spawn_blocking closure returns: its RwTxn is dropped (aborted) unless
\* committed, the write lock is free again, and the answer goes out.
Finish(h, ok) ==
    /\ writer' = NoHandler
    /\ txn' = NoTxn
    /\ hs' = [hs EXCEPT ![h] = Idle]
    /\ responses' = IF hs[h].kind = "CreateGroup"
                    THEN responses \cup {[gid |-> hs[h].gid, ok |-> ok]}
                    ELSE responses

\* An LMDB / milli call that returns an error (map full, I/O).
Fail == failures < MaxFailures /\ failures' = failures + 1

Receive(h, req) ==
    /\ hs[h].pc = "idle"
    /\ requests < MaxRequests
    /\ \E r \in UlidRandom :
         hs' = [hs EXCEPT ![h] = [Idle EXCEPT !.pc = "wait_txn",
                  !.kind = req.kind, !.user = req.user, !.gid = req.gid,
                  !.perm = req.perm, !.eid = Eid(now, r)]]
    /\ requests' = requests + 1

\* CreateGroupRequest::run_request: a fresh group Ulid, a fresh event id.
RunCreateGroup(h) ==
    \E u \in Users, g \in GroupIds \ issued :
        /\ Receive(h, [kind |-> "CreateGroup", user |-> u, gid |-> g,
                       perm |-> PERMISSION_ADMIN])
        /\ issued' = issued \cup {g}
        /\ UNCHANGED <<db, txn, writer, graphNodes, graphEdges, now,
                       responses, failures, crashes>>

\* AddUserRequest::run_request: add `u` to group `g` with permission `p`.
RunAddUser(h) ==
    \E u \in Users, g \in GroupIds, p \in AddUserPerms :
        /\ Receive(h, [kind |-> "AddUser", user |-> u, gid |-> g, perm |-> p])
        /\ UNCHANGED <<db, txn, writer, graphNodes, graphEdges, now, issued,
                       responses, failures, crashes>>

\* A reader calls Store::get_permissions(g, u), as the authorizer does for
\* a Permission context on group `g` (the controller is not in the
\* repository). Readers draw no event id and take no write transaction.
ReceiveRead(h, kind, pc) ==
    \E u \in Users, g \in GroupIds :
        /\ hs[h].pc = "idle"
        /\ requests < MaxRequests
        /\ hs' = [hs EXCEPT ![h] = [Idle EXCEPT !.pc = pc, !.kind = kind,
                                                !.user = u, !.gid = g]]
        /\ requests' = requests + 1
        /\ UNCHANGED <<db, txn, writer, graphNodes, graphEdges, now, issued,
                       responses, failures, crashes>>

RunGetPermissions(h) == ReceiveRead(h, "GetPermissions", "read_lookup")

\* GetUsersFromGroupRequest::run_request by `u` on group `g`: the
\* spawn_blocking closure works on a read transaction only.
RunGetUsersFromGroup(h) == ReceiveRead(h, "GetUsersFromGroup", "members_lookup")

\* The closure up to the group's idx: read_txn may fail, the group may be
\* missing from the snapshot (NotFound).
MembersLookup(h) ==
    LET g == GetIdxFromUlid(db, hs[h].gid) IN
    /\ hs[h].pc = "members_lookup"
    /\ \/ /\ Fail
          /\ hs' = [hs EXCEPT ![h] = Idle]
       \/ /\ g = 0
          /\ hs' = [hs EXCEPT ![h] = Idle]
          /\ UNCHANGED failures
       \/ /\ g # 0
          /\ hs' = [hs EXCEPT ![h].pc = "members_read", ![h].gidx = g]
          /\ UNCHANGED failures
    /\ UNCHANGED <<db, txn, writer, graphNodes, graphEdges, now, issued,
                   responses, requests, crashes>>

\* get_relations(idx, NONE..=ADMIN, Incoming, &rtxn) walks the shared
\* graph; each source is looked up in the snapshot (NotFound ends the
\* closure) and its node read; then rtxn.commit, which may fail. The list
\* of users answered is not modelled.
MembersRead(h) ==
    /\ hs[h].pc = "members_read"
    /\ hs' = [hs EXCEPT ![h] = Idle]
    /\ \/ Fail
       \/ UNCHANGED failures
    /\ UNCHANGED <<db, txn, writer, graphNodes, graphEdges, now, issued,
                   responses, requests, crashes>>

\* Store::get_permissions up to drop(rtxn): read_txn may fail; the resource
\* and the user are looked up in the snapshot, Unauthorized when either
\* is missing.
ReadLookup(h) ==
    LET g == GetIdxFromUlid(db, hs[h].gid)  u == GetIdxFromUlid(db, hs[h].user)
    IN
    /\ hs[h].pc = "read_lookup"
    /\ \/ /\ Fail
          /\ hs' = [hs EXCEPT ![h] = Idle]
       \/ /\ g = 0 \/ u = 0
          /\ hs' = [hs EXCEPT ![h] = Idle]
          /\ UNCHANGED failures
       \/ /\ g # 0 /\ u # 0
          /\ hs' = [hs EXCEPT ![h].pc = "read_graph", ![h].uidx = u, ![h].gidx = g]
          /\ UNCHANGED failures
    /\ UNCHANGED <<db, txn, writer, graphNodes, graphEdges, now, issued,
                   responses, requests, crashes>>

\* Store::get_permissions after drop(rtxn): the graph read guard is taken
\* and the permission is computed on the shared graph as it is now. The
\* answer itself is not modelled; ReadsSeeOnlyCommitted is about the
\* graph it is computed on.
ReadGraph(h) ==
    /\ hs[h].pc = "read_graph"
    /\ hs' = [hs EXCEPT ![h] = Idle]
    /\ UNCHANGED <<db, txn, writer, graphNodes, graphEdges, now, issued,
                   responses, requests, failures, crashes>>

\* UserAccessGroupRequest::run_request by requester `u` on group `g`.
RunUserAccessGroup(h) ==
    \E u \in Users, g \in GroupIds :
        /\ Receive(h, [kind |-> "UserAccessGroup", user |-> u, gid |-> g,
                       perm |-> PERMISSION_NONE])
        /\ UNCHANGED <<db, txn, writer, graphNodes, graphEdges, now, issued,
                       responses, failures, crashes>>

\* Store::write_txn: blocks until no other write transaction is open, and
\* may fail, which ends the closure with the error.
WriteTxn(h) ==
    /\ hs[h].pc = "wait_txn"
    /\ writer = NoHandler
    /\ \/ /\ Fail
          /\ hs' = [hs EXCEPT ![h] = Idle]
          /\ responses' = IF hs[h].kind = "CreateGroup"
                          THEN responses \cup {[gid |-> hs[h].gid, ok |-> FALSE]}
                          ELSE responses
          /\ UNCHANGED <<writer, txn>>
       \/ /\ writer' = h
          /\ txn' = db
          /\ hs' = [hs EXCEPT ![h].pc =
                      CASE hs[h].kind = "CreateGroup" -> "create_node"
                        [] hs[h].kind = "AddUser" -> "add_user"
                        [] OTHER -> "access_group"]
          /\ UNCHANGED <<responses, failures>>
    /\ UNCHANGED <<db, graphNodes, graphEdges, now, issued, requests, crashes>>

\* Store::create_node, called from CreateGroupRequestTx::execute after the
\* requester's idx lookup. milli indexes the document inside the write
\* transaction; then the vertex is added to the shared graph at once; then
\* assert_eq! compares the two indices (a panic unwinds the closure, drops
\* the transaction and answers ServerError); then the event is put.
CreateNode(h) ==
    LET t    == txn
        uidx == GetIdxFromUlid(t, hs[h].user)
        idx  == MilliNextIdx(t)
        node == Len(graphNodes) + 1
        done == [t EXCEPT !.docs = Append(@, Doc("Group", hs[h].gid)), !.ids[hs[h].gid] = idx,
                          !.events = @ \cup {<<idx, hs[h].eid>>}]
    IN
    /\ hs[h].pc = "create_node"
    /\ \/ /\ Fail                                   \* indexing returns Err
          /\ Finish(h, FALSE)
          /\ UNCHANGED <<db, graphNodes, graphEdges>>
       \/ /\ graphNodes' = Append(graphNodes, Doc("Group", hs[h].gid))
          /\ UNCHANGED <<db, graphEdges>>
          /\ \/ /\ node # idx                       \* assert_eq! panics
                /\ Finish(h, FALSE)
                /\ UNCHANGED failures
             \/ /\ node = idx                       \* events.put returns Err
                /\ Fail
                /\ Finish(h, FALSE)
             \/ /\ node = idx
                /\ txn' = done
                /\ hs' = [hs EXCEPT ![h].pc = "group_relation",
                                    ![h].uidx = uidx, ![h].gidx = idx]
                /\ UNCHANGED <<writer, responses, failures>>
    /\ UNCHANGED <<now, issued, requests, crashes>>

\* Store::create_relation(s, g, ty): the put into `relations`, then the edge
\* is added to the shared graph at once. The handler goes on at `next`.
CreateRelation(h, s, g, ty, next) ==
    \/ /\ Fail                                      \* relations.put returns Err
       /\ Finish(h, FALSE)
       /\ UNCHANGED graphEdges
    \/ /\ txn' = [txn EXCEPT !.rels = PutRelation(@, s, g, ty)]
       /\ graphEdges' = Append(graphEdges, <<s, g, ty>>)
       /\ hs' = [hs EXCEPT ![h].pc = next, ![h].uidx = s, ![h].gidx = g]
       /\ UNCHANGED <<writer, responses, failures>>

\* CreateGroupRequestTx::execute: user --PERMISSION_ADMIN--> group.
CreateGroupRelation(h) ==
    /\ hs[h].pc = "group_relation"
    /\ CreateRelation(h, hs[h].uidx, hs[h].gidx, PERMISSION_ADMIN, "group_commit")
    /\ UNCHANGED <<db, graphNodes, now, issued, requests, crashes>>

\* Mutant: the result of the commit is not propagated to the answer.
CreateGroupCommitIgnoringError(h) ==
    LET u == hs[h].uidx  g == hs[h].gidx
    IN
    /\ hs[h].pc = "group_commit"
    /\ \/ /\ Fail
          /\ Finish(h, TRUE)
          /\ UNCHANGED db
       \/ /\ db' = CommitEvents([txn EXCEPT !.perms =
                                   AddReadPermissionUniverse(@, g)],
                                hs[h].eid, {u, g})
          /\ Finish(h, TRUE)
          /\ UNCHANGED failures
    /\ UNCHANGED <<graphNodes, graphEdges, now, issued, requests, crashes>>

\* CreateGroupRequestTx::execute: read permission universe, then commit with
\* the user and the group as affected nodes.
CreateGroupCommit(h) ==
    LET u == hs[h].uidx  g == hs[h].gidx
    IN
    /\ hs[h].pc = "group_commit"
    /\ \/ /\ Fail                 \* add_read_permission_universe or commit fails
          /\ Finish(h, FALSE)
          /\ UNCHANGED db
       \/ /\ db' = CommitEvents([txn EXCEPT !.perms =
                                   AddReadPermissionUniverse(@, g)],
                                hs[h].eid, {u, g})
          /\ Finish(h, TRUE)
          /\ UNCHANGED failures
    /\ UNCHANGED <<graphNodes, graphEdges, now, issued, requests, crashes>>

\* AddUserRequestTx::execute up to create_relation: both idx lookups, the
\* group's may fail with NotFound. No check for an existing relation.
AddUserRelation(h) ==
    LET g == GetIdxFromUlid(txn, hs[h].gid)
    IN
    /\ hs[h].pc = "add_user"
    /\ \/ /\ g = 0                                  \* NotFound(group_id)
          /\ Finish(h, FALSE)
          /\ UNCHANGED <<graphEdges, failures>>
       \/ /\ g # 0
          /\ CreateRelation(h, GetIdxFromUlid(txn, hs[h].user), g, hs[h].perm,
                            "add_commit")
    /\ UNCHANGED <<db, graphNodes, now, issued, requests, crashes>>

\* AddUserRequestTx::execute: commit with user and group as affected nodes.
AddUserCommit(h) ==
    /\ hs[h].pc = "add_commit"
    /\ \/ /\ Fail
          /\ Finish(h, FALSE)
          /\ UNCHANGED db
       \/ /\ db' = CommitEvents(txn, hs[h].eid, {hs[h].uidx, hs[h].gidx})
          /\ Finish(h, TRUE)
          /\ UNCHANGED failures
    /\ UNCHANGED <<graphNodes, graphEdges, now, issued, requests, crashes>>

\* The sources of the graph's incoming READ..ADMIN edges of vertex g, read
\* by get_raw_relations(g, [PERMISSION_READ..=PERMISSION_ADMIN], Incoming).
PermissionSources(edges, g) ==
    {e[1] : e \in {e \in ToSet(edges) :
                     e[2] = g /\ e[3] \in PERMISSION_READ..PERMISSION_ADMIN}}

\* UserAccessGroupTx::execute: the group's idx (NotFound if absent), then the
\* affected set from the shared graph, then commit.
UserAccessGroupCommit(h) ==
    LET g == GetIdxFromUlid(txn, hs[h].gid)
    IN
    /\ hs[h].pc = "access_group"
    /\ \/ /\ g = 0                                  \* NotFound(group_id)
          /\ Finish(h, FALSE)
          /\ UNCHANGED <<db, failures>>
       \/ /\ g # 0
          /\ Fail
          /\ Finish(h, FALSE)
          /\ UNCHANGED db
       \/ /\ g # 0
          /\ db' = CommitEvents(txn, hs[h].eid,
                                {g} \cup PermissionSources(graphEdges, g))
          /\ Finish(h, TRUE)
          /\ UNCHANGED failures
    /\ UNCHANGED <<graphNodes, graphEdges, now, issued, requests, crashes>>

\* The process dies and Store::new reopens the environment: the open write
\* transaction is lost, no request is answered, and load_graph rebuilds
\* the graph from what was committed.
Restart ==
    /\ crashes < MaxCrashes
    /\ crashes' = crashes + 1
    /\ hs' = [h \in Handlers |-> Idle]
    /\ writer' = NoHandler
    /\ txn' = NoTxn
    /\ graphNodes' = db.docs
    /\ graphEdges' = LoadGraphEdges(db)
    /\ UNCHANGED <<db, now, issued, responses, requests, failures>>

\* Time passes for Ulid::new().
Tick ==
    /\ now < MaxMs
    /\ now' = now + 1
    /\ UNCHANGED <<db, txn, writer, graphNodes, graphEdges, hs, issued,
                   responses, requests, failures, crashes>>

Handle(h) ==
    \/ RunCreateGroup(h) \/ RunAddUser(h) \/ RunUserAccessGroup(h)
    \/ WriteTxn(h) \/ CreateNode(h) \/ CreateGroupRelation(h)
    \/ CreateGroupCommit(h) \/ AddUserRelation(h) \/ AddUserCommit(h)
    \/ UserAccessGroupCommit(h)
    \/ RunGetPermissions(h) \/ ReadLookup(h) \/ ReadGraph(h)
    \/ RunGetUsersFromGroup(h) \/ MembersLookup(h) \/ MembersRead(h)

Next == (\E h \in Handlers : Handle(h)) \/ Restart \/ Tick

Spec == Init /\ [][Next]_vars

-----------------------------------------------------------------------------
(* Properties                                                              *)

Docs == [variant : {"User", "Group"}, id : ExtIds]
Pcs == {"idle", "wait_txn", "create_node", "group_relation", "group_commit",
        "add_user", "add_commit", "access_group", "read_lookup", "read_graph",
        "members_lookup", "members_read"}
Rel == Nat \X Nat \X PermissionTypes
View == [docs : Seq(Docs), ids : [ExtIds -> Nat], rels : [SUBSET Nat -> Rel],
         events : SUBSET (Nat \X Nat), perms : [SUBSET Nat -> SUBSET Nat],
         hist : SUBSET Rel]

TypeOK ==
    /\ db.docs \in Seq(Docs) /\ db.ids \in [ExtIds -> Nat]
    /\ \A s \in DOMAIN db.rels : db.rels[s] \in Rel /\ db.rels[s][1] = s
    /\ db.events \subseteq (Nat \X Nat) /\ db.hist \subseteq Rel
    /\ txn = NoTxn <=> writer = NoHandler
    /\ writer \in Handlers \cup {NoHandler}
    /\ graphNodes \in Seq(Docs) /\ graphEdges \in Seq(Rel)
    /\ hs \in [Handlers -> [pc : Pcs, kind : {"none", "CreateGroup", "AddUser",
                                              "UserAccessGroup", "GetPermissions",
                                              "GetUsersFromGroup"},
                            user : Users, gid : ExtIds, perm : PermissionTypes,
                            eid : Nat, uidx : Nat, gidx : Nat]]
    /\ issued \subseteq GroupIds
    /\ responses \subseteq [gid : GroupIds, ok : BOOLEAN]

\* Whatever failed, panicked or crashed before, every committed document is
\* the graph vertex at its idx, and every committed relation is a graph
\* edge: the graph that Store::create_node / create_relation mutate eagerly
\* and load_graph rebuilds never lags behind LMDB.
CommittedStateInGraph ==
    /\ \A x \in ExtIds : db.ids[x] # 0 =>
           /\ db.ids[x] <= Len(graphNodes)
           /\ graphNodes[db.ids[x]] = db.docs[db.ids[x]]
           /\ db.docs[db.ids[x]].id = x
    /\ \A s \in DOMAIN db.rels : db.rels[s] \in ToSet(graphEdges)

\* A CreateGroup answered Ok has its group committed, and one answered with
\* an error (a failed put, a failed commit, the assert_eq! in create_node)
\* left no trace of the group in LMDB.
ResponsesTruthful ==
    \A r \in responses : r.ok <=> db.ids[r.gid] # 0

-----------------------------------------------------------------------------
(* What spec.md promises of the storage layer, checked against the code   *)

\* spec.md 4.2, 5 and 7: readers never observe partial writes, and a write
\* that fails leaves no graph mutation. So the graph read by
\* get_permissions after it dropped its read transaction, by the
\* get_relations of GetUsersFromGroup, and by the get_raw_relations with
\* which UserAccessGroup picks the users its event goes to, holds only
\* committed vertices and relations, whichever writers are in flight or
\* have failed meanwhile.
ReadsGraph(h) ==
    \/ ReadGraph(h) \/ MembersRead(h)
    \/ UserAccessGroupCommit(h) /\ db' # db
ReadsSeeOnlyCommitted ==
    [][\A h \in Handlers :
         ReadsGraph(h) => /\ Len(graphNodes) = Len(db.docs)
                          /\ ToSet(graphEdges) \subseteq db.hist]_vars

\* spec.md 4.4: a restart of a quiescent server rebuilds, with load_graph,
\* the graph it had before; relations.put replaced earlier edges of a source.
RestartPreservesGraph ==
    [][(Restart /\ writer = NoHandler) =>
         /\ graphNodes' = graphNodes
         /\ ToSet(graphEdges') = ToSet(graphEdges)]_vars

\* spec.md 3(6) and 5(i): every event id committed is greater than all the
\* event ids committed before; the handlers draw Ulid::new() in run_request,
\* before they queue for the write transaction.
EventIdsIncrease ==
    [][\A e \in db'.events \ db.events, f \in db.events : f[2] < e[2]]_vars

\* spec.md 3(5): permission edges from a single source to a single target
\* are unique, whatever their level. CreateGroup adds user --ADMIN--> group
\* and AddUserRequestTx::execute adds user --perm--> group without looking
\* for an edge that is already there (group.rs:248).
PermissionEdgesUnique ==
    \A i, j \in DOMAIN graphEdges :
        /\ i # j
        /\ graphEdges[i][3] \in PermissionTypes
        /\ graphEdges[j][3] \in PermissionTypes
        => SubSeq(graphEdges[i], 1, 2) # SubSeq(graphEdges[j], 1, 2)

=============================================================================
