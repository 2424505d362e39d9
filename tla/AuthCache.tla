------------------------------ MODULE AuthCache ------------------------------
(***************************************************************************)
(* Cache::check_permissions_with_contexts and Cache::traverse_down of the *)
(* legacy server (src/src/caching/cache.rs): whether a user whose token   *)
(* carries the permissions `permitted` satisfies the contexts `ctxs` of a *)
(* request, over the resource hierarchy held in the object cache.         *)
(* The input, chosen in Init, is the hierarchy (the children of every     *)
(* object; a child has a greater index than its parent, so it is a DAG),  *)
(* the permitted list in its order, the context list in its order, and    *)
(* the cached user's flags.                                               *)
(***************************************************************************)
EXTENDS Naturals, Sequences, FiniteSets, SequencesExt, Functions, Relation

CONSTANTS
    Objects,       \* object ids, ordered so that children are greater
    Levels,        \* the permission levels used, as integers
    CtxKinds,      \* the context variants requests carry
    MaxPermitted,  \* bound on the length of the permitted list
    MaxCtxs,       \* bound on the length of the context list
    DistinctIds,   \* whether the Resource contexts of a request name distinct ids
    UserAttrs,     \* the cached User records the requester may have
    Self, Other,   \* the requesting user and another user
    DfsHierarchies \* further hierarchies (children functions) to search upwards

\* database/enums.rs PermissionLevels, in declaration order (derive Ord).
DENY == 1
NONE == 2
READ == 3
WRITE == 5
ADMIN == 6

ASSUME Objects \subseteq Nat /\ Levels \subseteq DENY..ADMIN

VARIABLES
    children,   \* object -> the ids of its outbound belongs_to relations
    permitted,  \* Seq of <<object, level>> with distinct objects
    ctxs,       \* Seq of contexts [kind, id, perm]
    user,       \* the cached User of the requester, or exists = FALSE
    checked,    \* whether the check has run
    granted,    \* what check_permissions_verbose returned (Ok = TRUE)
    token       \* what process_token found: a user token, or one signed
                \* by a data proxy with its intent action, the cached
                \* objects listing that endpoint and the cached users
                \* trusting it

vars == <<children, permitted, ctxs, user, checked, granted, token>>

AllContexts ==
    [kind : {"Resource"}, id : Objects, perm : Levels]
    \cup [kind : {"User"}, id : {Self, Other}, perm : Levels]
    \cup [kind : {"Activated", "GlobalAdmin", "GlobalProxy"}, id : {Self}, perm : {NONE}]

Contexts == {c \in AllContexts : c.kind \in CtxKinds}

\* The intent actions of a proxy-signed token; "none" is a token without
\* one.
\* token_handler.rs is not in the repository: "another" stands for any
\* variant other than the two the handler tests.
Actions == {"none", "Impersonate", "FetchInfo", "another"}

\* Context::proxy(), pushed to the contexts of a proxy-signed request.
ProxyContext == [kind |-> "GlobalProxy", id |-> Self, perm |-> NONE]

UserToken == [proxy |-> FALSE, action |-> "none", at |-> {}, trusted |-> {}]

Users == [exists : BOOLEAN, active : BOOLEAN, service_account : BOOLEAN,
          global_admin : BOOLEAN]

ASSUME UserAttrs \subseteq Users /\ DistinctIds \in BOOLEAN

\* Sequences of at most n elements of S.
BoundedSeqs(S, n) == UNION {[1..k -> S] : k \in 0..n}

-----------------------------------------------------------------------------
(* The code                                                                *)

\* get_user(user_id).map(field).unwrap_or_default()
UserFlag(field) == user.exists /\ user[field]

\* A HashMap without the entry `k`.
Without(f, k) == Restrict(f, DOMAIN f \ {k})

\* The `for child in x.get_children()` loop of traverse_down: a child that
\* is a context needing more than `perm` bails, one needing at most `perm`
\* is removed and returns true when it was the last; every child is queued.
RECURSIVE VisitChildren(_, _, _, _)
VisitChildren(cs, perm, open, queue) ==
    IF cs = <<>> THEN [out |-> "more", open |-> open, queue |-> queue]
    ELSE LET c == Head(cs) IN
         IF c \in DOMAIN open
         THEN IF open[c] > perm THEN [out |-> "err", open |-> open, queue |-> queue]
              ELSE IF DOMAIN open = {c} THEN [out |-> "true", open |-> Without(open, c), queue |-> queue]
              ELSE VisitChildren(Tail(cs), perm, Without(open, c), Append(queue, c))
         ELSE VisitChildren(Tail(cs), perm, open, Append(queue, c))

\* The breadth-first `while let Some(x) = queue.pop_front()` loop.
RECURSIVE Bfs(_, _, _)
Bfs(queue, perm, open) ==
    IF queue = <<>> THEN [out |-> "false", open |-> open, queue |-> queue]
    ELSE LET r == VisitChildren(SetToSeq(children[Head(queue)]), perm, open, Tail(queue))
         IN IF r.out = "more" THEN Bfs(r.queue, perm, r.open) ELSE r

\* Cache::traverse_down(id, perm, ctxs): Ok(true), Ok(false) or Err, and
\* the contexts still open (the map is passed as &mut).
TraverseDown(id, perm, open) ==
    IF DOMAIN open = {} THEN [out |-> "true", open |-> open, queue |-> <<>>]
    ELSE Bfs(<<id>>, perm, open)

\* Mutant: a direct entry on a context removes it whatever its level.
RECURSIVE CheckPermittedAnyLevel(_, _)
CheckPermittedAnyLevel(ps, open) ==
    IF ps = <<>> THEN FALSE
    ELSE LET id == Head(ps)[1]  got == Head(ps)[2]
             hit == id \in DOMAIN open
             rest == IF hit THEN Without(open, id) ELSE open
             td == TraverseDown(id, got, rest)
         IN IF hit /\ DOMAIN rest = {} THEN TRUE
            ELSE CASE td.out = "true" -> TRUE
                   [] td.out = "err" -> FALSE
                   [] OTHER -> CheckPermittedAnyLevel(Tail(ps), td.open)

\* Mutant: a direct entry removes a context only at exactly its level.
RECURSIVE CheckPermittedExactLevel(_, _)
CheckPermittedExactLevel(ps, open) ==
    IF ps = <<>> THEN FALSE
    ELSE LET id == Head(ps)[1]  got == Head(ps)[2]
             hit == id \in DOMAIN open /\ got = open[id]
             rest == IF hit THEN Without(open, id) ELSE open
             td == TraverseDown(id, got, rest)
         IN IF hit /\ DOMAIN rest = {} THEN TRUE
            ELSE CASE td.out = "true" -> TRUE
                   [] td.out = "err" -> FALSE
                   [] OTHER -> CheckPermittedExactLevel(Tail(ps), td.open)

\* The `for (id, got_perm) in permitted` loop: a direct hit removes the
\* context, then traverse_down runs; Ok(true) grants, Err denies at once.
RECURSIVE CheckPermitted(_, _)
CheckPermitted(ps, open) ==
    IF ps = <<>> THEN FALSE
    ELSE LET id == Head(ps)[1]  got == Head(ps)[2]
             hit == id \in DOMAIN open /\ got >= open[id]
             rest == IF hit THEN Without(open, id) ELSE open
             td == TraverseDown(id, got, rest)
         IN IF hit /\ DOMAIN rest = {} THEN TRUE
            ELSE CASE td.out = "true" -> TRUE
                   [] td.out = "err" -> FALSE
                   [] OTHER -> CheckPermitted(Tail(ps), td.open)

\* The `for ctx in ctxs` loop: Resource contexts are collected (a later one
\* for the same id replaces the earlier), any other variant returns at once.
RECURSIVE ScanContexts(_, _)
ScanContexts(cs, open) ==
    IF cs = <<>> THEN CheckPermitted(permitted, open)
    ELSE LET c == Head(cs) IN
         CASE c.kind = "Resource" -> ScanContexts(Tail(cs), (c.id :> c.perm) @@ open)
           [] c.kind = "Activated" -> UserFlag("active")
           [] c.kind = "User" -> c.id = Self \/ (user.exists /\ ~user.service_account)
           [] OTHER -> UserFlag("global_admin")

\* Cache::check_permissions_with_contexts(ctxs, permitted, Self)
CheckPermissionsWithContexts == ScanContexts(ctxs, <<>>)

\* One context of Cache::check_proxy_ctxs: a Resource context passes when
\* the cached object lists the endpoint, a User context only at READ and
\* when the cached user trusts the endpoint, GlobalAdmin never.
ProxyCtxOk(c) ==
    CASE c.kind = "Resource" -> c.id \in token.at
      [] c.kind = "User" -> c.perm = READ /\ c.id \in token.trusted
      [] c.kind = "GlobalAdmin" -> FALSE
      [] OTHER -> TRUE

\* The intent checks of check_permissions_verbose: Impersonate allows only
\* Activated, GlobalProxy and Resource contexts, FetchInfo only Activated,
\* GlobalProxy and Resource or User contexts of at most READ; any other
\* action is not checked here.
IntentAllows(action, c) ==
    CASE action = "Impersonate" -> c.kind \in {"Activated", "GlobalProxy", "Resource"}
      [] action = "FetchInfo" ->
            \/ c.kind \in {"Activated", "GlobalProxy"}
            \/ c.kind \in {"Resource", "User"} /\ c.perm <= READ
      [] OTHER -> TRUE

\* The is_proxy branch of check_permissions_verbose on contexts cs: push
\* Context::proxy(), deny a token without an action, run the intent
\* checks, then Cache::check_proxy_ctxs on every context.
ProxyCheck(cs) ==
    LET all == Append(cs, ProxyContext) IN
    /\ token.action # "none"
    /\ \A i \in DOMAIN all : IntentAllows(token.action, all[i])
    /\ \A i \in DOMAIN all : ProxyCtxOk(all[i])

\* PermissionHandler::check_permissions_verbose after process_token.
Verdict(cs) == IF token.proxy THEN ProxyCheck(cs) ELSE ScanContexts(cs, <<>>)


\* Cache::upstream_dfs_iterative and Cache::upstream_dfs_recursive list the
\* paths from an object up to the projects above it.  In a hierarchy h
\* (object -> children), get_parents() lists the inbound belongs_to
\* relations; an object without parents is a project, since every other
\* resource is created below one.
ParentSeq(h, o) == SetToSeq({p \in DOMAIN h : o \in h[p]})

IsProject(h, o) == ParentSeq(h, o) = <<>>

\* Mutant: the split index is taken before the object is pushed.
RECURSIVE DfsLoopSplitBeforePush(_, _, _, _, _)
DfsLoopSplitBeforePush(h, queue, hier, splits, finished) ==
    IF queue = <<>> THEN finished
    ELSE LET cur == Head(queue)
             cur_h == Append(hier, cur)
             ps == ParentSeq(h, cur)
         IN IF IsProject(h, cur)
            THEN IF splits = <<>>
                 THEN DfsLoopSplitBeforePush(h, Tail(queue), cur_h, splits, Append(finished, cur_h))
                 ELSE DfsLoopSplitBeforePush(h, Tail(queue), SubSeq(cur_h, 1, Last(splits)),
                                Front(splits), Append(finished, cur_h))
            ELSE DfsLoopSplitBeforePush(h, Reverse(ps) \o Tail(queue), cur_h,
                         splits \o [i \in 1..(Len(ps) - 1) |-> Len(hier)], finished)

\* The `while let Some(current_object) = queue.pop_front()` loop: push the
\* object; a project saves the hierarchy and truncates it back to the last
\* split; any other object pushes its parents to the front of the queue
\* and, with n > 1 parents, records the split point n - 1 times.
RECURSIVE DfsLoop(_, _, _, _, _)
DfsLoop(h, queue, hier, splits, finished) ==
    IF queue = <<>> THEN finished
    ELSE LET cur == Head(queue)
             cur_h == Append(hier, cur)
             ps == ParentSeq(h, cur)
         IN IF IsProject(h, cur)
            THEN IF splits = <<>>
                 THEN DfsLoop(h, Tail(queue), cur_h, splits, Append(finished, cur_h))
                 ELSE DfsLoop(h, Tail(queue), SubSeq(cur_h, 1, Last(splits)),
                              Front(splits), Append(finished, cur_h))
            ELSE DfsLoop(h, Reverse(ps) \o Tail(queue), cur_h,
                         splits \o [i \in 1..(Len(ps) - 1) |-> Len(cur_h)], finished)

UpstreamDfsIterative(h, root) == DfsLoop(h, <<root>>, <<>>, <<>>, <<>>)

\* upstream_dfs_recursive(current, path, finished): a project ends the
\* path; any other object is pushed, each parent is searched in turn,
\* and the object is popped again.
RECURSIVE DfsRecursive(_, _, _, _), DfsParents(_, _, _, _)
DfsRecursive(h, cur, path, finished) ==
    IF IsProject(h, cur) THEN Append(finished, Append(path, cur))
    ELSE DfsParents(h, ParentSeq(h, cur), Append(path, cur), finished)

DfsParents(h, ps, path, finished) ==
    IF ps = <<>> THEN finished
    ELSE DfsParents(h, Tail(ps), path, DfsRecursive(h, Head(ps), path, finished))

UpstreamDfsRecursive(h, root) == DfsRecursive(h, root, <<>>, <<>>)

-----------------------------------------------------------------------------
Init ==
    /\ checked = FALSE
    /\ granted = FALSE
    /\ \/ /\ children \in {f \in [Objects -> SUBSET Objects] :
                           \A o \in Objects : \A c \in f[o] : c > o}
          /\ permitted \in {s \in BoundedSeqs(Objects \X Levels, MaxPermitted) :
                            \A i, j \in DOMAIN s : i # j => s[i][1] # s[j][1]}
          /\ ctxs \in {s \in BoundedSeqs(Contexts, MaxCtxs) \ {<<>>} :
                       DistinctIds => \A i, j \in DOMAIN s :
                           (i # j /\ s[i].kind = "Resource" /\ s[j].kind = "Resource")
                               => s[i].id # s[j].id}
          /\ user \in UserAttrs
          /\ token = UserToken
       \* A proxy-signed token: the hierarchy, the permitted list and the
       \* requester's flags are not read on this path.
       \/ /\ children = [o \in Objects |-> {}]
          /\ permitted = <<>>
          /\ ctxs \in BoundedSeqs(AllContexts, MaxCtxs)
          /\ user = CHOOSE u \in UserAttrs : TRUE
          /\ token \in [proxy : {TRUE}, action : Actions,
                        at : SUBSET Objects, trusted : SUBSET {Self, Other}]

\* PermissionHandler::check_permissions_verbose.
Check ==
    /\ ~checked
    /\ checked' = TRUE
    /\ granted' = Verdict(ctxs)
    /\ UNCHANGED <<children, permitted, ctxs, user, token>>

Next == Check

Spec == Init /\ [][Next]_vars

-----------------------------------------------------------------------------
(* The reference: spec.md 4.8                                              *)

\* Below[a, d]: d is reachable from a by one or more child relations.
Below == TransitiveClosure([e \in Objects \X Objects |-> e[2] \in children[e[1]]], Objects)

\* 4.8(4): the requester's effective permission on o, the highest level
\* granted on o or on a resource o lies below; 0 where none is.
Effective(o) ==
    Max({0} \cup {e[2] : e \in {e \in ToSet(permitted) : e[1] = o \/ Below[e[1], o]}})

\* 4.8: what each context requires of the requester.
Satisfied(c) ==
    CASE c.kind = "Resource" ->
            Effective(c.id) >= c.perm \/ (user.exists /\ user.global_admin)
      [] c.kind = "Activated" -> user.exists /\ (user.active \/ user.global_admin)
      [] c.kind = "User" -> c.id = Self \/ (user.exists /\ user.global_admin)
      [] OTHER -> user.exists /\ user.global_admin

\* A request is authorised when it meets every one of its contexts.
SpecGranted == \A i \in DOMAIN ctxs : Satisfied(ctxs[i])

\* The paths from o up to a project: o, then a path from one of its parents.
RECURSIVE UpPaths(_, _)
UpPaths(h, o) ==
    IF IsProject(h, o) THEN {<<o>>}
    ELSE UNION {{<<o>> \o t : t \in UpPaths(h, p)} : p \in ToSet(ParentSeq(h, o))}

\* Each search lists every such path once.
ListsUpPaths(h, o, paths) ==
    /\ ToSet(paths) = UpPaths(h, o)
    /\ Len(paths) = Cardinality(UpPaths(h, o))

-----------------------------------------------------------------------------
(* Properties                                                              *)

\* check_permissions_with_contexts returns true only for a requester that
\* meets every context of the request under spec.md 4.8: a Resource context
\* is removed only by a permitted entry on it or above it of enough level,
\* and the non-Resource variants return without looking at the rest.
GrantSound == granted /\ ~token.proxy => SpecGranted

\* spec.md 8 (permission monotonicity): a request granted by
\* check_permissions_verbose, for a user or a proxy-signed token, is still
\* granted when any one of its
\* Resource contexts asks for a lower level, whatever the hierarchy and the
\* order of the permitted list.
Lowered(i, l) == [ctxs EXCEPT ![i].perm = l]
PermissionMonotonic ==
    granted =>
        \A i \in DOMAIN ctxs, l \in Levels :
            (ctxs[i].kind = "Resource" /\ l < ctxs[i].perm)
                => Verdict(Lowered(i, l))

UpstreamDfsPaths ==
    \A h \in {children} \cup DfsHierarchies : \A o \in DOMAIN h :
        /\ ListsUpPaths(h, o, UpstreamDfsIterative(h, o))
        /\ ListsUpPaths(h, o, UpstreamDfsRecursive(h, o))

=============================================================================
