--------------------------- MODULE TokenResolution ---------------------------
(***************************************************************************)
(* Store::get_requester_from_token_id (aruna-server/src/storage/store.rs): *)
(* the requester a server-issued token stands for, read from the shared   *)
(* petgraph graph and a read transaction of LMDB. The input is a small    *)
(* graph around the token, chosen freely: which vertices exist, their     *)
(* NodeVariant, the outgoing edges of each in insertion order, and which  *)
(* vertices have a committed document in the read transaction (the graph *)
(* may hold vertices of uncommitted or failed writes, see Store).         *)
(***************************************************************************)
EXTENDS Naturals, Sequences, FiniteSets, SequencesExt

CONSTANTS
    Vertices,        \* graph vertex indices
    Tok,             \* the vertex the token's id resolves to
    TokVariants,     \* variants the vertex at Tok may have
    OtherVariants,   \* variants the other vertices may have
    TokEdgeTypes,    \* edge types of the edges leaving Tok
    MemberType,      \* edge type of the edges leaving other vertices
    MaxOut,          \* bound on the outgoing edges of a vertex
    CommittedSets    \* the sets of vertices a read transaction may see

ASSUME Tok \in Vertices /\ MaxOut \in Nat /\ CommittedSets \subseteq SUBSET Vertices

\* models.rs NodeVariant (the variants the resolution tells apart).
NodeVariants == {"Token", "User", "ServiceAccount", "Group", "ResourceProject"}

VARIABLES
    variant,     \* vertex -> NodeVariant, the graph's node weights
    out,         \* vertex -> Seq of <<target, edge type>>, insertion order
    committed,   \* vertices whose document the read transaction sees
    result       \* Pending until resolved, then the outcome

vars == <<variant, out, committed, result>>

\* Edge sequences leaving v of length at most MaxOut.
OutSeqs(v, types) ==
    UNION {[1..n -> (Vertices \ {v}) \X types] : n \in 0..MaxOut}

Pending == [kind |-> "none"]
Unauthorized == [kind |-> "Unauthorized"]
UserRequester(u) == [kind |-> "User", id |-> u]
ServiceAccountRequester(sa, g) == [kind |-> "ServiceAccount", id |-> sa, group |-> g]

-----------------------------------------------------------------------------
(* The code                                                                *)

\* Graph::neighbors on a directed petgraph Graph: the targets of the
\* outgoing edges, the most recently added first.
Neighbors(v) == Reverse([i \in DOMAIN out[v] |-> out[v][i][1]])

\* Store::get_ulid_from_idx: Some only if the document is committed.
HasUlid(v) == v \in committed

\* Mutant: the group is not attached to the service account requester.
ResolveServiceAccountNoGroup(sa) ==
    IF ~HasUlid(sa) THEN Unauthorized
    ELSE LET gs == SelectSeq(Neighbors(sa), LAMBDA m : variant[m] = "Group")
         IN IF gs = <<>> \/ ~HasUlid(Head(gs)) THEN Unauthorized
            ELSE [kind |-> "ServiceAccount", id |-> sa]

\* The ServiceAccount arm: the account's id, then the first Group among its
\* neighbors (`find`), then the group's id.
ResolveServiceAccount(sa) ==
    IF ~HasUlid(sa) THEN Unauthorized
    ELSE LET gs == SelectSeq(Neighbors(sa), LAMBDA m : variant[m] = "Group")
         IN IF gs = <<>> \/ ~HasUlid(Head(gs)) THEN Unauthorized
            ELSE ServiceAccountRequester(sa, Head(gs))

\* The loop over the token's neighbors: a User with a committed document is
\* the requester, a User without one is skipped, a ServiceAccount decides,
\* any other variant is Unauthorized; the edge type is not looked at.
RECURSIVE ResolveNeighbors(_)
ResolveNeighbors(ns) ==
    IF ns = <<>> THEN Unauthorized
    ELSE LET n == Head(ns) IN
         CASE variant[n] = "User" ->
                IF HasUlid(n) THEN UserRequester(n) ELSE ResolveNeighbors(Tail(ns))
           [] variant[n] = "ServiceAccount" -> ResolveServiceAccount(n)
           [] OTHER -> Unauthorized

\* Store::get_requester_from_token_id for the token whose id maps to Tok.
GetRequesterFromTokenId ==
    IF ~HasUlid(Tok) THEN Unauthorized            \* get_idx_from_ulid is None
    ELSE IF variant[Tok] # "Token" THEN Unauthorized \* check_node_variant
    ELSE ResolveNeighbors(Neighbors(Tok))

-----------------------------------------------------------------------------
Init ==
    /\ variant \in {f \in [Vertices -> NodeVariants] :
                      f[Tok] \in TokVariants
                      /\ \A v \in Vertices \ {Tok} : f[v] \in OtherVariants}
    /\ \E t \in OutSeqs(Tok, TokEdgeTypes),
         o \in [Vertices \ {Tok} -> UNION {[1..n -> Vertices \X {MemberType}] :
                                            n \in 0..MaxOut}] :
         /\ \A v \in DOMAIN o : o[v] \in OutSeqs(v, {MemberType})
         /\ out = [v \in Vertices |-> IF v = Tok THEN t ELSE o[v]]
    /\ committed \in CommittedSets
    /\ result = Pending

\* A request carrying the token is authenticated.
Resolve ==
    /\ result = Pending
    /\ result' = GetRequesterFromTokenId
    /\ UNCHANGED <<variant, out, committed>>

Next == Resolve

Spec == Init /\ [][Next]_vars

-----------------------------------------------------------------------------
(* Properties                                                              *)

Outcomes == {Pending, Unauthorized}
            \cup {UserRequester(u) : u \in Vertices}
            \cup {ServiceAccountRequester(sa, g) : sa, g \in Vertices}

TypeOK ==
    /\ variant \in [Vertices -> NodeVariants]
    /\ committed \subseteq Vertices
    /\ result \in Outcomes

=============================================================================
