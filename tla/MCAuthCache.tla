----------------------------- MODULE MCAuthCache -----------------------------
EXTENDS AuthCache

\* Three objects: a project, a collection and a dataset in any of the
\* hierarchies the child order allows (a diamond included).
MCObjects == 1..3

\* NONE, READ and WRITE: enough for a weaker entry above a stronger one.
MCLevels == {NONE, READ, WRITE}

\* Regular users only: a global admin is let in by spec.md 4.8 alone.
MCRegularUsers ==
    {u \in Users : u.exists /\ u.active /\ ~u.global_admin}

\* The hierarchy of cache.rs test_upstream_dfs_001 (projects 1, collections
\* 2 and 3, dataset 4 below both, objects 5 and 6), and one of six
\* resources with nested splits and two projects: object 6 lies in dataset
\* 5 and collection 3, dataset 5 in collections 3 and 4, and collection 3
\* in projects 1 and 2.
MCDfsHierarchies ==
    { (1 :> {2, 3, 6}) @@ (2 :> {4}) @@ (3 :> {4}) @@ (4 :> {5}) @@ (5 :> {}) @@ (6 :> {}),
      (1 :> {3, 4}) @@ (2 :> {3}) @@ (3 :> {5, 6}) @@ (4 :> {5}) @@ (5 :> {6}) @@ (6 :> {}) }

=============================================================================
