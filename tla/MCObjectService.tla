--------------------------- MODULE MCObjectService ---------------------------
(* Two concurrent request tasks over two objects. *)
EXTENDS ObjectService

CONSTANTS h1, h2, o1, o2

MCHandlers == {h1, h2}
MCObjects == {o1, o2}

\* Every handler of object.rs.
MCAllOps == AllOps

\* update_object and get_object only.
MCUpdateOps == {"update", "get"}

=============================================================================
