------------------------- MODULE ShrinkerRefinement -------------------------
(***************************************************************************)
(* Shrinker implements ShrinkerAbstract.  The refinement mapping:          *)
(*   - an instance is registered from f3fs_join_shrinker until the        *)
(*     list_del_init of f3fs_leave_shrinker ("new", "in", "out" from life);*)
(*   - the ownership gate is umount_mutex (gate);                          *)
(*   - the reclaimable objects are the sum of the three __count_* values; *)
(*   - a scan is active from spin_lock at its start until it returns, with *)
(*     target nr and got freed.                                            *)
(* The stamp, the walk, the list lock and the count's sum are internal and *)
(* map to stuttering steps.                                                *)
(***************************************************************************)
EXTENDS Shrinker

MappedState ==
    [i \in Inst |-> CASE life[i] = "new" -> "new"
                      [] life[i] \in {"left", "gone"} -> "out"
                      [] OTHER -> "in"]

Reclaimable ==
    [i \in Inst |-> __count_extent_cache(i) + __count_nat_entries(i) + __count_free_nids(i)]

Abs == INSTANCE ShrinkerAbstract WITH
          Holders <- Threads, None <- NoOwner,
          state <- MappedState, cache <- Reclaimable, owner <- gate,
          active <- [s \in Scanners |-> pc[s] # "idle"],
          target <- nr, got <- freed

\* Every behaviour of the code's count, scan, join and leave, with put_super
\* around leave, is a behaviour the spec allows: gates are exclusive and
\* taken only on listed instances, shrink work is done only under a held
\* gate while freed < nr, and leave drains and unlinks only under its gate.
ImplementsAbstract == Abs!Spec
=============================================================================
