-------------------------- MODULE SysfsRefinement --------------------------
(***************************************************************************)
(* SysfsLifecycle implements KobjectAbstract. The refinement mapping:      *)
(*   - a kobject is "shown" while kobject_init_and_add has added it and    *)
(*     neither kobject_del nor cleanup has deactivated it, "hidden" from   *)
(*     a failed add or the deactivation until its release callback, and    *)
(*     "released" after it;                                               *)
(*   - a user's call runs on its kobject from kernfs_get_active in UOpen   *)
(*     until kernfs_put_active in UExit;                                   *)
(*   - the embedding structure is the f3fs_sb_info, gone once freed.       *)
(* Reference counts, completions, the script of the mount thread, proc    *)
(* entries, s_umount and the gc thread have no abstract counterpart.      *)
(***************************************************************************)
EXTENDS SysfsLifecycle

CONSTANT NoCall

Visibility ==
    [k \in KObjs |-> CASE kst[k] = "none" -> "none"
                       [] kst[k] = "added" -> "shown"
                       [] kst[k] = "released" -> "released"
                       [] OTHER -> "hidden"]

Calls == [u \in Users |-> IF upc[u] = "idle" THEN NoCall ELSE uk[u]]

Abs == INSTANCE KobjectAbstract WITH
          Parent <- "sb", vis <- Visibility, calls <- Calls, gone <- freed

\* Every behaviour of registration, unwinding, unregistration, kobject
\* cleanup and concurrent show/store calls is one the kobject layer allows:
\* no call starts on a deactivated kobject, no release callback runs while
\* a call is in flight on its kobject or before the children of the sb
\* kobject are released, and the f3fs_sb_info is freed only after them all.
ImplementsKobjectAbstract == Abs!Spec
=============================================================================
