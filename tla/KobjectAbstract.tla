-------------------------- MODULE KobjectAbstract --------------------------
(***************************************************************************)
(* What the kobject and kernfs layer promises to the per-instance sysfs    *)
(* objects of f3fs_register_sysfs, with no reference counts, completions  *)
(* or unwind labels:                                                      *)
(*   - a show or store starts only on a published kobject;                *)
(*   - a kobject is hidden before it is released, and released only when  *)
(*     no show or store runs on it;                                       *)
(*   - the parent is released only after each of its children;           *)
(*   - the structure embedding them is freed only after every kobject    *)
(*     that was created in it has been released.                           *)
(***************************************************************************)
CONSTANTS
    KObjs,      \* the kobjects of one instance
    Parent,     \* the kobject the others are children of
    Users,      \* callers of show and store
    NoCall      \* a user that runs no call

VARIABLES
    vis,        \* per kobject: "none", "shown", "hidden" or "released"
    calls,      \* per user: the kobject its call runs on, or NoCall
    gone        \* the embedding structure has been freed

avars == <<vis, calls, gone>>

Init ==
    /\ vis = [k \in KObjs |-> "none"]
    /\ calls = [u \in Users |-> NoCall]
    /\ gone = FALSE

\* Creation, which publishes the kobject or leaves it unpublished.
Create(k) ==
    /\ vis[k] = "none" /\ ~gone
    /\ vis' \in {[vis EXCEPT ![k] = "shown"], [vis EXCEPT ![k] = "hidden"]}
    /\ UNCHANGED <<calls, gone>>

Begin(u, k) ==
    /\ calls[u] = NoCall /\ vis[k] = "shown"
    /\ calls' = [calls EXCEPT ![u] = k]
    /\ UNCHANGED <<vis, gone>>

End(u) ==
    /\ calls[u] # NoCall
    /\ calls' = [calls EXCEPT ![u] = NoCall]
    /\ UNCHANGED <<vis, gone>>

Hide(k) ==
    /\ vis[k] = "shown"
    /\ vis' = [vis EXCEPT ![k] = "hidden"]
    /\ UNCHANGED <<calls, gone>>

Release(k) ==
    /\ vis[k] = "hidden"
    /\ \A u \in Users : calls[u] # k
    /\ k = Parent => \A c \in KObjs \ {Parent} : vis[c] \in {"none", "released"}
    /\ vis' = [vis EXCEPT ![k] = "released"]
    /\ UNCHANGED <<calls, gone>>

Free ==
    /\ ~gone
    /\ \A k \in KObjs : vis[k] \in {"none", "released"}
    /\ gone' = TRUE
    /\ UNCHANGED <<vis, calls>>

Next ==
    \/ \E k \in KObjs : Create(k) \/ Hide(k) \/ Release(k)
    \/ \E u \in Users : End(u) \/ \E k \in KObjs : Begin(u, k)
    \/ Free

Spec == Init /\ [][Next]_avars
=============================================================================
