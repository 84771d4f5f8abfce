-------------------------- MODULE ShrinkerAbstract --------------------------
(***************************************************************************)
(* What the shrinker core promises (spec.md sections 4.2, 4.3 and 5), with *)
(* no list, no run numbers, no list lock and no walk:                       *)
(*   - an instance is registered once (join) and unregistered once (leave);*)
(*   - each instance has one ownership gate, held by at most one of a scan, *)
(*     a count or the instance's own teardown;                              *)
(*   - a scan frees objects only from a registered instance whose gate it  *)
(*     holds, and issues no shrink work once freed >= target;              *)
(*   - leave drains only while the teardown holds the gate, and removes    *)
(*     the instance only then.                                              *)
(* cache[i] is the number of reclaimable objects that the three counts of  *)
(* instance i report together.                                             *)
(***************************************************************************)
EXTENDS Naturals

CONSTANTS
    Inst,       \* instance records
    Scanners,   \* scan calls
    Holders,    \* everyone who may hold a gate: walkers and teardowns
    None,       \* a free gate
    NrToScan    \* targets the host may pass

VARIABLES
    state,      \* "new", "in" (registered) or "out" (left)
    cache,      \* reclaimable objects of each instance
    owner,      \* holder of each instance's ownership gate
    active,     \* a scan call is in progress
    target,     \* the scan's target
    got         \* what the scan has freed so far

avars == <<state, cache, owner, active, target, got>>

Init ==
    /\ state = [i \in Inst |-> "new"]
    /\ cache = [i \in Inst |-> 0]
    /\ owner = [i \in Inst |-> None]
    /\ active = [s \in Scanners |-> FALSE]
    /\ target = [s \in Scanners |-> 0]
    /\ got = [s \in Scanners |-> 0]

Join(i) ==
    /\ state[i] = "new"
    /\ state' = [state EXCEPT ![i] = "in"]
    /\ UNCHANGED <<cache, owner, active, target, got>>

\* Filesystem activity adds reclaimable objects to a live instance.
Grow(i) ==
    /\ state[i] # "out"
    /\ cache' = [cache EXCEPT ![i] = @ + 1]
    /\ UNCHANGED <<state, owner, active, target, got>>

\* The gate is taken only on a registered instance and only when free.
Acquire(t, i) ==
    /\ state[i] = "in" /\ owner[i] = None
    /\ owner' = [owner EXCEPT ![i] = t]
    /\ UNCHANGED <<state, cache, active, target, got>>

Release(t, i) ==
    /\ owner[i] = t
    /\ owner' = [owner EXCEPT ![i] = None]
    /\ UNCHANGED <<state, cache, active, target, got>>

ScanBegin(s) ==
    /\ ~active[s]
    /\ active' = [active EXCEPT ![s] = TRUE]
    /\ \E n \in NrToScan : target' = [target EXCEPT ![s] = n]
    /\ got' = [got EXCEPT ![s] = 0]
    /\ UNCHANGED <<state, cache, owner>>

\* Shrink work on an instance the scan holds, only while short of target.
ScanFree(s, i) ==
    /\ active[s] /\ owner[i] = s /\ state[i] = "in"
    /\ got[s] < target[s]
    /\ \E k \in 1 .. cache[i] :
          /\ cache' = [cache EXCEPT ![i] = @ - k]
          /\ got' = [got EXCEPT ![s] = @ + k]
    /\ UNCHANGED <<state, owner, active, target>>

\* The scan returns, giving back the gate it may still hold.
ScanEnd(s) ==
    /\ active[s]
    /\ active' = [active EXCEPT ![s] = FALSE]
    /\ target' = [target EXCEPT ![s] = 0]
    /\ got' = [got EXCEPT ![s] = 0]
    /\ owner' = [j \in Inst |-> IF owner[j] = s THEN None ELSE owner[j]]
    /\ UNCHANGED <<state, cache>>

\* leave: drain the extent cache, under the gate the teardown holds.
Drain(i) ==
    /\ state[i] = "in" /\ owner[i] = i
    /\ \E k \in 1 .. cache[i] : cache' = [cache EXCEPT ![i] = @ - k]
    /\ UNCHANGED <<state, owner, active, target, got>>

\* leave: the instance becomes unreachable, under the same gate.
Leave(i) ==
    /\ state[i] = "in" /\ owner[i] = i
    /\ state' = [state EXCEPT ![i] = "out"]
    /\ UNCHANGED <<cache, owner, active, target, got>>

Next ==
    \/ \E i \in Inst : Join(i) \/ Grow(i) \/ Drain(i) \/ Leave(i)
    \/ \E t \in Holders, i \in Inst : Acquire(t, i) \/ Release(t, i)
    \/ \E s \in Scanners : ScanBegin(s) \/ ScanEnd(s) \/ \E i \in Inst : ScanFree(s, i)

Spec == Init /\ [][Next]_avars
=============================================================================
