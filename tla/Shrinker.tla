------------------------------ MODULE Shrinker ------------------------------
(***************************************************************************)
(* The memory-pressure shrinker of f3fs (src/f2fs/shrinker.c).             *)
(*                                                                         *)
(* Mounted instances (struct f3fs_sb_info) are kept on the global list     *)
(* f3fs_list, protected by the spinlock f3fs_list_lock.  Count threads     *)
(* (f3fs_shrink_count) and scan threads (f3fs_shrink_scan) walk that list  *)
(* concurrently with the mount path (f3fs_join_shrinker) and the unmount   *)
(* path (put_super holding umount_mutex around f3fs_leave_shrinker).  A    *)
(* walker takes an instance's umount_mutex with trylock, drops the list    *)
(* lock while it works on the instance's caches, and re-takes the list     *)
(* lock to read p->next.                                                   *)
(*                                                                         *)
(* The list lock is explicit (listLock) because the walk loops while       *)
(* holding it; every step that touches f3fs_list requires it.  The three   *)
(* caches of an instance are counters; the shrink calls into them are      *)
(* best-effort and modelled by what they may return.                       *)
(***************************************************************************)
EXTENDS Integers, Sequences, SequencesExt, FiniteSets

CONSTANTS
    Inst,         \* f3fs_sb_info records that may be mounted (model values)
    Scanners,     \* threads running f3fs_shrink_scan
    Counters,     \* threads running f3fs_shrink_count
    ListHead,     \* the list head &f3fs_list, where a walk ends
    NoOwner,      \* value of a free lock
    NrToScan,     \* values of sc->nr_to_scan the host may pass
    RunBits,      \* width in bits of shrinker_run_no (32 in the kernel)
    MaxCache,     \* bound: entries a cache may grow to
    MaxFreeNids,  \* MAX_FREE_NIDS, the free-nid watermark
    Overshoot     \* how far a cache shrink may exceed its request

Threads == Scanners \cup Counters \cup Inst   \* instance i's own thread mounts/unmounts it

ASSUME /\ Scanners \cap Counters = {} /\ (Scanners \cup Counters) \cap Inst = {}
       /\ ListHead \notin Inst /\ NoOwner \notin Threads
       /\ NrToScan \subseteq Nat \ {0}
       /\ RunBits \in Nat \ {0} /\ MaxCache \in Nat
       /\ MaxFreeNids \in Nat /\ Overshoot \in Nat

RunMod == 2^RunBits

VARIABLES
    lst,       \* f3fs_list: the registered instances, head first
    listLock,  \* holder of f3fs_list_lock
    runNo,     \* shrinker_run_no
    scans,     \* history: number of scans started, for bounding the model
    marker,    \* sbi->shrinker_run_no
    gate,      \* holder of sbi->umount_mutex
    ext,       \* total_zombie_tree + total_ext_node
    nat,       \* nat_cnt[RECLAIMABLE_NAT]
    nid,       \* nid_cnt[FREE_NID]
    life,      \* where the instance is in mount / unmount
    pc,        \* program counter of each scan and count thread
    pos,       \* the walker's cursor p
    run,       \* the scan's local run_no
    nr,        \* the scan's nr = sc->nr_to_scan
    freed,     \* the scan's freed
    count,     \* the count thread's running count
    visited    \* history: instances a scan has taken in its current call

vars == <<lst, listLock, runNo, scans, marker, gate, ext, nat, nid, life,
          pc, pos, run, nr, freed, count, visited>>

Walkers == Scanners \cup Counters
Life == {"new", "mounted", "umount", "drain", "del", "left", "gone"}
ScanPc == {"idle", "walk", "stamp", "shrink", "relock"}
CountPc == {"idle", "walk", "count", "relock"}

-----------------------------------------------------------------------------
(* List and cache helpers                                                  *)

\* p->next: the element after p, the head after the last element, and p
\* itself once list_del_init has detached p.
NextOf(s, p) ==
    IF p \notin ToSet(s) THEN p
    ELSE LET k == SelectInSeq(s, LAMBDA x : x = p)
         IN  IF k = Len(s) THEN ListHead ELSE s[k + 1]

\* f3fs_list.next
FirstOf(s) == IF s = <<>> THEN ListHead ELSE s[1]

\* Variant: list_add_tail in place of list_move_tail (the entry is not
\* unlinked first).
MoveTailNoDel(s, x) == Append(s, x)

\* list_move_tail
MoveTail(s, x) == Append(Remove(s, x), x)

\* do { run_no = ++shrinker_run_no; } while (run_no == 0);
NextRunNo(r) == IF (r + 1) % RunMod = 0 THEN 1 ELSE (r + 1) % RunMod

\* Variant: __count_free_nids without the clamp at zero.
CountFreeNidsUnclamped(i) == nid[i] - MaxFreeNids

__count_nat_entries(i) == nat[i]
__count_free_nids(i) == IF nid[i] > MaxFreeNids THEN nid[i] - MaxFreeNids ELSE 0
__count_extent_cache(i) == ext[i]

\* What f3fs_shrink_extent_tree, f3fs_try_to_free_nats and
\* f3fs_try_to_free_nids may return for a request: best effort, never more
\* than the cache holds, at most Overshoot more than asked.
Freeable(avail, req) == 0 .. IF avail < req + Overshoot THEN avail ELSE req + Overshoot

-----------------------------------------------------------------------------
Init ==
    /\ lst = <<>>
    /\ listLock = NoOwner
    /\ runNo = 0
    /\ scans = 0
    /\ marker = [i \in Inst |-> 0]
    /\ gate = [i \in Inst |-> NoOwner]
    /\ ext = [i \in Inst |-> 0]
    /\ nat = [i \in Inst |-> 0]
    /\ nid = [i \in Inst |-> 0]
    /\ life = [i \in Inst |-> "new"]
    /\ pc = [t \in Walkers |-> "idle"]
    /\ pos = [t \in Walkers |-> ListHead]
    /\ run = [s \in Scanners |-> 0]
    /\ nr = [s \in Scanners |-> 0]
    /\ freed = [s \in Scanners |-> 0]
    /\ count = [c \in Counters |-> 0]
    /\ visited = [s \in Scanners |-> {}]

Goto(t, l) == pc' = [pc EXCEPT ![t] = l]
Lock(t) == listLock = NoOwner /\ listLock' = t
Unlock == listLock' = NoOwner

-----------------------------------------------------------------------------
(* f3fs_shrink_count                                                       *)

\* spin_lock; p = f3fs_list.next
CountStart(c) ==
    /\ pc[c] = "idle" /\ Lock(c)
    /\ pos' = [pos EXCEPT ![c] = FirstOf(lst)]
    /\ count' = [count EXCEPT ![c] = 0]
    /\ Goto(c, "walk")
    /\ UNCHANGED <<lst, runNo, scans, marker, gate, ext, nat, nid, life, run, nr, freed, visited>>

\* One iteration of the walk, list lock held: the end of the list, a busy
\* instance skipped, or an instance taken (trylock, then spin_unlock).
CountWalk(c) ==
    LET p == pos[c] IN
    /\ pc[c] = "walk" /\ listLock = c
    /\ \/ /\ p = ListHead
          /\ Unlock /\ Goto(c, "idle")
          /\ count' = [count EXCEPT ![c] = 0]   \* returned; the local is gone
          /\ UNCHANGED <<gate, pos>>
       \/ /\ p # ListHead /\ gate[p] # NoOwner
          /\ pos' = [pos EXCEPT ![c] = NextOf(lst, p)]
          /\ UNCHANGED <<listLock, gate, pc, count>>
       \/ /\ p # ListHead /\ gate[p] = NoOwner
          /\ gate' = [gate EXCEPT ![p] = c]
          /\ Unlock /\ Goto(c, "count")
          /\ UNCHANGED <<pos, count>>
    /\ UNCHANGED <<lst, runNo, scans, marker, ext, nat, nid, life, run, nr, freed, visited>>

\* count += the three cache counts of the taken instance
CountCaches(c) ==
    LET p == pos[c] IN
    /\ pc[c] = "count"
    /\ count' = [count EXCEPT ![c] = @ + __count_extent_cache(p)
                                       + __count_nat_entries(p) + __count_free_nids(p)]
    /\ Goto(c, "relock")
    /\ UNCHANGED <<lst, listLock, runNo, scans, marker, gate, ext, nat, nid, life, pos, run, nr, freed, visited>>

\* Variant: the count forgets mutex_unlock(&sbi->umount_mutex).
CountRelockKeepMutex(c) ==
    LET p == pos[c] IN
    /\ pc[c] = "relock" /\ Lock(c)
    /\ pos' = [pos EXCEPT ![c] = NextOf(lst, p)]
    /\ Goto(c, "walk")
    /\ UNCHANGED <<gate, lst, runNo, scans, marker, ext, nat, nid, life, run, nr, freed, count, visited>>

\* spin_lock; p = p->next; mutex_unlock(umount_mutex)
CountRelock(c) ==
    LET p == pos[c] IN
    /\ pc[c] = "relock" /\ Lock(c)
    /\ pos' = [pos EXCEPT ![c] = NextOf(lst, p)]
    /\ gate' = [gate EXCEPT ![p] = NoOwner]
    /\ Goto(c, "walk")
    /\ UNCHANGED <<lst, runNo, scans, marker, ext, nat, nid, life, run, nr, freed, count, visited>>

-----------------------------------------------------------------------------
(* f3fs_shrink_scan                                                        *)

\* Variant: run_no = shrinker_run_no++ (the old value is used).
ScanStartPostIncrement(s) ==
    /\ pc[s] = "idle" /\ Lock(s)
    /\ \E n \in NrToScan : nr' = [nr EXCEPT ![s] = n]
    /\ runNo' = NextRunNo(runNo)
    /\ run' = [run EXCEPT ![s] = runNo]
    /\ scans' = scans + 1
    /\ pos' = [pos EXCEPT ![s] = FirstOf(lst)]
    /\ freed' = [freed EXCEPT ![s] = 0]
    /\ visited' = [visited EXCEPT ![s] = {}]
    /\ Goto(s, "walk")
    /\ UNCHANGED <<lst, marker, gate, ext, nat, nid, life, count>>

\* spin_lock; a fresh run_no skipping 0; p = f3fs_list.next
ScanStart(s) ==
    /\ pc[s] = "idle" /\ Lock(s)
    /\ \E n \in NrToScan : nr' = [nr EXCEPT ![s] = n]
    /\ runNo' = NextRunNo(runNo)
    /\ run' = [run EXCEPT ![s] = NextRunNo(runNo)]
    /\ scans' = scans + 1
    /\ pos' = [pos EXCEPT ![s] = FirstOf(lst)]
    /\ freed' = [freed EXCEPT ![s] = 0]
    /\ visited' = [visited EXCEPT ![s] = {}]
    /\ Goto(s, "walk")
    /\ UNCHANGED <<lst, marker, gate, ext, nat, nid, life, count>>

\* A scan that returns leaves no local state behind.
ScanReturn(s) ==
    /\ Goto(s, "idle")
    /\ pos' = [pos EXCEPT ![s] = ListHead]
    /\ run' = [run EXCEPT ![s] = 0]
    /\ nr' = [nr EXCEPT ![s] = 0]
    /\ freed' = [freed EXCEPT ![s] = 0]
    /\ visited' = [visited EXCEPT ![s] = {}]

\* The loop ends, list lock held: at the list head, or on an instance
\* already stamped with this run_no (a full cycle); spin_unlock, return.
ScanStop(s) ==
    /\ pc[s] = "walk" /\ listLock = s
    /\ \/ pos[s] = ListHead
       \/ pos[s] # ListHead /\ marker[pos[s]] = run[s]
    /\ Unlock /\ ScanReturn(s)
    /\ UNCHANGED <<lst, runNo, scans, marker, gate, ext, nat, nid, life, count>>

\* Variant: the busy branch forgets p = p->next.
ScanSkipBusyNoAdvance(s) ==
    LET p == pos[s] IN
    /\ pc[s] = "walk" /\ listLock = s
    /\ p # ListHead /\ marker[p] # run[s] /\ gate[p] # NoOwner
    /\ UNCHANGED <<lst, listLock, runNo, scans, marker, gate, ext, nat, nid, life, pc, pos, run, nr, freed, count, visited>>

\* mutex_trylock fails: p = p->next, list lock still held.
ScanSkipBusy(s) ==
    LET p == pos[s] IN
    /\ pc[s] = "walk" /\ listLock = s
    /\ p # ListHead /\ marker[p] # run[s] /\ gate[p] # NoOwner
    /\ pos' = [pos EXCEPT ![s] = NextOf(lst, p)]
    /\ UNCHANGED <<lst, listLock, runNo, scans, marker, gate, ext, nat, nid, life, pc, run, nr, freed, count, visited>>

\* Variant: the result of mutex_trylock is ignored.
ScanTakeNoTrylock(s) ==
    LET p == pos[s] IN
    /\ pc[s] = "walk" /\ listLock = s
    /\ p # ListHead /\ marker[p] # run[s]
    /\ gate' = [gate EXCEPT ![p] = s]
    /\ Unlock /\ Goto(s, "stamp")
    /\ UNCHANGED <<lst, runNo, scans, marker, ext, nat, nid, life, pos, run, nr, freed, count, visited>>

\* mutex_trylock succeeds; spin_unlock.
ScanTake(s) ==
    LET p == pos[s] IN
    /\ pc[s] = "walk" /\ listLock = s
    /\ p # ListHead /\ marker[p] # run[s] /\ gate[p] = NoOwner
    /\ gate' = [gate EXCEPT ![p] = s]
    /\ Unlock /\ Goto(s, "stamp")
    /\ UNCHANGED <<lst, runNo, scans, marker, ext, nat, nid, life, pos, run, nr, freed, count, visited>>

\* sbi->shrinker_run_no = run_no, written without the list lock.
ScanStamp(s) ==
    /\ pc[s] = "stamp"
    /\ marker' = [marker EXCEPT ![pos[s]] = run[s]]
    /\ visited' = [visited EXCEPT ![s] = @ \cup {pos[s]}]
    /\ Goto(s, "shrink")
    /\ UNCHANGED <<lst, listLock, runNo, scans, gate, ext, nat, nid, life, pos, run, nr, freed, count>>

ScanShrink(s) ==
    LET p == pos[s]
        n == nr[s]
    IN
    /\ pc[s] = "shrink"
    /\ \E k1 \in Freeable(__count_extent_cache(p), n \div 2) :
       LET f1 == freed[s] + k1 IN
       \E k2 \in IF f1 < n THEN Freeable(__count_nat_entries(p), n - f1) ELSE {0} :
       LET f2 == f1 + k2 IN
       \E k3 \in IF f2 < n THEN Freeable(__count_free_nids(p), n - f2) ELSE {0} :
          /\ ext' = [ext EXCEPT ![p] = @ - k1]
          /\ nat' = [nat EXCEPT ![p] = @ - k2]
          /\ nid' = [nid EXCEPT ![p] = @ - k3]
          /\ freed' = [freed EXCEPT ![s] = f2 + k3]
    /\ Goto(s, "relock")
    /\ UNCHANGED <<lst, listLock, runNo, scans, marker, gate, life, pos, run, nr, count, visited>>

\* spin_lock; p = p->next; list_move_tail; mutex_unlock; and if
\* freed >= nr, break and spin_unlock.
ScanRelock(s) ==
    LET p == pos[s] IN
    /\ pc[s] = "relock" /\ listLock = NoOwner
    /\ lst' = MoveTail(lst, p)
    /\ gate' = [gate EXCEPT ![p] = NoOwner]
    /\ IF freed[s] >= nr[s]
       THEN UNCHANGED listLock /\ ScanReturn(s)
       ELSE /\ listLock' = s /\ Goto(s, "walk")
            /\ pos' = [pos EXCEPT ![s] = NextOf(lst, p)]
            /\ UNCHANGED <<run, nr, freed, visited>>
    /\ UNCHANGED <<runNo, scans, marker, ext, nat, nid, life, count>>

-----------------------------------------------------------------------------
(* Mount and unmount of instance i, run by i's own thread                  *)

\* f3fs_join_shrinker: list_add_tail under the list lock.
Join(i) ==
    /\ life[i] = "new" /\ listLock = NoOwner
    /\ lst' = Append(lst, i)
    /\ life' = [life EXCEPT ![i] = "mounted"]
    /\ UNCHANGED <<listLock, runNo, scans, marker, gate, ext, nat, nid, pc, pos, run, nr, freed, count, visited>>

\* put_super begins and blocks in mutex_lock(&sbi->umount_mutex).
UmountStart(i) ==
    /\ life[i] = "mounted"
    /\ life' = [life EXCEPT ![i] = "umount"]
    /\ UNCHANGED <<lst, listLock, runNo, scans, marker, gate, ext, nat, nid, pc, pos, run, nr, freed, count, visited>>

\* Variant: put_super calls f3fs_leave_shrinker without taking umount_mutex.
UmountLockSkipped(i) ==
    /\ life[i] = "umount"
    /\ life' = [life EXCEPT ![i] = "drain"]
    /\ UNCHANGED <<gate, lst, listLock, runNo, scans, marker, ext, nat, nid, pc, pos, run, nr, freed, count, visited>>

\* mutex_lock(&sbi->umount_mutex) returns.
UmountLock(i) ==
    /\ life[i] = "umount" /\ gate[i] = NoOwner
    /\ gate' = [gate EXCEPT ![i] = i]
    /\ life' = [life EXCEPT ![i] = "drain"]
    /\ UNCHANGED <<lst, listLock, runNo, scans, marker, ext, nat, nid, pc, pos, run, nr, freed, count, visited>>

\* f3fs_leave_shrinker, first step: drain the extent cache without the
\* list lock, asking for its whole current count.
LeaveDrain(i) ==
    /\ life[i] = "drain"
    /\ \E k \in Freeable(__count_extent_cache(i), __count_extent_cache(i)) :
          ext' = [ext EXCEPT ![i] = @ - k]
    /\ life' = [life EXCEPT ![i] = "del"]
    /\ UNCHANGED <<lst, listLock, runNo, scans, marker, gate, nat, nid, pc, pos, run, nr, freed, count, visited>>

\* f3fs_leave_shrinker, second step: list_del_init under the list lock.
LeaveDel(i) ==
    /\ life[i] = "del" /\ listLock = NoOwner
    /\ lst' = Remove(lst, i)
    /\ life' = [life EXCEPT ![i] = "left"]
    /\ UNCHANGED <<listLock, runNo, scans, marker, gate, ext, nat, nid, pc, pos, run, nr, freed, count, visited>>

\* put_super: mutex_unlock(&sbi->umount_mutex); the record is then freed.
UmountUnlock(i) ==
    /\ life[i] = "left"
    /\ gate' = [gate EXCEPT ![i] = NoOwner]
    /\ life' = [life EXCEPT ![i] = "gone"]
    /\ UNCHANGED <<lst, listLock, runNo, scans, marker, ext, nat, nid, pc, pos, run, nr, freed, count, visited>>

\* Filesystem activity adds a reclaimable entry to one of i's caches.
Grow(i) ==
    /\ life[i] \in {"new", "mounted"}
    /\ \/ ext[i] < MaxCache /\ ext' = [ext EXCEPT ![i] = @ + 1] /\ UNCHANGED <<nat, nid>>
       \/ nat[i] < MaxCache /\ nat' = [nat EXCEPT ![i] = @ + 1] /\ UNCHANGED <<ext, nid>>
       \/ nid[i] < MaxFreeNids + MaxCache /\ nid' = [nid EXCEPT ![i] = @ + 1] /\ UNCHANGED <<ext, nat>>
    /\ UNCHANGED <<lst, listLock, runNo, scans, marker, gate, life, pc, pos, run, nr, freed, count, visited>>

-----------------------------------------------------------------------------
Next ==
    \/ \E c \in Counters : CountStart(c) \/ CountWalk(c) \/ CountCaches(c) \/ CountRelock(c)
    \/ \E s \in Scanners : \/ ScanStart(s) \/ ScanStop(s) \/ ScanSkipBusy(s) \/ ScanTake(s)
                           \/ ScanStamp(s) \/ ScanShrink(s) \/ ScanRelock(s)
    \/ \E i \in Inst : \/ Join(i) \/ UmountStart(i) \/ UmountLock(i) \/ LeaveDrain(i)
                       \/ LeaveDel(i) \/ UmountUnlock(i) \/ Grow(i)

Spec == Init /\ [][Next]_vars

-----------------------------------------------------------------------------
(* Properties                                                              *)

TypeOK ==
    /\ lst \in Seq(Inst) /\ Len(lst) = Cardinality(ToSet(lst))
    /\ listLock \in Threads \cup {NoOwner}
    /\ runNo \in 0 .. RunMod - 1 /\ scans \in Nat
    /\ marker \in [Inst -> 0 .. RunMod - 1]
    /\ gate \in [Inst -> Threads \cup {NoOwner}]
    /\ ext \in [Inst -> 0 .. MaxCache] /\ nat \in [Inst -> 0 .. MaxCache]
    /\ nid \in [Inst -> 0 .. MaxFreeNids + MaxCache]
    /\ life \in [Inst -> Life]
    /\ \A s \in Scanners : pc[s] \in ScanPc
    /\ \A c \in Counters : pc[c] \in CountPc
    /\ pos \in [Walkers -> Inst \cup {ListHead}]
    /\ run \in [Scanners -> 0 .. RunMod - 1] /\ nr \in [Scanners -> {0} \cup NrToScan]
    /\ freed \in [Scanners -> Nat] /\ count \in [Counters -> Int]
    /\ visited \in [Scanners -> SUBSET Inst]

\* A walker's cursor p is the list head or an instance still on f3fs_list:
\* no count or scan thread ever follows p->next out of, or works on, an
\* instance that f3fs_leave_shrinker has already taken off the list.  This
\* rests on two things at once: the walk re-reads p->next only under the
\* list lock after mutex_unlock-free work, and put_super holds umount_mutex
\* across f3fs_leave_shrinker, so a taken instance cannot be deleted.
NoWalkerOnDetached ==
    \A t \in Walkers : pc[t] # "idle" => pos[t] = ListHead \/ pos[t] \in ToSet(lst)

\* A scan stops on the cycle test (sbi->shrinker_run_no == run_no) only at
\* an instance that this same call of f3fs_shrink_scan stamped: the stop
\* means a full round, never a stale marker left by an earlier call.
ScanStopsOnOwnStamp ==
    \A s \in Scanners :
        (pc[s] = "walk" /\ pos[s] # ListHead /\ marker[pos[s]] = run[s])
            => pos[s] \in visited[s]

CountNonNegative == \A c \in Counters : count[c] >= 0

\* Within one call of f3fs_shrink_scan no instance is taken twice: the
\* run_no stamp makes the walk stop when it comes back to an instance it
\* already served.
ScanVisitsOnce ==
    \A s \in Scanners : pc[s] = "stamp" => pos[s] \notin visited[s]

-----------------------------------------------------------------------------
(* Liveness                                                                *)

\* Scheduling: a thread that can run a step eventually does (weak fairness);
\* the list spinlock is a queued (FIFO) lock and umount_mutex hands off to
\* a sleeping waiter, so a thread waiting on either is eventually granted it
\* even though it is free only intermittently (strong fairness).  When the
\* host calls count or scan, and whether an instance is unmounted, carry no
\* fairness.
Fairness ==
    /\ \A c \in Counters : /\ WF_vars(CountWalk(c)) /\ WF_vars(CountCaches(c))
                           /\ SF_vars(CountRelock(c))
    /\ \A s \in Scanners : /\ WF_vars(ScanStop(s)) /\ WF_vars(ScanSkipBusy(s))
                           /\ WF_vars(ScanTake(s)) /\ WF_vars(ScanStamp(s))
                           /\ WF_vars(ScanShrink(s)) /\ SF_vars(ScanRelock(s))
    /\ \A i \in Inst : /\ SF_vars(UmountLock(i)) /\ WF_vars(LeaveDrain(i))
                       /\ SF_vars(LeaveDel(i)) /\ WF_vars(UmountUnlock(i))

FairSpec == Spec /\ Fairness

\* Every call of f3fs_shrink_count and f3fs_shrink_scan returns.
WalkTerminates == \A t \in Walkers : pc[t] # "idle" ~> pc[t] = "idle"

\* An unmount that has begun completes: put_super gets umount_mutex past
\* the trylocks of the walkers, and the instance leaves the list.
UnmountCompletes == \A i \in Inst : life[i] = "umount" ~> life[i] = "gone"

=============================================================================
