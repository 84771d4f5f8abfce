--------------------------- MODULE SysfsLifecycle ---------------------------
(***************************************************************************)
(* The per-filesystem sysfs objects of src/f2fs/sysfs.c and the show and  *)
(* store calls that run on them.                                           *)
(*                                                                         *)
(* f3fs_register_sysfs creates three kobjects: the instance directory      *)
(* s_kobj ("sb") and its children "stat" and "feature_list" ("feat").      *)
(* It unwinds through the put/wait labels when one kobject_init_and_add    *)
(* fails. f3fs_unregister_sysfs deletes, puts and waits for each of them.  *)
(*                                                                         *)
(* Users open attribute files. The kernel's kernfs layer counts them as    *)
(* active references, and kobject deletion drains those references.        *)
(* Stores to GC entries take s_umount with a read trylock                  *)
(* (f3fs_sbi_store). Mount, remount and unmount hold s_umount for writing. *)
(*                                                                         *)
(* Kernel behaviour this model assumes:                                    *)
(*   - kobject reference counts, and the parent reference taken by add;    *)
(*   - kernfs deactivate-and-drain;                                        *)
(*   - the rwsem;                                                          *)
(*   - remount replacing sbi->gc_thread, and unmount stopping it.          *)
(* kobject cleanup runs on a separate actor, so that the delayed release   *)
(* the kernel allows (and wait_for_completion exists for) is included.     *)
(***************************************************************************)
EXTENDS Integers, Sequences, FiniteSets

CONSTANTS Users,        \* threads reading and writing attribute files
          MaxRemount    \* bound on remounts per mount

KObjs == {"sb", "stat", "feat"}

(* Attribute classes per kobject:                                         *)
(*   "gc_sleep"  - the GC_THREAD entries (gc_min_sleep_time, ...);        *)
(*   "gc_urgent" - an F3FS_SBI entry whose store wakes sbi->gc_thread;    *)
(*   "plain"     - every other f3fs_sbi_show/f3fs_sbi_store entry;        *)
(*   "stat"      - the F3FS_STAT_ATTR entries;                            *)
(*   "feat"      - the feature_list entries.                              *)
Attrs == [sb |-> {"gc_sleep", "gc_urgent", "plain"},
          stat |-> {"stat"}, feat |-> {"feat"}]
OpsOf(a) == IF a \in {"stat", "feat"} THEN {"show"} ELSE {"show", "store"}

(* A plausible slip: only GC_THREAD entries counted as GC entries.        *)
GcEntryNoUrgent(a) == a = "gc_sleep"

(* The gc_entry test of f3fs_sbi_store.                                   *)
GcEntry(a) == a \in {"gc_urgent", "gc_sleep"}

(* The handler dereferences sbi->gc_thread: __struct_ptr of a GC_THREAD   *)
(* entry, or the gc_wake write of a gc_urgent store.                      *)
ReadsGcThread(a, op) == a = "gc_sleep" \/ (a = "gc_urgent" /\ op = "store")

(* The proc files f3fs_register_sysfs creates under sbi->s_proc, with     *)
(* CONFIG_F3FS_IOSTAT.                                                     *)
ProcFiles == {"segment_info", "segment_bits", "iostat_info", "victim_bits"}

(* f3fs_register_sysfs: the three kobject_init_and_add calls, then         *)
(* proc_mkdir of the instance directory and proc_create_single_data of     *)
(* each file.                                                              *)
RegisterSteps == << <<"add", "sb">>, <<"add", "stat">>, <<"add", "feat">>,
                    <<"mkdir", "sbdir">>,
                    <<"mkproc", "segment_info">>, <<"mkproc", "segment_bits">>,
                    <<"mkproc", "iostat_info">>, <<"mkproc", "victim_bits">> >>

(* The error labels put_feature_list_kobj, put_stat_kobj, put_sb_kobj.    *)
UnwindAll == << <<"put", "feat">>, <<"wait", "feat">>,
                <<"put", "stat">>, <<"wait", "stat">>,
                <<"put", "sb">>, <<"wait", "sb">> >>

(* A plausible slip: each wait_for_completion placed before its put.     *)
UnwindWaitBeforePut(k) ==
    SubSeq(<< <<"wait", "feat">>, <<"put", "feat">>,
              <<"wait", "stat">>, <<"put", "stat">>,
              <<"wait", "sb">>, <<"put", "sb">> >>,
           [feat |-> 1, stat |-> 3, sb |-> 5][k], 6)

(* The label that a failure to add kobject k jumps to.                    *)
Unwind(k) ==
    SubSeq(UnwindAll, [feat |-> 1, stat |-> 3, sb |-> 5][k], Len(UnwindAll))

(* A plausible slip: the directory removed before the files in it.        *)
ProcUnregisterDirFirst ==
    << <<"rmproc", "sbdir">>, <<"rmproc", "iostat_info">>,
       <<"rmproc", "segment_info">>, <<"rmproc", "segment_bits">>,
       <<"rmproc", "victim_bits">> >>

(* f3fs_unregister_sysfs, first part: the remove_proc_entry calls made    *)
(* when sbi->s_proc is set, the files first and the directory last.        *)
ProcUnregister ==
    << <<"rmproc", "iostat_info">>, <<"rmproc", "segment_info">>,
       <<"rmproc", "segment_bits">>, <<"rmproc", "victim_bits">>,
       <<"rmproc", "sbdir">> >>

(* f3fs_unregister_sysfs: the proc entries, then del, put and wait for   *)
(* each kobject.                                                          *)
UnregisterSteps ==
    ProcUnregister \o
    << <<"del", "stat">>, <<"put", "stat">>, <<"wait", "stat">>,
       <<"del", "feat">>, <<"put", "feat">>, <<"wait", "feat">>,
       <<"del", "sb">>, <<"put", "sb">>, <<"wait", "sb">> >>

VARIABLES
    kst,      \* kobject state: none, init, added, draining, deleted, released
    ref,      \* kobject reference count
    pref,     \* the kobject holds a reference on its parent "sb"
    done,     \* the kobject's completion (s_*_kobj_unregister)
    active,   \* kernfs active references: show/store calls in flight
    writer,   \* s_umount held for writing (mount, remount or unmount)
    readers,  \* s_umount read holders
    gc,       \* sbi->gc_thread: 0 for NULL, else the generation of the thread
    gcGen,    \* last gc thread generation started
    freed,    \* the f3fs_sb_info has been freed
    phase,    \* the mount thread: register, unwind, mounted, remount, umount, failed, gone
    script,   \* kobject calls the mount thread has still to make
    pend,     \* kobjects whose last reference is gone, awaiting cleanup
    remounts,
    kset,     \* f3fs_kset: none, reg (kset_register done), unreg
    featk,    \* the global kobject f3fs_feat ("features"): none, added, put
    rootPtr,  \* f3fs_proc_root is set
    proc,     \* proc entries that exist: "root" (fs/f3fs), "sbdir" (s_id), ProcFiles
    sproc,    \* sbi->s_proc is set
    upc, uk, ua, uop, ugc, ulock   \* per user: pc, kobject, attribute, op, gc_thread read, s_umount held

vars == <<kst, ref, pref, done, active, writer, readers, gc, gcGen, freed,
          phase, script, pend, remounts, kset, featk, rootPtr, proc, sproc,
          upc, uk, ua, uop, ugc, ulock>>
gvars == <<kset, featk, rootPtr, proc, sproc>>
mvars == <<writer, gc, gcGen, freed, phase, remounts, gvars>>
uvars == <<upc, uk, ua, uop, ugc, ulock>>

Init ==
    /\ kst = [k \in KObjs |-> "none"]
    /\ ref = [k \in KObjs |-> 0]
    /\ pref = [k \in KObjs |-> FALSE]
    /\ done = [k \in KObjs |-> FALSE]
    /\ active = [k \in KObjs |-> 0]
    /\ writer = FALSE
    /\ readers = 0
    /\ gc = 0 /\ gcGen = 0
    /\ freed = FALSE
    /\ phase = "modinit"             \* f3fs_init_sysfs at module load
    /\ script = <<>>
    /\ kset = "none" /\ featk = "none"
    /\ rootPtr = FALSE /\ proc = {} /\ sproc = FALSE
    /\ pend = <<>>
    /\ remounts = 0
    /\ upc = [u \in Users |-> "idle"]
    /\ uk = [u \in Users |-> "sb"]
    /\ ua = [u \in Users |-> "plain"]
    /\ uop = [u \in Users |-> "show"]
    /\ ugc = [u \in Users |-> 0]
    /\ ulock = [u \in Users |-> FALSE]

-----------------------------------------------------------------------------
(* The mount thread: one kobject call of its script per step.             *)

Call == Head(script)
MReady(op) == script # <<>> /\ Call[1] = op

(* kobject_init_and_add, succeeding or failing. A failure leaves the      *)
(* kobject initialised with one reference, and jumps to its unwind label. *)
MAdd ==
    /\ MReady("add")
    /\ LET k == Call[2] IN
       \/ /\ kst' = [kst EXCEPT ![k] = "added"]
          /\ ref' = [ref EXCEPT ![k] = 1, !["sb"] = @ + (IF k = "sb" THEN 0 ELSE 1)]
          /\ pref' = [pref EXCEPT ![k] = (k # "sb")]
          /\ script' = Tail(script)
          /\ UNCHANGED phase
       \/ /\ kst' = [kst EXCEPT ![k] = "init"]
          /\ ref' = [ref EXCEPT ![k] = 1]
          /\ script' = Unwind(k)
          /\ phase' = "unwind"
          /\ UNCHANGED pref
    /\ UNCHANGED <<done, active, readers, pend, writer, gc, gcGen, freed, remounts, gvars, uvars>>

(* kobject_del, first half: kernfs deactivates the directory, so no new   *)
(* show or store starts; the thread then waits for the calls in flight.   *)
MDel ==
    /\ MReady("del")
    /\ kst[Call[2]] = "added"
    /\ kst' = [kst EXCEPT ![Call[2]] = "draining"]
    /\ script' = <<<<"unlink", Call[2]>>>> \o Tail(script)
    /\ UNCHANGED <<ref, pref, done, active, readers, pend, mvars, uvars>>

(* A plausible slip: the directory removed without waiting for the calls *)
(* in flight (no kernfs_drain).                                           *)
MUnlinkNoDrain ==
    /\ MReady("unlink")
    /\ LET k == Call[2] IN
       /\ kst' = [kst EXCEPT ![k] = "deleted"]
       /\ pref' = [pref EXCEPT ![k] = FALSE]
       /\ ref' = IF pref[k] THEN [ref EXCEPT !["sb"] = @ - 1] ELSE ref
       /\ pend' = IF pref[k] /\ ref["sb"] = 1 THEN Append(pend, "sb") ELSE pend
    /\ script' = Tail(script)
    /\ UNCHANGED <<done, active, readers, mvars, uvars>>

(* kobject_del, second half: the drained directory is removed and the     *)
(* parent reference dropped.                                              *)
MUnlink ==
    /\ MReady("unlink")
    /\ LET k == Call[2] IN
       /\ active[k] = 0
       /\ kst' = [kst EXCEPT ![k] = "deleted"]
       /\ pref' = [pref EXCEPT ![k] = FALSE]
       /\ ref' = IF pref[k] THEN [ref EXCEPT !["sb"] = @ - 1] ELSE ref
       /\ pend' = IF pref[k] /\ ref["sb"] = 1 THEN Append(pend, "sb") ELSE pend
    /\ script' = Tail(script)
    /\ UNCHANGED <<done, active, readers, mvars, uvars>>

(* kobject_put: the last reference hands the kobject to cleanup.          *)
MPut ==
    /\ MReady("put")
    /\ LET k == Call[2] IN
       /\ ref' = [ref EXCEPT ![k] = @ - 1]
       /\ pend' = IF ref[k] = 1 THEN Append(pend, k) ELSE pend
    /\ script' = Tail(script)
    /\ UNCHANGED <<kst, pref, done, active, readers, mvars, uvars>>

(* wait_for_completion on the kobject's completion.                       *)
MWait ==
    /\ MReady("wait")
    /\ done[Call[2]]
    /\ script' = Tail(script)
    /\ UNCHANGED <<kst, ref, pref, done, active, readers, pend, mvars, uvars>>

(* f3fs_register_sysfs: if f3fs_proc_root is set, proc_mkdir of the      *)
(* instance directory into sbi->s_proc, which may fail and leave it NULL. *)
MMkdir ==
    /\ MReady("mkdir")
    /\ \E ok \in BOOLEAN :
          /\ sproc' = (rootPtr /\ ok)
          /\ proc' = IF rootPtr /\ ok THEN proc \cup {"sbdir"} ELSE proc
    /\ script' = Tail(script)
    /\ UNCHANGED <<kst, ref, pref, done, active, readers, pend, writer, gc, gcGen,
                   freed, phase, remounts, kset, featk, rootPtr, uvars>>

(* If sbi->s_proc is set, proc_create_single_data of one file; its result *)
(* is not checked, so a failure leaves the file missing.                  *)
MMkproc ==
    /\ MReady("mkproc")
    /\ \E ok \in BOOLEAN : proc' = IF sproc /\ ok THEN proc \cup {Call[2]} ELSE proc
    /\ script' = Tail(script)
    /\ UNCHANGED <<kst, ref, pref, done, active, readers, pend, writer, gc, gcGen,
                   freed, phase, remounts, kset, featk, rootPtr, sproc, uvars>>

(* If sbi->s_proc is set, remove_proc_entry of one entry by name.         *)
MRmproc ==
    /\ MReady("rmproc")
    /\ proc' = IF sproc THEN proc \ {Call[2]} ELSE proc
    /\ script' = Tail(script)
    /\ UNCHANGED <<kst, ref, pref, done, active, readers, pend, writer, gc, gcGen,
                   freed, phase, remounts, kset, featk, rootPtr, sproc, uvars>>

(* fill_super goes on after f3fs_register_sysfs: the gc thread may be     *)
(* started, and s_umount is released.                                     *)
MountDone ==
    /\ phase = "register" /\ script = <<>>
    /\ phase' = "mounted"
    /\ writer' = FALSE
    /\ gc' \in {0, 1}
    /\ gcGen' = 1
    /\ UNCHANGED <<kst, ref, pref, done, active, readers, script, pend, freed, remounts, gvars, uvars>>

(* f3fs_register_sysfs returned an error: the mount fails, sbi is freed.  *)
MountFailed ==
    /\ phase = "unwind" /\ script = <<>>
    /\ phase' = "failed"
    /\ writer' = FALSE
    /\ freed' = TRUE
    /\ UNCHANGED <<kst, ref, pref, done, active, readers, script, pend, gc, gcGen, remounts, gvars, uvars>>

(* Remount takes s_umount for writing ...                                 *)
RemountLock ==
    /\ phase = "mounted" /\ remounts < MaxRemount
    /\ ~writer /\ readers = 0
    /\ writer' = TRUE
    /\ phase' = "remount"
    /\ UNCHANGED <<kst, ref, pref, done, active, readers, script, pend, gc, gcGen, freed, remounts, gvars, uvars>>

(* ... stops the gc thread (freeing it) and may start a new one.          *)
RemountGc ==
    /\ phase = "remount"
    /\ gc' \in {0, gcGen + 1}
    /\ gcGen' = gcGen + 1
    /\ remounts' = remounts + 1
    /\ writer' = FALSE
    /\ phase' = "mounted"
    /\ UNCHANGED <<kst, ref, pref, done, active, readers, script, pend, freed, gvars, uvars>>

(* Unmount holds s_umount for writing, stops the gc thread, and calls     *)
(* f3fs_unregister_sysfs from put_super.                                  *)
UmountLock ==
    /\ phase = "mounted"
    /\ ~writer /\ readers = 0
    /\ writer' = TRUE
    /\ gc' = 0
    /\ phase' = "umount"
    /\ script' = UnregisterSteps
    /\ UNCHANGED <<kst, ref, pref, done, active, readers, pend, gcGen, freed, remounts, gvars, uvars>>

(* put_super returns and the f3fs_sb_info is freed.                       *)
UmountDone ==
    /\ phase = "umount" /\ script = <<>>
    /\ phase' = "gone"
    /\ freed' = TRUE
    /\ UNCHANGED <<kst, ref, pref, done, active, readers, script, pend, writer, gc, gcGen, remounts, gvars, uvars>>

-----------------------------------------------------------------------------
(* Module load and unload: f3fs_init_sysfs and f3fs_exit_sysfs.           *)

(* kset_register(&f3fs_kset); on failure f3fs_init_sysfs returns.          *)
ModKset ==
    /\ phase = "modinit"
    /\ \/ kset' = "reg" /\ phase' = "modfeat"
       \/ phase' = "modfailed" /\ UNCHANGED kset
    /\ UNCHANGED <<kst, ref, pref, done, active, readers, script, pend, writer, gc,
                   gcGen, freed, remounts, featk, rootPtr, proc, sproc, uvars>>

(* A plausible slip: the put_kobject label falls through to return.       *)
ModFeatNoUnregister ==
    /\ phase = "modfeat"
    /\ \/ /\ featk' = "added" /\ phase' = "loaded"
          /\ \E ok \in BOOLEAN : rootPtr' = ok /\ proc' = IF ok THEN {"root"} ELSE {}
          /\ UNCHANGED kset
       \/ /\ featk' = "put" /\ phase' = "modfailed"
          /\ UNCHANGED <<kset, rootPtr, proc>>
    /\ UNCHANGED <<kst, ref, pref, done, active, readers, script, pend, writer, gc,
                   gcGen, freed, remounts, sproc, uvars>>

(* kobject_init_and_add(&f3fs_feat); on success proc_mkdir("fs/f3fs"),    *)
(* which may return NULL into f3fs_proc_root without failing the load; on *)
(* failure kobject_put(&f3fs_feat) and kset_unregister(&f3fs_kset).       *)
ModFeat ==
    /\ phase = "modfeat"
    /\ \/ /\ featk' = "added" /\ phase' = "loaded"
          /\ \E ok \in BOOLEAN : rootPtr' = ok /\ proc' = IF ok THEN {"root"} ELSE {}
          /\ UNCHANGED kset
       \/ /\ featk' = "put" /\ kset' = "unreg" /\ phase' = "modfailed"
          /\ UNCHANGED <<rootPtr, proc>>
    /\ UNCHANGED <<kst, ref, pref, done, active, readers, script, pend, writer, gc,
                   gcGen, freed, remounts, sproc, uvars>>

(* A mount of the loaded module: fill_super, under s_umount, reaches      *)
(* f3fs_register_sysfs.                                                   *)
MountBegin ==
    /\ phase = "loaded"
    /\ phase' = "register" /\ writer' = TRUE /\ script' = RegisterSteps
    /\ UNCHANGED <<kst, ref, pref, done, active, readers, pend, gc, gcGen, freed,
                   remounts, gvars, uvars>>

(* f3fs_exit_sysfs, once no instance is mounted: kobject_put(&f3fs_feat), *)
(* kset_unregister, remove_proc_entry("fs/f3fs") whether or not           *)
(* proc_mkdir succeeded, and f3fs_proc_root = NULL.                       *)
ModExit ==
    /\ phase \in {"loaded", "gone", "failed"} /\ pend = <<>>
    /\ featk' = "put" /\ kset' = "unreg"
    /\ proc' = proc \ {"root"} /\ rootPtr' = FALSE
    /\ phase' = "unloaded"
    /\ UNCHANGED <<kst, ref, pref, done, active, readers, script, pend, writer, gc,
                   gcGen, freed, remounts, sproc, uvars>>

-----------------------------------------------------------------------------
(* kobject_cleanup of a kobject whose last reference is gone: remove it   *)
(* from sysfs if kobject_del did not (draining the calls in flight), run  *)
(* its release callback (complete()), then drop the parent reference.     *)

Cleanup ==
    /\ pend # <<>>
    /\ LET k == Head(pend) IN
       \/ /\ kst[k] = "added"
          /\ kst' = [kst EXCEPT ![k] = "draining"]
          /\ UNCHANGED <<ref, pref, done, pend>>
       \/ /\ kst[k] = "draining" /\ active[k] = 0
          /\ kst' = [kst EXCEPT ![k] = "deleted"]
          /\ UNCHANGED <<ref, pref, done, pend>>
       \/ /\ kst[k] \in {"init", "deleted"}
          /\ kst' = [kst EXCEPT ![k] = "released"]
          /\ done' = [done EXCEPT ![k] = TRUE]
          /\ pref' = [pref EXCEPT ![k] = FALSE]
          /\ ref' = IF pref[k] THEN [ref EXCEPT !["sb"] = @ - 1] ELSE ref
          /\ pend' = Tail(pend) \o
                     (IF pref[k] /\ ref["sb"] = 1 THEN <<"sb">> ELSE <<>>)
    /\ UNCHANGED <<active, readers, script, mvars, uvars>>

-----------------------------------------------------------------------------
(* A user reads or writes one attribute file.                             *)

(* kernfs_get_active: only a directory that is not deactivated accepts a  *)
(* new call; the call holds an active reference until it returns.        *)
UOpen(u) ==
    /\ upc[u] = "idle"
    /\ \E k \in KObjs, o \in {"show", "store"} :
       \E a \in Attrs[k] :
          /\ kst[k] = "added"
          /\ o \in OpsOf(a)
          /\ active' = [active EXCEPT ![k] = @ + 1]
          /\ uk' = [uk EXCEPT ![u] = k]
          /\ ua' = [ua EXCEPT ![u] = a]
          /\ uop' = [uop EXCEPT ![u] = o]
    /\ upc' = [upc EXCEPT ![u] = "enter"]
    /\ UNCHANGED <<kst, ref, pref, done, readers, script, pend, mvars, ugc, ulock>>

(* A plausible slip: down_read instead of down_read_trylock.              *)
UDispatchBlocking(u) ==
    /\ upc[u] = "enter"
    /\ \/ /\ uop[u] = "store" /\ GcEntry(ua[u]) /\ ~writer
          /\ readers' = readers + 1
          /\ ulock' = [ulock EXCEPT ![u] = TRUE]
       \/ /\ ~(uop[u] = "store" /\ GcEntry(ua[u]))
          /\ UNCHANGED <<readers, ulock>>
    /\ upc' = [upc EXCEPT ![u] = "body"]
    /\ UNCHANGED <<kst, ref, pref, done, active, script, pend, mvars, uk, ua, uop, ugc>>

(* f3fs_sbi_store: a GC entry takes s_umount with down_read_trylock and   *)
(* returns -EAGAIN if a writer holds it; other calls go straight on.     *)
UDispatch(u) ==
    /\ upc[u] = "enter"
    /\ \/ /\ uop[u] = "store" /\ GcEntry(ua[u]) /\ writer
          /\ upc' = [upc EXCEPT ![u] = "exit"]
          /\ UNCHANGED <<readers, ulock>>
       \/ /\ uop[u] = "store" /\ GcEntry(ua[u]) /\ ~writer
          /\ readers' = readers + 1
          /\ ulock' = [ulock EXCEPT ![u] = TRUE]
          /\ upc' = [upc EXCEPT ![u] = "body"]
       \/ /\ ~(uop[u] = "store" /\ GcEntry(ua[u]))
          /\ upc' = [upc EXCEPT ![u] = "body"]
          /\ UNCHANGED <<readers, ulock>>
    /\ UNCHANGED <<kst, ref, pref, done, active, script, pend, mvars, uk, ua, uop, ugc>>

(* The handler body. A GC_THREAD entry reads sbi->gc_thread through       *)
(* __struct_ptr and fails with -EINVAL on NULL; a gc_urgent store tests   *)
(* sbi->gc_thread before waking it. Other handlers touch only sbi.        *)
UBody(u) ==
    /\ upc[u] = "body"
    /\ \/ /\ ReadsGcThread(ua[u], uop[u])
          /\ ugc' = [ugc EXCEPT ![u] = gc]
          /\ upc' = [upc EXCEPT ![u] = IF gc = 0 THEN "exit" ELSE "deref"]
       \/ /\ ~ReadsGcThread(ua[u], uop[u])
          /\ upc' = [upc EXCEPT ![u] = "exit"]
          /\ UNCHANGED ugc
    /\ UNCHANGED <<kst, ref, pref, done, active, readers, script, pend, mvars, uk, ua, uop, ulock>>

(* The read or write through the gc_thread pointer read before.          *)
UDeref(u) ==
    /\ upc[u] = "deref"
    /\ upc' = [upc EXCEPT ![u] = "exit"]
    /\ ugc' = [ugc EXCEPT ![u] = 0]
    /\ UNCHANGED <<kst, ref, pref, done, active, readers, script, pend, mvars, uk, ua, uop, ulock>>

(* A plausible slip: up_read whatever the call took.                     *)
UExitAlwaysUpRead(u) ==
    /\ upc[u] = "exit"
    /\ readers' = readers - 1
    /\ active' = [active EXCEPT ![uk[u]] = @ - 1]
    /\ upc' = [upc EXCEPT ![u] = "idle"]
    /\ ulock' = [ulock EXCEPT ![u] = FALSE]
    /\ ugc' = [ugc EXCEPT ![u] = 0]
    /\ UNCHANGED <<kst, ref, pref, done, script, pend, mvars, uk, ua, uop>>

(* up_read if taken, then kernfs_put_active.                              *)
UExit(u) ==
    /\ upc[u] = "exit"
    /\ readers' = IF ulock[u] THEN readers - 1 ELSE readers
    /\ active' = [active EXCEPT ![uk[u]] = @ - 1]
    /\ upc' = [upc EXCEPT ![u] = "idle"]
    /\ ulock' = [ulock EXCEPT ![u] = FALSE]
    /\ ugc' = [ugc EXCEPT ![u] = 0]
    /\ UNCHANGED <<kst, ref, pref, done, script, pend, mvars, uk, ua, uop>>

-----------------------------------------------------------------------------
(* The instance is gone or its mount failed, and nothing runs any more.   *)
Terminated ==
    /\ phase \in {"unloaded", "modfailed"}
    /\ pend = <<>>
    /\ \A u \in Users : upc[u] = "idle"
    /\ UNCHANGED vars

MountThread ==
    MAdd \/ MDel \/ MUnlink \/ MPut \/ MWait \/ MMkdir \/ MMkproc \/ MRmproc
    \/ MountDone \/ MountFailed \/ RemountLock \/ RemountGc \/ UmountLock \/ UmountDone

ModuleThread == ModKset \/ ModFeat \/ MountBegin \/ ModExit

Next ==
    \/ ModuleThread
    \/ MountThread
    \/ Cleanup
    \/ \E u \in Users : UOpen(u) \/ UDispatch(u) \/ UBody(u) \/ UDeref(u) \/ UExit(u)
    \/ Terminated

Spec == Init /\ [][Next]_vars

(* Every started step of the mount thread, of cleanup and of a started    *)
(* call is eventually taken, and a started module load finishes; mount,  *)
(* unload, opening files, remount and unmount are left to the environment.*)
Fairness ==
    /\ WF_vars(ModKset) /\ WF_vars(ModFeat)
    /\ WF_vars(MAdd) /\ WF_vars(MDel) /\ WF_vars(MUnlink) /\ WF_vars(MPut)
    /\ WF_vars(MWait) /\ WF_vars(MMkdir) /\ WF_vars(MMkproc) /\ WF_vars(MRmproc)
    /\ WF_vars(MountDone) /\ WF_vars(MountFailed)
    /\ WF_vars(RemountGc) /\ WF_vars(UmountDone) /\ WF_vars(Cleanup)
    /\ \A u \in Users : /\ WF_vars(UDispatch(u)) /\ WF_vars(UBody(u))
                        /\ WF_vars(UDeref(u)) /\ WF_vars(UExit(u))

FairSpec == Spec /\ Fairness

-----------------------------------------------------------------------------
TypeOK ==
    /\ kst \in [KObjs -> {"none", "init", "added", "draining", "deleted", "released"}]
    /\ ref \in [KObjs -> 0..3]
    /\ pref \in [KObjs -> BOOLEAN]
    /\ done \in [KObjs -> BOOLEAN]
    /\ active \in [KObjs -> 0..Cardinality(Users)]
    /\ writer \in BOOLEAN /\ readers \in 0..Cardinality(Users)
    /\ gc \in 0..gcGen /\ gcGen \in 0..MaxRemount + 1
    /\ phase \in {"modinit", "modfeat", "modfailed", "loaded", "register", "unwind",
                  "mounted", "remount", "umount", "failed", "gone", "unloaded"}
    /\ kset \in {"none", "reg", "unreg"} /\ featk \in {"none", "added", "put"}
    /\ rootPtr \in BOOLEAN /\ sproc \in BOOLEAN
    /\ proc \subseteq {"root", "sbdir"} \cup ProcFiles
    /\ upc \in [Users -> {"idle", "enter", "body", "deref", "exit"}]
    /\ \A u \in Users : ua[u] \in Attrs[uk[u]] /\ uop[u] \in OpsOf(ua[u])

(* A store never writes through a gc_thread pointer that remount or       *)
(* unmount has freed since the pointer was read (the s_umount trylock of *)
(* f3fs_sbi_store).                                                       *)
StoreGcThreadLive ==
    \A u \in Users : upc[u] = "deref" /\ uop[u] = "store" => ugc[u] = gc

(* The same for a show of a GC_THREAD entry (f3fs_sbi_show).              *)
ShowGcThreadLive ==
    \A u \in Users : upc[u] = "deref" /\ uop[u] = "show" => ugc[u] = gc

(* Every unmount that has taken s_umount finishes f3fs_unregister_sysfs: *)
(* no show or store blocks it, and it blocks no show or store for ever.  *)
UnmountCompletes == phase = "umount" ~> phase = "gone"

(* f3fs_register_sysfs returns, on success or after unwinding.            *)
RegisterReturns == phase \in {"register", "unwind"} ~> phase \in {"mounted", "failed"}

(* f3fs_unregister_sysfs removes the instance's proc directory only after *)
(* the files in it, and f3fs_exit_sysfs removes fs/f3fs only after the    *)
(* instance directory (remove_proc_entry WARNs on a directory that is not *)
(* empty and leaves its children behind).                                 *)
ProcDirEmptyWhenRemoved ==
    [][ /\ ("sbdir" \in proc /\ "sbdir" \notin proc') => proc' \cap ProcFiles = {}
        /\ ("root" \in proc /\ "root" \notin proc') => "sbdir" \notin proc ]_vars

(* Once the module is unloaded, or its load failed, the kset and the      *)
(* features kobject are unregistered and no proc entry is left: the error *)
(* labels of f3fs_init_sysfs, f3fs_unregister_sysfs and f3fs_exit_sysfs  *)
(* undo everything the earlier steps created.                              *)
GlobalsReleasedAtUnload ==
    phase \in {"unloaded", "modfailed"} =>
        /\ kset # "reg" /\ featk # "added" /\ proc = {}

(* Every remove_proc_entry names an entry that exists: the removals of     *)
(* f3fs_unregister_sysfs and f3fs_exit_sysfs match the creations that      *)
(* succeeded (remove_proc_entry WARNs "name not found" otherwise).        *)
ProcRemoveFindsEntry ==
    [][ /\ (MReady("rmproc") /\ sproc /\ script' = Tail(script)) => Call[2] \in proc
        /\ (phase # "unloaded" /\ phase' = "unloaded") => "root" \in proc ]_vars

====
