----------------------------- MODULE SysfsStore -----------------------------
(***************************************************************************)
(* The store handlers of __sbi_store (src/f2fs/sysfs.c) acting on the     *)
(* tunables of one f3fs_sb_info, together with the filesystem activity    *)
(* that reads and updates the same fields:                                *)
(*   - the GC thread's urgent-high budget accounting;                      *)
(*   - block allocation and release against the reserved blocks;           *)
(*   - statistics counters.                                                *)
(* That activity lives outside this repository and is modelled from the   *)
(* f2fs code it derives from.                                             *)
(*                                                                         *)
(* Each store runs under the lock its handler takes (stat_lock, sb_lock,  *)
(* gc_urgent_high_lock) or is a single word write, so a store is one step.*)
(* The parsed value t is an unsigned long of ULongBits bits; the fields   *)
(* are unsigned int of UIntBits bits, scaled down from 64 and 32.         *)
(***************************************************************************)
EXTENDS Integers, FiniteSets

CONSTANTS
    Names,           \* the attributes the writer stores to
    TVals,           \* parsed values t tried, within 0..2^ULongBits-1
    UIntBits, ULongBits,
    FaultMax,        \* FAULT_MAX: inject_type must be below 2^FaultMax
    MaxPlistNum,     \* MAX_PLIST_NUM
    SegsPerSec,      \* sbi->segs_per_sec
    AtgcMax,         \* the 100 of atgc_candidate_ratio / atgc_age_weight
    RaMul, FragSize, \* [MIN_RA_MUL, MAX_RA_MUL], [MIN_FRAGMENT_SIZE, MAX_FRAGMENT_SIZE] as 2-tuples
    IostatPeriod,    \* [MIN_IOSTAT_PERIOD_MS, MAX_IOSTAT_PERIOD_MS]
    IoprioLevels,    \* IOPRIO_NR_LEVELS
    UserBlocks,      \* sbi->user_block_count
    RootReserved,    \* F3FS_OPTION(sbi).root_reserved_blocks
    SegReserve,      \* blocks_per_seg * additional_reserved_segments
    BlockUnitDiscard,\* f3fs_block_unit_discard(sbi)
    AtgcEnabled,     \* sbi->am.atgc_enabled
    MergeCheckpoint, \* test_opt(sbi, MERGE_CHECKPOINT)
    ExtNames,        \* extension names that fit F3FS_EXTENSION_LEN
    MaxExt           \* F3FS_MAX_EXTENSION: slots shared by cold and hot lists

UInt == 2^UIntBits
ULong == 2^ULongBits
ASSUME TVals \subseteq 0..ULong - 1

(* gc_mode values, in the order of gc_mode_names[].                       *)
GC_NORMAL == 0
GC_IDLE_CB == 1
GC_IDLE_GREEDY == 2
GC_IDLE_AT == 3
GC_URGENT_HIGH == 4
GC_URGENT_LOW == 5
GC_URGENT_MID == 6
MAX_GC_MODE == 7

(* Fields written through ui = ptr + a->offset.                           *)
UiNames == {"reserved_blocks", "discard_granularity", "migration_granularity",
            "batched_trim_sections", "iostat_period_ms", "inject_type",
            "inject_rate", "cp_interval"}
(* Fields with a range check and a direct assignment.                     *)
RangedNames == {"atgc_candidate_ratio", "atgc_age_weight", "seq_file_ra_mul",
                "max_fragment_chunk", "max_fragment_hole"}
(* Counters that a store may only reset, with t = 0: the compression     *)
(* statistics and the atomic write statistics.                           *)
ComprNames == {"compr_written_block", "compr_saved_block", "compr_new_inode"}
AtomicNames == {"peak_atomic_write", "committed_atomic_block", "revoked_atomic_block"}
ResetNames == ComprNames \cup AtomicNames
Counters == ResetNames \cup {"iostat"}

Range(a) ==
    CASE a \in {"atgc_candidate_ratio", "atgc_age_weight"} -> 0..AtgcMax
      [] a = "seq_file_ra_mul" -> RaMul[1]..RaMul[2]
      [] a \in {"max_fragment_chunk", "max_fragment_hole"} -> FragSize[1]..FragSize[2]

Lo(a) == CHOOSE x \in Range(a) : \A y \in Range(a) : x <= y

VARIABLES
    sbi,        \* the tunables of the f3fs_sb_info that the handlers write
    valid,      \* valid_user_blocks(sbi), changed by allocation
    last, res,  \* the attribute of the last store and what it returned
    stores,     \* number of stores made
    budget,     \* history: t of the last gc_urgent_high_remaining store
    rounds      \* history: urgent-high GC rounds charged since that store

vars == <<sbi, valid, last, res, stores, budget, rounds>>

(* The sbi fields:                                                        *)
(*   ui             - the unsigned int fields of UiNames;                 *)
(*   knob           - the fields of RangedNames;                          *)
(*   limited/remaining - gc_urgent_high_limited / gc_urgent_high_remaining;*)
(*   cold/hot       - the extension lists of raw_super, as sets: matching *)
(*                    against them does not depend on the order;          *)
(*   counter        - statistics a store may reset.                        *)
SbiInit ==
    [ui |-> [a \in UiNames |->
               CASE a \in {"discard_granularity", "migration_granularity"} -> 1
                 [] a = "iostat_period_ms" -> IostatPeriod[1]
                 [] OTHER -> 0],
     knob |-> [a \in RangedNames |-> Lo(a)],
     gc_mode |-> GC_NORMAL, gc_segment_mode |-> 0,
     gc_reclaimed_segs |-> [m \in 0..MAX_GC_MODE - 1 |-> 0],
     limited |-> FALSE, remaining |-> 0,
     current_reserved |-> 0,
     cold |-> {}, hot |-> {},
     ioprio |-> [class |-> "be", data |-> 0],
     iostat_enable |-> FALSE,
     counter |-> [c \in Counters |-> 0]]

Init ==
    /\ sbi = SbiInit
    /\ valid = 0
    /\ last = "none" /\ res = "ok" /\ stores = 0
    /\ budget = 0 /\ rounds = 0

-----------------------------------------------------------------------------
MinOf(x, y) == IF x <= y THEN x ELSE y

(* A store to attribute a sets sbi to s and returns r.                    *)
Store(a, s, r) ==
    /\ sbi' = s
    /\ last' = a /\ res' = r /\ stores' = stores + 1
    /\ UNCHANGED <<valid, budget, rounds>>

(* A store that fails before it changes anything.                         *)
Reject(a) == Store(a, sbi, "einval")

(* kstrtoul fails: -EINVAL before any field is touched.                   *)
StoreUnparsable(a) ==
    /\ a \in Names \ {"extension_list", "ckpt_thread_ioprio"}
    /\ Reject(a)

(* RESERVED_BLOCKS, under stat_lock: the limit is computed in block_t     *)
(* (unsigned int) and compared as an unsigned long.                       *)
ReservedLimit == (UserBlocks - RootReserved - SegReserve) % UInt

(* A plausible slip: current_reserved_blocks set without the min().       *)
ReservedStoreNoMin(t) ==
    /\ "reserved_blocks" \in Names
    /\ \/ t > ReservedLimit /\ Reject("reserved_blocks")
       \/ t <= ReservedLimit
          /\ Store("reserved_blocks",
                   [sbi EXCEPT !.ui["reserved_blocks"] = t % UInt,
                               !.current_reserved = t % UInt], "ok")

ReservedStore(t) ==
    /\ "reserved_blocks" \in Names
    /\ \/ t > ReservedLimit /\ Reject("reserved_blocks")
       \/ t <= ReservedLimit
          /\ Store("reserved_blocks",
                   [sbi EXCEPT !.ui["reserved_blocks"] = t % UInt,
                               !.current_reserved = MinOf(t % UInt, UserBlocks - valid)], "ok")

(* discard_granularity: 1..MAX_PLIST_NUM, block-unit discard only; an     *)
(* unchanged value returns at once.                                       *)
DiscardStore(t) ==
    /\ "discard_granularity" \in Names
    /\ IF t = 0 \/ t > MaxPlistNum \/ ~BlockUnitDiscard
       THEN Reject("discard_granularity")
       ELSE Store("discard_granularity", [sbi EXCEPT !.ui["discard_granularity"] = t], "ok")

(* The checks that end a store to a field written by the final            *)
(* *ui = (unsigned int)t: the fault injection bounds, migration_granularity *)
(* and the test of the name "trim_sections".                              *)
GenericNames == {"migration_granularity", "batched_trim_sections", "inject_type",
                 "inject_rate", "cp_interval"}
GenericRejects(a, t) ==
    \/ a = "inject_type" /\ t >= 2^FaultMax
    \/ a = "inject_rate" /\ t >= UInt - 1
    \/ a = "migration_granularity" /\ (t = 0 \/ t > SegsPerSec)
    \/ a = "trim_sections"

GenericStore(a, t) ==
    /\ a \in Names \cap GenericNames
    /\ IF GenericRejects(a, t) THEN Reject(a)
       ELSE Store(a, [sbi EXCEPT !.ui[a] = t % UInt], "ok")

(* gc_urgent: 0..3 select a mode; waking the gc thread is not modelled.   *)
UrgentMode == <<GC_URGENT_HIGH, GC_URGENT_LOW, GC_URGENT_MID>>
GcUrgentStore(t) ==
    /\ "gc_urgent" \in Names
    /\ IF t > 3 THEN Reject("gc_urgent")
       ELSE Store("gc_urgent",
                  [sbi EXCEPT !.gc_mode = IF t = 0 THEN GC_NORMAL ELSE UrgentMode[t]], "ok")

(* A plausible slip: GC_IDLE_AT set before the ATGC test rejects it.     *)
GcIdleStoreEarlyMode(t) ==
    /\ "gc_idle" \in Names
    /\ IF t = GC_IDLE_AT /\ ~AtgcEnabled
       THEN Store("gc_idle", [sbi EXCEPT !.gc_mode = GC_IDLE_AT], "einval")
       ELSE Store("gc_idle",
                  [sbi EXCEPT !.gc_mode = IF t \in {GC_IDLE_CB, GC_IDLE_GREEDY, GC_IDLE_AT}
                                         THEN t ELSE GC_NORMAL], "ok")

(* gc_idle: 1, 2 and 3 select an idle mode, GC_IDLE_AT only with ATGC;   *)
(* any other value selects GC_NORMAL.                                     *)
GcIdleStore(t) ==
    /\ "gc_idle" \in Names
    /\ IF t = GC_IDLE_AT /\ ~AtgcEnabled THEN Reject("gc_idle")
       ELSE Store("gc_idle",
                  [sbi EXCEPT !.gc_mode = IF t \in {GC_IDLE_CB, GC_IDLE_GREEDY, GC_IDLE_AT}
                                         THEN t ELSE GC_NORMAL], "ok")

(* gc_urgent_high_remaining, under gc_urgent_high_lock: limited is t # 0,  *)
(* remaining the unsigned int of t.                                        *)
UrgentHighStore(t) ==
    /\ "gc_urgent_high_remaining" \in Names
    /\ sbi' = [sbi EXCEPT !.limited = (t # 0), !.remaining = t % UInt]
    /\ last' = "gc_urgent_high_remaining" /\ res' = "ok" /\ stores' = stores + 1
    /\ budget' = t /\ rounds' = 0
    /\ UNCHANGED valid

(* iostat_enable: disabling resets the statistics (f3fs_reset_iostat).    *)
IostatEnableStore(t) ==
    /\ "iostat_enable" \in Names
    /\ Store("iostat_enable",
             [sbi EXCEPT !.iostat_enable = (t # 0),
                         !.counter["iostat"] = IF t # 0 THEN @ ELSE 0], "ok")

(* iostat_period_ms, under iostat_lock, within its bounds.                *)
IostatPeriodStore(t) ==
    /\ "iostat_period_ms" \in Names
    /\ IF t < IostatPeriod[1] \/ t > IostatPeriod[2] THEN Reject("iostat_period_ms")
       ELSE Store("iostat_period_ms", [sbi EXCEPT !.ui["iostat_period_ms"] = t % UInt], "ok")

(* CONFIG_F3FS_FS_COMPRESSION: compr_written_block and compr_saved_block *)
(* reset both counters, compr_new_inode its own.                          *)
ComprResetStore(a, t) ==
    /\ a \in Names \cap ComprNames
    /\ IF t # 0 THEN Reject(a)
       ELSE Store(a, IF a = "compr_new_inode"
                     THEN [sbi EXCEPT !.counter[a] = 0]
                     ELSE [sbi EXCEPT !.counter["compr_written_block"] = 0,
                                      !.counter["compr_saved_block"] = 0], "ok")

(* peak_atomic_write, committed_atomic_block, revoked_atomic_block.       *)
AtomicResetStore(a, t) ==
    /\ a \in Names \cap AtomicNames
    /\ IF t # 0 THEN Reject(a)
       ELSE Store(a, [sbi EXCEPT !.counter[a] = 0], "ok")

(* A plausible slip: the t > 100 test of atgc_candidate_ratio and        *)
(* atgc_age_weight left out; the other ranged knobs keep theirs.          *)
RangedStoreNoAtgcCheck(a, t) ==
    /\ a \in Names \cap RangedNames
    /\ IF a \notin {"atgc_candidate_ratio", "atgc_age_weight"} /\ t \notin Range(a)
       THEN Reject(a)
       ELSE Store(a, [sbi EXCEPT !.knob[a] = t], "ok")

(* The range-checked fields: atgc_candidate_ratio and atgc_age_weight     *)
(* (t <= 100), seq_file_ra_mul, max_fragment_chunk, max_fragment_hole.   *)
RangedStore(a, t) ==
    /\ a \in Names \cap RangedNames
    /\ IF t \notin Range(a) THEN Reject(a)
       ELSE Store(a, [sbi EXCEPT !.knob[a] = t], "ok")

(* A plausible slip: the bound tested with <= MAX_GC_MODE.                *)
SegmentModeStoreOffByOne(t) ==
    /\ "gc_segment_mode" \in Names
    /\ IF t <= MAX_GC_MODE THEN Store("gc_segment_mode", [sbi EXCEPT !.gc_segment_mode = t], "ok")
       ELSE Reject("gc_segment_mode")

(* gc_segment_mode: t < MAX_GC_MODE.                                      *)
SegmentModeStore(t) ==
    /\ "gc_segment_mode" \in Names
    /\ IF t < MAX_GC_MODE THEN Store("gc_segment_mode", [sbi EXCEPT !.gc_segment_mode = t], "ok")
       ELSE Reject("gc_segment_mode")

(* gc_reclaimed_segments: t = 0 resets the count of the current segment  *)
(* mode.                                                                  *)
ReclaimedStore(t) ==
    /\ "gc_reclaimed_segments" \in Names
    /\ IF t # 0 THEN Reject("gc_reclaimed_segments")
       ELSE Store("gc_reclaimed_segments",
                  [sbi EXCEPT !.gc_reclaimed_segs[sbi.gc_segment_mode] = 0], "ok")

-----------------------------------------------------------------------------
(* extension_list. f3fs_update_extension_list (outside this repository)  *)
(* adds a name to, or removes it from, the cold or hot list. It fails     *)
(* when a name to add is present or all slots are used, and when a name   *)
(* to remove is absent.                                                   *)
UpdateOk(l, n, hot, set) ==
    LET sec == IF hot THEN l.hot ELSE l.cold IN
    IF set THEN Cardinality(l.cold) + Cardinality(l.hot) < MaxExt /\ n \notin sec
    ELSE n \in sec

Update(l, n, hot, set) ==
    LET f(S) == IF set THEN S \cup {n} ELSE S \ {n} IN
    IF hot THEN [l EXCEPT !.hot = f(@)] ELSE [l EXCEPT !.cold = f(@)]

(* The input "[h]" or "[c]" (or neither), an optional "!", and a name    *)
(* that is empty, too long, or one of ExtNames.                          *)
ExtInputs == [prefix : {"[h]", "[c]", "bad"}, neg : BOOLEAN,
              name : ExtNames \cup {"", "too_long"}]

(* A plausible slip: the failed commit undone by repeating the update.    *)
ExtensionStoreUndoSame(in, commit) ==
    LET hot == in.prefix = "[h]"
        set == ~in.neg
        l1  == Update(sbi, in.name, hot, set)
    IN /\ "extension_list" \in Names
       /\ IF in.prefix = "bad" \/ in.name \in {"", "too_long"}
             \/ ~UpdateOk(sbi, in.name, hot, set)
          THEN Reject("extension_list")
          ELSE IF commit THEN Store("extension_list", l1, "ok")
          ELSE Store("extension_list", Update(l1, in.name, hot, set), "eio")

(* Under sb_lock: update the list, commit the superblock, and undo the   *)
(* update by the opposite one when the commit fails.                      *)
ExtensionStore(in, commit) ==
    LET hot == in.prefix = "[h]"
        set == ~in.neg
        l1  == Update(sbi, in.name, hot, set)
    IN /\ "extension_list" \in Names
       /\ IF in.prefix = "bad" \/ in.name \in {"", "too_long"}
             \/ ~UpdateOk(sbi, in.name, hot, set)
          THEN Reject("extension_list")
          ELSE IF commit THEN Store("extension_list", l1, "ok")
          ELSE Store("extension_list", Update(l1, in.name, hot, ~set), "eio")

(* ckpt_thread_ioprio: "rt," or "be," and a level below IOPRIO_NR_LEVELS *)
(* (num = FALSE: kstrtol fails). The value is stored, then applied to the *)
(* checkpoint thread with set_task_ioprio when MERGE_CHECKPOINT is set.  *)
IoprioInputs == [class : {"rt", "be", "bad"}, num : BOOLEAN,
                 data : {-1, 0, IoprioLevels - 1, IoprioLevels}]
(* A plausible slip: the else branch of the class test without its       *)
(* return, so an unknown class is stored.                                 *)
IoprioStoreNoClassCheck(in, applied) ==
    /\ "ckpt_thread_ioprio" \in Names
    /\ IF ~in.num \/ in.data < 0 \/ in.data >= IoprioLevels
       THEN Reject("ckpt_thread_ioprio")
       ELSE Store("ckpt_thread_ioprio",
                  [sbi EXCEPT !.ioprio = [class |-> in.class, data |-> in.data]],
                  IF MergeCheckpoint /\ ~applied THEN "eperm" ELSE "ok")

IoprioStore(in, applied) ==
    /\ "ckpt_thread_ioprio" \in Names
    /\ IF in.class = "bad" \/ ~in.num \/ in.data < 0 \/ in.data >= IoprioLevels
       THEN Reject("ckpt_thread_ioprio")
       ELSE Store("ckpt_thread_ioprio",
                  [sbi EXCEPT !.ioprio = [class |-> in.class, data |-> in.data]],
                  IF MergeCheckpoint /\ ~applied THEN "eperm" ELSE "ok")

-----------------------------------------------------------------------------
(* f3fs_sbi_show, after __struct_ptr returned a pointer: what a show of   *)
(* attribute a reports, or the error it returns. A text is abstracted to *)
(* the values it prints; a mode name to its index into gc_mode_names[],   *)
(* and an index outside the array to the error "oob".                    *)
Shown(v) == [err |-> "none", val |-> v]
Failed(e) == [err |-> e, val |-> 0]

GcModeName(m) == IF m \in 0..MAX_GC_MODE - 1 THEN Shown(m) ELSE Failed("oob")

(* The value read through ui = ptr + a->offset, for the attributes whose  *)
(* field this model keeps.                                                *)
UiField(a) ==
    CASE a \in UiNames -> sbi.ui[a]
      [] a \in RangedNames -> sbi.knob[a]
      [] a = "gc_idle" -> sbi.gc_mode
      [] a = "gc_urgent_high_remaining" -> sbi.remaining
      [] a = "iostat_enable" -> IF sbi.iostat_enable THEN 1 ELSE 0

ShowResult(a) ==
    CASE a = "extension_list" -> Shown(<<sbi.cold, sbi.hot>>)
      [] a = "ckpt_thread_ioprio" ->
            IF sbi.ioprio.class \in {"rt", "be"} THEN Shown(sbi.ioprio) ELSE Failed("einval")
      [] a \in Counters \ {"iostat"} -> Shown(sbi.counter[a])
      [] a = "gc_urgent" -> GcModeName(sbi.gc_mode)
      [] a = "gc_segment_mode" -> GcModeName(sbi.gc_segment_mode)
      [] a = "gc_reclaimed_segments" ->
            IF sbi.gc_segment_mode \in DOMAIN sbi.gc_reclaimed_segs
            THEN Shown(sbi.gc_reclaimed_segs[sbi.gc_segment_mode])
            ELSE Failed("oob")
      [] OTHER -> Shown(UiField(a))

-----------------------------------------------------------------------------
(* Filesystem activity on the same fields (outside this repository).      *)

(* The GC thread in GC_URGENT_HIGH, under gc_urgent_high_lock: with a     *)
(* limit, it charges one round to the remaining budget, or ends urgent    *)
(* mode when the budget is used up.                                       *)
GcUrgentRound ==
    /\ sbi.gc_mode = GC_URGENT_HIGH /\ sbi.limited
    /\ \/ /\ sbi.remaining = 0
          /\ sbi' = [sbi EXCEPT !.limited = FALSE, !.gc_mode = GC_NORMAL]
          /\ UNCHANGED rounds
       \/ /\ sbi.remaining > 0
          /\ sbi' = [sbi EXCEPT !.remaining = @ - 1]
          /\ rounds' = rounds + 1
    /\ UNCHANGED <<valid, last, res, stores, budget>>

(* Activity is modelled on the fields that the stores in Names read or   *)
(* reset; the others cannot affect a store.                               *)
Watched(c) ==
    \/ c \in Names
    \/ c \in {"compr_written_block", "compr_saved_block"}
       /\ Names \cap {"compr_written_block", "compr_saved_block"} # {}
    \/ c = "iostat" /\ "iostat_enable" \in Names

(* Block allocation, under stat_lock, leaves current_reserved_blocks      *)
(* free; a release refills the reserve up to reserved_blocks.             *)
Allocate ==
    /\ "reserved_blocks" \in Names
    /\ valid + sbi.current_reserved < UserBlocks
    /\ valid' = valid + 1
    /\ UNCHANGED <<sbi, last, res, stores, budget, rounds>>

Release ==
    /\ "reserved_blocks" \in Names
    /\ valid > 0
    /\ valid' = valid - 1
    /\ sbi' = [sbi EXCEPT !.current_reserved =
                   IF @ < sbi.ui["reserved_blocks"] THEN @ + 1 ELSE @]
    /\ UNCHANGED <<last, res, stores, budget, rounds>>

(* Activity counted by the statistics, and a segment reclaimed by GC.     *)
Activity ==
    /\ \/ \E c \in Counters :
             /\ Watched(c) /\ sbi.counter[c] = 0
             /\ c = "iostat" => sbi.iostat_enable
             /\ sbi' = [sbi EXCEPT !.counter[c] = 1]
       \/ /\ "gc_reclaimed_segments" \in Names
          /\ sbi.gc_reclaimed_segs[sbi.gc_segment_mode] = 0
          /\ sbi' = [sbi EXCEPT !.gc_reclaimed_segs[sbi.gc_segment_mode] = 1]
    /\ UNCHANGED <<valid, last, res, stores, budget, rounds>>

-----------------------------------------------------------------------------
(* One store to one attribute with one parsed value.                      *)
StoreStep ==
    \/ \E a \in Names : StoreUnparsable(a)
    \/ \E t \in TVals :
         \/ ReservedStore(t) \/ DiscardStore(t) \/ GcUrgentStore(t) \/ GcIdleStore(t)
         \/ UrgentHighStore(t) \/ IostatEnableStore(t) \/ IostatPeriodStore(t)
         \/ SegmentModeStore(t) \/ ReclaimedStore(t)
         \/ \E a \in Names : \/ GenericStore(a, t) \/ RangedStore(a, t)
                            \/ ComprResetStore(a, t) \/ AtomicResetStore(a, t)
    \/ \E in \in ExtInputs, commit \in BOOLEAN : ExtensionStore(in, commit)
    \/ \E in \in IoprioInputs, applied \in BOOLEAN : IoprioStore(in, applied)

Next == StoreStep \/ GcUrgentRound \/ Allocate \/ Release \/ Activity

Spec == Init /\ [][Next]_vars

-----------------------------------------------------------------------------
TypeOK ==
    /\ sbi.ui \in [UiNames -> 0..UInt - 1]
    /\ \A a \in RangedNames : sbi.knob[a] \in Range(a)
    /\ sbi.gc_mode \in Nat /\ sbi.gc_segment_mode \in Nat
    /\ sbi.limited \in BOOLEAN /\ sbi.remaining \in 0..UInt - 1
    /\ sbi.cold \subseteq ExtNames /\ sbi.hot \subseteq ExtNames
    /\ sbi.counter \in [Counters -> 0..1]
    /\ valid \in 0..UserBlocks
    /\ res \in {"ok", "einval", "eio", "eperm"}

(* Whatever the sequence of stores and filesystem activity, a show of any *)
(* attribute written succeeds: f3fs_sbi_show indexes gc_mode_names[] with *)
(* gc_mode and gc_segment_mode and gc_reclaimed_segs[] with               *)
(* gc_segment_mode only within bounds, and never meets an ioprio class it *)
(* answers with -EINVAL.                                                  *)
(* Only these branches of f3fs_sbi_show can fail; the others print a field.*)
ShowFallible == {"ckpt_thread_ioprio", "gc_urgent", "gc_segment_mode", "gc_reclaimed_segments"}

ShowDefined == \A a \in Names \cap ShowFallible : ShowResult(a).err = "none"

(* A store to reserved_blocks, racing with allocation and release, never *)
(* reserves blocks that are already in use, nor more than was asked.     *)
ReserveRespected ==
    /\ valid + sbi.current_reserved <= UserBlocks
    /\ sbi.current_reserved <= sbi.ui["reserved_blocks"]

(* A store to extension_list that fails, also when f3fs_commit_super      *)
(* fails after the list was updated, leaves both lists as they were.     *)
ExtensionStoreAtomic ==
    [][stores' # stores /\ last' = "extension_list" /\ res' # "ok"
         => sbi'.cold = sbi.cold /\ sbi'.hot = sbi.hot]_vars

(* A store that returns an error leaves every tunable as it was, so that *)
(* what show reports is what the last successful store set.             *)
FailedStoreChangesNothing ==
    [][stores' # stores /\ res' # "ok" => sbi' = sbi]_vars

(* The code rejects stores named "trim_sections" with -EINVAL: the field *)
(* trim_sections, shown as batched_trim_sections, is not changed by a    *)
(* store.                                                                 *)
TrimSectionsReadOnly ==
    [][sbi'.ui["batched_trim_sections"] = sbi.ui["batched_trim_sections"]]_vars

(* When the GC thread ends GC_URGENT_HIGH because the budget written to  *)
(* gc_urgent_high_remaining is used up, it has run exactly that many     *)
(* rounds since the store.                                                *)
UrgentBudgetHonoured ==
    [][sbi.limited /\ ~sbi'.limited /\ stores' = stores => rounds = budget]_vars

====
