---------------------------- MODULE MCSysfsStore ----------------------------
(* Scaled constants and attribute groups for SysfsStore.                  *)
EXTENDS SysfsStore

CONSTANT MaxStores

AllNames == UiNames \cup RangedNames \cup ResetNames
            \cup {"gc_urgent", "gc_idle", "gc_urgent_high_remaining", "iostat_enable",
                  "gc_segment_mode", "gc_reclaimed_segments", "extension_list",
                  "ckpt_thread_ioprio"}
GcNames == {"gc_urgent", "gc_idle", "gc_segment_mode", "gc_reclaimed_segments",
            "gc_urgent_high_remaining"}
ReserveNames == {"reserved_blocks"}
MiscNames == AllNames \ (GcNames \cup ReserveNames)
GcReserveNames == GcNames \cup ReserveNames
IoprioNames == {"ckpt_thread_ioprio"}
TrimNames == {"batched_trim_sections"}
BudgetNames == {"gc_urgent", "gc_urgent_high_remaining"}

Ranges01 == <<1, 2>>
StoreBound == stores <= MaxStores
====
