-------------------------- MODULE MCSysfsLifecycle --------------------------
(* Model values for SysfsLifecycle and its refinement of KobjectAbstract. *)
EXTENDS SysfsRefinement

CONSTANTS u1, u2

TwoUsers == {u1, u2}
OneUser == {u1}
====
