--------------------------- MODULE MCShrinkerFair ---------------------------
(***************************************************************************)
(* Shrinker with a history variable for the round-robin order of scans.    *)
(* owed[i] is the set of instances that must be served before i may be     *)
(* served again: when a scan serves (stamps) i, every other instance then  *)
(* on f3fs_list is owed a turn; serving j, or j leaving the list, pays     *)
(* j's turn everywhere.                                                    *)
(***************************************************************************)
EXTENDS MCShrinker

VARIABLE owed

\* The instance a step serves: a scan moving from "stamp" to "shrink".
ServedBy(s) == pc[s] = "stamp" /\ pc'[s] = "shrink"

FairInit == Init /\ owed = [i \in Inst |-> {}]

FairNext ==
    /\ Next
    /\ LET served == {pos[s] : s \in {t \in Scanners : ServedBy(t)}}
           gone   == ToSet(lst) \ ToSet(lst')
       IN  owed' = [i \in Inst |->
                      IF i \in served THEN ToSet(lst) \ {i}
                      ELSE owed[i] \ (served \cup gone)]

\* The premise of the spec's fairness claim: every instance on the list
\* reports a non-zero reclaimable count.
ListedNonEmpty ==
    \A i \in ToSet(lst) :
        __count_extent_cache(i) + __count_nat_entries(i) + __count_free_nids(i) > 0

FairRRSpec == FairInit /\ [][FairNext]_<<vars, owed>>

\* Spec, section 8 (Fairness): repeated scans visit every instance at least
\* once before any instance is visited twice.  A scan serves an instance
\* only when every other instance on the list has been served since that
\* instance's last turn.
RoundRobin ==
    [][\A s \in Scanners : ServedBy(s) => owed[pos[s]] = {}]_<<vars, owed>>
=============================================================================
