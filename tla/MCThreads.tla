----------------------------- MODULE MCThreads -----------------------------
(* Instances of ThreadTests for TLC. *)
EXTENDS ThreadTests, TLC

CONSTANTS c1, c2

MCCpu2 == {c1, c2}
(* CPUs are only ever compared for equality. *)
Symm == Permutations(CPU)

MCGrowth == {1, -1}

(* All conventions, all but the one about the order of joins, about the    *)
(* limits or about leaving threads behind, and the ones that hold of the   *)
(* test programs.                                                          *)
AllRules == {"oldest_first", "joined", "quiet_wait", "one_kind", "in_limit", "not_empty", "no_listing"}
MCAnyOrder == {[cpus |-> CPU, rules |-> AllRules \ {"oldest_first"}]}
MCBeyond == {[cpus |-> CPU, rules |-> AllRules \ {"in_limit"}]}
MCStale  == {[cpus |-> CPU, rules |-> AllRules \ {"joined"}]}
MCConfs  == {[cpus |-> CPU, rules |-> AllRules]}
            \cup {[cpus |-> S, rules |-> {"quiet_wait"}] : S \in (SUBSET CPU) \ {{}}}
=============================================================================
