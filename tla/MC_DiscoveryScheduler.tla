------------------------- MODULE MC_DiscoveryScheduler -------------------------
(* Constants for model checking DiscoveryScheduler. *)
EXTENDS DiscoveryScheduler, TLC

CONSTANTS q1, q2

\* Two discovery ids: one may fail to schedule while the other succeeds.
MCDiscoveries == {q1, q2}
MCDiscovery1 == {q1}

AllUserOps == {"create", "update", "delete", "start"}
NoUserOps == {}
OnlyStart == {"start"}
OnlyUpdate == {"update"}
OnlyDelete == {"delete"}
OnlyCreate == {"create"}

\* The ids are interchangeable: every action treats them alike.
DiscoverySymmetry == Permutations(MCDiscoveries)
================================================================================
