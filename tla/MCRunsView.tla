------------------------------ MODULE MCRunsView ------------------------------
(* Instances of RunsView for TLC. *)
EXTENDS RunsView, TLC

CONSTANTS p1, p2, none, s1, s2

MCProjects == {p1, p2}
MCSockets == {s1, s2}
MCChannels == {"run_state", "metrics", "logs", "system"}
MCChain == <<4, 2, 1>>
MCRunning == <<0, 3>>
SocketSymmetry == Permutations(MCSockets)
=============================================================================
