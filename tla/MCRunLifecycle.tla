--------------------------- MODULE MCRunLifecycle ---------------------------
(* Small instances of RunLifecycle for TLC: the shipped chain, of which the *)
(* shipped cost cap leaves two GPUs.                                        *)
EXTENDS RunInvariant

MCGPUs == {"l40s", "a100-40gb", "a100-80gb"}
MCAffordable == WithinCap(DefaultMinutes, DefaultCapUsd) \cap MCGPUs

MCLocal == {<<"local", NoGpu, "ask">>}
MCAsk == {<<"modal", "l40s", "ask">>}
MCAuto == {<<"modal", "l40s", "auto">>}
MCDisabled == {<<"modal", "a100-40gb", "disabled">>}
MCAll == MCLocal \cup MCAsk \cup MCAuto \cup MCDisabled
=============================================================================
