---------------------------- MODULE FallbackChain ----------------------------
(***************************************************************************)
(* One Modal run under strategy "auto" whose attempts all run out of       *)
(* memory: _handle_trainer_oom picks the first candidate and relaunches.   *)
(* The decisions of RunLifecycle, without its bound on attempts.           *)
(***************************************************************************)
EXTENDS FallbackPolicy, FiniteSets, FiniteSetTheorems, TLAPS

CONSTANTS
    Chains,   \* the values of execution.modal_oom_fallback.chain considered
    Minutes,  \* execution.max_run_minutes
    CapUsd    \* settings.max_allowed_cost_usd

VARIABLES
    chain,  \* the chain of this run
    gpu,    \* runs.modal_gpu_type, the execution_cfg of the current task
    phase   \* "training", "oom_chain_exhausted"

vars == <<chain, gpu, phase>>

Init ==
    /\ chain \in Chains
    /\ gpu \in WithinCap(Minutes, CapUsd)
    /\ phase = "training"

Proposed == Candidates(chain, WithinCap(Minutes, CapUsd), gpu)

\* _auto_accept_first_candidate
Retry ==
    /\ phase = "training"
    /\ Proposed # {}
    /\ gpu' = chain[First(Proposed)]
    /\ UNCHANGED <<chain, phase>>

\* _fail_run_with_oom_reason
Exhaust ==
    /\ phase = "training"
    /\ Proposed = {}
    /\ phase' = "oom_chain_exhausted"
    /\ UNCHANGED <<chain, gpu>>

Next == Retry \/ Exhaust

Spec == Init /\ [][Next]_vars /\ WF_vars(Next)

Usable == {chain[k] : k \in DOMAIN chain} \cap WithinCap(Minutes, CapUsd)

-----------------------------------------------------------------------------
(* What the fallback comes to *)

\* with two GPUs of the chain within the cost cap the run is never given up
RetriesWithTwo == Cardinality(Usable) >= 2 => phase = "training"

(* What the tests of the orchestrator and the dialog say of every chain: a *)
(* run that runs out of memory on each GPU in turn ends with the chain.    *)
(* _filter_fallback_candidates remembers only the GPU that failed last, so *)
(* that two usable GPUs alternate for ever.                                *)
ChainIsExhausted == <>(phase = "oom_chain_exhausted")

-----------------------------------------------------------------------------
(* Proofs *)

LEMMA UsableBesides ==
  ASSUME NEW g, Cardinality(Usable) >= 2
  PROVE  \E u \in Usable : u # g
  <1>1. SUFFICES ASSUME \A u \in Usable : u = g
                 PROVE  FALSE
    OBVIOUS
  <1>2. IsFiniteSet({g}) /\ Cardinality({g}) = 1
    BY FS_Singleton
  <1>3. Usable \subseteq {g}
    BY <1>1
  <1>4. IsFiniteSet(Usable) /\ Cardinality(Usable) <= 1
    BY <1>2, <1>3, FS_Subset
  <1>5. Cardinality(Usable) \in Nat
    BY <1>4, FS_CardinalityType
  <1> QED
    BY <1>4, <1>5

\* a usable GPU other than the one that failed is a candidate
LEMMA UsableIsProposed ==
  ASSUME NEW u \in Usable, u # gpu
  PROVE  Proposed # {}
  BY DEF Usable, Proposed, Candidates

(* Whatever the chain, the duration and the cap: of two usable GPUs one is *)
(* not the one that failed last, so that Exhaust is never enabled.         *)
THEOREM TwoNeverExhaust == Spec => []RetriesWithTwo
  <1>1. Init => RetriesWithTwo
    BY DEF Init, RetriesWithTwo
  <1>2. RetriesWithTwo /\ [Next]_vars => RetriesWithTwo'
    <2> SUFFICES ASSUME RetriesWithTwo, [Next]_vars,
                        Cardinality(Usable)' >= 2
                 PROVE  phase' = "training"
      BY DEF RetriesWithTwo
    <2>1. Usable' = Usable
      BY DEF Next, Retry, Exhaust, vars, Usable
    <2>2. Cardinality(Usable) >= 2 /\ phase = "training"
      BY <2>1 DEF RetriesWithTwo
    <2>3. Proposed # {}
      BY <2>2, UsableBesides, UsableIsProposed
    <2> QED
      BY <2>2, <2>3 DEF Next, Retry, Exhaust, vars
  <1> QED
    BY <1>1, <1>2, PTL DEF Spec
=============================================================================
