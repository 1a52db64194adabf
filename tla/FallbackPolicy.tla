--------------------------- MODULE FallbackPolicy ---------------------------
(***************************************************************************)
(* Which GPUs the out-of-memory fallback proposes: the catalog of          *)
(* core/modal_catalog.py, the worst-case cost cap, and the filter of the   *)
(* fallback chain.  Rates are in units of 0.0001 USD per hour.             *)
(***************************************************************************)
EXTENDS Integers, Sequences

Catalog == {"t4", "a10", "l40s", "a100-40gb", "a100-80gb", "h100"}

Rate == [g \in Catalog |->
    CASE g = "t4" -> 5904 [] g = "a10" -> 11016 [] g = "l40s" -> 19512
      [] g = "a100-40gb" -> 32400 [] g = "a100-80gb" -> 38412
      [] g = "h100" -> 51912]

\* ModalFallbackConfig.chain, ExecutionConfig.max_run_minutes and
\* settings.max_allowed_cost_usd as shipped
DefaultChain == <<"l40s", "a100-40gb", "a100-80gb">>
DefaultMinutes == 90
DefaultCapUsd == 5

\* _enforce_worst_case_cost_cap: minutes * rate against the cap
WithinCap(minutes, capUsd) ==
    {g \in Catalog : minutes * Rate[g] <= capUsd * 10000 * 60}

\* _filter_fallback_candidates: positions of the chain worth proposing, in the
\* chain's order; only the GPU that has just failed is left out
Candidates(chain, affordable, failed) ==
    {k \in DOMAIN chain : chain[k] # failed /\ chain[k] \in affordable}

First(ks) == CHOOSE k \in ks : \A l \in ks : k <= l
=============================================================================
