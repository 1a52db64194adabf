--------------------------- MODULE MCFallbackChain ---------------------------
(* FallbackChain for every chain of at most three GPUs of the catalog, the   *)
(* shipped one included, with the shipped duration and cost cap.             *)
EXTENDS FallbackChain

MaxLength == 3
MCChains == UNION {[1 .. n -> Catalog] : n \in 0 .. MaxLength}
=============================================================================
