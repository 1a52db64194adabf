---------------------------- MODULE AttemptLedger ----------------------------
(***************************************************************************)
(* What the attempts of a run promise, whatever crashes, races or fails:   *)
(* a trainer is paid for by exactly one open attempt, an attempt is closed *)
(* once and not while its trainer lives, a retry runs on another GPU than  *)
(* the attempt that failed, and a bill covers every attempt and ends the   *)
(* run's retries.  RunLifecycle implements this specification (the         *)
(* refinement mapping is in RunProperties).                                *)
(***************************************************************************)
EXTENDS Integers

CONSTANTS Runs, Attempts, GPUs, NoGpu, Reasons

VARIABLES
    entry,     \* per run and attempt: "none", "open" or the reason it closed
    entryGpu,  \* per run and attempt: the GPU it is charged for
    worker,    \* per run: attempts whose trainer is alive
    bill,      \* per run: the attempts the recorded cost covers, {} if none
    gone       \* runs that were deleted

ledger == <<entry, entryGpu, worker, bill, gone>>

Init ==
    /\ entry = [r \in Runs |-> [i \in Attempts |-> "none"]]
    /\ entryGpu = [r \in Runs |-> [i \in Attempts |-> NoGpu]]
    /\ worker = [r \in Runs |-> {}]
    /\ bill = [r \in Runs |-> {}]
    /\ gone = {}

Closed(r, i) == entry[r][i] \in Reasons

Open(r, g) ==
    /\ \A i \in Attempts : entry[r][i] = "none"
    /\ r \notin gone
    /\ entry' = [entry EXCEPT ![r][0] = "open"]
    /\ entryGpu' = [entryGpu EXCEPT ![r][0] = g]
    /\ UNCHANGED <<worker, bill, gone>>

\* a trainer starts for the open attempt, the only trainer of its run; the
\* ledger of a deleted run is gone, its task is not
Hire(r, i) ==
    /\ worker[r] = {}
    /\ r \in gone \/ entry[r][i] = "open"
    /\ worker' = [worker EXCEPT ![r] = {i}]
    /\ UNCHANGED <<entry, entryGpu, bill, gone>>

Quit(r) ==
    /\ worker[r] # {}
    /\ worker' = [worker EXCEPT ![r] = {}]
    /\ UNCHANGED <<entry, entryGpu, bill, gone>>

Close(r, i) ==
    /\ worker[r] = {}
    /\ entry[r][i] = "open"
    /\ \E why \in Reasons : entry' = [entry EXCEPT ![r][i] = why]
    /\ UNCHANGED <<entryGpu, worker, bill, gone>>

Retry(r, n, g) ==
    /\ worker[r] = {}
    /\ bill[r] = {}
    /\ n - 1 \in Attempts /\ Closed(r, n - 1)
    /\ entry[r][n] = "none"
    /\ g # entryGpu[r][n - 1]
    /\ entry' = [entry EXCEPT ![r][n] = "open"]
    /\ entryGpu' = [entryGpu EXCEPT ![r][n] = g]
    /\ UNCHANGED <<worker, bill, gone>>

Bill(r) ==
    /\ worker[r] = {}
    /\ \A i \in Attempts : entry[r][i] # "open"
    /\ bill[r] = {}
    /\ r \notin gone
    /\ bill' = [bill EXCEPT ![r] = {i \in Attempts : Closed(r, i)}]
    /\ UNCHANGED <<entry, entryGpu, worker, gone>>

Drop(r) ==
    /\ r \notin gone
    /\ gone' = gone \cup {r}
    /\ entry' = [entry EXCEPT ![r] = [i \in Attempts |-> "none"]]
    /\ bill' = [bill EXCEPT ![r] = {}]
    /\ UNCHANGED <<entryGpu, worker>>

Next ==
    \E r \in Runs :
       \/ \E g \in GPUs \cup {NoGpu} : Open(r, g)
       \/ \E i \in Attempts : Hire(r, i) \/ Close(r, i)
       \/ \E n \in Attempts, g \in GPUs : Retry(r, n, g)
       \/ Quit(r) \/ Bill(r) \/ Drop(r)

Spec == Init /\ [][Next]_ledger
=============================================================================
