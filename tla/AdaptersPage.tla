----------------------------- MODULE AdaptersPage -----------------------------
(***************************************************************************)
(* pages/adapters-page.tsx: a second form over the configuration, which    *)
(* shares its "adapters" part (optimization included) with the training    *)
(* page.  The controls of both are in module FormControls.                 *)
(***************************************************************************)
EXTENDS Workbench

Owned == {"adapters", "quantization"}

\* localAdapters and localOptimization, localQuantization; {} is null
AdaptersUi == [local |-> {}]

LocalOf(content) == [s \in Owned |-> content[s]]

LocalsOf(c, p) == {LocalOf(versions[v].content) : v \in ConfigVersion(c, p)}

\* the effect: read once, whatever is saved or selected later
AdaptersSettled(u, p, c) ==
    IF u.local # {} THEN u ELSE [u EXCEPT !.local = LocalsOf(c, p)]

Composes(base, local) ==
    Recased([s \in Sections |-> IF s \in Owned THEN local[s] ELSE base[s]])

OnPage == page = "adapters" /\ ui.local # {}
Unsent == UNCHANGED <<configVars, tour, activeProject, page, cfg, launches,
                      writes, followed>>

\* a control of the form, or a preset, which may set both parts
ChangeLocal(S) ==
    /\ OnPage /\ S \subseteq Owned /\ S # {} /\ Step
    /\ ui' = [ui EXCEPT !.local =
                {[s \in Owned |-> IF s \in S THEN Flip(l[s]) ELSE l[s]] : l \in @}]
    /\ Unsent /\ UNCHANGED saves

\* Reset is offered once the configuration is there
HandleResetToParsed ==
    /\ OnPage /\ LocalsOf(cfg, activeProject) # {} /\ Step
    /\ ui' = [ui EXCEPT !.local = LocalsOf(cfg, activeProject)]
    /\ Unsent /\ UNCHANGED saves

HandleAdaptersSave ==
    /\ OnPage /\ ~IsPending(saves, {"adapters"}) /\ Step
    /\ \E v \in ConfigVersion(cfg, activeProject), l \in ui.local :
        LET composed == Composes(versions[v].content, l)
        IN  saves' = saves \cup {SaveRequest("adapters", composed, composed)}
    /\ Unsent /\ UNCHANGED ui
=============================================================================
