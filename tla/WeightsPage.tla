------------------------------ MODULE WeightsPage ------------------------------
(***************************************************************************)
(* pages/weights-page.tsx: the architecture of the project's model is      *)
(* drawn and searched, and activations of chosen layers are captured and   *)
(* compared.  The query of the architecture never grows old                *)
(* (hooks/useModelArchitecture.ts); the server has resolved any of the     *)
(* models in Architectures when it is asked.                               *)
(*                                                                         *)
(* Left out: the tabs of parameters, of a run's weights and of the expert  *)
(* mode, which only draw, and the numbers of a snapshot.                   *)
(***************************************************************************)
EXTENDS Workbench, FlowFigure

CONSTANT Widths     \* bound: the widths of the window
ASSUME WidthAssumption == Widths \subseteq Nat

MaxSnapshots == 2   \* bound: snapshots a page captures

VARIABLE archs      \* the query ["projects", p, "architecture"]: the root's name,
                    \* which is the model's architecture_name

(***************************************************************************)
(* What is known of a tree.                                                *)
(***************************************************************************)
Modules[node \in Nodes] ==
    {[path |-> <<node.name>>, node |-> node]} \cup
    {[m EXCEPT !.path = <<node.name>> \o @] :
        m \in UNION {Modules[c] : c \in ToSet(node.children)}}

ModulePaths == [tree \in Architectures |-> {m.path : m \in Modules[tree]}]

\* collectLeafLayerNames
LeafPaths == [tree \in Architectures |->
                {m.path : m \in {n \in Modules[tree] : IsLeaf(n.node)}}]

\* what a search finds a module by, or something in it
Words[node \in Nodes] ==
    {node.name, node.type} \cup UNION {Words[c] : c \in ToSet(node.children)}
SubtreeHasMatch(node, query) == query = "" \/ query \in Words[node]

(***************************************************************************)
(* The page.                                                               *)
(***************************************************************************)
\* names: selectedLayerNames; sample: sampleInput is not blank; a, b: the compared
\* snapshots, shown: flowSnapshotIndex + 1; captures: the request on its way;
\* expanded, open and width belong to the tab that is open
WeightsUi == [tab |-> "parameters", layer |-> 0, detail |-> <<>>, names |-> {},
              sample |-> FALSE, snapshots |-> <<>>, a |-> 1, b |-> 2, shown |-> 1,
              captures |-> {}, mode |-> "structural", search |-> "",
              expanded |-> {}, open |-> {}, width |-> 800]

OnWeights == page = "weights" /\ activeProject # NoProject
Architecture == IF activeProject = NoProject THEN NoAnswer ELSE archs[activeProject].data
Drawn == OnWeights /\ Architecture # NoAnswer
Tree == CHOOSE tree \in Architectures : tree.name \in Architecture
Columns == FlattenToFlowColumns[Tree]

\* with no architecture to show what is below is unmounted
WeightsSettled(u, p) ==
    IF p = NoProject \/ archs[p].data = NoAnswer
    THEN [u EXCEPT !.expanded = {}, !.open = {}, !.width = 800] ELSE u

OnlyWeights ==
    UNCHANGED <<configVars, tour, activeProject, page, cfg, requestVars, followed>>
OnlyWeightsUi == OnlyWeights /\ UNCHANGED archs

FetchArchitecture ==
    /\ OnWeights /\ archs[activeProject].flight = NoAnswer
    /\ archs[activeProject].data = NoAnswer \/ archs[activeProject].stale
    /\ \E tree \in Architectures :
        archs' = [archs EXCEPT ![activeProject] = Asked(@, tree.name)]
    /\ OnlyWeights /\ UNCHANGED <<ui, steps>>

ArchitectureAnswered(p) ==
    /\ archs[p].flight # NoAnswer
    /\ archs' = [archs EXCEPT ![p] = Answered(@)]
    /\ ui' = IF page = "weights" /\ p = activeProject /\ archs[p].data = NoAnswer
             THEN [ui EXCEPT !.open = {<<name>> : name \in archs[p].flight}] ELSE ui
    /\ OnlyWeights /\ UNCHANGED steps

FlowLayerNames == UNION {{r.path : r \in ToSet(c.rows)} : c \in ToSet(Columns)}

\* named_modules() of the server's model: paths without the root's name
ModuleMap(tree) == {Tail(path) : path \in ModulePaths[tree]}

\* backendLayerName, and what GET /models/layers finds for it
BackendLayerName == IF ui.detail # <<>> /\ ui.detail[1] = Tree.name
                    THEN Tail(ui.detail) ELSE ui.detail
DetailOpen == Drawn /\ ui.detail # <<>> /\ BackendLayerName \in ModuleMap(Tree)
WeightsFree == Drawn /\ ~DetailOpen

(***************************************************************************)
(* Looking around.                                                         *)
(***************************************************************************)
\* a tab that is left is unmounted, with the component state in it
SetSecondaryTab(tab) ==
    /\ WeightsFree /\ tab # ui.tab /\ Step
    /\ ui' = [ui EXCEPT !.tab = tab, !.expanded = {}, !.open = {<<Tree.name>>},
                        !.width = 800]
    /\ OnlyWeightsUi

\* a tick of the strip, or a row of the list of layers
OnSelectLayer(i) ==
    /\ WeightsFree /\ i \in 0 .. LayerCount(Tree) - 1 /\ i # ui.layer /\ Step
    /\ ui' = [ui EXCEPT !.layer = i] /\ OnlyWeightsUi

\* the layer the inspector names: the index is kept within the model
SelectedLayerName ==
    {s[Min({Max({0, ui.layer}), Len(s) - 1}) + 1].name : s \in LayerNodes[Tree]}

\* the rows of ArchitectureTree: what is in an open module, if the search finds it
TreeRows == {m \in Modules[Tree] :
                /\ SubtreeHasMatch(m.node, ui.search)
                /\ \A k \in 1 .. Len(m.path) - 1 : SubSeq(m.path, 1, k) \in ui.open}

Toggled(x, S) == IF x \in S THEN S \ {x} ELSE S \cup {x}

ClickTreeRow(row) ==
    /\ WeightsFree /\ ui.tab = "tree" /\ row \in TreeRows /\ Step
    /\ ui' = IF IsLeaf(row.node) THEN [ui EXCEPT !.detail = row.path]
             ELSE [ui EXCEPT !.open = Toggled(row.path, @)]
    /\ OnlyWeightsUi

TypeSearch(query) ==
    /\ WeightsFree /\ ui.tab = "tree" /\ query # ui.search /\ Step
    /\ ui' = [ui EXCEPT !.search = query] /\ OnlyWeightsUi

CloseLayerDetail ==
    /\ DetailOpen /\ ui' = [ui EXCEPT !.detail = <<>>]
    /\ OnlyWeightsUi /\ UNCHANGED steps

(***************************************************************************)
(* The flow.                                                               *)
(***************************************************************************)
OnFlow == WeightsFree /\ ui.tab = "flow"

SetFlowMode ==
    /\ OnFlow /\ Step
    /\ ui' = [ui EXCEPT !.mode = IF @ = "structural" THEN "activation" ELSE "structural",
                        !.width = 800]
    /\ OnlyWeightsUi

ToggleExpand(i) ==
    /\ OnFlow /\ ui.mode = "structural" /\ i \in DOMAIN Columns
    /\ Columns[i].count > 1 /\ Step
    /\ ui' = [ui EXCEPT !.expanded = Toggled(i, @)] /\ OnlyWeightsUi

\* the ResizeObserver of StructuralCanvas
Resized(width) ==
    /\ page = "weights" /\ Drawn /\ ui.tab = "flow" /\ ui.mode = "structural"
    /\ width # ui.width /\ Step
    /\ ui' = [ui EXCEPT !.width = width] /\ OnlyWeightsUi

\* a module of a card; headers cannot be clicked
OnSelectNode(path) ==
    /\ OnFlow /\ ui.mode = "structural" /\ path \in LeafPaths[Tree]
    /\ path \in FlowLayerNames /\ Step
    /\ ui' = [ui EXCEPT !.detail = path] /\ OnlyWeightsUi

(***************************************************************************)
(* Activations.                                                            *)
(***************************************************************************)
HandleToggleLayer(name) ==
    /\ WeightsFree /\ ui.tab = "activations" /\ name \in LeafPaths[Tree] /\ Step
    /\ ui' = [ui EXCEPT !.names = Toggled(name, @)] /\ OnlyWeightsUi

TypeSample ==
    /\ WeightsFree /\ ui.captures = {}
    /\ ui.tab = "activations" \/ (ui.tab = "flow" /\ ui.mode = "activation")
    /\ IF ui.sample THEN Step ELSE UNCHANGED steps
    /\ ui' = [ui EXCEPT !.sample = ~@] /\ OnlyWeightsUi

\* POST /models/activations: a name the model does not have is passed over
Captured(tree, names) == names \cap ModuleMap(tree)

Capture(names, flow) ==
    /\ ui.captures = {} /\ ui.sample /\ names # {}
    /\ Len(ui.snapshots) < MaxSnapshots /\ UNCHANGED steps
    /\ ui' = [ui EXCEPT !.captures = {[layers |-> Captured(Tree, names), flow |-> flow]}]
    /\ OnlyWeightsUi

HandleCapture == WeightsFree /\ ui.tab = "activations" /\ Capture(ui.names, FALSE)
HandleFlowCapture == OnFlow /\ ui.mode = "activation" /\ Capture(FlowLayerNames, TRUE)

\* the answer, if the page is still there, whichever project it shows by now
CaptureAnswered(c) ==
    /\ page = "weights" /\ c \in ui.captures
    /\ \/ ui' = [ui EXCEPT !.captures = {}, !.snapshots = Append(@, c.layers),
                           !.shown = IF c.flow THEN Len(ui.snapshots) + 1 ELSE @]
       \/ ui' = [ui EXCEPT !.captures = {}]
    /\ OnlyWeightsUi /\ UNCHANGED steps

\* the selects over the snapshots
PickSnapshot(which, i) ==
    /\ WeightsFree /\ i \in DOMAIN ui.snapshots /\ Len(ui.snapshots) > 1 /\ Step
    /\ which \in CASE ui.tab \in {"activations", "deltas"} -> {"a", "b"}
                   [] ui.tab = "flow" /\ ui.mode = "activation" -> {"shown"}
                   [] OTHER -> {}
    /\ ui' = [ui EXCEPT ![which] = i] /\ OnlyWeightsUi

\* the layers both snapshots have
ComputeDeltas == IF {ui.a, ui.b} \subseteq DOMAIN ui.snapshots
          THEN ui.snapshots[ui.a] \cap ui.snapshots[ui.b] ELSE {}

\* flowActivationSnapshot
FlowSnapshot == IF ui.snapshots = <<>> THEN {}
                ELSE {ui.snapshots[Min({ui.shown, Len(ui.snapshots)})]}

WeightsNext ==
    \/ FetchArchitecture \/ CloseLayerDetail \/ SetFlowMode \/ TypeSample
    \/ HandleCapture \/ HandleFlowCapture
    \/ \E p \in Projects : ArchitectureAnswered(p)
    \/ /\ Drawn
       /\ \/ \E tab \in {"parameters", "activations", "deltas", "flow", "tree"} :
               SetSecondaryTab(tab)
          \/ \E i \in 0 .. 3 : OnSelectLayer(i) \/ ToggleExpand(i)
          \/ \E row \in TreeRows : ClickTreeRow(row)
          \/ \E query \in {"", "attn", "none"} : TypeSearch(query)
          \/ \E path \in LeafPaths[Tree] :
               OnSelectNode(path) \/ HandleToggleLayer(path)
          \/ \E width \in Widths : Resized(width)
          \/ \E c \in ui.captures : CaptureAnswered(c)
          \/ \E which \in {"a", "b", "shown"}, i \in 1 .. 3 : PickSnapshot(which, i)
=============================================================================
