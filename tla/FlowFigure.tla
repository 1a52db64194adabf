------------------------------ MODULE FlowFigure ------------------------------
(***************************************************************************)
(* The figures of a model's architecture: lib/flatten-to-flow-columns.ts,  *)
(* which turns the tree of modules into columns, and the layouts of        *)
(* components/weights/flow-visualization.tsx and arch-flow.tsx.  A module  *)
(* is a record [name, type, params, children]; its full path is the        *)
(* sequence of the names from the root down.                               *)
(*                                                                         *)
(* Left out: colours, labels, panning.                                     *)
(***************************************************************************)
EXTENDS Integers, SequencesExt

CONSTANTS Architectures,   \* bound: the trees of modules a model may have
          MaxDepth         \* bound: how deep their modules are nested

\* every module of every tree
Level[d \in 0 .. MaxDepth] ==
    IF d = 0 THEN Architectures
    ELSE UNION {ToSet(node.children) : node \in Level[d - 1]}
Nodes == UNION {Level[d] : d \in 0 .. MaxDepth}

IsLeaf(node) == node.children = <<>>

\* _build_node nests modules in modules, and a model is never a bare layer
ASSUME ArchitectureAssumption ==
    /\ MaxDepth \in Nat
    /\ \A node \in Nodes : node.params \in Nat /\ node.children \in Seq(Nodes)
    /\ \A node \in Level[MaxDepth] : IsLeaf(node)
    /\ \A tree \in Architectures : ~IsLeaf(tree)

\* the parts of all elements one after the other, and the sum of their values
FlatMap(s, part(_)) == FlattenSeq([i \in DOMAIN s |-> part(s[i])])
Total(s, value(_)) == SumFunction([i \in DOMAIN s |-> value(s[i])])

\* fullPath: what is below a module has its name in front
Under(name, rows) == [i \in DOMAIN rows |-> [rows[i] EXCEPT !.path = <<name>> \o @]]
UnderAll(name, columns) ==
    [i \in DOMAIN columns |-> [columns[i] EXCEPT !.rows = Under(name, @)]]

(***************************************************************************)
(* Runs of siblings of the same structure.                                 *)
(***************************************************************************)
ComputeStructuralFingerprint(node) ==
    <<node.type, [i \in DOMAIN node.children |-> node.children[i].name]>>

Alike(a, b) == ComputeStructuralFingerprint(a) = ComputeStructuralFingerprint(b)

\* groupByFingerprint: the runs of consecutive alike siblings
Grouped(groups, node) ==
    IF groups # <<>> /\ Alike(groups[Len(groups)][1], node)
    THEN [groups EXCEPT ![Len(groups)] = Append(@, node)]
    ELSE Append(groups, <<node>>)

GroupByFingerprint(nodes) ==
    LET upto[k \in 0 .. Len(nodes)] ==
            IF k = 0 THEN <<>> ELSE Grouped(upto[k - 1], nodes[k])
    IN  upto[Len(nodes)]

(***************************************************************************)
(* Columns.  A column lists modules, a module with children as a header.   *)
(***************************************************************************)
BuildFlowNode(node) ==
    [path |-> <<node.name>>, header |-> ~IsLeaf(node), params |-> node.params]

SumLeafParams(rows) == Total(rows, LAMBDA row : IF row.header THEN 0 ELSE row.params)

\* of a run of siblings only the first is listed
CollectColumnNodes[node \in Nodes] ==
    <<BuildFlowNode(node)>>
    \o Under(node.name, FlatMap(GroupByFingerprint(node.children),
                                LAMBDA run : CollectColumnNodes[run[1]]))

\* what the column of a run of containers lists: what is in the first of them
RowsOf(first) ==
    Under(first.name, FlatMap(first.children, LAMBDA child : CollectColumnNodes[child]))

\* mutant of RepeatedColumn: the total is that of the one that is drawn
RepeatedColumnOnce(run) ==
    [rows |-> RowsOf(run[1]), count |-> Len(run),
     totalParams |-> SumLeafParams(RowsOf(run[1]))]

RepeatedColumn(run) ==
    [rows |-> RowsOf(run[1]), count |-> Len(run),
     totalParams |-> SumLeafParams(RowsOf(run[1])) * Len(run)]

LeafColumn(node) ==
    [rows |-> <<BuildFlowNode(node)>>, count |-> 1, totalParams |-> node.params]

\* a container on its own gives way to its children, leaves get a column each
ExpandNodesToColumns[node \in Nodes] ==
    LET columns(run) ==
            IF IsLeaf(run[1]) THEN [i \in DOMAIN run |-> LeafColumn(run[i])]
            ELSE IF Len(run) > 1 THEN <<RepeatedColumn(run)>>
            ELSE ExpandNodesToColumns[run[1]]
    IN  UnderAll(node.name, FlatMap(GroupByFingerprint(node.children), columns))

FlattenToFlowColumns == [tree \in Architectures |-> ExpandNodesToColumns[tree]]

\* buildFlatColumns: a column that is expanded is drawn once for every member
BuildFlatColumns(columns, expanded) ==
    FlattenSeq([i \in DOMAIN columns |->
                    [j \in 1 .. IF i \in expanded THEN columns[i].count ELSE 1 |->
                        columns[i]]])

(***************************************************************************)
(* What the columns account for.                                           *)
(***************************************************************************)
\* the parameters of the leaves, which is all that a column counts
LeafParams[node \in Nodes] ==
    IF IsLeaf(node) THEN node.params
    ELSE Total(node.children, LAMBDA child : LeafParams[child])

\* of them, those that the rows of a module do not count: of every run below it
\* the members after the first
Unlisted[node \in Nodes] ==
    Total(GroupByFingerprint(node.children),
          LAMBDA run : Unlisted[run[1]] + Total(Tail(run), LAMBDA twin : LeafParams[twin]))

\* and those that the columns of a module do not count
LeftOut[node \in Nodes] ==
    Total(GroupByFingerprint(node.children),
          LAMBDA run :
            IF IsLeaf(run[1]) THEN 0
            ELSE IF Len(run) > 1
                 THEN Len(run) * Total(run[1].children, LAMBDA child : Unlisted[child])
                 ELSE LeftOut[run[1]])

\* the members of a run that is drawn as one column have as many parameters
Even[node \in Nodes] ==
    \A run \in ToSet(GroupByFingerprint(node.children)) :
        IF Len(run) = 1 \/ IsLeaf(run[1]) THEN Even[run[1]]
        ELSE \A member \in ToSet(run) : LeafParams[member] = LeafParams[run[1]]

(***************************************************************************)
(* The grid of cards, in pixels.                                           *)
(***************************************************************************)
ColumnWidth == 220
ColumnGap == 48
RowGap == 80
ColumnHeader == 56
Padding == 12
NodeGap == 4

NodeHeight(row) == IF row.header THEN 24 ELSE 32
ColumnHeight(column) ==
    ColumnHeader + 2 * Padding
    + Total(column.rows, LAMBDA row : NodeHeight(row) + NodeGap)

\* what fits in a row of the container
ColsPerRow(width) == Max({1, (width - ColumnGap) \div (ColumnWidth + ColumnGap)})

GridRow(i, perRow) == (i - 1) \div perRow

RowHeight(flat, perRow, r) ==
    Max({200} \cup {ColumnHeight(flat[i]) : i \in {j \in DOMAIN flat : GridRow(j, perRow) = r}})

\* mutant of RowTop: every row is as high as the lowest one can be
RowTopEven(flat, perRow, r) == r * (200 + RowGap)

RowTop(flat, perRow, r) ==
    SumFunction([k \in 1 .. r |-> RowHeight(flat, perRow, k - 1) + RowGap])

CardAt(flat, perRow, i) ==
    [x |-> ((i - 1) % perRow) * (ColumnWidth + ColumnGap),
     y |-> RowTop(flat, perRow, GridRow(i, perRow)),
     height |-> ColumnHeight(flat[i])]

CanvasWidth(flat, perRow) ==
    Min({Len(flat), perRow}) * (ColumnWidth + ColumnGap) - ColumnGap

CanvasHeight(flat, perRow) ==
    LET last == GridRow(Len(flat), perRow)
    IN  RowTop(flat, perRow, last) + RowHeight(flat, perRow, last)

(***************************************************************************)
(* The arrows from each card to the next, by the points their paths are    *)
(* drawn through or bent by.  The canvas has a margin on every side.       *)
(***************************************************************************)
CanvasPadding == ColumnGap

Corner == 8

\* from the middle of one side to the middle of the other; heights are multiples
\* of 4, so that the halves are whole
Ends(flat, perRow, i) ==
    LET from == CardAt(flat, perRow, i)
        to == CardAt(flat, perRow, i + 1)
    IN  [x1 |-> CanvasPadding + from.x + ColumnWidth,
         y1 |-> CanvasPadding + from.y + from.height \div 2,
         x2 |-> CanvasPadding + to.x,
         y2 |-> CanvasPadding + to.y + to.height \div 2]

\* buildSameRowArrowPath
SameRowPath(e) ==
    LET cx == (e.x1 + e.x2) \div 2
    IN  <<[x |-> e.x1, y |-> e.y1], [x |-> cx, y |-> e.y1],
          [x |-> cx, y |-> e.y2], [x |-> e.x2, y |-> e.y2]>>

\* buildWrapArrowPath: around the row through the gutters on both sides
WrapPath(e, rightG, leftG) ==
    LET midY == (e.y1 + e.y2) \div 2
    IN  <<[x |-> e.x1, y |-> e.y1],
          [x |-> rightG - Corner, y |-> e.y1], [x |-> rightG, y |-> e.y1],
          [x |-> rightG, y |-> e.y1 + Corner], [x |-> rightG, y |-> midY - Corner],
          [x |-> rightG, y |-> midY], [x |-> rightG - Corner, y |-> midY],
          [x |-> leftG + Corner, y |-> midY], [x |-> leftG, y |-> midY],
          [x |-> leftG, y |-> midY + Corner], [x |-> leftG, y |-> e.y2 - Corner],
          [x |-> leftG, y |-> e.y2], [x |-> leftG + Corner, y |-> e.y2],
          [x |-> e.x2, y |-> e.y2]>>

WrapRight(flat, perRow) == CanvasPadding + CanvasWidth(flat, perRow) + ColumnGap \div 2
WrapLeft == CanvasPadding - ColumnGap \div 2

Wraps(perRow, i) == GridRow(i, perRow) # GridRow(i + 1, perRow)

\* ConnectorPath
ArrowPath(flat, perRow, i) ==
    IF Wraps(perRow, i)
    THEN WrapPath(Ends(flat, perRow, i), WrapRight(flat, perRow), WrapLeft)
    ELSE SameRowPath(Ends(flat, perRow, i))

SvgWidth(flat, perRow) == CanvasWidth(flat, perRow) + 2 * CanvasPadding
SvgHeight(flat, perRow) == CanvasHeight(flat, perRow) + 2 * CanvasPadding

\* the arrow is within the picture, and on its way to another row it never turns
\* back up, so that its corners have room
ArrowFits(flat, perRow, i) ==
    LET path == ArrowPath(flat, perRow, i)
    IN  /\ \A k \in DOMAIN path : /\ path[k].x \in 0 .. SvgWidth(flat, perRow)
                                /\ path[k].y \in 0 .. SvgHeight(flat, perRow)
        /\ Wraps(perRow, i) =>
            \A k \in 1 .. Len(path) - 1 : path[k].y <= path[k + 1].y

\* the gutters are beside the card
BesideGutters(flat, perRow, card) ==
    /\ WrapLeft < CanvasPadding + card.x
    /\ CanvasPadding + card.x + ColumnWidth < WrapRight(flat, perRow)

(***************************************************************************)
(* The strip of layers in arch-flow.tsx.                                   *)
(***************************************************************************)
\* the first module with two or more children, all of one type; {} if none
FindLayerStackNode[node \in Nodes] ==
    LET stacked(child) ==
            /\ Len(child.children) >= 2
            /\ \A i \in DOMAIN child.children :
                child.children[i].type = child.children[1].type
        top(child) == IF stacked(child) THEN {child} ELSE FindLayerStackNode[child]
        found == {i \in DOMAIN node.children : top(node.children[i]) # {}}
    IN  IF found = {} THEN {} ELSE top(node.children[Min(found)])

\* the modules of the stack, in a set of at most one sequence
LayerNodes == [tree \in Architectures |-> {s.children : s \in FindLayerStackNode[tree]}]
LayerCount(tree) == IF LayerNodes[tree] = {} THEN 0
                    ELSE Len(CHOOSE s \in LayerNodes[tree] : TRUE)

\* StackStrip: the layer that each tick selects; Math.round rounds halves up
StackTicks(layerCount) ==
    LET n == Min({14, Max({1, layerCount})})
        round(a, b) == (2 * a + b) \div (2 * b)
    IN  [t \in 1 .. n |-> IF layerCount = 0 THEN t - 1
                          ELSE round((t - 1) * (layerCount - 1), Max({1, n - 1}))]
=============================================================================
