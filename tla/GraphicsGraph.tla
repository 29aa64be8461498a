---------------------------- MODULE GraphicsGraph ----------------------------
(***************************************************************************)
(* The headless graphics graph of a session (runtime_graphics.cpp) and the *)
(* builtins that change it (builtin_registry.cpp): figures own axes and    *)
(* legends, axes own lines and label texts, and identifiers lead across    *)
(* the tree: a legend to its axes and to the lines it lists, an axes to    *)
(* its label, a figure to its current axes, the graph to its current       *)
(* figure, a line to the legend that named it.  0 is "none" everywhere; a  *)
(* DisplayName is 0 when empty and n when it reads "data<n>".              *)
(***************************************************************************)
EXTENDS Selection, SequencesExt, FiniteSetsExt

CONSTANTS
  UserName,          \* what a script writes as a DisplayName
  MaxNodes,          \* bound on identifiers
  MaxGraphicsCalls   \* bound on builtin calls

ASSUME GraphicsAssumption ==
  /\ UserName \in Nat \ {0}
  /\ MaxNodes \in Nat /\ MaxGraphicsCalls \in Nat

VARIABLES
  nodes,             \* the node table by identifier
  nextId,            \* the next identifier
  currentFigure,     \* the current figure
  written,           \* the lines whose names this step wrote
  graphicsCalls      \* calls so far

graphicsVars == <<nodes, nextId, currentFigure, written, graphicsCalls>>

Graph == [nodes |-> nodes, next |-> nextId, figure |-> currentFigure]

GraphicsInit ==
  /\ nodes = <<>> /\ nextId = 1 /\ currentFigure = 0
  /\ written = {} /\ graphicsCalls = 0

Kind(table, kind) == {id \in DOMAIN table : table[id].kind = kind}

NewNode(kind, parent) ==
  [kind |-> kind, parent |-> parent, children |-> <<>>, axes |-> 0, label |-> 0,
   owner |-> 0, lines |-> <<>>, explicit |-> FALSE, auto |-> TRUE,
   name |-> 0, generated |-> 0, hold |-> FALSE]

(* validateParent.                                                          *)
ParentKind(kind) ==
  IF kind = "Figure" THEN "none" ELSE IF kind \in {"Axes", "Legend"} THEN "Figure" ELSE "Axes"

FirstUnused(taken) == CHOOSE n \in 1..(Cardinality(taken) + 1) :
                        n \notin taken /\ \A m \in 1..(n - 1) : m \in taken
NamesIn(table, lines) == {table[line].name : line \in ToSet(lines)}

LegendOf(table, axes) == {id \in Kind(table, "Legend") : table[id].owner = axes}
Updating(table, axes) == {id \in LegendOf(table, axes) : table[id].auto}

-----------------------------------------------------------------------------
(* create: a new line joins the legend that updates itself, with a name.    *)
Create(g, kind, parent) ==
  LET legends == IF kind = "Line" THEN Updating(g.nodes, parent) ELSE {}
      node == IF legends = {} THEN NewNode(kind, parent)
              ELSE [NewNode(kind, parent) EXCEPT
                      !.name = FirstUnused(NamesIn(g.nodes, g.nodes[Min(legends)].lines)),
                      !.generated = Min(legends)]
  IN [nodes |-> [id \in DOMAIN g.nodes \cup {g.next} |->
                   IF id = g.next THEN node
                   ELSE IF id = parent
                   THEN [g.nodes[id] EXCEPT !.children = Append(@, g.next),
                                            !.axes = IF kind = "Axes" THEN g.next ELSE @]
                   ELSE IF id \in legends THEN [g.nodes[id] EXCEPT !.lines = Append(@, g.next)]
                   ELSE g.nodes[id]],
      next |-> g.next + 1,
      figure |-> IF kind = "Figure" THEN g.next ELSE IF kind = "Axes" THEN parent ELSE g.figure]

Changed(g, id, node) == [g EXCEPT !.nodes = [g.nodes EXCEPT ![id] = node]]

(* currentFigure, currentAxes: chosen or made when there is none.           *)
WithFigure(g) ==
  IF g.figure \in DOMAIN g.nodes THEN g
  ELSE IF Kind(g.nodes, "Figure") # {} THEN [g EXCEPT !.figure = Max(Kind(g.nodes, "Figure"))]
  ELSE Create(g, "Figure", 0)

WithAxes(g) ==
  LET h == WithFigure(g)
      figure == h.nodes[h.figure]
      own == {i \in DOMAIN figure.children : h.nodes[figure.children[i]].kind = "Axes"}
  IN IF figure.axes \in DOMAIN h.nodes THEN h
     ELSE IF own # {}
     THEN Changed(h, h.figure, [figure EXCEPT !.axes = figure.children[Max(own)]])
     ELSE Create(h, "Axes", h.figure)

CurrentAxes(g) == g.nodes[g.figure].axes

(* refreshLegendName: another legend that lists the line keeps its name.    *)
(* Refreshing changes no list, so several lines are refreshed at once.      *)
Claimed(table, line) ==
  LET listing == {id \in DOMAIN table : line \in ToSet(table[id].lines)}
  IN IF listing # {} THEN [table[line] EXCEPT !.generated = Min(listing)]
     ELSE [table[line] EXCEPT !.generated = 0, !.name = 0]

RefreshedAnyName(table, line) == Claimed(table, line)

Refreshed(table, line) ==
  IF table[line].generated = 0 THEN table[line] ELSE Claimed(table, line)

AllRefreshed(table, lines) ==
  [id \in DOMAIN table |-> IF id \in lines THEN Refreshed(table, id) ELSE table[id]]

(* erase: what is below goes too, and every reference to what goes.         *)
ClosedBelow(table, ids) ==
  /\ \A id \in ids : ToSet(table[id].children) \subseteq ids
  /\ \A id \in DOMAIN table : table[id].owner \in ids => id \in ids

Below(table, id) ==
  LET closed == {ids \in SUBSET DOMAIN table : id \in ids /\ ClosedBelow(table, ids)}
  IN {n \in DOMAIN table : \A ids \in closed : n \in ids}

Outside(list, gone) == Picked(list, {i \in DOMAIN list : list[i] \notin gone})
LinesWithout(lines, gone) == Outside(lines, gone)

Without(reference, gone) == IF reference \in gone THEN 0 ELSE reference

Erase(g, id) ==
  LET gone == Below(g.nodes, id)
      rest == [n \in DOMAIN g.nodes \ gone |->
                 [g.nodes[n] EXCEPT !.children = Outside(@, gone),
                                    !.axes = Without(@, gone), !.label = Without(@, gone),
                                    !.lines = LinesWithout(@, gone)]]
  IN IF id \notin DOMAIN g.nodes THEN g
     ELSE [nodes |-> AllRefreshed(rest, {n \in DOMAIN rest : rest[n].generated \in gone}),
           next |-> g.next, figure |-> Without(g.figure, gone)]

-----------------------------------------------------------------------------
(* reparent.                                                                *)
LabelStays(label, id) == label
LabelLeft(label, id) == Without(label, {id})

Moved(table, id, parent) ==
  [n \in DOMAIN table |->
     IF n = id THEN [table[n] EXCEPT !.parent = parent]
     ELSE IF n = parent THEN [table[n] EXCEPT !.children = Append(@, id)]
     ELSE IF n = table[id].parent
     THEN [table[n] EXCEPT !.children = Outside(@, {id}),
                           !.axes = Without(@, {id}), !.label = LabelLeft(@, id)]
     ELSE table[n]]

KeepsName(table, line) ==
  \E id \in DOMAIN table : table[id].explicit /\ line \in ToSet(table[id].lines)

Renamed(table, line) ==
  table[line].name = 0 \/ (table[line].generated # 0 /\ ~KeepsName(table, line))

Named(node, name, legend) == [node EXCEPT !.name = name, !.generated = legend]

LineMoved(table, line, parent) ==
  LET legends == Updating(table, parent)
      left == [n \in DOMAIN table |->
                 IF ~table[n].explicit /\ table[n].owner # parent
                 THEN [table[n] EXCEPT !.lines = LinesWithout(@, {line})] ELSE table[n]]
      moved == Moved(left, line, parent)
      legend == Min(legends)
      listed == IF legends = {} \/ line \in ToSet(moved[legend].lines) THEN moved
                ELSE [moved EXCEPT ![legend] = [moved[legend] EXCEPT !.lines = Append(@, line)]]
      named == IF legends = {} \/ ~Renamed(table, line) THEN listed
               ELSE [listed EXCEPT ![line] =
                       Named(listed[line], FirstUnused(NamesIn(table, table[legend].lines)), legend)]
  IN [named EXCEPT ![line] = Refreshed(named, line)]

(* The legend of an axes, there is one at most, moves after it.             *)
AxesMoved(table, axes, parent) ==
  LET moved == Moved(table, axes, parent)
      chosen == [moved EXCEPT ![parent] = [moved[parent] EXCEPT !.axes = axes]]
      legends == LegendOf(table, axes)
  IN IF legends = {} THEN chosen ELSE Moved(chosen, Min(legends), parent)

MayMove(table, id, parent) ==
  /\ table[parent].kind = ParentKind(table[id].kind)
  /\ table[id].parent # parent
  /\ table[id].owner # 0 => table[table[id].owner].parent = parent

Reparented(table, id, parent) ==
  IF table[id].kind = "Line" THEN LineMoved(table, id, parent)
  ELSE IF table[id].kind = "Axes" THEN AxesMoved(table, id, parent)
  ELSE Moved(table, id, parent)

-----------------------------------------------------------------------------
(* configureLegend: names the candidates one after the other.               *)
ListedNext(made, line, label, legend, unnamed) ==
  LET name == FirstUnused(made.used \cup NamesIn(made.table, made.lines))
      named(n, of) == [made.table EXCEPT ![line] = Named(made.table[line], n, of)]
      lines == Append(made.lines, line)
  IN IF label # 0 THEN [table |-> named(label, 0), lines |-> lines, used |-> made.used]
     ELSE IF line \in unnamed
     THEN [table |-> named(name, legend), lines |-> lines, used |-> made.used \cup {name}]
     ELSE [made EXCEPT !.lines = lines]

Listing(table, legend, candidates, labels) ==
  LET unnamed == {line \in ToSet(candidates) : table[line].name = 0}
      made[i \in 0..Len(candidates)] ==
        IF i = 0 THEN [table |-> table, lines |-> <<>>, used |-> {}]
        ELSE IF labels = <<>> THEN ListedNext(made[i - 1], candidates[i], 0, legend, unnamed)
        ELSE IF i > Len(labels) \/ labels[i] = 0 THEN made[i - 1]
        ELSE ListedNext(made[i - 1], candidates[i], labels[i], legend, unnamed)
  IN made[Len(candidates)]

(* The lines a legend may list: those of the call, or the axes' own.        *)
Candidates(table, axes, lines) ==
  LET children == table[axes].children
  IN IF lines # <<>> THEN lines
     ELSE Picked(children, {i \in DOMAIN children : table[children[i]].kind = "Line"})

LabelledLines(candidates, labels) ==
  {candidates[i] : i \in {j \in DOMAIN candidates \cap DOMAIN labels : labels[j] # 0}}

LegendTarget(g, axes, lines) ==
  IF axes # 0 THEN axes ELSE IF lines # <<>> THEN g.nodes[lines[1]].parent ELSE CurrentAxes(g)

WithLegend(g, axes) ==
  LET made == Create(g, "Legend", g.nodes[axes].parent)
  IN IF LegendOf(g.nodes, axes) # {} THEN g
     ELSE Changed(made, g.next, [made.nodes[g.next] EXCEPT !.owner = axes])

\* A legend that was there stays as it is when the call names nothing.
ConfigureLegend(g, axes, lines, labels, existing) ==
  LET legend == Min(LegendOf(g.nodes, axes))
      listing == Listing(g.nodes, legend, Candidates(g.nodes, axes, lines), labels)
      rebuilt == IF existing /\ lines = <<>> /\ labels = <<>> THEN g.nodes
                 ELSE [listing.table EXCEPT ![legend] =
                         [listing.table[legend] EXCEPT
                            !.lines = listing.lines,
                            !.explicit = lines # <<>> \/ labels # <<>>]]
  IN [g EXCEPT !.nodes = AllRefreshed(rebuilt, ToSet(g.nodes[legend].lines))]

-----------------------------------------------------------------------------
(* The builtins.                                                            *)

Call == graphicsCalls < MaxGraphicsCalls /\ graphicsCalls' = graphicsCalls + 1

Becomes(made) ==
  \E g \in {made} :
    /\ g.next <= MaxNodes + 1
    /\ nodes' = g.nodes /\ nextId' = g.next /\ currentFigure' = g.figure

Axes == Kind(nodes, "Axes")
Figures == Kind(nodes, "Figure")
Legends == Kind(nodes, "Legend")
Lines == Kind(nodes, "Line")

(* figure, axes, gcf, gca.                                                  *)
FigureOrAxes ==
  /\ Call /\ written' = {}
  /\ \/ Becomes(Create(Graph, "Figure", 0))
     \/ LET g == WithFigure(Graph) IN Becomes(Create(g, "Axes", g.figure))
     \/ Becomes(WithFigure(Graph))
     \/ Becomes(WithAxes(Graph))
     \/ \E id \in Figures : Becomes([Graph EXCEPT !.figure = id])
     \/ \E id \in Axes :
          LET figure == nodes[id].parent
          IN Becomes([Changed(Graph, figure, [nodes[figure] EXCEPT !.axes = id]) EXCEPT
                        !.figure = figure])

(* Without hold the children that are no label are erased one by one.       *)
Cleared(g, ids) ==
  LET cleared[i \in 0..Len(ids)] == IF i = 0 THEN g ELSE Erase(cleared[i - 1], ids[i])
  IN cleared[Len(ids)]

PlotLines ==
  /\ Call /\ written' = {}
  /\ \E g \in {WithAxes(Graph)} :
       LET id == CurrentAxes(g)
           axes == g.nodes[id]
           one == Create(IF axes.hold THEN g ELSE Cleared(g, Outside(axes.children, {axes.label})),
                         "Line", id)
       IN Becomes(one) \/ Becomes(Create(one, "Line", id))

Hold ==
  /\ Call /\ written' = {}
  /\ \E axes \in Axes : Becomes(Changed(Graph, axes, [nodes[axes] EXCEPT !.hold = ~@]))

SetLabel ==
  /\ Call /\ written' = {}
  /\ \E axes \in Axes :
       /\ nodes[axes].label = 0
       /\ LET made == Create(Graph, "Text", axes)
          IN Becomes(Changed(made, axes, [made.nodes[axes] EXCEPT !.label = nextId]))

Subsets == {<<>>} \cup {<<line>> : line \in Lines} \cup {<<line, other>> : line, other \in Lines}
Labels == UNION {[1..n -> {0, UserName}] : n \in 0..2}

(* An empty list of lines is none at all.  Options given with a call take    *)
(* effect after it: AutoUpdate.                                             *)
Legend ==
  /\ Call
  /\ \E axes \in {0} \cup Axes, lines \in Subsets, labels \in Labels :
     \E g \in {IF axes = 0 /\ lines = <<>> THEN WithAxes(Graph) ELSE Graph} :
     \E target \in {LegendTarget(g, axes, lines)} :
     \E h \in {WithLegend(g, target)} :
       /\ Becomes(ConfigureLegend(h, target, lines, labels, h = g))
       /\ written' = LabelledLines(Candidates(h.nodes, target, lines), labels)

AutoUpdate ==
  /\ Call /\ written' = {}
  /\ \E legend \in Legends : Becomes(Changed(Graph, legend, [nodes[legend] EXCEPT !.auto = ~@]))

SetDisplayName ==
  /\ Call
  /\ \E line \in Lines, name \in {0, UserName} :
       /\ Becomes(Changed(Graph, line, Named(nodes[line], name, 0)))
       /\ written' = {line}

(* A legend's String: the members beyond the labels are left out, and of    *)
(* the labels for a line that is listed twice the last one stays.           *)
SetString ==
  /\ Call
  /\ \E legend \in Legends, labels \in Labels \ {<<>>} :
       LET kept == SubSeq(nodes[legend].lines, 1, Min({Len(labels), Len(nodes[legend].lines)}))
           label(line) == labels[Max({i \in DOMAIN kept : kept[i] = line})]
       IN /\ Becomes([Graph EXCEPT !.nodes =
               [id \in DOMAIN nodes |->
                  IF id = legend THEN [nodes[id] EXCEPT !.lines = kept]
                  ELSE IF id \in ToSet(kept) THEN Named(nodes[id], label(id), 0) ELSE nodes[id]]])
          /\ written' = ToSet(kept)

SetParent ==
  /\ Call /\ written' = {}
  /\ \E id, parent \in DOMAIN nodes :
       /\ MayMove(nodes, id, parent)
       /\ Becomes([Graph EXCEPT !.nodes = Reparented(@, id, parent)])

DeleteOrClose ==
  /\ Call /\ written' = {}
  /\ \/ \E id \in DOMAIN nodes : Becomes(Erase(Graph, id))
     \/ nodes # <<>> /\ LET g == WithFigure(Graph) IN Becomes(Erase(g, g.figure))

GraphicsNext ==
  \/ FigureOrAxes \/ PlotLines \/ Hold \/ SetLabel \/ Legend \/ AutoUpdate
  \/ SetDisplayName \/ SetString \/ SetParent \/ DeleteOrClose

GraphicsSpec == GraphicsInit /\ [][GraphicsNext]_graphicsVars

-----------------------------------------------------------------------------
(* serialize: what it checks of every object, and throws for.               *)
SerializerAccepts(id) ==
  LET node == nodes[id]
  IN /\ IF node.kind = "Figure" THEN node.parent = 0
        ELSE /\ node.parent \in Kind(nodes, ParentKind(node.kind))
             /\ id \in ToSet(nodes[node.parent].children)
     /\ \A i \in DOMAIN node.children :
          node.children[i] \in DOMAIN nodes /\ nodes[node.children[i]].parent = id
     /\ IsInjective(node.children)
     /\ node.label # 0 => node.label \in Kind(nodes, "Text") /\ nodes[node.label].parent = id
     /\ node.owner # 0 => node.owner \in Axes /\ nodes[node.owner].parent = node.parent
     /\ ToSet(node.lines) \subseteq Lines

(* After any calls the graph can be serialised and its other references are *)
(* live too: the current figure and axes and the legend a name comes from.  *)
(* An axes has one legend, and a legend without an explicit subset lists    *)
(* only lines of its own axes.                                              *)
GraphIsSound ==
  /\ \A id \in DOMAIN nodes :
       /\ SerializerAccepts(id)
       /\ nodes[id].axes # 0 => nodes[id].axes \in Axes /\ nodes[nodes[id].axes].parent = id
       /\ nodes[id].generated # 0 => nodes[id].generated \in Legends
  /\ \A id \in Legends :
       /\ LegendOf(nodes, nodes[id].owner) = {id}
       /\ ~nodes[id].explicit =>
            \A line \in ToSet(nodes[id].lines) : nodes[line].parent = nodes[id].owner
  /\ currentFigure # 0 => currentFigure \in Figures

(* A name a script gave survives whatever legends come, go or list the line *)
(* until a script writes it again (docs/graphics-legend-contract.md, "user- *)
(* assigned names survive").                                                *)
UserNamesSurvive ==
  [][\A line \in Lines :
       nodes[line].name # 0 /\ nodes[line].generated = 0 /\ line \in DOMAIN nodes' \ written' =>
         nodes'[line].name = nodes[line].name /\ nodes'[line].generated = 0]_graphicsVars

(* A generated name belongs to a line some legend lists                     *)
(* (docs/graphics-legend-contract.md, "Generated names are cleared when no  *)
(* Legend retains them").                                                   *)
GeneratedNamesRetained ==
  \A line \in Lines :
    nodes[line].generated # 0 => \E legend \in Legends : line \in ToSet(nodes[legend].lines)

=============================================================================
