----------------------------- MODULE GraphBuild -----------------------------
(***************************************************************************)
(* Building a graph (src/graph/graph.go, group.go): the builder's calls in *)
(* any order, Compile, and the route a run of the compiled graph takes     *)
(* (next in run.go).  Options, labels and agent tags are left out: they do *)
(* not change what compiles, WithMaxSteps and WithNodeTimeout apart.       *)
(*                                                                         *)
(* An operator introduced as a "faulty variant" is no part of Next: it is  *)
(* the definition after it with a plausible bug.                           *)
(***************************************************************************)
EXTENDS Integers, Sequences, SequencesExt, FiniteSets

CONSTANTS
  Start, End,
  BuilderCalls, \* the calls a caller may make, <<operation, name, arguments>>
  MaxCalls      \* bound: calls made

VARIABLES
  nodes,     \* for each node its branches, or NotParallel
  static,    \* the static edges <<from, to>>
  cond,      \* the conditional edges <<from, targets>>
  groups,    \* the groups <<name, nodes>>
  failed,    \* a builder call was refused: Compile will say so
  made,      \* history: number of builder calls
  compiled,  \* "no", "ok" or "invalid"
  at         \* where a run of the compiled graph is

building == <<nodes, static, cond, groups, failed, made>>
vars == <<building, compiled, at>>

NotParallel == <<"not a parallel node">>

Init ==
  /\ nodes = <<>> /\ static = {} /\ cond = {} /\ groups = {}
  /\ failed = FALSE /\ made = 0 /\ compiled = "no" /\ at = Start

-----------------------------------------------------------------------------
(* The builder *)

\* AddNode, AddAgentNode and AddParallel.
AddNode(name, branches) ==
  /\ IF name \in {Start, End} \cup DOMAIN nodes
     THEN failed' = TRUE /\ UNCHANGED nodes
     ELSE /\ nodes' = [n \in DOMAIN nodes \cup {name} |->
                         IF n = name THEN branches ELSE nodes[n]]
          /\ UNCHANGED failed
  /\ UNCHANGED <<static, cond, groups>>

From(edges) == {e[1] : e \in edges}

\* Faulty variant: the last of two edges replaces the first.
AddEdgeReplaces(from, to) ==
  /\ static' = {e \in static : e[1] # from} \cup {<<from, to>>}
  /\ UNCHANGED <<nodes, cond, groups, failed>>

AddEdge(from, to) ==
  /\ IF from \in From(static) THEN failed' = TRUE /\ UNCHANGED static
     ELSE static' = static \cup {<<from, to>>} /\ UNCHANGED failed
  /\ UNCHANGED <<nodes, cond, groups>>

AddConditionalEdge(from, targets) ==
  /\ IF from \in From(cond) THEN failed' = TRUE /\ UNCHANGED cond
     ELSE cond' = cond \cup {<<from, targets>>} /\ UNCHANGED failed
  /\ UNCHANGED <<nodes, static, groups>>

Group(name, members) ==
  /\ IF members = <<>> \/ name \in From(groups) THEN failed' = TRUE /\ UNCHANGED groups
     ELSE groups' = groups \cup {<<name, members>>} /\ UNCHANGED failed
  /\ UNCHANGED <<nodes, static, cond>>

Build(call) ==
  /\ compiled = "no" /\ made < MaxCalls
  /\ made' = made + 1
  /\ CASE call[1] = "node" -> AddNode(call[2], NotParallel)
       [] call[1] = "parallel" -> AddNode(call[2], call[3])
       [] call[1] = "edge" -> AddEdge(call[2], call[3][1])
       [] call[1] = "conditional" -> AddConditionalEdge(call[2], call[3])
       [] call[1] = "group" -> Group(call[2], call[3])
  /\ UNCHANGED <<compiled, at>>

-----------------------------------------------------------------------------
(* Compile *)

Exists(n) == n \in DOMAIN nodes
Parallels == {n \in DOMAIN nodes : nodes[n] # NotParallel}
Branches == UNION {ToSet(nodes[p]) : p \in Parallels}

BranchesOk ==
  \A p \in Parallels :
    /\ nodes[p] # <<>> /\ IsInjective(nodes[p])
    /\ \A b \in ToSet(nodes[p]) : Exists(b) /\ b \notin Parallels

GroupsOk ==
  /\ \A g \in groups : IsInjective(g[2]) /\ \A n \in ToSet(g[2]) : Exists(n)
  /\ \A g, h \in groups : g # h => ToSet(g[2]) \cap ToSet(h[2]) = {}

Targets(from) == UNION {ToSet(e[2]) : e \in {e \in cond : e[1] = from}}
                 \cup {e[2] : e \in {e \in static : e[1] = from}}

\* Faulty variant: a target needs only to exist.
ToOkIfExists(to) == to = End \/ Exists(to)

\* checkTo.
ToOk(to) == (to = End \/ Exists(to)) /\ to \notin Branches

EdgesOk ==
  /\ \A from \in From(static) \cup From(cond) :
       /\ from = Start \/ Exists(from)
       /\ Targets(from) # {} /\ \A to \in Targets(from) : ToOk(to)
  /\ From(static) \cap From(cond) = {}

\* Every node has a route; branches have none.
RoutesOk ==
  \A n \in DOMAIN nodes \cup {Start} :
     n \in Branches <=> n \notin From(static) \cup From(cond)

RECURSIVE Visit(_)
Visit(reach) ==
  LET more == UNION {Targets(n) \cup (IF n \in Parallels THEN ToSet(nodes[n]) ELSE {})
                       : n \in reach}
  IN  IF more \subseteq reach THEN reach ELSE Visit(reach \cup more)

ReachOk == DOMAIN nodes \cup {End} \subseteq Visit({Start})

Compile ==
  /\ compiled = "no"
  /\ compiled' =
       IF ~failed /\ GroupsOk /\ BranchesOk /\ EdgesOk /\ RoutesOk /\ ReachOk
       THEN "ok" ELSE "invalid"
  /\ UNCHANGED <<building, at>>

-----------------------------------------------------------------------------
(* Topology: the edges that close a loop, by a depth-first walk from Start.    *)

\* The edges out of a node in the order of Topology: to branches, then its own.
Out(n) ==
  (IF n \in Parallels THEN nodes[n] ELSE <<>>)
  \o SetToSeq({e[2] : e \in {e \in static : e[1] = n}})
  \o FlattenSeq(SetToSeq({e[2] : e \in {e \in cond : e[1] = n}}))

\* Faulty variant: an edge to any node seen before closes a loop.
MeetSeen(walk, n, to) == [walk EXCEPT !.back = @ \cup {<<n, to>>}]

\* An edge to a node that is still being explored does, to a finished one not.
Meet(walk, n, to) ==
  IF walk.color[to] = "grey" THEN [walk EXCEPT !.back = @ \cup {<<n, to>>}] ELSE walk

RECURSIVE Explore(_, _)
Explore(walk, n) ==
  [FoldLeft(LAMBDA w, to : IF w.color[to] = "white" THEN Explore(w, to) ELSE Meet(w, n, to),
            [walk EXCEPT !.color[n] = "grey"], Out(n))
     EXCEPT !.color[n] = "black"]

BackEdges ==
  Explore([color |-> [n \in DOMAIN nodes \cup {Start, End} |-> "white"], back |-> {}], Start).back

-----------------------------------------------------------------------------
(* The way of a run: next returns the static edge, or the node's choice if it *)
(* is one of the targets; any other choice ends the run.                      *)

Step ==
  /\ compiled = "ok" /\ at # End
  /\ \E to \in IF at \in From(static) THEN {e[2] : e \in {e \in static : e[1] = at}}
                                      ELSE Targets(at) :
       at' = to
  /\ UNCHANGED <<building, compiled>>

Next ==
  \/ \E call \in BuilderCalls : Build(call)
  \/ Compile \/ Step

Spec == Init /\ [][Next]_vars

-----------------------------------------------------------------------------
(* Properties *)

Declared == DOMAIN nodes \cup {Start, End}
Walks == {w \in BoundedSeq(Declared, Cardinality(Declared)) :
            /\ w # <<>> /\ w[1] = Start
            /\ \A i \in 2..Len(w) : w[i] \in Targets(w[i - 1])}

\* What a caller wants of a graph: every walk from Start can go on until End
\* over nodes that run by themselves, and every node has its place: on a walk,
\* or as a branch of one that is.
MakesSense ==
  LET walked == UNION {ToSet(w) : w \in Walks}
      branches == UNION {ToSet(nodes[p]) : p \in walked \cap Parallels}
  IN  /\ \A n \in walked \ {End} : Targets(n) # {} /\ n \notin Branches
      /\ \A n \in walked : Targets(n) \subseteq DOMAIN nodes \cup {End}
      /\ End \in walked /\ Targets(End) = {}
      /\ DOMAIN nodes = (walked \ {Start, End}) \cup branches
      /\ \A b \in branches : b \notin Parallels /\ Targets(b) = {}
      /\ \A p \in Parallels : nodes[p] # <<>> /\ IsInjective(nodes[p])

\* Compile accepts a graph exactly if it makes sense and every call the builder
\* got is part of it, none replaced, dropped or ambiguous; and a run of it is
\* always at End or at a node with a way on that is no branch (Compile, AddEdge,
\* AddConditionalEdge, addNode, GroupWith and bindGroups).
CompileIsRight ==
  /\ compiled = "ok" =>
       /\ MakesSense
       /\ made = Cardinality(DOMAIN nodes) + Cardinality(static) + Cardinality(cond)
                 + Cardinality(groups)
       /\ at # End => /\ Targets(at) # {} /\ at \notin Branches
                      /\ at = Start \/ Exists(at)
  /\ compiled = "invalid" =>
       \/ failed \/ ~MakesSense \/ ~GroupsOk
       \/ \E from \in Declared : from \in From(static) \cap From(cond)
       \/ \E e \in static \cup cond : e[1] \notin Declared
       \/ \E e \in cond : e[2] = <<>>

\* "Back marks edges that close a loop" (events.go:139): the edges not marked form
\* no loop, so that a viewer can lay them out from top to bottom, and every marked
\* one leads back to a node it can be reached from over them (Topology).
BackEdgesCloseLoops ==
  compiled = "ok" /\ at = Start =>
    LET Forward(n) == {to \in ToSet(Out(n)) : <<n, to>> \notin BackEdges}
        Beyond[i \in 0..Cardinality(Declared)] ==
          [n \in Declared |-> IF i = 0 THEN {n}
                              ELSE {n} \cup UNION {Beyond[i - 1][to] : to \in Forward(n)}]
        Reach == Beyond[Cardinality(Declared)]
    IN  /\ \A n \in Declared : \A to \in Forward(n) : n \notin Reach[to]
        /\ \A e \in BackEdges : e[1] \in Reach[e[2]]

\* Both.
GraphIsRight == CompileIsRight /\ BackEdgesCloseLoops
=============================================================================
