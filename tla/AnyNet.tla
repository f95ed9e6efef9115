-------------------------------- MODULE AnyNet --------------------------------
(* A network read from a file, networks/anynet.cpp.  A line of the file is a     *)
(* head [type, id] and the body, a sequence of [type, id, weight], with weight  *)
(* 0 where the line gives none.  BuildNet adds to the setting what was read and  *)
(* the routing tables.                                                      *)
EXTENDS Routes, Sequences, Functions, SequencesExt, TLC

(* router_list: what it says of nodes and of routers, a function from pairs     *)
(* of a router and what is linked to it to the weight, and the routers it       *)
(* knows: every head, be it a node, counts as one.                          *)
Lists == [node |-> << >>, router |-> << >>, known |-> {}]
Listed(list, a, b, w) == (<<a, b>> :> w) @@ list
ListedOnce(list, a, b, w) == IF <<a, b>> \in DOMAIN list THEN list ELSE Listed(list, a, b, w)

Link(s, head, item) ==
  CASE head.type = "node"                              -> [s EXCEPT !.node = Listed(@, item.id, head.id, 1)]
    [] head.type = "router" /\ item.type = "node"      -> [s EXCEPT !.node = Listed(@, head.id, item.id, 1)]
    [] head.type = "router" /\ item.type = "router"    ->
         [s EXCEPT !.router = ListedOnce(Listed(@, head.id, item.id, 1), item.id, head.id, 1)]

(* A weight goes to the list of the head's type, under the head's number, even  *)
(* where the link itself is in another place.                                *)
Weigh(s, head, item) ==
  CASE item.weight = 0 -> s
    [] item.weight > 0 /\ head.type = "router" -> [s EXCEPT !.router = Listed(@, head.id, item.id, item.weight)]
    [] item.weight > 0 /\ head.type = "node"   -> [s EXCEPT !.node = Listed(@, head.id, item.id, item.weight)]
Named(line) == {line.head.id} \cup {i.id : i \in {j \in Range(line.body) : j.type = "router"}}
ReadLine(s, line) ==
  FoldLeft(LAMBDA t, item : Weigh(Link(t, line.head, item), line.head, item),
           [s EXCEPT !.known = @ \cup Named(line)], line.body)
ReadFile(lines) == FoldLeft(ReadLine, Lists, lines)

(* What is linked to v, in the order of the numbers; a router has its nodes at    *)
(* its first outputs, then the other routers.                                *)
With(list, v)   == {x[2] : x \in {y \in DOMAIN list : y[1] = v}}
Rank(S, x)      == Cardinality({y \in S : y < x})
Owner(list, node)  == (CHOOSE x \in DOMAIN list : x[2] = node)[1]
Nodes(g, v)     == With(g.read.node, v)
Routers(g, v)   == With(g.read.router, v)
AnyStart(g, node) == Owner(g.read.node, node)
AnyOutputs(g, v)  == 0 .. Cardinality(Nodes(g, v)) + Cardinality(Routers(g, v)) - 1
AnyEnd(g, v, port) ==
  LET n == Cardinality(Nodes(g, v))
  IN  IF port < n THEN Node(CHOOSE x \in Nodes(g, v) : Rank(Nodes(g, v), x) = port)
      ELSE Router(CHOOSE x \in Routers(g, v) : Rank(Routers(g, v), x) = port - n)

(* buildRoutingTable: from each router the shortest ways, the lowest number     *)
(* first among equals, and of equal ways the one that was found first.        *)
Far == 2147483647
Nearest(t) == Min({v \in t.left : \A u \in t.left : t.dist[v] <= t.dist[u]})
Relax(t, v, u, w) ==
  IF t.dist[v] + w < t.dist[u] THEN [t EXCEPT !.dist[u] = t.dist[v] + w, !.prev[u] = v] ELSE t
Expand(t, links, v) ==
  FoldSet(LAMBDA u, s : Relax(s, v, u, links[<<v, u>>]), [t EXCEPT !.left = @ \ {v}], With(links, v))
Unknown(vs, from) ==
  [dist |-> [v \in vs |-> IF v = from THEN 0 ELSE Far], prev |-> [v \in vs |-> -1], left |-> vs]
Ways(links, vs, from) == FoldSet(LAMBDA x, t : Expand(t, links, Nearest(t)), Unknown(vs, from), vs)

(* The router next to from on the way that prev gives back from to.            *)
FirstHop(prev, from, to) ==
  LET back[v \in DOMAIN prev] == IF prev[v] = from THEN v ELSE back[prev[v]] IN back[to]
PortTo(read, prev, from, node) ==
  LET to == Owner(read.node, node)
  IN  IF to = from THEN Rank(With(read.node, from), node)
      ELSE Cardinality(With(read.node, from)) + Rank(With(read.router, from), FirstHop(prev, from, to))
Table(read, from) ==
  LET prev == Ways(read.router, read.known, from).prev
  IN  [node \in {x[2] : x \in DOMAIN read.node} |-> PortTo(read, prev, from, node)]
Tables(read) == [from \in read.known |-> Table(read, from)]
Built(g, read) == [read |-> read, tables |-> Tables(read)] @@ g
BuildNet(g) == Built(g, ReadFile(g.lines))

MinAnynet(g, p, r) == {Only(p, g.tables[p.at][Dest(p)], r)}
=============================================================================
