------------------------------- MODULE Routing -------------------------------
(***************************************************************************)
(* The router: one radix tree per method, built by route and nest,        *)
(* read by lookup.  A path or a pattern is the sequence of the strings       *)
(* between its slashes after the first one.  A tree is a function from the   *)
(* nodes, named by the way down to them from the root, to the name the node  *)
(* captures under and its handler; a node has at most one Param and one      *)
(* Wildcard child, whatever their names.                                     *)
(***************************************************************************)
EXTENDS Integers, Sequences, SequencesExt, TLC

CONSTANTS Patterns,   \* what is registered: a method and a pattern's segments
          NestPrefixes,   \* prefixes for nest
          UrlPaths,
          MaxRoutes   \* bound on the registrations

VARIABLES router,     \* the Router, without its fallback handler
          sub,        \* a second Router, that may be nested into the first
          routes,     \* routes in effect in the router, in the order of their insertion
          subRoutes   \* and in the sub-router

routingVars == <<router, sub, routes, subRoutes>>

Static(s)   == [k |-> "static", name |-> s]
Param(s)    == [k |-> "param", name |-> s]
Wildcard(s) == [k |-> "wildcard", name |-> s]

NoHandler == 0

-----------------------------------------------------------------------------
(* Paths.                                                                     *)

\* trim_start_matches('/'), then split('/') unless nothing is left
split_path(path) ==
    LET kept == {i \in DOMAIN path : path[i] # ""} IN
    IF kept = {} THEN <<>>
    ELSE SubSeq(path, CHOOSE i \in kept : \A j \in kept : i <= j, Len(path))

\* a pattern is given by its segments; only their leading slashes matter here
parse_pattern(pattern) ==
    LET kept == {i \in DOMAIN pattern : pattern[i] # Static("")} IN
    IF kept = {} THEN <<>>
    ELSE SubSeq(pattern, CHOOSE i \in kept : \A j \in kept : i <= j, Len(pattern))

NoMatch == <<<<"no match">>>>

\* the names and the values captured, in order, or NoMatch; a wildcard takes what is left
RECURSIVE match_path(_, _)
match_path(segments, parts) ==
    IF segments = <<>> THEN IF parts = <<>> THEN <<>> ELSE NoMatch
    ELSE IF Head(segments).k = "wildcard" THEN <<<<Head(segments).name, parts>>>>
    ELSE IF parts = <<>> \/ (Head(segments).k = "static" /\ Head(parts) # Head(segments).name)
         THEN NoMatch
    ELSE LET rest == match_path(Tail(segments), Tail(parts)) IN
         IF rest = NoMatch THEN NoMatch
         ELSE IF Head(segments).k = "param" THEN <<<<Head(segments).name, <<Head(parts)>>>>>> \o rest ELSE rest

-----------------------------------------------------------------------------
(* The radix tree.                                                            *)

\* the child of a node for a segment: literal children by string, one of the others
NodeSegment(seg) == IF seg.k = "static" THEN <<"literal", seg.name>> ELSE <<seg.k, "">>

new_root == (<<>> :> [name |-> "", handler |-> NoHandler])

from_path_segment(seg) == [name |-> seg.name, handler |-> NoHandler]

\* what follows a wildcard is ignored
upto_wildcard(segments) ==
    LET w == {i \in DOMAIN segments : segments[i].k = "wildcard"} IN
    IF w = {} THEN segments ELSE SubSeq(segments, 1, CHOOSE i \in w : \A j \in w : i <= j)

insert(tree, segments, handler) ==
    LET segs    == upto_wildcard(segments)
        at(n)   == [i \in 1..n |-> NodeSegment(segs[i])]
        new     == {n \in 1..Len(segs) : at(n) \notin DOMAIN tree}
        nodes   == [p \in {at(n) : n \in new} |-> from_path_segment(segs[Len(p)])]
    IN [tree @@ nodes EXCEPT ![at(Len(segs))].handler = handler]

Miss == [handler |-> NoHandler, params |-> <<>>]

\* variant: the first child that matches the head decides, without backtracking
RECURSIVE node_lookup_Greedy(_, _, _, _)
node_lookup_Greedy(tree, at, parts, params) ==
    IF parts = <<>> THEN [handler |-> tree[at].handler, params |-> params]
    ELSE LET lit  == Append(at, <<"literal", Head(parts)>>)
             par  == Append(at, <<"param", "">>)
             wild == Append(at, <<"wildcard", "">>)
         IN IF lit \in DOMAIN tree THEN node_lookup_Greedy(tree, lit, Tail(parts), params)
            ELSE IF par \in DOMAIN tree
            THEN node_lookup_Greedy(tree, par, Tail(parts), Append(params, <<tree[par].name, <<Head(parts)>>>>))
            ELSE IF wild \in DOMAIN tree
            THEN [handler |-> tree[wild].handler, params |-> Append(params, <<tree[wild].name, parts>>)]
            ELSE Miss

\* Node::lookup: literal, then param, then wildcard, undoing what failed
RECURSIVE node_lookup(_, _, _, _)
node_lookup(tree, at, parts, params) ==
    IF parts = <<>> THEN [handler |-> tree[at].handler, params |-> params]
    ELSE LET lit  == Append(at, <<"literal", Head(parts)>>)
             par  == Append(at, <<"param", "">>)
             wild == Append(at, <<"wildcard", "">>)
             byLit == IF lit \in DOMAIN tree
                      THEN node_lookup(tree, lit, Tail(parts), params) ELSE Miss
             byPar == IF par \in DOMAIN tree
                      THEN node_lookup(tree, par, Tail(parts),
                                       Append(params, <<tree[par].name, <<Head(parts)>>>>))
                      ELSE Miss
         IN IF byLit.handler # NoHandler THEN byLit
            ELSE IF byPar.handler # NoHandler THEN byPar
            ELSE IF wild \in DOMAIN tree
            THEN [handler |-> tree[wild].handler, params |-> Append(params, <<tree[wild].name, parts>>)]
            ELSE Miss

\* visit_children, one way down the tree: the segment of each node passed
visit_children(tree, at) ==
    [i \in DOMAIN at |->
        LET n == tree[SubSeq(at, 1, i)].name IN
        IF at[i][1] = "literal" THEN Static(at[i][2]) ELSE [k |-> at[i][1], name |-> n]]

\* every node with a handler, as its segments; the trees of a nest hold each
\* shape once, so the order of the insertions does not matter
collect_routes(tree) ==
    {<<visit_children(tree, at), tree[at].handler>> :
        at \in {p \in DOMAIN tree : tree[p].handler # NoHandler}}

-----------------------------------------------------------------------------
(* The router.                                                                *)

Methods == {"GET", "HEAD", "POST"}

new_router == [trees |-> <<>>]

RInit ==
    /\ router = new_router /\ sub = new_router
    /\ routes = <<>> /\ subRoutes = <<>>

entry(r, method) == IF method \in DOMAIN r.trees THEN r.trees[method] ELSE new_root

with_route(r, method, segments, h) ==
    [r EXCEPT !.trees = (method :> insert(entry(r, method), segments, h)) @@ @]

Used == Len(routes) + Len(subRoutes)

\* handlers are numbered in the order in which they are registered
route(method, pattern) ==
    /\ Used < MaxRoutes
    /\ router' = with_route(router, method, parse_pattern(pattern), Used + 1)
    /\ routes' = Append(routes, [m |-> method, segs |-> parse_pattern(pattern), h |-> Used + 1])
    /\ UNCHANGED <<sub, subRoutes>>

sub_route(method, pattern) ==
    /\ Used < MaxRoutes
    /\ sub' = with_route(sub, method, parse_pattern(pattern), Used + 1)
    /\ subRoutes' = Append(subRoutes, [m |-> method, segs |-> parse_pattern(pattern), h |-> Used + 1])
    /\ UNCHANGED <<router, routes>>

\* a prefix without the slashes at its end
trim_end_matches(prefix) ==
    SubSeq(prefix, 1, Len(parse_pattern(Reverse(prefix))))

\* re-inserts every route of the sub-router below the prefix, method by method
nest(prefix) ==
    /\ subRoutes # <<>>
    /\ LET pre(p) == <<parse_pattern(trim_end_matches(prefix)) \o p[1], p[2]>>
           into(m) == FoldSet(LAMBDA p, t : insert(t, pre(p)[1], pre(p)[2]),
                              entry(router, m), collect_routes(sub.trees[m]))
       IN router' = [router EXCEPT !.trees = [m \in DOMAIN sub.trees |-> into(m)] @@ @]
    /\ routes' = routes \o [i \in DOMAIN subRoutes |->
                              [subRoutes[i] EXCEPT !.segs = parse_pattern(trim_end_matches(prefix)) \o @]]
    /\ sub' = new_router /\ subRoutes' = <<>>

RNext ==
    \/ \E p \in Patterns : route(p[1], p[2]) \/ sub_route(p[1], p[2])
    \/ \E p \in NestPrefixes : nest(p)

lookup_method(r, method, path) ==
    IF method \in DOMAIN r.trees THEN node_lookup(r.trees[method], <<>>, split_path(path), <<>>)
    ELSE Miss

lookup(r, method, path) ==
    LET first == lookup_method(r, method, path) IN
    IF first.handler = NoHandler /\ method = "HEAD" THEN lookup_method(r, "GET", path) ELSE first

-----------------------------------------------------------------------------
(* Properties.                                                                *)

\* a route matches a path as match_path says, except that a wildcard of the tree
\* takes at least one segment
Hits(rt, parts) ==
    LET segs == upto_wildcard(rt.segs) IN
    /\ match_path(segs, parts) # NoMatch
    /\ (segs # <<>> /\ segs[Len(segs)].k = "wildcard") => Len(parts) >= Len(segs)

Rank == [static |-> 1, param |-> 2, wildcard |-> 3]

\* i is preferred to j: at the first segment where they differ in kind, literal
\* before param before wildcard; of two routes of one shape, the later
Preferred(i, j) ==
    LET a == upto_wildcard(routes[i].segs)
        b == upto_wildcard(routes[j].segs)
        differ == {n \in DOMAIN a \cap DOMAIN b : a[n].k # b[n].k}
    IN IF differ = {} THEN i >= j
       ELSE LET n == CHOOSE n \in differ : \A x \in differ : n <= x IN Rank[a[n].k] < Rank[b[n].k]

Best(method, parts) ==
    LET hit == {i \in DOMAIN routes : routes[i].m = method /\ Hits(routes[i], parts)}
    IN IF hit = {} THEN 0 ELSE CHOOSE i \in hit : \A j \in hit : Preferred(i, j)

Values(params) == [i \in DOMAIN params |-> params[i][2]]

\* an earlier route goes down to one of the holes of route i and names it otherwise
Renamed(i) ==
    LET a == upto_wildcard(routes[i].segs) IN
    \E j \in 1..(i - 1) : \E n \in DOMAIN a :
        LET b == upto_wildcard(routes[j].segs) IN
        /\ routes[j].m = routes[i].m /\ n \in DOMAIN b /\ a[n].name # b[n].name
        /\ \A x \in 1..n : NodeSegment(a[x]) = NodeSegment(b[x])

\* A lookup finds the route that a search of all of the registered ones would
\* prefer (literal over param over wildcard from the left, the last of
\* duplicates), with the values match_path captures under the pattern's own names,
\* whatever the order of route and nest calls; HEAD falls back to GET (Node::insert,
\* Node::lookup, nest). A hole that an earlier route shares keeps the name that
\* route gave it: then only the values are the pattern's.
RouteBest ==
    \A m \in Methods, path \in UrlPaths :
        LET parts == split_path(path)
            own   == Best(m, parts)
            i     == IF own = 0 /\ m = "HEAD" THEN Best("GET", parts) ELSE own
            found == lookup(router, m, path)
        IN IF i = 0 THEN found = Miss
           ELSE /\ found.handler = routes[i].h
                /\ LET meant == match_path(upto_wildcard(routes[i].segs), parts)
                   IN  /\ Values(found.params) = Values(meant)
                       /\ Renamed(i) \/ found.params = meant
=============================================================================
