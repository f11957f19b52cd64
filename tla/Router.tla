------------------------------- MODULE Router -------------------------------
(***************************************************************************)
(* The router compiled from the operations of an application               *)
(* (crates/blazingly-http/src/lib.rs): a table of static paths behind a    *)
(* filter, and a trie of the paths with parameters.  Recognizing walks the *)
(* trie with backtracking and tells an unknown path from a wrong method.   *)
(*                                                                         *)
(* A path is the sequence of its segments.  A path of a route may have     *)
(* Parameter as a segment; its name is left out.                           *)
(*                                                                         *)
(* The operations may come from plugins that are mounted: MountPoint and   *)
(* App::build put their paths and names together and refuse what clashes.  *)
(* A name is a sequence of words and of the separators ".", "-" and "_";   *)
(* what a plugin does not declare of its mount is <<>>.                    *)
(***************************************************************************)
EXTENDS Naturals, Sequences, SequencesExt, FiniteSets, TLC

CONSTANTS
  Literals,   \* segments
  Parameter,  \* a {name} segment of a route
  Methods,
  Templates,  \* paths of routes
  Paths,      \* paths of requests
  MaxRoutes,  \* bound of the model: operations of the application
  Modules     \* declared operations: [id, tool, method, path, mounts], where
              \* mounts are the [prefix, namespace] of the plugins it is in

\* What an instance must satisfy; the module that makes it assumes so.
RouterAssumption ==
  /\ Parameter \notin Literals
  /\ Templates \subseteq Seq(Literals \union {Parameter}) \ {<<>>}
  /\ Paths \subseteq Seq(Literals) \ {<<>>}
  /\ MaxRoutes \in Nat
  /\ \A m \in Modules : \A i \in DOMAIN m : m[i].method \in Methods

VARIABLES
  definition, \* AppDefinition.operations of mounted plugins, or what was refused
  routes,  \* the operations inserted so far, as [method, path]
  nodes,   \* Router.nodes: [static, parameter, endpoints], the root first
  table,   \* Router.static_routes: path to its endpoints by method
  filter,  \* Router.static_filter
  asked,   \* the request that is recognized, or NoRequest
  result   \* what recognize returns

vars == <<definition, routes, nodes, table, filter, asked, result>>

Empty == <<>>       \* the function with no arguments
NoNode == 0
NoRequest == [method |-> Parameter, path |-> <<>>]
NotFound == [found |-> FALSE, allowed |-> {}]
MethodNotAllowed(methods) == [found |-> FALSE, allowed |-> methods]
Match(route, captures) == [found |-> TRUE, route |-> route, captures |-> captures]

NewNode == [static |-> Empty, parameter |-> NoNode, endpoints |-> Empty]

NoPlugins == <<>>
Refused(why) == <<[refused |-> why]>>

Init ==
  /\ definition = NoPlugins
  /\ routes = {} /\ nodes = <<NewNode>> /\ table = Empty /\ filter = {}
  /\ asked = NoRequest /\ result = NotFound

-----------------------------------------------------------------------------
(* Mounting *)

ValidPluginName(name) == name # <<>> /\ "." \notin ToSet(name)
ValidMountPrefix(prefix) == prefix # <<>> /\ ToSet(prefix) \intersect {"", Parameter} = {}

MountIsValid(mount) ==
  /\ mount.prefix # <<>> => ValidMountPrefix(mount.prefix[1])
  /\ mount.namespace # <<>> => ValidPluginName(mount.namespace[1])

\* MountPoint::nested, from the outermost plugin in.
Nested(mounts) ==
  FoldLeft(LAMBDA at, mount :
             [prefix |-> at.prefix \o FlattenSeq(mount.prefix),
              namespace |-> IF mount.namespace = <<>> THEN at.namespace
                            ELSE IF at.namespace = <<>> THEN mount.namespace[1]
                            ELSE at.namespace \o <<".">> \o mount.namespace[1]],
           [prefix |-> <<>>, namespace |-> <<>>], mounts)

Underscored(name) == [i \in DOMAIN name |-> IF name[i] \in {".", "-"} THEN "_" ELSE name[i]]

\* MountPoint::apply: the path "/" of a mounted plugin is its prefix.
Mounted(operation) ==
  LET at == Nested(operation.mounts)
      named == at.namespace # <<>>
  IN [method |-> operation.method,
      path |-> IF at.prefix # <<>> /\ operation.path = <<"">> THEN at.prefix
               ELSE at.prefix \o operation.path,
      id |-> IF named THEN at.namespace \o <<".">> \o operation.id ELSE operation.id,
      tool |-> IF named THEN Underscored(at.namespace) \o <<"_">> \o operation.tool
               ELSE operation.tool]

\* AppBuilder::build: two operations of one id, or of one method and one shape
\* of path, names of parameters aside (canonical_route_shape).
SameBinding(a, b) == a.method = b.method /\ a.path = b.path
Clashes(operations) ==
  \E i, j \in DOMAIN operations :
    i < j /\ (operations[i].id = operations[j].id \/ SameBinding(operations[i], operations[j]))

\* from_plugin_with_overrides, as far as paths and names go.
Compose ==
  /\ definition = NoPlugins /\ routes = {} /\ asked = NoRequest
  /\ \E module \in Modules :
       LET operations == [i \in DOMAIN module |-> Mounted(module[i])]
       IN definition' =
            IF \E i \in DOMAIN module : \E k \in DOMAIN module[i].mounts : ~MountIsValid(module[i].mounts[k])
            THEN Refused("mount")
            ELSE IF Clashes(operations) THEN Refused("clash") ELSE operations
  /\ UNCHANGED <<routes, nodes, table, filter, asked, result>>

Composed == definition # NoPlugins /\ "refused" \notin DOMAIN definition[1]
Bindings == {[method |-> definition[i].method, path |-> definition[i].path] : i \in DOMAIN definition}

-----------------------------------------------------------------------------
(* Building *)

IsStatic(path) == Parameter \notin ToSet(path)

\* static_filter_slot: some hash of a path; this one collides.
FilterSlot(path) == Len(path)

\* The child a segment of a route leads to.
ChildFor(trie, node, segment) ==
  IF segment = Parameter THEN trie[node].parameter
  ELSE IF segment \in DOMAIN trie[node].static THEN trie[node].static[segment]
  ELSE NoNode

WithChild(trie, node, segment) ==
  LET child == Len(trie) + 1
      grown == Append(trie, NewNode)
  IN  IF segment = Parameter
      THEN [grown EXCEPT ![node].parameter = child]
      ELSE [grown EXCEPT ![node].static = @ @@ (segment :> child)]

\* The loop of insert: follow the segments, making the missing nodes.
Descend(trie, path) ==
  FoldLeft(LAMBDA at, segment :
             IF ChildFor(at.trie, at.node, segment) # NoNode
             THEN [at EXCEPT !.node = ChildFor(at.trie, at.node, segment)]
             ELSE [trie |-> WithChild(at.trie, at.node, segment), node |-> Len(at.trie) + 1],
           [trie |-> trie, node |-> 1], path)

\* insert: static paths go to the table, the others to the trie.  Two routes
\* of one method and one shape were refused by AppBuilder::build.
Insert(route) ==
  /\ definition # NoPlugins => Composed /\ route \in Bindings
  /\ asked = NoRequest /\ route \notin routes /\ Cardinality(routes) < MaxRoutes
  /\ routes' = routes \union {route}
  /\ IF IsStatic(route.path)
     THEN /\ filter' = filter \union {FilterSlot(route.path)}
          /\ LET old == IF route.path \in DOMAIN table THEN table[route.path] ELSE Empty IN
               table' = (route.path :> (old @@ (route.method :> route))) @@ table
          /\ UNCHANGED nodes
     ELSE /\ LET at == Descend(nodes, route.path) IN
               nodes' = [at.trie EXCEPT ![at.node].endpoints = @ @@ (route.method :> route)]
          /\ UNCHANGED <<table, filter>>
  /\ UNCHANGED <<definition, asked, result>>

-----------------------------------------------------------------------------
(* Recognizing *)

Nothing == [found |-> FALSE]

\* Mutant: the walk does not come back to the parameter when the static child
\* leads nowhere.
RECURSIVE WalkGreedy(_, _, _, _)
WalkGreedy(node, rest, method, captures) ==
  LET n == nodes[node] IN
  IF rest = <<>>
  THEN IF method \in DOMAIN n.endpoints THEN Match(n.endpoints[method], captures) ELSE Nothing
  ELSE IF Head(rest) \in DOMAIN n.static
  THEN WalkGreedy(n.static[Head(rest)], Tail(rest), method, captures)
  ELSE IF n.parameter = NoNode THEN Nothing
  ELSE WalkGreedy(n.parameter, Tail(rest), method, Append(captures, Head(rest)))

\* walk: the static child first, then the parameter, whose capture is popped
\* when the descent fails.
RECURSIVE Walk(_, _, _, _)
Walk(node, rest, method, captures) ==
  LET n == nodes[node] IN
  IF rest = <<>>
  THEN IF method \in DOMAIN n.endpoints THEN Match(n.endpoints[method], captures) ELSE Nothing
  ELSE LET straight == IF Head(rest) \in DOMAIN n.static
                       THEN Walk(n.static[Head(rest)], Tail(rest), method, captures)
                       ELSE Nothing
       IN  IF straight.found \/ n.parameter = NoNode THEN straight
           ELSE Walk(n.parameter, Tail(rest), method, Append(captures, Head(rest)))

\* collect_methods: the methods of every node the path can end in, which is
\* also how the walk knows that the path exists.
RECURSIVE CollectMethods(_, _)
CollectMethods(node, rest) ==
  LET n == nodes[node] IN
  IF rest = <<>> THEN DOMAIN n.endpoints
  ELSE (IF Head(rest) \in DOMAIN n.static
        THEN CollectMethods(n.static[Head(rest)], Tail(rest)) ELSE {})
       \union (IF n.parameter # NoNode
               THEN CollectMethods(n.parameter, Tail(rest)) ELSE {})

\* The row of a static path, when the filter lets it be looked up.
StaticSlot(path) ==
  IF FilterSlot(path) \in filter /\ path \in DOMAIN table THEN table[path] ELSE Empty

Recognize(method, path) ==
  /\ asked = NoRequest
  /\ asked' = [method |-> method, path |-> path]
  /\ LET slot == StaticSlot(path)
         found == Walk(1, path, method, <<>>)
         allowed == DOMAIN slot \union CollectMethods(1, path)
     IN  result' = IF method \in DOMAIN slot THEN Match(slot[method], <<>>)
                   ELSE IF found.found THEN found
                   ELSE IF allowed = {} THEN NotFound
                   ELSE MethodNotAllowed(allowed)
  /\ UNCHANGED <<definition, routes, nodes, table, filter>>

Next ==
  \/ Compose
  \/ \E route \in [method : Methods, path : Templates] \union (IF Composed THEN Bindings ELSE {}) :
       Insert(route)
  \/ \E method \in Methods, path \in Paths : Recognize(method, path)

Spec == Init /\ [][Next]_vars

-----------------------------------------------------------------------------
(* Properties *)

TypeOK ==
  /\ routes \subseteq [method : Methods, path : Templates] \union (IF Composed THEN Bindings ELSE {})
  /\ \A i \in DOMAIN nodes : nodes[i].parameter \in 0 .. Len(nodes)
  /\ filter \subseteq Nat
  /\ result.found \in BOOLEAN

Fits(template, path) ==
  /\ Len(template) = Len(path)
  /\ \A i \in DOMAIN path : template[i] \in {Parameter, path[i]}

\* The first segment where they differ is literal in the first.
MoreSpecific(s, t) ==
  \E i \in DOMAIN s :
    /\ t[i] = Parameter /\ s[i] # Parameter
    /\ \A j \in 1 .. i - 1 : s[j] = t[j]

Captures(template, path) ==
  LET Captured(got, i) == IF template[i] = Parameter THEN Append(got, path[i]) ELSE got
  IN  FoldLeft(Captured, <<>>, [i \in DOMAIN path |-> i])

\* Whatever operations there are and in whatever order they were inserted, a
\* request gets the most specific operation of its method that fits its path,
\* with the segments at the places of its parameters; without one, a path
\* that exists is answered with exactly the methods it has.
RecognizesTheBest ==
  asked # NoRequest =>
    LET fitting == {r \in routes : Fits(r.path, asked.path)}
        mine    == {r \in fitting : r.method = asked.method}
    IN  IF mine = {}
        THEN result = MethodNotAllowed({r.method : r \in fitting})
        ELSE /\ result.found
             /\ result.route \in mine
             /\ \A r \in mine \ {result.route} : MoreSpecific(result.route.path, r.path)
             /\ result.captures = Captures(result.route.path, asked.path)

\* Plugins mounted under several prefixes and names, one inside another, keep
\* apart: each operation has an id and a binding of its own, and a request for
\* its path, with values no other operation spells out, reaches it and no
\* other.  Two tools have one name only where the namespaces differ in nothing
\* but their separators, which nothing refuses.
MountsStayApart ==
  Composed =>
    /\ \A i, j \in DOMAIN definition :
         i # j => /\ definition[i].id # definition[j].id
                  /\ ~SameBinding(definition[i], definition[j])
                  /\ definition[i].tool = definition[j].tool =>
                       Underscored(definition[i].id) = Underscored(definition[j].id)
    /\ routes = Bindings =>
         \A i \in DOMAIN definition :
           LET found == IF definition[i].method \in DOMAIN StaticSlot(definition[i].path)
                        THEN Match(StaticSlot(definition[i].path)[definition[i].method], <<>>)
                        ELSE Walk(1, definition[i].path, definition[i].method, <<>>)
           IN found.found /\ SameBinding(found.route, definition[i])
=============================================================================
