------------------------------- MODULE Router -------------------------------
(* The tree of URI parts of a site (src/ManapiSite.cpp): handlers, error      *)
(* pages, layers and static folders are registered under patterns, then a     *)
(* request walks the tree and collects its page.  A node is named by the keys *)
(* on its way from the root: a literal part is its own key, the key of a part *)
(* with titles in brackets is its regular expression.                         *)
EXTENDS Integers, FiniteSets, SequencesExt

CONSTANTS Shapes,        \* regular expressions, in the order of std::map
          Captures,      \* shape -> segment -> captured groups, <<>>: no match
          Routes,        \* the calls of set_handler that may be made
          Requests,      \* the requests: a method and the segments of a path
          MaxRoutes,     \* bound: calls of set_handler
          None

IsRegex(key) == key \in Range(Shapes)

Parts    == UNION {Range(route.parts) : route \in Routes}
Names    == UNION {Range(part.titles) : part \in Parts}
Segments == UNION {Range(r.path) : r \in Requests}
Special  == {"handlers", "errors", "layers"}

\* A part is a regex exactly if it has titles, and then captures one group for
\* each (build_uri_part escapes the text around them).  Literals and regexes
\* are in two maps of the code: no segment is the name of a shape.
ASSUME RouterAssumption ==
  /\ Shapes \in Seq(Range(Shapes))
  /\ None \notin Routes /\ MaxRoutes \in Nat
  /\ \A route \in Routes : /\ route.parts \in Seq(Parts)
                            /\ route.type \in Special /\ route.folder \in BOOLEAN
  /\ \A part \in Parts :
       /\ part.titles \in Seq(Names)
       /\ IsRegex(part.key) <=> part.titles # <<>>
       /\ IsRegex(part.key) =>
            \A seg \in Segments : Captures[part.key][seg] # <<>> =>
              Len(Captures[part.key][seg]) = Len(part.titles)
  /\ \A r \in Requests : r.path \in Seq(Segments)
  /\ Segments \cap Range(Shapes) = {}

VARIABLES tree,          \* http_uri_part of every node
          routes,        \* history: the calls of set_handler, in order
          titles,        \* regexes_title: collected and not yet taken by a part
          request,       \* what get_handler was called for
          cur,           \* the node build_uri_part or get_handler is at; its
                         \* length is the part, or the segment, they are at
          page,          \* http_handler_page and request_data.params
          phase          \* "setup", "build", "walk", "answered"

vars == <<tree, routes, titles, request, cur, page, phase>>

Kinds == Special \cup {"statics"}

\* The text of a pattern as the parts that are entered and the type its last
\* part gives: "+error", "+layer", or "handlers" for any other end ("+other"
\* and a bracket never closed are not entered and leave the type alone).
Literal(a)              == [key |-> a, titles |-> <<>>]
Regex(re, names)        == [key |-> re, titles |-> names]
Route(m, parts, type)   == [method |-> m, parts |-> parts, type |-> type, folder |-> FALSE]
Folder(m, parts, type)  == [Route(m, parts, type) EXCEPT !.folder = TRUE]

Keys(route)   == [j \in DOMAIN route.parts |-> route.parts[j].key]
KindOf(route) == IF route.folder THEN "statics" ELSE route.type

\* std::map::insert: what is there stays.
Inserted(f, x, v) == [y \in DOMAIN f \cup {x} |-> IF y \in DOMAIN f THEN f[y] ELSE v]

NewPart(names) == [params |-> names, pages |-> [k \in Kinds |-> <<>>]]

Init == /\ tree = [k \in {<<>>} |-> NewPart(<<>>)]
        /\ routes = <<>> /\ titles = <<>> /\ request = None /\ cur = <<>> /\ page = None
        /\ phase = "setup"

-----------------------------------------------------------------------------
(* Registration.                                                              *)

Known(key) == Append(cur, key) \in DOMAIN tree
Built      == Last(routes)

Set_handler(route) ==
  /\ phase = "setup" /\ Len(routes) < MaxRoutes
  /\ phase' = "build" /\ routes' = Append(routes, route)
  /\ UNCHANGED <<tree, titles, request, cur, page>>

\* Mutant of Enter: the part is made anew although it is there.
EnterAnew(part) ==
  /\ tree' = (Append(cur, part.key) :> NewPart(part.titles)) @@ tree
  /\ cur' = Append(cur, part.key)
  /\ titles' = <<>>

\* The titles collected so far name the parameters of the next regex part that
\* is new, whichever part they are of.
Enter(part) ==
  LET all   == titles \o part.titles
      taken == IsRegex(part.key) /\ ~Known(part.key)
  IN /\ tree' = Inserted(tree, Append(cur, part.key), NewPart(IF taken THEN all ELSE <<>>))
     /\ cur' = Append(cur, part.key)
     /\ titles' = IF taken THEN <<>> ELSE all

Build_uri_part ==
  /\ phase = "build" /\ Len(cur) < Len(Built.parts)
  /\ Enter(Built.parts[Len(cur) + 1])
  /\ UNCHANGED <<routes, request, page, phase>>

\* The rest of set_handler throws for a method that is there and for a folder
\* under a special page; the nodes stay.
Add_page ==
  LET kind  == KindOf(Built)
      there == tree[cur].pages[kind]
      throw == Built.method \in DOMAIN there \/ (Built.folder /\ Built.type # "handlers")
  IN /\ phase = "build" /\ Len(cur) = Len(Built.parts)
     /\ tree' = IF throw THEN tree
                ELSE [tree EXCEPT ![cur].pages[kind] = Inserted(there, Built.method, Built)]
     /\ phase' = "setup" /\ cur' = <<>> /\ titles' = <<>>
     /\ UNCHANGED <<routes, request, page>>

-----------------------------------------------------------------------------
(* get_handler.                                                               *)

Get_handler(r) ==
  /\ phase = "setup" /\ phase' = "walk" /\ request' = r
  /\ page' = [handler |-> None, layers |-> <<>>, statics |-> None, parts_len |-> 0,
              error |-> None, error_depth |-> 0, error_layers |-> <<>>, params |-> <<>>]
  /\ UNCHANGED <<tree, routes, titles, cur>>

At(kind)  == IF request.method \in DOMAIN tree[cur].pages[kind]
             THEN tree[cur].pages[kind][request.method] ELSE None

\* What an iteration takes from the node before it looks for the next one.
Collected ==
  LET layers == IF At("layers") = None THEN page.layers ELSE Append(page.layers, At("layers"))
      found  == At("errors") # None
  IN [page EXCEPT !.layers = layers,
        !.statics     = IF At("statics") = None THEN @ ELSE At("statics"),
        !.parts_len   = IF At("statics") = None THEN @ ELSE Len(cur),
        !.error       = IF found THEN At("errors") ELSE @,
        !.error_depth = IF found THEN Len(layers) ELSE @]

\* Mutant of WithErrorLayers: the error page runs every layer met.
WithAllLayers(p) == [p EXCEPT !.error_layers = p.layers]

WithErrorLayers(p) == [p EXCEPT !.error_layers = SubSeq(p.layers, 1, p.error_depth)]

Segment  == request.path[Len(cur) + 1]
\* The regex parts the segment matches, by their place in the map.
Matching == {i \in DOMAIN Shapes : Known(Shapes[i]) /\ Captures[Shapes[i]][Segment] # <<>>}
OnTheWay == phase = "walk" /\ Len(cur) < Len(request.path)

\* Mutant of Insert: a title that stands again gets the later value.
InsertOver(p, names, groups) ==
  [p EXCEPT !.params = [t \in Range(names) |->
                          groups[Min({z \in DOMAIN names : names[z] = t})]] @@ @]

\* insert() keeps the value a parameter has.
Insert(p, names, groups) ==
  [p EXCEPT !.params = [t \in DOMAIN @ \cup Range(names) |->
                          IF t \in DOMAIN @ THEN @[t]
                          ELSE groups[Min({z \in DOMAIN names : names[z] = t})]]]

Walk_literal ==
  /\ OnTheWay /\ Known(Segment)
  /\ cur' = Append(cur, Segment) /\ page' = Collected
  /\ UNCHANGED <<tree, routes, titles, request, phase>>

\* The first regex part that matches is followed.  When its parameters are not
\* as many as its groups the page is returned as it is, without the layers of
\* its error page.
Walk_regex ==
  /\ OnTheWay /\ ~Known(Segment) /\ Matching # {}
  /\ LET shape  == Shapes[Min(Matching)]
         names  == tree[Append(cur, shape)].params
         groups == Captures[shape][Segment]
     IN /\ cur' = Append(cur, shape)
        /\ IF Len(names) # Len(groups)
           THEN phase' = "answered" /\ page' = Collected
           ELSE phase' = phase /\ page' = Insert(Collected, names, groups)
  /\ UNCHANGED <<tree, routes, titles, request>>

Not_found ==
  /\ OnTheWay /\ ~Known(Segment) /\ Matching = {}
  /\ phase' = "answered" /\ page' = WithErrorLayers(Collected)
  /\ UNCHANGED <<tree, routes, titles, request, cur>>

Arrive ==
  /\ phase = "walk" /\ Len(cur) = Len(request.path)
  /\ phase' = "answered"
  /\ page' = [WithErrorLayers(Collected) EXCEPT !.handler = At("handlers")]
  /\ UNCHANGED <<tree, routes, titles, request, cur>>

Next == \/ \E route \in Routes : Set_handler(route)
        \/ Build_uri_part \/ Add_page
        \/ \E r \in Requests : Get_handler(r)
        \/ Walk_literal \/ Walk_regex \/ Not_found \/ Arrive

Spec == Init /\ [][Next]_vars

-----------------------------------------------------------------------------
(* What was registered, read without the tree.                                *)

Upto(k, j) == SubSeq(k, 1, j)
Through(k) == {n \in DOMAIN routes : /\ Len(k) <= Len(routes[n].parts)
                                     /\ \A j \in DOMAIN k : k[j] = routes[n].parts[j].key}
First(k)   == Min(Through(k))

\* The calls that register a page of a method and a kind for k and do not throw
\* because of the folder; the first of them is the one that did not throw.
Registers(n, kind, k, m) ==
  /\ routes[n].method = m /\ KindOf(routes[n]) = kind /\ Keys(routes[n]) = k
  /\ routes[n].folder => routes[n].type = "handlers"
Registered(kind, k) == {n \in DOMAIN routes : Registers(n, kind, k, request.method)}
PageAt(kind, k) == IF Registered(kind, k) = {} THEN None ELSE routes[Min(Registered(kind, k))]

\* The way a path takes: a registered literal before any regex, the first
\* regex that matches before the others, and never back.
Fits(k, i, seg) == Through(Append(k, Shapes[i])) # {} /\ Captures[Shapes[i]][seg] # <<>>
Preferred(k, seg) ==
  IF Through(Append(k, seg)) # {} THEN {seg}
  ELSE {Shapes[i] : i \in {i \in DOMAIN Shapes :
                             Fits(k, i, seg) /\ \A h \in 1..i - 1 : ~Fits(k, h, seg)}}

\* The exception: a pattern led through a regex part that others had made, so
\* the titles of both parts went to k, and no request passes k.
Spoiled(k) ==
  /\ IsRegex(Last(k))
  /\ \E j \in 1..Len(k) - 1 :
       /\ IsRegex(k[j]) /\ \A i \in j + 1..Len(k) - 1 : ~IsRegex(k[i])
       /\ First(Upto(k, j)) < First(k)

\* k follows the path, and no further than a request gets.
Follows(k) ==
  /\ Len(k) <= Len(request.path)
  /\ \A j \in DOMAIN k : /\ k[j] \in Preferred(Upto(k, j - 1), request.path[j])
                         /\ j < Len(k) => ~Spoiled(Upto(k, j))
Ends(k) ==
  \/ Len(k) = Len(request.path) \/ (k # <<>> /\ Spoiled(k))
  \/ Preferred(k, request.path[Len(k) + 1]) = {}
Ways == {<<>>} \cup UNION {Prefixes(Keys(routes[n])) : n \in DOMAIN routes}
Way  == CHOOSE k \in Ways : Follows(k) /\ Ends(k)

-----------------------------------------------------------------------------
(* Properties.                                                                *)

Answered == phase = "answered"
Barred   == Way # <<>> /\ Spoiled(Way)
\* The depth of the last node of the way whose pages count.
Bottom   == IF Barred THEN Len(Way) - 1 ELSE Len(Way)

\* What answers depends on what was registered and not on the order of the
\* registrations: the handler is the one registered for the pattern the path
\* prefers, and there is none only if none was registered there or the way is
\* spoiled (build_uri_part, set_handler and get_handler together).
HandlerByPattern ==
  Answered => page.handler = IF Barred \/ Len(Way) < Len(request.path) THEN None
                             ELSE PageAt("handlers", Way)

\* The pages registered on the way k down to bottom, outermost first.
Depths(kind, k, bottom) == {n \in 0..bottom : PageAt(kind, Upto(k, n)) # None}
Ranked(S, i) == CHOOSE n \in S : Cardinality({m \in S : m < n}) = i - 1
Enclosing(kind, k, bottom) ==
  LET on == Depths(kind, k, bottom)
  IN [i \in 1..Cardinality(on) |-> PageAt(kind, Upto(k, Ranked(on, i)))]
Innermost(pages) == IF pages = <<>> THEN None ELSE Last(pages)

\* Layers and error pages enclose what is below them: a page runs the layers
\* registered on its way, outermost first; its error page is the innermost one
\* on the way, and runs exactly the layers that enclose it too; the static
\* folder is the innermost one, and serves what follows its own parts.
LayersEnclose ==
  Answered =>
    LET folders == Enclosing("statics", Way, Bottom)
    IN /\ page.layers = Enclosing("layers", Way, Bottom)
       /\ page.error = Innermost(Enclosing("errors", Way, Bottom))
       /\ page.error_layers = IF page.error = None \/ Barred THEN <<>>
                              ELSE Enclosing("layers", Way, Len(page.error.parts))
       /\ page.statics = Innermost(folders)
       /\ folders # <<>> => page.parts_len = Len(Last(folders).parts)

\* The titles of the j-th part of k: those of the pattern that came first
\* through that part.
TitlesAt(k, j) == routes[First(Upto(k, j))].parts[j].titles
\* The title at place z of part j of k stands at an outer place too.
Outer(k, j, z) ==
  \E i \in 1..j : \E y \in DOMAIN TitlesAt(k, i) :
    (i < j \/ y < z) /\ TitlesAt(k, i)[y] = TitlesAt(k, j)[z]
\* The parameters of k's parts down to bottom.
Named(params, k, bottom) ==
  /\ \A j \in 1..bottom : \A z \in DOMAIN TitlesAt(k, j) :
       LET title == TitlesAt(k, j)[z]
       IN /\ title \in DOMAIN params
          /\ Outer(k, j, z) \/ params[title] = Captures[k[j]][request.path[j]][z]
  /\ \A title \in DOMAIN params : \E j \in 1..bottom : title \in Range(TitlesAt(k, j))

\* A page finds the parameters of every part of its way, and no other, under
\* the titles of the pattern that came first through that part, and where a
\* title stands twice the outer part's value.
ParamsNamed == Answered => Named(page.params, Way, Bottom)

\* src/ManapiSite.cpp:274 calls it a bug that a regex part has other titles
\* than groups: it should never be so.
TitlesFitGroups ==
  \A k \in DOMAIN tree \ {<<>>} : IsRegex(Last(k)) =>
    \A seg \in DOMAIN Captures[Last(k)] :
      Captures[Last(k)][seg] # <<>> => Len(Captures[Last(k)][seg]) = Len(tree[k].params)
=============================================================================
