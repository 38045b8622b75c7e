------------------------------- MODULE Router -------------------------------
(* The routing tree of httpd (httpd/router.go): Get, Group, GetWebsocket,    *)
(* SetInterceptor fill it, routerHandler looks requests up.                  *)
(*                                                                           *)
(* A handler is named by its path in the tree: a sequence of segments, ":"   *)
(* and "*" standing for the one parameter a router may have.  <<>> is the    *)
(* Engine's router itself.  A URI is the sequence of the parts between its   *)
(* slashes; the last one is "" when it ends in a slash.                      *)
EXTENDS Integers, Sequences, SequencesExt, FiniteSets, TLC

CONSTANTS Routes,        \* URIs that may be registered: sequences of segments
          Paths,         \* URIs of requests
          MaxRoutes,     \* bound: number of registrations
          None

Param == {":", "*"}

VARIABLES tree,      \* handlers: [f, r (has a router), rType, rName, interceptor]
          routes,    \* what has been registered, in order (history)
          panicked   \* the last registration was refused

vars == <<tree, routes, panicked>>

NewHandler == [f |-> None, r |-> FALSE, rType |-> "", rName |-> "", interceptor |-> None]

\* readParam.  A segment is <<"a">>, or <<":", name>>, or <<"*", name>>.
Key(seg) == seg[1]
IsParam(seg) == seg[1] \in Param

Init ==
  /\ tree = (<<>> :> [NewHandler EXCEPT !.r = TRUE])
  /\ routes = <<>>
  /\ panicked = FALSE

-----------------------------------------------------------------------------
(* insertPathsGroup: one step of its loop.  a.at is the handler whose router *)
(* is searched; f is given to the last one.                                  *)
PutParam(a, seg, last, f) ==
  LET g   == a.tree[a.at]
      key == Append(a.at, Key(seg))
      old == IF key \in DOMAIN a.tree THEN a.tree[key] ELSE NewHandler
      literals == {k \in DOMAIN a.tree : Len(k) = Len(key) /\ Front(k) = a.at /\ Last(k) \notin Param}
      duplicate == \/ g.rType = "*"
                   \/ g.rType # "" /\ <<g.rType, g.rName>> # seg
                   \/ Key(seg) = "*" /\ literals # {}
                   \/ last /\ old.f # None
  IN  IF duplicate THEN [a EXCEPT !.panic = TRUE]
      ELSE [a EXCEPT !.at = key,
              !.tree = (key :> [old EXCEPT !.r = TRUE, !.f = IF last THEN f ELSE @])
                       @@ [@ EXCEPT ![a.at].r = TRUE, ![a.at].rType = seg[1], ![a.at].rName = seg[2]]]

PutLiteral(a, seg, last, f) ==
  LET key == Append(a.at, Key(seg))
      old == IF key \in DOMAIN a.tree THEN a.tree[key] ELSE NewHandler
  IN  IF a.tree[a.at].rType = "*" \/ (last /\ old.f # None /\ f # None)
      THEN [a EXCEPT !.panic = TRUE]
      ELSE [a EXCEPT !.at = key,
              !.tree = (key :> [old EXCEPT !.f = IF last /\ f # None THEN f ELSE @])
                       @@ [@ EXCEPT ![a.at].r = TRUE]]

Insert(t, from, segs, f) ==
  FoldLeft(LAMBDA a, i :
             CASE a.panic -> a
               [] ~a.panic /\ IsParam(segs[i]) -> PutParam(a, segs[i], i = Len(segs), f)
               [] OTHER -> PutLiteral(a, segs[i], i = Len(segs), f),
           [tree |-> t, at |-> from, panic |-> FALSE], [i \in 1..Len(segs) |-> i])

Root == <<"/">>
Labels(segs) == [i \in DOMAIN segs |-> Key(segs[i])]

\* Get of the Engine or of a group, GetWebsocket: f is the handler
Register(segs) ==
  /\ Len(routes) < MaxRoutes
  /\ LET a == Insert(tree, <<>>, <<Root>> \o segs, <<Root>> \o segs)
     IN  /\ tree' = a.tree
         /\ panicked' = a.panic
         /\ routes' = IF a.panic THEN routes ELSE Append(routes, <<Root>> \o segs)

\* Group(...).SetInterceptor: a handler without f; stops says what it answers
SetInterceptor(segs, stops) ==
  /\ Len(routes) < MaxRoutes
  /\ LET a == Insert(tree, <<>>, <<Root>> \o segs, None)
     IN  /\ tree' = IF a.panic THEN a.tree ELSE [a.tree EXCEPT ![a.at].interceptor = stops]
         /\ panicked' = a.panic
         /\ UNCHANGED routes

Next ==
  /\ ~panicked
  /\ \/ \E segs \in Routes : Register(segs)
     \/ \E segs \in Routes, stops \in BOOLEAN :
          /\ \A k \in DOMAIN tree : tree[k].interceptor = None
          /\ SetInterceptor(segs, stops)

Spec == Init /\ [][Next]_vars

-----------------------------------------------------------------------------
\* Mutant: a slash at the end of the URI counts as one more part.
IsEndStrict(path, i) == i = Len(path)

(* routerHandler.  a.at is the handler whose router is searched for part i   *)
(* of the URI, 0 being the root.                                             *)
IsEnd(path, i) == i = Len(path) \/ (i = Len(path) - 1 /\ Last(path) = "")

Found(a, key, path, i) ==
  LET h == tree[key] IN
  CASE IsEnd(path, i) -> [a EXCEPT !.result = h.f, !.done = TRUE]
    [] ~IsEnd(path, i) /\ h.interceptor = TRUE -> [a EXCEPT !.result = None, !.done = TRUE]
    [] OTHER -> [a EXCEPT !.at = key]

ByParam(a, path, i) ==
  LET g   == tree[a.at]
      now == IF i = 0 THEN "/" ELSE path[i]
      h   == Append(a.at, ":")
  IN  CASE g.rType = "*" -> [a EXCEPT !.result = tree[Append(a.at, "*")].f, !.done = TRUE,
                                      !.params = @ @@ (g.rName :> SubSeq(path, i, Len(path)))]
        [] g.rType = ":" ->
             LET b == [a EXCEPT !.params = (g.rName :> <<now>>) @@ @]
             IN  IF IsEnd(path, i) THEN [b EXCEPT !.result = tree[h].f, !.done = TRUE]
                 ELSE [b EXCEPT !.at = h]
        [] OTHER -> [a EXCEPT !.result = None, !.done = TRUE]

\* a handler that is no group has no router: the look-up panics
Part(a, path, i) ==
  LET key == Append(a.at, IF i = 0 THEN "/" ELSE path[i]) IN
  CASE a.done -> a
    [] ~a.done /\ ~tree[a.at].r -> [a EXCEPT !.panic = TRUE, !.done = TRUE]
    [] ~a.done /\ tree[a.at].r /\ key \in DOMAIN tree /\ Last(key) \notin Param -> Found(a, key, path, i)
    [] OTHER -> ByParam(a, path, i)

Lookup(path) ==
  FoldLeft(LAMBDA a, i : Part(a, path, i - 1),
           [at |-> <<>>, result |-> None, params |-> <<>>, done |-> FALSE, panic |-> FALSE],
           [i \in 1..(Len(path) + 1) |-> i])

-----------------------------------------------------------------------------
(* What a route promises: the parts of the URI, one by one, a trailing slash *)
(* apart; ":" takes one part, "*" all that are left.                         *)
Parts(path) == <<"/">> \o (IF path # <<>> /\ Last(path) = "" THEN Front(path) ELSE path)

Matches(route, path) ==
  LET ps == Parts(path)
      n  == Len(route)
  IN  /\ IF IsParam(route[n]) /\ route[n][1] = "*" THEN Len(ps) >= n ELSE Len(ps) = n
      /\ \A i \in 1..n : IsParam(route[i]) \/ route[i] = <<ps[i]>>

\* a literal of another route takes the look-up away from the parameter
Shadowed(route, path) ==
  LET ps == Parts(path) IN
  \E i \in DOMAIN route : /\ IsParam(route[i])
                          /\ Append(SubSeq(Labels(route), 1, i - 1), ps[i]) \in DOMAIN tree

Stopped(route, path) ==
  \E i \in 1..(Len(route) - 1) : tree[SubSeq(Labels(route), 1, i)].interceptor = TRUE

(* RoutesRight: a request gets a handler whose route matches its URI, with   *)
(* the parameters of the URI; and it gets one if a route matches that is not *)
(* shadowed by a literal and whose groups let it pass.                       *)
RoutesRight ==
  ~panicked => \A path \in Paths :
    LET a == Lookup(path) IN
    /\ a.result # None =>
         /\ a.result \in ToSet(routes) /\ Matches(a.result, path)
         /\ \A i \in DOMAIN a.result :
              IsParam(a.result[i]) /\ a.result[i][1] = ":" => a.params[a.result[i][2]] = <<Parts(path)[i]>>
    /\ \A j \in DOMAIN routes :
         /\ Matches(routes[j], path) /\ ~Shadowed(routes[j], path) /\ ~Stopped(routes[j], path)
         => a.result # None

(* GroupsIntercept: no request gets past a group that stops it.  The groups  *)
(* of a parameter are not asked: router.go:118 promises that every           *)
(* interceptor but that of the last part is, the case of ':' has no such     *)
(* call.                                                                     *)
GroupsIntercept ==
  \A path \in Paths :
    LET r == Lookup(path).result IN
    r # None => \A i \in 1..(Len(r) - 1) :
      ~IsParam(r[i]) => tree[SubSeq(Labels(r), 1, i)].interceptor # TRUE
=============================================================================
