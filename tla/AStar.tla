------------------------------ MODULE AStar ------------------------------
(***************************************************************************)
(* The path search (src/astar/astar.go): a simplified A* whose nodes stay  *)
(* in a cache from one search of a map to the next.  A node carries the    *)
(* number of the search that last reached it, an unsigned byte: a node is  *)
(* new to a search when it carries another number.                         *)
(*                                                                         *)
(* The map itself is the caller's: walkable is the set of its free cells,  *)
(* of <<x, y>> with x < Width and y < Height, GridType knows a cell by its *)
(* index only, and the border a path keeps is not modelled                 *)
(* (XYI32WalkAbleBorder stops a line at a blocked cell).                   *)
(***************************************************************************)
EXTENDS Integers, Sequences, SequencesExt, FiniteSets, TLC

CONSTANTS Width, Height,
          Maps,         \* the sets of free cells a search may meet
          Rough,        \* the cells that cost 3 instead of 1
          Journeys,     \* the pairs of cells a search may be about
          Marks,        \* the numbers idx can hold: 256 in the program
          MaxSearches   \* bound of the model: searches of one map

Cells == (0 .. Width - 1) \X (0 .. Height - 1)

VARIABLES walkable,  \* the map
          mark,      \* AStar.idx
          cache,     \* AStar.nodes: by index, what outlives a search
          searches,  \* how many were made
          last       \* the last one: from, to, and what it returned

vars == <<walkable, mark, cache, searches, last>>

SamePos == "ASTAR_SAME_POS"
Founded == "ASTAR_FOUNDED"
Unreachable == "ASTAR_UNREACHABLE"

Abs(n) == IF n < 0 THEN -n ELSE n
Sign(n) == IF n < 0 THEN -1 ELSE 1
Distance(a, b) == Abs(b[1] - a[1]) + Abs(b[2] - a[2])

(* dirNormal, in its order. *)
Directions == << <<0, 1>>, <<0, -1>>, <<-1, 0>>, <<1, 0>>,
                 <<-1, 1>>, <<1, 1>>, <<-1, -1>>, <<1, -1>> >>

GridIdx(c) == c[2] * Width + c[1]

(* GridConfig.GridType: what the cell of an index is, and its cost. *)
CellOf(i) == <<i % Width, i \div Width>>
Free(i) == CellOf(i) \in walkable
Cost(i) == IF CellOf(i) \in Rough THEN 3 ELSE 1

(* The cells IsThrough and IsThroughBorder look at: all of the line from a *)
(* to b but b.  Along the longer axis the line advances by one, across it  *)
(* whenever d is not negative, which is at half a cell.                    *)
Line(a, b) ==
  LET dx == Abs(b[1] - a[1])
      dy == Abs(b[2] - a[2])
      long == IF dy < dx THEN dx ELSE dy
      Along(k, step, d) == step * ((2 * d * k + long) \div (2 * long))
  IN  {<<a[1] + Along(k, Sign(b[1] - a[1]), dx),
         a[2] + Along(k, Sign(b[2] - a[2]), dy)>> : k \in 0 .. long - 1}

IsThrough(a, b) == Line(a, b) \subseteq walkable

----------------------------------------------------------------------------
(***************************************************************************)
(* One search.  A node is known by its index; st holds the open list,      *)
(* sorted by f, the nodes, and whether the end was reached.                *)
(***************************************************************************)
(* insertOpen: in front of the first node whose f is not smaller. *)
InsertOpen(open, nodes, i) ==
  LET before == SelectSeq(open, LAMBDA j : nodes[j].f < nodes[i].f)
  IN  before \o <<i>> \o SubSeq(open, Len(before) + 1, Len(open))

(* The body of the loop over the eight directions: a cell outside, blocked *)
(* or already reached is passed over, and nothing follows the end.         *)
Visit(st, dir, cur, to, ci) ==
  LET pos == <<st.nodes[cur].pos[1] + dir[1], st.nodes[cur].pos[2] + dir[2]>>
      i == GridIdx(pos)
      known == i \in DOMAIN st.nodes
      g == st.nodes[cur].g + Cost(i)
      node == [pos |-> IF known THEN st.nodes[i].pos ELSE pos, mark |-> ci,
               parent |-> cur, g |-> g, f |-> g + Distance(st.nodes[cur].pos, to)]
      nodes == (i :> node) @@ st.nodes
  IN  IF \/ st.found
         \/ i < 0 \/ i >= (Width + 1) * (Height + 1)
         \/ ~Free(i)
         \/ known /\ st.nodes[i].mark = ci
        THEN st
        ELSE [open |-> InsertOpen(st.open, nodes, i), nodes |-> nodes,
              found |-> i = GridIdx(to)]

RECURSIVE Explore(_, _, _)
Explore(st, to, ci) ==
  IF st.found \/ st.open = <<>> THEN st
  ELSE Explore(FoldLeft(LAMBDA s, dir : Visit(s, dir, Head(st.open), to, ci),
                        [st EXCEPT !.open = Tail(@)], Directions), to, ci)

(* From the end back to the start, whose parent is itself: the positions.  *)
RECURSIVE Back(_, _)
Back(nodes, i) ==
  IF nodes[i].parent = i THEN <<nodes[i].pos>>
  ELSE <<nodes[i].pos>> \o Back(nodes, nodes[i].parent)

\* Mutant: the line is drawn to the cell itself, not to the one before it.
TurnsLate(chain) ==
  LET step(st, n) == IF IsThrough(st.from, chain[n]) THEN st
                     ELSE [from |-> chain[n], turns |-> <<chain[n]>> \o st.turns]
  IN  FoldLeft(step, [from |-> chain[1], turns |-> <<>>],
               [n \in 1 .. Len(chain) - 2 |-> n + 1]).turns

(* The turning points: a cell is one when the line from the turning point  *)
(* after it to the cell before it is not free.  The list is built from the *)
(* end and read from the start; neither end is in it.                      *)
Turns(chain) ==
  LET step(st, n) == IF IsThrough(st.from, chain[n + 1]) THEN st
                     ELSE [from |-> chain[n], turns |-> <<chain[n]>> \o st.turns]
  IN  FoldLeft(step, [from |-> chain[1], turns |-> <<>>],
               [n \in 1 .. Len(chain) - 2 |-> n + 1]).turns

Init ==
  /\ walkable \in Maps
  /\ mark = 0 /\ cache = <<>> /\ searches = 0
  /\ last = [from |-> <<0, 0>>, to |-> <<0, 0>>, result |-> SamePos, path |-> <<>>]

Answer(from, to, result, path) ==
  last' = [from |-> from, to |-> to, result |-> result, path |-> path]

Count == searches < MaxSearches /\ searches' = searches + 1

(* Search before it needs the cache. *)
SearchDirect(from, to) ==
  /\ Count
  /\ \/ from = to /\ Answer(from, to, SamePos, <<>>)
     \/ from # to /\ to \notin walkable /\ Answer(from, to, Unreachable, <<>>)
     \/ from # to /\ to \in walkable /\ IsThrough(from, to)
        /\ Answer(from, to, Founded, <<>>)
  /\ UNCHANGED <<walkable, mark, cache>>

(* Search through the cells. *)
SearchCells(from, to) ==
  LET ci == (mark + 1) % Marks
      s == GridIdx(from)
      start == [pos |-> IF s \in DOMAIN cache THEN cache[s].pos ELSE from, mark |-> ci,
                parent |-> s, g |-> 0, f |-> Distance(from, to)]
      nodes == (s :> start) @@
                 [i \in DOMAIN cache |-> [pos |-> cache[i].pos, mark |-> cache[i].mark,
                                         parent |-> i, g |-> 0, f |-> 0]]
      end == Explore([open |-> <<s>>, nodes |-> nodes, found |-> FALSE], to, ci)
  IN  /\ Count
      /\ from # to /\ to \in walkable /\ ~IsThrough(from, to)
      /\ mark' = ci
      /\ cache' = [i \in DOMAIN end.nodes |->
                     [pos |-> end.nodes[i].pos, mark |-> end.nodes[i].mark]]
      /\ IF end.found
           THEN Answer(from, to, Founded, Turns(Back(end.nodes, GridIdx(to))))
           ELSE Answer(from, to, Unreachable, <<>>)
      /\ UNCHANGED walkable

Next == \E j \in Journeys : SearchDirect(j[1], j[2]) \/ SearchCells(j[1], j[2])

Spec == Init /\ [][Next]_vars

----------------------------------------------------------------------------
Near(a, b) == a # b /\ Abs(a[1] - b[1]) <= 1 /\ Abs(a[2] - b[2]) <= 1

(* The cells that can be walked to from a set of cells. *)
RECURSIVE Reach(_)
Reach(set) ==
  LET more == {b \in walkable : \E a \in set : Near(a, b)} \ set
  IN  IF more = {} THEN set ELSE Reach(set \union more)

(***************************************************************************)
(* What a search answers is right: it finds a way exactly when there is    *)
(* one, and every leg of the way, from one turning point to the next, is a *)
(* single step or a free line.  The numbers of searches must not have      *)
(* wrapped around: after Marks searches a node of an old search passes for *)
(* one of this search and the way through it is not found.                 *)
(***************************************************************************)
SearchRight ==
  LET way == <<last.from>> \o last.path \o <<last.to>>
  IN  searches < Marks =>
        /\ last.result = Unreachable =>
             last.to \notin walkable \/ last.to \notin Reach({last.from})
        /\ last.result = Founded =>
             /\ last.to \in Reach({last.from})
             /\ \A n \in 1 .. Len(way) - 1 :
                  \/ Near(way[n], way[n + 1]) /\ way[n + 1] \in walkable
                  \/ IsThrough(way[n + 1], way[n])
                  \/ IsThrough(way[n], way[n + 1])
        /\ last.result = SamePos => last.from = last.to
=============================================================================
