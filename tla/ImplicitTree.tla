---------------------------- MODULE ImplicitTree ----------------------------
(***************************************************************************)
(* The implicit binary search tree over the entries of a log, and the      *)
(* search in it (keytrans/src/implicit.rs, guide.rs): entry x of a log of  *)
(* n entries is node x of a left-balanced tree, and the entries before     *)
(* start, where the key does not occur yet, are left out.  Callers ensure  *)
(* start < n and start <= x < n.                                           *)
(***************************************************************************)
EXTENDS Integers, FiniteSetsExt, Sequences, SequencesExt

-----------------------------------------------------------------------------
(* Left-balanced trees, whose nodes are numbered from left to right         *)
(* (keytrans/src/left_balanced.rs).  Where the code flips bits, the bits    *)
(* it flips are known to be set or clear, so it adds or subtracts them.     *)

log2(n) == IF n = 0 THEN 0 ELSE CHOOSE k \in 0 .. n : 2^k <= n /\ n < 2^(k + 1)

is_leaf(x) == x % 2 = 0

\* The number of trailing ones.
level(x) == Min({k \in 0 .. x + 1 : (x \div 2^k) % 2 = 0})

left_step(x) == x - 2^(level(x) - 1)

right_step(x) == x + 2^(level(x) - 1)

parent_step(x) ==
    LET k == level(x)
    IN  IF (x \div 2^(k + 1)) % 2 = 0 THEN x + 2^k ELSE x - 2^k

-----------------------------------------------------------------------------
(* The search tree of a log                                                 *)

RECURSIVE move_within(_, _, _)
move_within(x, start, n) ==
    IF x \in start .. n - 1 THEN x
    ELSE move_within(IF x < start THEN right_step(x) ELSE left_step(x), start, n)

root(start, n) == move_within(2^log2(n) - 1, start, n)

left(x, start, n) == move_within(left_step(x), start, n)

right(x, start, n) == move_within(right_step(x), start, n)

RECURSIVE ParentWithin(_, _)
ParentWithin(p, n) == IF p >= n THEN ParentWithin(parent_step(p), n) ELSE p

parent(x, n) == ParentWithin(parent_step(x), n)

RECURSIVE PathTo(_, _, _)
PathTo(r, x, n) ==
    IF x = r THEN << >> ELSE LET p == parent(x, n) IN <<p>> \o PathTo(r, p, n)

direct_path(x, start, n) == PathTo(root(start, n), x, n)

monitoring_path(x, start, n) ==
    SelectSeq(direct_path(x, start, n), LAMBDA p : p > x)

RECURSIVE RightSpine(_, _, _)
RightSpine(last, start, n) ==
    IF last = n - 1 THEN <<last>>
    ELSE <<last>> \o RightSpine(right(last, start, n), start, n)

frontier(start, n) == RightSpine(root(start, n), start, n)

monitoring_frontier(front, entries) ==
    LET at == Max({i \in DOMAIN front : front[i] \in entries})
    IN  SubSeq(front, at + 1, Len(front))

full_monitoring_path(entry, start, n) ==
    LET path == monitoring_path(entry, start, n)
    IN  path \o monitoring_frontier(frontier(start, n), Range(path) \union {entry})

-----------------------------------------------------------------------------
(* The search in the tree (keytrans/src/guide.rs): the guide says which     *)
(* entry of the log comes next, the server's proof gives the version of the *)
(* key at that entry.                                                       *)

for_version(version, pos, n) ==
    [pos |-> pos, n |-> n, version |-> version, ids |-> <<root(pos, n)>>,
     sorted |-> << >>, is_frontier |-> FALSE]

for_most_recent(pos, n) ==
    [pos |-> pos, n |-> n, version |-> 0, ids |-> frontier(pos, n),
     sorted |-> << >>, is_frontier |-> TRUE]

new(version, pos, n) ==
    IF version = << >> THEN for_most_recent(pos, n) ELSE for_version(version[1], pos, n)

Monotonic(sorted) ==
    \A i \in 1 .. Len(sorted) - 1 : sorted[i].version <= sorted[i + 1].version

NextId(g, last) ==
    LET ctr == SelectSeq(g.sorted, LAMBDA e : e.id = last)[1].version
    IN  IF ctr < g.version
        THEN IF last = g.n - 1 THEN << >> ELSE <<right(last, g.pos, g.n)>>
        ELSE IF last = g.pos THEN << >> ELSE <<left(last, g.pos, g.n)>>

FrontierRead(g) ==
    IF ~g.is_frontier THEN [guide |-> g, last |-> Last(g.ids)]
    ELSE LET version == Last(g.sorted).version
         IN  [guide |-> [g EXCEPT !.version = version, !.is_frontier = FALSE],
              last |-> SelectSeq(g.sorted, LAMBDA e : e.version = version)[1].id]

poll(g) ==
    IF Len(g.ids) > Len(g.sorted) THEN [verdict |-> "running", guide |-> g]
    ELSE LET ordered == [g EXCEPT !.sorted = SortSeq(@, LAMBDA a, b : a.id < b.id)]
             at == FrontierRead(ordered)
             next == IF is_leaf(at.last) THEN << >> ELSE NextId(at.guide, at.last)
         IN  IF ~Monotonic(ordered.sorted)
             THEN [verdict |-> "InvalidState", guide |-> ordered]
             ELSE [verdict |-> IF next = << >> THEN "done" ELSE "running",
                   guide |-> [at.guide EXCEPT !.ids = @ \o next]]

next_id(g) == g.ids[Len(g.sorted) + 1]

insert(g, id, ctr) == [g EXCEPT !.sorted = Append(@, [id |-> id, version |-> ctr])]

\* The smallest entry looked up with the version searched for, if there is one.
result(g) ==
    LET reached == SelectSeq(g.sorted, LAMBDA e : e.version >= g.version)
    IN  IF reached = << >> \/ Head(reached).version # g.version THEN << >>
        ELSE <<Head(reached).id>>

\* consume's loop over a log that gives the version at every entry.
RECURSIVE consume(_, _)
consume(g, log) ==
    LET polled == poll(g)
        id == next_id(polled.guide)
    IN  IF polled.verdict = "running" THEN consume(insert(polled.guide, id, log[id]), log)
        ELSE polled
=============================================================================
