----------------------------- MODULE MCQueries -----------------------------
(* Queries for TLC: two scenes of the cache, seven messages in two          *)
(* databases, and two scenes of the texts.                                  *)
EXTENDS Queries, TLC

CONSTANTS a, b, c1, c2, p1, p2, p3, i1, u1, u2

\* A query that names the account it reads, one that reads another than the key is
\* inferred for, and one over a window that moves with the clock.
Own == [inferred |-> a, actual |-> a, window |-> "dated"]
Other == [inferred |-> a, actual |-> b, window |-> "dated"]
Moving == [inferred |-> a, actual |-> a, window |-> "moving"]

\* The accounts are refreshed and forgotten within a day; or the day ends, and
\* windows move with the clock.
MCCacheScenes ==
  {[accounts |-> {a, b}, requests |-> {Own, Other}, forgettable |-> {a},
    maxversion |-> (a :> 2 @@ b :> 1), maxclock |-> 0],
   [accounts |-> {a}, requests |-> {Own, Moving}, forgettable |-> {a},
    maxversion |-> (a :> 1), maxclock |-> 1]}

MCConns == {c1, c2}
MCSizes == [indexed \in BOOLEAN |-> IF indexed THEN {2} ELSE {1}]

\* Two databases: sequences in and out of step with the time, equal ones in both,
\* and one message without any.
MCShards == {"s1", "s2"}
MCMessages ==
  {[shard |-> "s1", id |-> 1, time |-> 1, seq |-> 1], [shard |-> "s1", id |-> 2, time |-> 1, seq |-> 2],
   [shard |-> "s1", id |-> 3, time |-> 3, seq |-> 2], [shard |-> "s1", id |-> 4, time |-> 3, seq |-> 0],
   [shard |-> "s2", id |-> 5, time |-> 2, seq |-> 2], [shard |-> "s2", id |-> 6, time |-> 2, seq |-> 3],
   [shard |-> "s2", id |-> 7, time |-> 3, seq |-> 1]}

\* Two commands over one image, or one over two voices.
MCTextScenes ==
  {[procs |-> {p1, p2}, images |-> {i1}, voices |-> {}],
   [procs |-> {p3}, images |-> {}, voices |-> {u1, u2}]}

Symmetry == Permutations({c1, c2}) \union Permutations({p1, p2})
=============================================================================
