--------------------------- MODULE MCOperationGraph ---------------------------
(***************************************************************************)
(* Instances of OperationGraph for model checking.  A graph is given by    *)
(* its edges; an operation without an edge of a kind has none.             *)
(***************************************************************************)
EXTENDS OperationGraph

After(edges)  == [o \in Ops |-> {e[1] : e \in {d \in edges : d[2] = o}}]
Follows(edges) == [o \in Ops |-> IF \E e \in edges : e[1] = o
                                 THEN (CHOOSE e \in edges : e[1] = o)[2] ELSE None]
NoBranch == [o \in Ops |-> {}]
Branches(c, ids) == [o \in Ops |-> IF o = c THEN ids ELSE {}]

\* 1 and 5 start together and 2 comes after 5; 1 and 2 both report their
\* failure to 3, 1 its success to 4.  The condition 6 comes after 4 and
\* selects 7 or 8.
RouteAfter   == After({<<5, 2>>, <<4, 6>>, <<6, 7>>, <<6, 8>>})
RouteSuccess == Follows({<<1, 4>>})
RouteFailure == Follows({<<1, 3>>, <<2, 3>>})
RouteThen    == Branches(6, {7})
RouteElse    == Branches(6, {8})

\* 1 and 5 start together, 4 follows the success of 5.  The condition 2 and
\* 3 come after 1, in one round; 2 selects 3 or 4.
LooseAfter   == After({<<1, 2>>, <<1, 3>>})
LooseSuccess == Follows({<<5, 4>>})
LooseThen    == Branches(2, {3})
LooseElse    == Branches(2, {4})

\* 3 follows the success of 1 and the failure of 2; 4 the failure of 1.
CrossAfter   == After({})
CrossSuccess == Follows({<<1, 3>>})
CrossFailure == Follows({<<1, 4>>, <<2, 3>>})

\* 2 handles the failure of 1, 3 needs 2.
HandlerAfter   == After({<<2, 3>>})
HandlerFailure == Follows({<<1, 2>>})

\* The condition 1 selects 2 or 3; 4 is independent of it.
ForkAfter == After({<<1, 2>>, <<1, 3>>})
ForkThen  == Branches(1, {2})
ForkElse  == Branches(1, {3})

NoAfter  == After({})
NoFollow == Follows({})
=============================================================================
