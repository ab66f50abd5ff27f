-------------------------------- MODULE Orders --------------------------------
(* The elements of a finite set in a given order, as ORDER BY, sorted() and *)
(* the insertion order of a dict give them.  SelectSeq and SetToSortSeq     *)
(* cannot be expanded in a proof; this can.                                 *)
EXTENDS Naturals, FiniteSets

\* The pairs of Order put any two elements of S in one order.
StrictlyOrders(Order, S) ==
  /\ \A x \in S : <<x, x>> \notin Order
  /\ \A x, y, z \in S : <<x, y>> \in Order /\ <<y, z>> \in Order => <<x, z>> \in Order
  /\ \A x, y \in S : x # y => <<x, y>> \in Order \/ <<y, x>> \in Order

IsInOrder(seq, Order) == \A i, j \in DOMAIN seq : i < j => <<seq[i], seq[j]>> \in Order

InOrder(S, Order) == CHOOSE seq \in [1 .. Cardinality(S) -> S] : IsInOrder(seq, Order)

Less(S) == {pair \in S \X S : pair[1] < pair[2]}
Ascending(S) == InOrder(S, Less(S))
===============================================================================
