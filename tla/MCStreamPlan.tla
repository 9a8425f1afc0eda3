---------------------------- MODULE MCStreamPlan ----------------------------
(* Even, uneven and partly used slot offers of two TaskManagers.           *)
EXTENDS StreamPlan

Offer(tm, total, used) == [tm |-> tm, total |-> total, used |-> used]

SmallOffers ==
  {<<Offer("A", 2, 1), Offer("B", 2, 0)>>,
   <<Offer("A", 1, 0), Offer("B", 4, 1)>>,
   <<Offer("A", 3, 0), Offer("B", 3, 0)>>}
=============================================================================
