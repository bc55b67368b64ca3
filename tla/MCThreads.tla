----------------------------- MODULE MCThreads -----------------------------
(* The tests of main() and others like them, for the model checker.         *)
EXTENDS Threads

T(kind, makes) == [kind |-> kind, makes |-> makes]
Slots(p, c)  == T("slots", [producer |-> p, consumer |-> c])
Shop(b, c)   == T("barber", [barber |-> b, customer |-> c])
AnyThreads(n) == T("any", [any |-> n])

GroupsOf ==
  {<<Shop(1, 1), Shop(1, 2), Shop(1, 4), Shop(1, 6),      \* as in main()
     Slots(1, 1), Slots(1, 1), Slots(2, 2)>>,
   <<Shop(2, 5), Slots(3, 2)>>, <<Slots(1, 4), Slots(2, 1)>>,
   <<AnyThreads(3)>>}
=============================================================================
