-------------------------------- MODULE Queue --------------------------------
(***************************************************************************)
(* The queues of lib/queue.c: elements linked by next, and a queue that     *)
(* holds the first of them, the place where the next one is linked, and     *)
(* their number.  An element is known by its address, a positive number.    *)
(***************************************************************************)
EXTENDS Integers, Sequences, FiniteSets, FiniteSetsExt, Functions

Null == 0

\* "last" is &q->first when it is Null, and otherwise &last->next.
QueueInit == [elements |-> <<>>, first |-> Null, last |-> Null, nelts |-> 0]

Calloc(q) == Min(1..Cardinality(DOMAIN q.elements) + 1 \ DOMAIN q.elements)

QueueAdd(q, item) ==
  LET e     == Calloc(q)
      old   == IF q.last = Null THEN q.elements
               ELSE [q.elements EXCEPT ![q.last].next = e]
  IN [elements |-> [x \in DOMAIN old \cup {e} |->
                     IF x = e THEN [next |-> Null, item |-> item] ELSE old[x]],
      first    |-> IF q.last = Null THEN e ELSE q.first,
      last     |-> e,
      nelts    |-> q.nelts + 1]

\* queue_get() of a queue that is not empty: the item, and the queue after it.
QueueFirst(q) == q.elements[q.first].item
QueueRestStays(q) ==   \* a mistake: the place of the next element is not reset
  [q EXCEPT !.first = q.elements[q.first].next, !.nelts = @ - 1,
            !.elements = Restrict(@, DOMAIN @ \ {q.first})]
QueueRest(q) ==
  LET next == q.elements[q.first].next
  IN [elements |-> Restrict(q.elements, DOMAIN q.elements \ {q.first}),
      first    |-> next,
      last     |-> IF next = Null THEN Null ELSE q.last,
      nelts    |-> q.nelts - 1]

QueueEmpty(q) == q.first = Null
QueueSize(q)  == q.nelts

\* The addresses of the elements from the first on, and what they hold.
Address(q) ==
  LET after[k \in 1..q.nelts] == IF k = 1 THEN q.first ELSE q.elements[after[k - 1]].next
  IN after
Items(q) == [k \in 1..q.nelts |-> q.elements[Address(q)[k]].item]

\* A queue as its functions leave it: a chain of nelts elements that ends at last.
QueueOK(q) ==
  IF q.nelts = 0 THEN q = QueueInit
  ELSE /\ \A k \in 1..q.nelts : Address(q)[k] \in DOMAIN q.elements
       /\ Cardinality(DOMAIN q.elements) = q.nelts
       /\ Address(q)[q.nelts] = q.last
       /\ q.elements[q.last].next = Null
=============================================================================
