------------------------------- MODULE EvHeap -------------------------------
(***************************************************************************)
(* The heap libev keeps timers and periodics in (ev.c).  A heap is a       *)
(* record: a, the array from its first used element (array[HEAP0] is       *)
(* a[1]), each element a watcher with the cached copy of its time; and ix, *)
(* the index every watcher keeps of itself (its active field, less         *)
(* HEAP0 - 1), which the heap functions maintain as they move elements.    *)
(***************************************************************************)
EXTENDS Integers, Sequences

CONSTANT DHEAP   \* branching factor: 4, or 2 when built for small code

ASSUME DHEAPAssumption == DHEAP \in {2, 4}

Parent(k) == ((k - 2) \div DHEAP) + 1
Children(k, n) == ((DHEAP * (k - 1) + 2) .. (DHEAP * k + 1)) \cap (1 .. n)

\* The first of the children with the smallest time.
MinChild(a, n, k) ==
  CHOOSE c \in Children(k, n) :
    \A d \in Children(k, n) : a[c].at < a[d].at \/ (a[c].at = a[d].at /\ c <= d)

\* Element e goes to position fin; each position j on its way takes the element at
\* next[j]; all of them note their new index.
Moved(h, e, fin, next) ==
  LET a == [j \in DOMAIN h.a |-> IF j = fin THEN e
                                 ELSE IF j \in DOMAIN next THEN h.a[next[j]] ELSE h.a[j]]
      moved == DOMAIN next \cup {fin}
  IN [a |-> a, ix |-> [w \in DOMAIN h.ix |->
        IF \E j \in moved : a[j].w = w THEN CHOOSE j \in moved : a[j].w = w ELSE h.ix[w]]]

\* Towards the root, past every parent that is later.
Upheap(h, k) ==
  LET e == h.a[k]
      Path[j \in 1 .. Len(h.a)] ==
        IF j = 1 \/ h.a[Parent(j)].at <= e.at THEN {j} ELSE {j} \cup Path[Parent(j)]
      path == Path[k]
      fin == CHOOSE j \in path : \A i \in path : j <= i
  IN Moved(h, e, fin, [j \in path \ {fin} |-> Parent(j)])

\* Away from the root, past every child that is earlier; n elements are in use.
Downheap(h, n, k) ==
  LET e == h.a[k]
      Path[j \in 1 .. Len(h.a)] ==
        IF Children(j, n) = {} THEN {j}
        ELSE IF e.at <= h.a[MinChild(h.a, n, j)].at THEN {j} ELSE {j} \cup Path[MinChild(h.a, n, j)]
      path == Path[k]
      fin == CHOOSE j \in path : \A i \in path : i <= j
  IN Moved(h, e, fin, [j \in path \ {fin} |-> MinChild(h.a, n, j)])

Adjustheap(h, n, k) ==
  IF k > 1 /\ h.a[k].at <= h.a[Parent(k)].at THEN Upheap(h, k) ELSE Downheap(h, n, k)

\* Upheap of every element in turn.
Reheap(h) ==
  LET Up[i \in 0 .. Len(h.a)] == IF i = 0 THEN h ELSE Upheap(Up[i - 1], i)
  IN Up[Len(h.a)]

\* A watcher enters at the end.
Enter(h, w, at) ==
  Upheap([a |-> Append(h.a, [at |-> at, w |-> w]), ix |-> [h.ix EXCEPT ![w] = Len(h.a) + 1]],
         Len(h.a) + 1)

\* A watcher leaves: the last element takes its place.
Leave(h, w) ==
  LET k == h.ix[w]
      n == Len(h.a) - 1
      rest == [h EXCEPT !.a = [i \in 1 .. n |-> h.a[IF i = k THEN n + 1 ELSE i]]]
  IN [(IF k <= n THEN Adjustheap(rest, n, k) ELSE rest) EXCEPT !.ix[w] = 0]

\* A watcher's time changes in place.
Retimed(h, w, at) == [h EXCEPT !.a[h.ix[w]].at = at]
=============================================================================
