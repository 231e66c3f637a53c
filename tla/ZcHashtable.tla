---------------------------- MODULE ZcHashtable ----------------------------
(***************************************************************************)
(* The hash table of zlog (zc_hashtable.c), which keeps the categories,    *)
(* the records and the mapped diagnostic context of each thread: an array  *)
(* of buckets, each a doubly linked list of entries, twice as long when    *)
(* the table is too full.  Keys are unique, so an entry is known by its    *)
(* key.  It is shown to implement the map of KeyMap.                       *)
(***************************************************************************)
EXTENDS Integers, FiniteSets, FiniteSetsExt, Functions, Sequences

CONSTANTS HKeys, HValues,
          Hash,            \* key -> Nat: zc_hashtable_str_hash, or another
          TabSize,         \* buckets of a new table
          NoKey            \* a null pointer

ASSUME HashAssumption ==
  IsFiniteSet(HKeys) /\ Hash \in [HKeys -> Nat] /\ TabSize \in Nat \ {0} /\ NoKey \notin HKeys

VARIABLES tab,             \* bucket -> first entry
          next, prev,      \* entry -> entry
          value,           \* entry -> value, for the entries in the table
          nelem,
          freed,           \* values given to value_del by the last operation
          cursor           \* of an iteration: the entry and those seen before it

hashVars == <<tab, next, prev, value, nelem, freed, cursor>>

NoCursor == [at |-> NoKey, seen |-> {}]
Size(t) == Cardinality(DOMAIN t)
Bucket(t, k) == Hash[k] % Size(t)

HashInit ==
  /\ tab = [i \in 0..TabSize - 1 |-> NoKey]
  /\ next = <<>> /\ prev = <<>> /\ value = <<>>
  /\ nelem = 0 /\ freed = {} /\ cursor = NoCursor

\* The list of a bucket, walked from its first entry.
Walk[n \in 0..Cardinality(HKeys)] ==
  [p \in HKeys \cup {NoKey} |->
     IF n = 0 \/ p = NoKey THEN <<>> ELSE <<p>> \o Walk[n - 1][next[p]]]
List(i) == Walk[Cardinality(HKeys)][tab[i]]

\* zc_hashtable_get_entry, zc_hashtable_get.
Entry(k) == IF k \in Range(List(Bucket(tab, k))) THEN k ELSE NoKey
Get(k) == IF Entry(k) = NoKey THEN {} ELSE {value[k]}

\* An entry is put at the head of its bucket.
Linked_NoPrev(st, k) ==
  LET i == Bucket(st.tab, k)
      head == st.tab[i]
  IN [tab |-> [st.tab EXCEPT ![i] = k],
      next |-> [e \in DOMAIN st.next \cup {k} |-> IF e = k THEN head ELSE st.next[e]],
      prev |-> [e \in DOMAIN st.prev \cup {k} |-> IF e = k THEN NoKey ELSE st.prev[e]]]
Linked(st, k) ==
  LET i == Bucket(st.tab, k)
      head == st.tab[i]
  IN [tab |-> [st.tab EXCEPT ![i] = k],
      next |-> [e \in DOMAIN st.next \cup {k} |-> IF e = k THEN head ELSE st.next[e]],
      prev |-> [e \in DOMAIN st.prev \cup {k} |->
                  IF e = k THEN NoKey ELSE IF e = head THEN k ELSE st.prev[e]]]

\* zc_hashtable_rehash: every entry of every bucket, in order, into a table
\* twice as long.
InOrder[i \in 0..Size(tab)] == IF i = 0 THEN <<>> ELSE InOrder[i - 1] \o List(i - 1)
Order == InOrder[Size(tab)]
Refilled[n \in 0..Len(Order)] ==
  IF n = 0
    THEN [tab |-> [i \in 0..2 * Size(tab) - 1 |-> NoKey], next |-> <<>>, prev |-> <<>>]
    ELSE Linked(Refilled[n - 1], Order[n])
Rehashed == Refilled[Len(Order)]
\* nelem > tab_size * 1.3
TooFull == 10 * nelem > 13 * Size(tab)

\* zc_hashtable_put.
Put(k, v) ==
  /\ cursor = NoCursor
  /\ IF Entry(k) # NoKey
       THEN /\ value' = [value EXCEPT ![k] = v]
            /\ freed' = {value[k]}
            /\ UNCHANGED <<tab, next, prev, nelem>>
       ELSE LET st == Linked(IF TooFull THEN Rehashed
                             ELSE [tab |-> tab, next |-> next, prev |-> prev], k)
            IN /\ tab' = st.tab /\ next' = st.next /\ prev' = st.prev
               /\ value' = [e \in DOMAIN value \cup {k} |-> IF e = k THEN v ELSE value[e]]
               /\ nelem' = nelem + 1 /\ freed' = {}
  /\ UNCHANGED cursor

\* zc_hashtable_remove: the entry is taken out of its list.
Unlinked(k) ==
  [tab |-> IF prev[k] = NoKey THEN [tab EXCEPT ![Bucket(tab, k)] = next[k]] ELSE tab,
   next |-> [e \in DOMAIN next \ {k} |-> IF e = prev[k] THEN next[k] ELSE next[e]],
   prev |-> [e \in DOMAIN prev \ {k} |-> IF e = next[k] THEN prev[k] ELSE prev[e]]]
RemoveKey(k) ==
  /\ cursor = NoCursor
  /\ IF Entry(k) = NoKey
       THEN freed' = {} /\ UNCHANGED <<tab, next, prev, value, nelem>>
       ELSE LET st == Unlinked(k)
            IN /\ tab' = st.tab /\ next' = st.next /\ prev' = st.prev
               /\ value' = [e \in DOMAIN value \ {k} |-> value[e]]
               /\ nelem' = nelem - 1 /\ freed' = {value[k]}
  /\ UNCHANGED cursor

\* zc_hashtable_clean.
Clean ==
  /\ cursor = NoCursor
  /\ tab' = [i \in DOMAIN tab |-> NoKey]
  /\ next' = <<>> /\ prev' = <<>> /\ value' = <<>>
  /\ nelem' = 0 /\ freed' = Range(value)
  /\ UNCHANGED cursor

\* zc_hashtable_begin and zc_hashtable_next.
FirstFrom(i) ==
  LET full == {j \in DOMAIN tab : j >= i /\ tab[j] # NoKey}
  IN  IF full = {} THEN NoKey ELSE tab[Min(full)]
NextEntry_SameBucket(k) == IF next[k] # NoKey THEN next[k] ELSE FirstFrom((Hash[k] % TabSize) + 1)
NextEntry(k) == IF next[k] # NoKey THEN next[k] ELSE FirstFrom(Bucket(tab, k) + 1)
IterBegin ==
  /\ cursor = NoCursor /\ nelem > 0
  /\ cursor' = [at |-> FirstFrom(0), seen |-> {}]
  /\ UNCHANGED <<tab, next, prev, value, nelem, freed>>
IterNext ==
  /\ cursor.at # NoKey
  /\ cursor' = [at |-> NextEntry(cursor.at), seen |-> cursor.seen \cup {cursor.at}]
  /\ UNCHANGED <<tab, next, prev, value, nelem, freed>>
IterEnd ==
  /\ cursor.at = NoKey /\ cursor.seen # {}
  /\ cursor' = NoCursor
  /\ UNCHANGED <<tab, next, prev, value, nelem, freed>>

HashNext ==
  \/ \E k \in HKeys : RemoveKey(k) \/ \E v \in HValues : Put(k, v)
  \/ Clean \/ IterBegin \/ IterNext \/ IterEnd

HashSpec == HashInit /\ [][HashNext]_hashVars

-----------------------------------------------------------------------------
\* What the table promises: a map from keys to values, and that each value it
\* held is handed to value_del once when it is replaced or dropped.
Map == INSTANCE KeyMap WITH Keys <- HKeys, Values <- HValues,
         map <- [k \in HKeys |-> Get(k)], given <- freed
ImplementsMap == Map!MapSpec

\* The links go both ways, and nelem counts the entries that can be reached.
ListsSound ==
  /\ nelem = Cardinality({k \in HKeys : Entry(k) # NoKey})
  /\ \A k \in DOMAIN next :
       /\ next[k] # NoKey => prev[next[k]] = k
       /\ prev[k] # NoKey => next[prev[k]] = k

\* An iteration gives every entry once.
IterationComplete ==
  /\ cursor.at \notin cursor.seen
  /\ cursor.at = NoKey /\ cursor.seen # {} => cursor.seen = DOMAIN value

\* The lists stay sound while entries are added, replaced, removed and moved by
\* zc_hashtable_rehash, so that zc_hashtable_begin and _next come by each entry once.
HashSound == ListsSound /\ IterationComplete
=============================================================================
