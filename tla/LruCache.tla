------------------------------- MODULE LruCache -------------------------------
(***************************************************************************)
(* lru_cache.c: a cache of bounded capacity made of a doubly linked list,  *)
(* most recently used node first, and a hash table from keys to nodes.     *)
(*                                                                         *)
(* The list is modelled at the level of its pointers, the chain of a hash  *)
(* bucket as the sequence of its entries.  Memory is modelled as far as it *)
(* can go wrong: which nodes are allocated, and that malloc may fail.      *)
(***************************************************************************)
EXTENDS Integers, Sequences, SequencesExt, FiniteSets

CONSTANTS
  Keys, Values,
  CapacityInputs,   \* what createCache may be given
  MAX_CAPACITY,     \* 1000 in the code
  BucketOf,         \* key -> hash bucket
  Nodes,            \* the addresses malloc can return for a CacheNode
  MayFail,          \* whether malloc may return NULL
  NULL

NodePointers == Nodes \cup {NULL}
Buckets == { BucketOf[k] : k \in Keys }

ASSUME CacheAssumption ==
  /\ NULL \notin Keys \cup Values \cup Nodes /\ IsFiniteSet(Nodes)
  /\ MAX_CAPACITY \in Nat /\ Cardinality(Nodes) > MAX_CAPACITY
  /\ CapacityInputs \subseteq Int /\ MayFail \in BOOLEAN

VARIABLES
  state,            \* "running", "ended" or "failed": exit(EXIT_FAILURE) or return 1
  capacity, size,   \* capacity = 0: cache is NULL
  list,             \* the list: head, tail, and the links of every node
  key, value,       \* node -> its contents
  buckets,          \* bucket -> the entries of its chain
  allocated,        \* the nodes in use
  printed           \* what the last get found

cacheVars == <<state, capacity, size, list, key, value, buckets, allocated, printed>>

NoList ==
  [head |-> NULL, tail |-> NULL,
   previous |-> [n \in Nodes |-> NULL], next |-> [n \in Nodes |-> NULL]]

CacheInit ==
  /\ state = "running" /\ capacity = 0 /\ size = 0
  /\ list = NoList
  /\ key = [n \in Nodes |-> NULL] /\ value = [n \in Nodes |-> NULL]
  /\ buckets = [b \in Buckets |-> <<>>]
  /\ allocated = {} /\ printed = NULL

-----------------------------------------------------------------------------
\* The hash table.
hash_find_entry(k) ==
  LET chain == buckets[BucketOf[k]]
      hits == { i \in DOMAIN chain : chain[i].key = k }
  IN IF hits = {} THEN NULL ELSE chain[CHOOSE i \in hits : \A j \in hits : i <= j].node

hash_insert_entry(table, k, n) ==
  LET chain == table[BucketOf[k]]
      hits == { i \in DOMAIN chain : chain[i].key = k }
  IN [table EXCEPT ![BucketOf[k]] =
        IF hits = {} THEN <<[key |-> k, node |-> n]>> \o @
        ELSE [@ EXCEPT ![CHOOSE i \in hits : \A j \in hits : i <= j].node = n]]

\* Mutant: the entry of an evicted key stays.
hash_remove_entry_none(table, k) == table

hash_remove_entry(table, k) ==
  LET chain == table[BucketOf[k]]
      hits == { i \in DOMAIN chain : chain[i].key = k }
  IN IF hits = {} THEN table
     ELSE [table EXCEPT ![BucketOf[k]] =
             RemoveAt(@, CHOOSE i \in hits : \A j \in hits : i <= j)]

-----------------------------------------------------------------------------
\* The list operations, on a list l.
insert_node_front(l, n) ==
  LET linked == [l EXCEPT !.previous[n] = NULL, !.next[n] = l.head]
      back == IF l.head = NULL THEN linked ELSE [linked EXCEPT !.previous[l.head] = n]
  IN [back EXCEPT !.head = n, !.tail = IF l.tail = NULL THEN n ELSE @]

\* Mutant: the tail is not moved back when the last node is used.
move_node_to_front_tail(l, n) ==
  IF l.head = n THEN l
  ELSE LET p == l.previous[n]
           q == l.next[n]
           before == IF p = NULL THEN l ELSE [l EXCEPT !.next[p] = q]
           after == IF q = NULL THEN before ELSE [before EXCEPT !.previous[q] = p]
       IN insert_node_front(after, n)

move_node_to_front(l, n) ==
  IF l.head = n THEN l
  ELSE LET p == l.previous[n]
           q == l.next[n]
           before == IF p = NULL THEN l ELSE [l EXCEPT !.next[p] = q]
           after == IF q = NULL THEN before ELSE [before EXCEPT !.previous[q] = p]
           out == IF l.tail = n THEN [after EXCEPT !.tail = p] ELSE after
       IN insert_node_front(out, n)

remove_tail_node(l) ==
  LET n == l.tail
      p == l.previous[n]
      out == IF p = NULL THEN [l EXCEPT !.head = NULL, !.tail = NULL]
             ELSE [l EXCEPT !.tail = p, !.next[p] = NULL]
  IN [out EXCEPT !.previous[n] = NULL, !.next[n] = NULL]

\* The nodes met by following links from start: one more than there are when
\* the links run in a circle.
Follow(start, links) ==
  LET after == [p \in NodePointers |-> IF p = NULL THEN NULL ELSE links[p]]
      walk[n \in 1 .. Cardinality(Nodes) + 1] == IF n = 1 THEN start ELSE after[walk[n - 1]]
      steps == { n \in DOMAIN walk : walk[n] # NULL }
  IN SubSeq([n \in DOMAIN walk |-> walk[n]], 1, Cardinality(steps))
Forward == Follow(list.head, list.next)
Backward == Follow(list.tail, list.previous)

-----------------------------------------------------------------------------
\* The commands.  A line that is rejected (no cache yet, a key that is no
\* integer, a missing word, an unknown command) changes nothing.
Lines == state = "running"

\* Memory after free(): the set of nodes gone, their contents forgotten.
Freed(gone) ==
  /\ allocated' = allocated \ gone
  /\ key' = [n \in Nodes |-> IF n \in gone THEN NULL ELSE key[n]]
  /\ value' = [n \in Nodes |-> IF n \in gone THEN NULL ELSE value[n]]

\* Mutant: only the head is freed.
lru_free_head ==
  /\ Freed({list.head} \ {NULL})
  /\ list' = NoList /\ buckets' = [b \in Buckets |-> <<>>] /\ size' = 0

lru_free ==
  /\ Freed(ToSet(Forward))
  /\ list' = NoList /\ buckets' = [b \in Buckets |-> <<>>] /\ size' = 0

\* Mutant: the upper bound is not checked.
createCache_unchecked(c) ==
  /\ Lines /\ c >= 1
  /\ lru_free
  /\ \/ capacity' = c /\ UNCHANGED state
     \/ MayFail /\ capacity' = 0 /\ state' = "failed"
  /\ UNCHANGED printed

createCache(c) ==
  /\ Lines /\ c >= 1 /\ c <= MAX_CAPACITY
  /\ lru_free
  /\ \/ capacity' = c /\ UNCHANGED state
     \/ MayFail /\ capacity' = 0 /\ state' = "failed"
  /\ UNCHANGED printed

\* Mutant: a get does not count as a use.
getHit_still(k) ==
  /\ Lines /\ hash_find_entry(k) # NULL
  /\ printed' = value[hash_find_entry(k)]
  /\ UNCHANGED <<state, capacity, size, list, key, value, buckets, allocated>>

getHit(k) ==
  /\ Lines /\ hash_find_entry(k) # NULL
  /\ list' = move_node_to_front(list, hash_find_entry(k))
  /\ printed' = value[hash_find_entry(k)]
  /\ UNCHANGED <<state, capacity, size, key, value, buckets, allocated>>

getMiss(k) ==
  /\ Lines /\ capacity > 0 /\ hash_find_entry(k) = NULL
  /\ printed' = NULL
  /\ UNCHANGED <<state, capacity, size, list, key, value, buckets, allocated>>

\* The results of string_duplicate(v).
string_duplicate(v) == IF MayFail THEN {v, NULL} ELSE {v}

putExisting(k, v) ==
  LET n == hash_find_entry(k)
  IN /\ Lines /\ n # NULL
     /\ \E copy \in string_duplicate(v) :
          value' = IF copy = NULL THEN value ELSE [value EXCEPT ![n] = copy]
     /\ list' = move_node_to_front(list, n)
     /\ UNCHANGED <<state, capacity, size, key, buckets, allocated, printed>>

\* A new key: its node goes in front, and the tail goes if there is one too many.
putNew(k, v) ==
  /\ Lines /\ capacity > 0 /\ hash_find_entry(k) = NULL
  /\ \E copy \in string_duplicate(v), n \in Nodes \ allocated :
       LET front == insert_node_front(list, n)
           table == hash_insert_entry(buckets, k, n)
           keys == [key EXCEPT ![n] = k]
           values == [value EXCEPT ![n] = copy]
       IN IF size + 1 > capacity
          THEN /\ list' = remove_tail_node(front)
               /\ buckets' = hash_remove_entry(table, keys[front.tail])
               /\ key' = [keys EXCEPT ![front.tail] = NULL]
               /\ value' = [values EXCEPT ![front.tail] = NULL]
               /\ allocated' = (allocated \cup {n}) \ {front.tail}
               /\ UNCHANGED size
          ELSE /\ list' = front /\ buckets' = table /\ key' = keys /\ value' = values
               /\ allocated' = allocated \cup {n}
               /\ size' = size + 1
  /\ UNCHANGED <<state, capacity, printed>>

\* malloc of the node or of its hash entry returns NULL: exit(EXIT_FAILURE),
\* and the system takes all memory back.
putFails(k) ==
  /\ Lines /\ MayFail /\ capacity > 0 /\ hash_find_entry(k) = NULL
  /\ state' = "failed" /\ capacity' = 0
  /\ lru_free
  /\ UNCHANGED printed

exit ==
  /\ Lines
  /\ state' = "ended" /\ capacity' = 0
  /\ lru_free
  /\ UNCHANGED printed

CacheNext ==
  \/ \E c \in CapacityInputs : createCache(c)
  \/ \E k \in Keys :
       \/ getHit(k) \/ getMiss(k) \/ putFails(k)
       \/ \E v \in Values : putExisting(k, v) \/ putNew(k, v)
  \/ exit

CacheSpec == CacheInit /\ [][CacheNext]_cacheVars

-----------------------------------------------------------------------------
\* The type invariant.
CacheTypeOK ==
  /\ state \in {"running", "ended", "failed"}
  /\ capacity \in 0 .. MAX_CAPACITY /\ size \in 0 .. capacity
  /\ list \in [head : NodePointers, tail : NodePointers,
               previous : [Nodes -> NodePointers], next : [Nodes -> NodePointers]]
  /\ key \in [Nodes -> Keys \cup {NULL}] /\ value \in [Nodes -> Values \cup {NULL}]
  /\ \A b \in Buckets : buckets[b] \in Seq([key : Keys, node : Nodes])
  /\ allocated \subseteq Nodes /\ printed \in Values \cup {NULL}

\* The list ends in both directions and reads the same backwards, and size
\* counts its nodes.
ListWellLinked ==
  /\ Backward = Reverse(Forward)
  /\ \A i, j \in DOMAIN Forward : Forward[i] = Forward[j] => i = j
  /\ size = Len(Forward)

\* The table and the list agree: the entries, each in the bucket of its key,
\* lead to the nodes of the list, one entry per key and per node.
TableMatchesList ==
  LET entries == UNION { {b} \X DOMAIN buckets[b] : b \in Buckets }
      entry(e) == buckets[e[1]][e[2]]
  IN /\ \A e \in entries : BucketOf[entry(e).key] = e[1] /\ key[entry(e).node] = entry(e).key
     /\ { entry(e).node : e \in entries } = ToSet(Forward)
     /\ \A e, f \in entries :
          entry(e).node = entry(f).node \/ entry(e).key = entry(f).key => e = f

\* No node of the list is freed and no allocated node is lost; after exit none
\* is left.
NothingLostNorDangling == allocated = ToSet(Forward) /\ (state = "ended" => allocated = {})

\* The list, the hash table and the heap describe one and the same set of
\* nodes after every command, also when an allocation failed within it.
CacheOK == CacheTypeOK /\ ListWellLinked /\ TableMatchesList /\ NothingLostNorDangling

\* The cache evicts by least recent use and answers with the last value
\* stored.
Stored ==
  [k \in { k \in Keys : hash_find_entry(k) # NULL } |-> value[hash_find_entry(k)]]
Before ==
  [nodes \in Seq(Nodes) |->
     [k \in { key[n] : n \in ToSet(nodes) } |->
        LET at == CHOOSE i \in DOMAIN nodes : key[nodes[i]] = k
        IN { key[nodes[j]] : j \in 1 .. at - 1 }]]
Since == Before[Forward]
Policy == INSTANCE LruPolicy WITH stored <- Stored, since <- Since, answer <- printed
RefinesPolicy == Policy!Spec
=============================================================================
