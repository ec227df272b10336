------------------------------ MODULE LruPolicy ------------------------------
(***************************************************************************)
(* What lru_cache.c promises, stated without any list: a key is cached as  *)
(* long as fewer than capacity other keys have been used since its own     *)
(* last use, and get answers with the value last stored for a cached key.  *)
(***************************************************************************)
EXTENDS Naturals, FiniteSets

CONSTANTS Keys, Values, NULL

VARIABLES
  capacity, \* 0 while there is no cache
  stored,   \* cached key -> value last stored, or NULL where memory ran out
  since,    \* cached key -> the other keys used since its last use
  answer    \* what the last get was told

vars == <<capacity, stored, since, answer>>

Cached == DOMAIN since
Empty == stored = [k \in {} |-> NULL] /\ since = [k \in {} |-> {}]

Init == capacity = 0 /\ answer = NULL /\ Empty

\* The cached keys after a use of k, each with the keys used since.
Used(k) ==
  LET before == since
      other == [j \in DOMAIN before \ {k} |-> before[j] \cup {k}]
      kept == { j \in DOMAIN other : Cardinality(other[j]) < capacity }
  IN [j \in {k} \cup kept |-> IF j = k THEN {} ELSE other[j]]

Create == capacity' \in Nat \ {0} /\ Empty' /\ UNCHANGED answer
Discard == capacity' = 0 /\ Empty' /\ UNCHANGED answer

Hit(k) ==
  /\ k \in Cached
  /\ since' = Used(k) /\ answer' = stored[k]
  /\ UNCHANGED <<capacity, stored>>

Miss(k) ==
  /\ capacity > 0 /\ k \notin Cached
  /\ answer' = NULL
  /\ UNCHANGED <<capacity, stored, since>>

\* For want of memory a cached key may keep its old value and a new key may
\* have none.
Put(k, v) ==
  /\ capacity > 0
  /\ since' = Used(k)
  /\ LET old == stored
     IN \E copy \in {v, IF k \in DOMAIN old THEN old[k] ELSE NULL} :
          stored' = [j \in DOMAIN Used(k) |-> IF j = k THEN copy ELSE old[j]]
  /\ UNCHANGED <<capacity, answer>>

Next ==
  \/ Create \/ Discard
  \/ \E k \in Keys : Hit(k) \/ Miss(k) \/ \E v \in Values : Put(k, v)

Spec == Init /\ [][Next]_vars
=============================================================================
