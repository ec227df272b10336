------------------------------ MODULE Catalogue ------------------------------
(***************************************************************************)
(* What the inventory promises: products in the order in which they were   *)
(* added, found by id, by a part of their name and by their price.  When   *)
(* memory runs out all of them may be lost, and then products that nobody  *)
(* entered may be among them.                                              *)
(***************************************************************************)
EXTENDS Integers, Sequences, SequencesExt

CONSTANTS
  Limit,       \* how many products there may be
  Ids, Quantities,
  Names,       \* what can be searched for, and be a name: character codes
  Bounds,      \* what can be typed as a bound of a range of prices
  NAN          \* a price that is no number

VARIABLES
  catalogue, \* the products, each with id, name, price and quantity
  damaged,   \* there are products that nobody entered
  shown      \* the last search and what it has shown, or <<>>

vars == <<catalogue, damaged, shown>>

Init == catalogue = <<>> /\ damaged = FALSE /\ shown = <<>>

StoredIds == { catalogue[k].id : k \in 1 .. Len(catalogue) }

Add ==
  /\ shown' = <<>> /\ UNCHANGED damaged
  /\ Len(catalogue) < Limit
  /\ Len(catalogue') = Len(catalogue) + 1 /\ Front(catalogue') = catalogue
  /\ Last(catalogue').id \in Ids \ StoredIds /\ Last(catalogue').quantity \in Quantities

Update(id) ==
  /\ shown' = <<>> /\ UNCHANGED damaged
  /\ \E quantity \in Quantities :
       catalogue' = [k \in 1 .. Len(catalogue) |->
                      IF catalogue[k].id = id THEN [catalogue[k] EXCEPT !.quantity = quantity]
                      ELSE catalogue[k]]

Delete(id) ==
  /\ shown' = <<>> /\ UNCHANGED damaged
  /\ catalogue' = SelectSeq(catalogue, LAMBDA p : p.id # id)

\* Letters are compared without their case: lower is 32 above upper.
Folded(name) == [k \in 1 .. Len(name) |-> IF name[k] \in 65 .. 90 THEN name[k] + 32 ELSE name[k]]
HasPart(name, part) ==
  \E k \in 1 .. Len(name) :
    /\ k + Len(part) - 1 <= Len(name)
    /\ SubSeq(Folded(name), k, k + Len(part) - 1) = Folded(part)

Between(price, low, high) == NAN \notin {price, low, high} /\ price >= low /\ price <= high

Show ==
  /\ UNCHANGED <<catalogue, damaged>>
  /\ \/ damaged \/ shown' = <<"all", catalogue>>
     \/ \E id \in Ids : shown' = <<"id", id, SelectSeq(catalogue, LAMBDA p : p.id = id)>>
     \/ \E part \in Names :
          shown' = <<"name", part, SelectSeq(catalogue, LAMBDA p : HasPart(p.name, part))>>
     \/ \E low, high \in Bounds :
          shown' = <<"price", low, high,
                     SelectSeq(catalogue, LAMBDA p : Between(p.price, low, high))>>

\* Memory has run out.
Lose ==
  /\ shown' = <<>>
  /\ catalogue' = <<>> /\ damaged' = (damaged \/ catalogue # <<>>)

\* The last product that nobody entered is deleted.
Repair == damaged /\ damaged' = FALSE /\ shown' = <<>> /\ UNCHANGED catalogue

\* A command that changes nothing.
Refuse == shown' = <<>> /\ UNCHANGED <<catalogue, damaged>>

Next == Refuse \/ Show \/ Add \/ (\E id \in Ids : Update(id) \/ Delete(id)) \/ Lose \/ Repair

Spec == Init /\ [][Next]_vars
=============================================================================
