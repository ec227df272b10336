------------------------------- MODULE Inventory -------------------------------
(***************************************************************************)
(* dynamic_inventory_management_system.c: products in one block of memory  *)
(* that is reallocated with every product added or deleted.                *)
(*                                                                         *)
(* When realloc fails, its NULL replaces the only pointer to the products, *)
(* while count stays; when it succeeds again, the block is a fresh one.    *)
(***************************************************************************)
EXTENDS Integers, Sequences, SequencesExt

CONSTANTS
  INITIAL_NUMBER_OF_PRODUCTS, \* the limit, 100 in the code
  MAXIMUM_ID, MAXIMUM_QUANTITY, MAXIMUM_PRICE, MAXIMUM_NAME_LENGTH,
  IntHalf,       \* 2^31 in the code
  Longs,         \* the integers that can be typed
  Decimals,      \* the prices that can be typed, NAN among them
  Lines,         \* the lines that can be typed as a name: character codes
  NULL, UNKNOWN, \* no memory; a product in memory that was never set
  NAN

\* What is assumed of the constants.
InventoryAssumption ==
  /\ {INITIAL_NUMBER_OF_PRODUCTS, MAXIMUM_ID, MAXIMUM_QUANTITY, MAXIMUM_PRICE} \subseteq Nat
  /\ MAXIMUM_NAME_LENGTH \in Nat \ {0} /\ IntHalf \in Nat \ {0}
  /\ Longs \subseteq Int /\ NAN \notin Int /\ Decimals \subseteq Int \cup {NAN}

VARIABLES
  products, \* the block of memory, as a sequence, or NULL
  count,
  shown,    \* the last search and the products it has printed, or <<>>
  phase

vars == <<products, count, shown, phase>>

\* What calloc leaves in a product: no id, and no name.
ZERO == [id |-> 0, name |-> <<>>, price |-> 0, quantity |-> 0]
Entered(p) == p \notin {UNKNOWN, ZERO}

-----------------------------------------------------------------------------
(* Input.                                                                  *)

Cut(v) == ((v + IntHalf) % (2 * IntHalf)) - IntHalf

\* Mutant: the range is checked before the number is cut to an int.
getValidIntegerInRange_long(minimum, maximum) == { Cut(v) : v \in Longs }

\* The long that strtol returns is cut to an int, which is compared.
getValidIntegerInRange(minimum, maximum) ==
  { Cut(v) : v \in Longs } \cap minimum .. maximum

\* Every comparison with what is no number is false.
Less(a, b) == NAN \notin {a, b} /\ a < b
getValidFloatInRange(minimum, maximum) ==
  { d \in Decimals : ~Less(d, minimum) /\ ~Less(maximum, d) }

Ids == getValidIntegerInRange(1, MAXIMUM_ID)

\* fgets takes at most length characters of a line.
Taken(line, length) == SubSeq(line, 1, Min({length, Len(line)}))

\* What is left of a line that is too long for a name is read as the price.
getPriceAfter(line) ==
  LET rest == SubSeq(line, MAXIMUM_NAME_LENGTH + 1, Len(line))
      number == FoldLeft(LAMBDA v, c : 10 * v + c - 48, 0, rest)
  IN  IF rest # <<>> /\ ToSet(rest) \subseteq 48 .. 57 /\ number <= MAXIMUM_PRICE
      THEN {number} ELSE getValidFloatInRange(0, MAXIMUM_PRICE)

\* Mutant: the last product is not compared.
isUniqueId_short(memory, n, id) == \A k \in 1 .. n - 1 : memory[k] # UNKNOWN => memory[k].id # id

\* Memory that was never set may hold the id too, and another is asked for.
isUniqueId(memory, n, id) == \A k \in 1 .. n : memory[k] # UNKNOWN => memory[k].id # id

\* The products that can be typed in when n products of memory are compared.
NewProducts(memory, n) ==
  UNION { { [id |-> id, name |-> Taken(line, MAXIMUM_NAME_LENGTH), price |-> price,
             quantity |-> quantity] :
              price \in getPriceAfter(line),
              quantity \in getValidIntegerInRange(0, MAXIMUM_QUANTITY) } :
          id \in { d \in Ids : isUniqueId(memory, n, d) }, line \in Lines \ {<<>>} }

-----------------------------------------------------------------------------
(* main, which ends when calloc fails, and initializeProducts.             *)

Init ==
  /\ count \in getValidIntegerInRange(1, INITIAL_NUMBER_OF_PRODUCTS)
  /\ products = [k \in 1 .. count |-> ZERO] /\ phase = "initialize"
  /\ shown = <<>>

\* One product; its id is compared with those of all products, set or not.
initializeProduct ==
  /\ phase = "initialize"
  /\ LET Unset == { k \in 1 .. count : products[k] = ZERO } IN
       /\ \E p \in NewProducts(products, count) : products' = [products EXCEPT ![Min(Unset)] = p]
       /\ phase' = IF Cardinality(Unset) = 1 THEN "menu" ELSE phase
  /\ UNCHANGED <<count, shown>>

-----------------------------------------------------------------------------
(* The commands.                                                           *)

\* Mutant: the limit is checked after the allocation.
CanAdd_late == count <= INITIAL_NUMBER_OF_PRODUCTS

CanAdd == count < INITIAL_NUMBER_OF_PRODUCTS

\* What realloc returns for one product more.
Grown ==
  IF products = NULL THEN [k \in 1 .. count + 1 |-> UNKNOWN] ELSE Append(products, UNKNOWN)

addProduct ==
  /\ phase = "menu" /\ CanAdd
  /\ \/ products' = NULL /\ UNCHANGED count
     \/ /\ \E p \in NewProducts(Grown, count) : products' = [Grown EXCEPT ![count + 1] = p]
        /\ count' = count + 1
  /\ shown' = <<>> /\ UNCHANGED phase

\* The loops over the products read no memory that is not there.
Readable == count = 0 \/ products # NULL

\* Every command but addProduct and the exit reads the products.
readThroughNull ==
  /\ phase = "menu" /\ ~Readable
  /\ phase' = "crashed" /\ shown' = <<>>
  /\ UNCHANGED <<products, count>>

\* Where a loop that looks for an id stops, 0 for nowhere: at the first product
\* that has it, or at memory before it that happens to hold the id.
Found(id) ==
  LET Known == { k \in 1 .. count : products[k] # UNKNOWN /\ products[k].id = id }
      first == IF Known = {} THEN 0 ELSE Min(Known)
  IN  {first} \cup { k \in 1 .. count : products[k] = UNKNOWN /\ (k < first \/ first = 0) }

updateQuantity ==
  /\ phase = "menu" /\ Readable
  /\ \E id \in Ids, quantity \in getValidIntegerInRange(0, MAXIMUM_QUANTITY) :
       \E k \in Found(id) :
         products' = IF k = 0 \/ products[k] = UNKNOWN THEN products
                     ELSE [products EXCEPT ![k].quantity = quantity]
  /\ shown' = <<>> /\ UNCHANGED <<count, phase>>

\* Mutant: the product is overwritten by the last one.
Without_last(k) ==
  [m \in 1 .. count - 1 |-> IF m = k THEN products[count] ELSE products[m]]

\* The products behind k move up by one.
Without(k) == [m \in 1 .. count - 1 |-> IF m < k THEN products[m] ELSE products[m + 1]]

\* realloc to nothing frees the block and returns NULL.
deleteProduct ==
  /\ phase = "menu" /\ Readable /\ count > 0
  /\ \E id \in Ids : \E k \in Found(id) :
       \/ k = 0 /\ UNCHANGED <<products, count>>
       \/ /\ k # 0 /\ count' = count - 1
          /\ products' \in IF count = 1 THEN {NULL} ELSE {Without(k), NULL}
  /\ shown' = <<>> /\ UNCHANGED phase

\* The products at the indexes of S, in order.
Listed(S) ==
  LET at == SetToSortSeq(S, <) IN [n \in 1 .. Len(at) |-> products[at[n]]]

viewProducts ==
  /\ phase = "menu" /\ Readable
  /\ shown' = <<"all", Listed(1 .. count)>>
  /\ UNCHANGED <<products, count, phase>>

searchByID ==
  /\ phase = "menu" /\ Readable
  /\ \E id \in Ids : \E k \in Found(id) : shown' = <<"id", id, Listed({k} \ {0})>>
  /\ UNCHANGED <<products, count, phase>>

\* A search prints the products that match, and of memory that was never set
\* what happens to match.
Search(asked, Matching) ==
  /\ phase = "menu" /\ Readable
  /\ \E S \in SUBSET { k \in 1 .. count : products[k] = UNKNOWN } :
       shown' = Append(asked, Listed(Matching \cup S))
  /\ UNCHANGED <<products, count, phase>>

tolower(c) == IF c \in 65 .. 90 THEN c + 32 ELSE c

\* Mutant: the comparison does not stop at the end of the name.
caseInsensitiveMatch_overrun(name, part) ==
  \E start \in 0 .. Len(name) - 1 :
    \A k \in 1 .. Len(part) :
      start + k > Len(name) \/ tolower(name[start + k]) = tolower(part[k])

caseInsensitiveMatch(name, part) ==
  \E start \in 0 .. Len(name) - 1 :
    \A k \in 1 .. Len(part) :
      start + k <= Len(name) /\ tolower(name[start + k]) = tolower(part[k])

Known == { k \in 1 .. count : products # NULL /\ Entered(products[k]) }
Part(line) == Taken(line, MAXIMUM_NAME_LENGTH - 1)

searchByName ==
  \E line \in Lines :
    Search(<<"name", Part(line)>>,
           { k \in Known : caseInsensitiveMatch(products[k].name, Part(line)) })

searchByPriceRange ==
  \E low \in getValidFloatInRange(0, MAXIMUM_PRICE) :
    \E high \in getValidFloatInRange(low, MAXIMUM_PRICE) :
      Search(<<"price", low, high>>,
             { k \in Known : /\ NAN \notin {low, high, products[k].price}
                             /\ products[k].price >= low /\ products[k].price <= high })

exit ==
  /\ phase = "menu"
  /\ phase' = "ended" /\ shown' = <<>>
  /\ UNCHANGED <<products, count>>

Next ==
  \/ initializeProduct
  \/ addProduct \/ readThroughNull \/ updateQuantity \/ deleteProduct
  \/ viewProducts \/ searchByID \/ searchByName \/ searchByPriceRange
  \/ exit

Spec == Init /\ [][Next]_vars

-----------------------------------------------------------------------------
\* The type invariant.
TypeOK ==
  /\ count \in 0 .. INITIAL_NUMBER_OF_PRODUCTS
  /\ phase \in {"initialize", "menu", "ended", "crashed"}
  /\ products # NULL => products \in Seq(UNION {{UNKNOWN}, Range(products)})

\* As long as the products are there, the block holds count of them, whatever
\* is typed, and no id occurs twice, also before all of them have been entered;
\* ids and quantities are in their range, although a long is cut to an int
\* before it is compared.  Only a failed allocation makes the program crash.
InventoryOK ==
  /\ TypeOK
  /\ products # NULL =>
       /\ Len(products) = count
       /\ \A k \in Known :
            /\ products[k].id \in 1 .. MAXIMUM_ID /\ products[k].quantity \in 0 .. MAXIMUM_QUANTITY
            /\ \A m \in Known : products[k].id = products[m].id => k = m
  /\ phase = "crashed" => products = NULL

\* The products that were entered are the catalogue of Catalogue.
Shelf ==
  INSTANCE Catalogue
    WITH Limit <- INITIAL_NUMBER_OF_PRODUCTS, Ids <- 1 .. MAXIMUM_ID,
         Quantities <- 0 .. MAXIMUM_QUANTITY, Names <- { Part(line) : line \in Lines },
         Bounds <- getValidFloatInRange(0, MAXIMUM_PRICE), catalogue <- Listed(Known),
         damaged <- IF products = NULL THEN count > 0 ELSE UNKNOWN \in ToSet(products)
RefinesCatalogue == Shelf!Spec
=============================================================================
