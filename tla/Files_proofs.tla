----------------------------- MODULE Files_proofs -----------------------------
(***************************************************************************)
(* Proofs about UserFile, for any ids, data and number of file             *)
(* descriptors: what the two files hold after any number of commands,      *)
(* interruptions and failing calls, and that commands are atomic; and      *)
(* about VirtualFileSystem, for any names, nodes and blocks: that its      *)
(* circles of siblings form one tree, that its blocks are accounted for,   *)
(* and that its commands are those of FileTree.                            *)
(***************************************************************************)
EXTENDS UserFile, VirtualFileSystem, DataLemmas

-----------------------------------------------------------------------------
(* The inductive invariant of UserFile.                                    *)

Unique(u) == \A i, j \in DOMAIN u : u[i].id = u[j].id => i = j
Holds(u, x) == \E i \in DOMAIN u : u[i] = x

\* What a command has found out about users.txt is still so when it acts on it,
\* as long as the program is the only one that writes the file.
Looked ==
  /\ at = "adding" => users # ABSENT /\ ~Exists(id)
  /\ at \in {"copying", "copied"} => users # ABSENT /\ (found <=> Exists(id))

\* temp.txt is what it is to become users.txt for: the copy that the command
\* has made, as far as the disk could take it.
CopyMade ==
  /\ at = "copied" => temp \in Written(Copy)
  /\ at = "removed" =>
       /\ users = ABSENT /\ temp # ABSENT
       /\ found /\ command = "update" /\ ~disk_full => Holds(temp, User(id, data))

\* Whatever is left of a copy could be renamed: no id is in it twice.
TempUnique == temp # ABSENT => Unique(temp)

\* Success is not told before the command is over.
SaidAtTheEnd == at \in {"adding", "copying", "copied", "removed"} => printed = <<>>

UserInv == RecordsOK /\ Looked /\ CopyMade /\ TempUnique /\ SaidAtTheEnd

-----------------------------------------------------------------------------
(* The copy without a user.                                                *)

OthersStep(u, i, f, n) ==
  IF n = 0 THEN <<>> ELSE IF u[n].id = i THEN f[n - 1] ELSE Append(f[n - 1], u[n])
Passed(u, i) == CHOOSE f : f = [n \in 0 .. Len(u) |-> OthersStep(u, i, f, n)]

LEMMA OthersIsPassed ==
  ASSUME NEW u, NEW i
  PROVE  Others(u, i) = Passed(u, i)[Len(u)]
  BY DEF Others, Passed, OthersStep

\* What the loop has kept of the first n users when only the k-th has the id,
\* or none of them if k is behind the last.
KeptOf(u, k, n) ==
  [m \in 1 .. (IF n < k THEN n ELSE n - 1) |-> IF m < k THEN u[m] ELSE u[m + 1]]

LEMMA KeptFacts ==
  ASSUME NEW u \in Stored, NEW i, NEW k \in 1 .. Len(u) + 1,
         \A j \in 1 .. Len(u) : u[j].id = i <=> j = k,
         NEW n \in 0 .. Len(u)
  PROVE  KeptOf(u, k, n) =
           IF n = 0 THEN <<>>
           ELSE IF u[n].id = i THEN KeptOf(u, k, n - 1) ELSE Append(KeptOf(u, k, n - 1), u[n])
<1> DEFINE U == [id : Ids, data : Data]
<1>a. u \in Seq(U)
  BY DEF Stored
<1> HIDE DEF U
<1>0. Len(u) \in Nat /\ \A m \in 1 .. Len(u) : u[m] \in U
  BY <1>a
<1>1. Len(u) \in Nat /\ k \in Nat /\ n \in Nat /\ \A m \in 1 .. Len(u) : u[m] \in U
  BY <1>0
<1>2. CASE n = 0
  <2>1. n < k
    BY <1>1, <1>2
  <2>2. KeptOf(u, k, n) = [m \in 1 .. 0 |-> IF m < k THEN u[m] ELSE u[m + 1]]
    BY <2>1, <1>2 DEF KeptOf
  <2>3. \A g : [m \in 1 .. 0 |-> g[m]] = <<>>
    OBVIOUS
  <2>4. 1 .. 0 = {}
    OBVIOUS
  <2>5. [m \in 1 .. 0 |-> IF m < k THEN u[m] ELSE u[m + 1]] = <<>>
    BY <2>3, <2>4
  <2> QED
    BY <2>2, <2>5, <1>2
<1>3. CASE n # 0 /\ n < k
  <2>1. /\ n - 1 \in Nat /\ n \in 1 .. Len(u) /\ u[n].id # i /\ n - 1 < k /\ n - 1 + 1 = n
    BY <1>1, <1>3
  <2>2. /\ KeptOf(u, k, n - 1) = [m \in 1 .. n - 1 |-> u[m]]
        /\ KeptOf(u, k, n) = [m \in 1 .. n |-> u[m]]
    BY <1>1, <1>3, <2>1 DEF KeptOf
  <2>3. [m \in 1 .. n - 1 |-> u[m]] \in Seq(U) /\ Len([m \in 1 .. n - 1 |-> u[m]]) = n - 1
    BY <1>1, <2>1
  <2>4. Append([m \in 1 .. n - 1 |-> u[m]], u[n]) = [m \in 1 .. n |-> u[m]]
    BY <1>1, <2>1, <2>3
  <2> QED
    BY <2>1, <2>2, <2>4, <1>3
<1>4. CASE n = k
  <2>1. n \in 1 .. Len(u) /\ u[n].id = i /\ n # 0 /\ n - 1 < k
    BY <1>1, <1>4
  <2> QED
    BY <1>1, <1>4, <2>1 DEF KeptOf
<1>5. CASE n > k
  <2>1. /\ n - 1 \in Nat /\ n \in 1 .. Len(u) /\ u[n].id # i /\ n # 0
        /\ ~(n - 1 < k) /\ ~(n < k) /\ n - 1 - 1 \in Nat /\ n - 1 - 1 + 1 = n - 1
    BY <1>1, <1>5
  <2> DEFINE p == [m \in 1 .. n - 1 - 1 |-> IF m < k THEN u[m] ELSE u[m + 1]]
  <2>2. /\ KeptOf(u, k, n - 1) = p
        /\ KeptOf(u, k, n) = [m \in 1 .. n - 1 |-> IF m < k THEN u[m] ELSE u[m + 1]]
    BY <2>1 DEF KeptOf
  <2>3. \A m \in 1 .. n - 1 - 1 : (IF m < k THEN u[m] ELSE u[m + 1]) \in U
    BY <1>1, <2>1
  <2>4. p \in Seq(U) /\ Len(p) = n - 1 - 1
    BY <2>1, <2>3
  <2>5. ~(n - 1 < k) /\ u[n - 1 + 1] = u[n] /\ u[n] \in U
    BY <1>1, <2>1
  <2>6. /\ Append(p, u[n]) \in Seq(U) /\ Len(Append(p, u[n])) = n - 1
        /\ \A m \in 1 .. n - 1 : Append(p, u[n])[m] = IF m = n - 1 THEN u[n] ELSE p[m]
    BY <2>1, <2>4, <2>5
  <2>7. Append(p, u[n]) = [m \in 1 .. n - 1 |-> IF m < k THEN u[m] ELSE u[m + 1]]
    <3>1. \A m \in 1 .. n - 1 :
            Append(p, u[n])[m] = IF m < k THEN u[m] ELSE u[m + 1]
      BY <2>1, <2>5, <2>6
    <3> DEFINE a == Append(p, u[n])
    <3>2. /\ a \in Seq(U) /\ Len(a) = n - 1
          /\ \A m \in 1 .. n - 1 : a[m] = IF m < k THEN u[m] ELSE u[m + 1]
      BY <2>6, <3>1
    <3> HIDE DEF a
    <3>3. a = [m \in 1 .. n - 1 |-> a[m]]
      BY <3>2
    <3>4. a = [m \in 1 .. n - 1 |-> IF m < k THEN u[m] ELSE u[m + 1]]
      BY <3>2, <3>3
    <3> QED
      BY <3>4 DEF a
  <2> QED
    BY <2>1, <2>2, <2>7
<1> QED
  BY <1>1, <1>2, <1>3, <1>4, <1>5

LEMMA OthersIsKept ==
  ASSUME NEW u \in Stored, NEW i, NEW k \in 1 .. Len(u) + 1,
         \A j \in 1 .. Len(u) : u[j].id = i <=> j = k
  PROVE  Others(u, i) = KeptOf(u, k, Len(u))
<1> DEFINE e == [n \in 0 .. Len(u) |-> KeptOf(u, k, n)]
           f == Passed(u, i)
           T == { n \in Nat : n <= Len(u) => f[n] = KeptOf(u, k, n) }
<1>0. Len(u) \in Nat
  BY DEF Stored
<1>1. \A n \in 0 .. Len(u) : KeptOf(u, k, n) = OthersStep(u, i, e, n)
  <2> TAKE n \in 0 .. Len(u)
  <2>1. n # 0 => n - 1 \in 0 .. Len(u)
    BY <1>0
  <2> QED
    BY <2>1, KeptFacts DEF OthersStep
<1>2. e = [n \in 0 .. Len(u) |-> OthersStep(u, i, e, n)]
  BY <1>1
<1> HIDE DEF e
<1>3. f = [n \in 0 .. Len(u) |-> OthersStep(u, i, f, n)]
  <2>1. \E g : g = [n \in 0 .. Len(u) |-> OthersStep(u, i, g, n)]
    BY <1>2
  <2> QED
    BY <2>1 DEF Passed
<1> HIDE DEF f
<1>4. \A n \in 0 .. Len(u) : f[n] = OthersStep(u, i, f, n)
  BY <1>3
<1>5. 0 \in T
  <2>1. 0 \in 0 .. Len(u) /\ f[0] = <<>>
    BY <1>0, <1>4 DEF OthersStep
  <2>2. KeptOf(u, k, 0) = <<>>
    BY <2>1, KeptFacts
  <2> QED
    BY <2>1, <2>2
<1>6. ASSUME NEW n \in Nat, n \in T PROVE n + 1 \in T
  <2> SUFFICES ASSUME n + 1 <= Len(u) PROVE f[n + 1] = KeptOf(u, k, n + 1)
    BY <1>6
  <2>1. n + 1 \in 0 .. Len(u) /\ n \in 0 .. Len(u) /\ n + 1 # 0 /\ n + 1 - 1 = n
    BY <1>0
  <2>2. f[n] = KeptOf(u, k, n)
    BY <1>6, <1>0, <2>1
  <2>3. f[n + 1] = IF u[n + 1].id = i THEN f[n] ELSE Append(f[n], u[n + 1])
    BY <1>4, <2>1 DEF OthersStep
  <2>4. KeptOf(u, k, n + 1) =
          IF u[n + 1].id = i THEN KeptOf(u, k, n) ELSE Append(KeptOf(u, k, n), u[n + 1])
    <3>1. PICK q : q = n + 1
      OBVIOUS
    <3>2. q \in 0 .. Len(u) /\ q # 0 /\ q - 1 = n
      BY <3>1, <2>1
    <3>3. KeptOf(u, k, q) =
            IF u[q].id = i THEN KeptOf(u, k, q - 1) ELSE Append(KeptOf(u, k, q - 1), u[q])
      BY <3>2, KeptFacts
    <3> QED
      BY <3>1, <3>2, <3>3
  <2> QED
    BY <2>2, <2>3, <2>4
<1>7. Nat \subseteq T
  <2> HIDE DEF T
  <2> QED
    BY <1>5, <1>6, InductionOnNat
<1>8. f[Len(u)] = KeptOf(u, k, Len(u))
  BY <1>0, <1>7
<1> QED
  BY <1>8, OthersIsPassed DEF f

\* Without a user of that id the copy is the file ...
LEMMA OthersSame ==
  ASSUME NEW u \in Stored, NEW i, \A j \in DOMAIN u : u[j].id # i
  PROVE  Others(u, i) = u
<1> DEFINE k == Len(u) + 1
<1>1. Len(u) \in Nat /\ DOMAIN u = 1 .. Len(u) /\ u = [m \in 1 .. Len(u) |-> u[m]]
  BY DEF Stored
<1>2. k \in 1 .. Len(u) + 1 /\ \A j \in 1 .. Len(u) : u[j].id = i <=> j = k
  BY <1>1
<1>3. Others(u, i) = KeptOf(u, k, Len(u))
  <2> HIDE DEF k
  <2> QED
    BY <1>2, OthersIsKept
<1>4. KeptOf(u, k, Len(u)) = [m \in 1 .. Len(u) |-> u[m]]
  <2>1. Len(u) < k /\ \A m \in 1 .. Len(u) : m < k
    BY <1>1
  <2> HIDE DEF k
  <2> QED
    BY <2>1 DEF KeptOf
<1> QED
  BY <1>1, <1>3, <1>4

\* ... and otherwise that user is gone from it and nobody else.
LEMMA OthersRemoves ==
  ASSUME NEW u \in Stored, NEW k \in DOMAIN u, Unique(u)
  PROVE  Others(u, u[k].id) = RemoveAt(u, k)
<1> DEFINE i == u[k].id
           r == RemoveAt(u, k)
<1>1. Len(u) \in Nat /\ DOMAIN u = 1 .. Len(u) /\ k \in 1 .. Len(u) /\ k \in 1 .. Len(u) + 1
  BY DEF Stored
<1>2. \A j \in 1 .. Len(u) : u[j].id = i <=> j = k
  BY <1>1 DEF Unique
<1>3. Others(u, i) = KeptOf(u, k, Len(u))
  <2> HIDE DEF i
  <2> QED
    BY <1>1, <1>2, OthersIsKept
<1>4. /\ r \in Stored /\ Len(r) = Len(u) - 1
      /\ \A j \in 1 .. Len(u) - 1 : r[j] = IF j < k THEN u[j] ELSE u[j + 1]
  BY RemoveAtElements DEF Stored
<1> HIDE DEF r
<1>5. r = [m \in 1 .. Len(u) - 1 |-> IF m < k THEN u[m] ELSE u[m + 1]]
  BY <1>1, <1>4 DEF Stored
<1>6. KeptOf(u, k, Len(u)) = [m \in 1 .. Len(u) - 1 |-> IF m < k THEN u[m] ELSE u[m + 1]]
  <2>1. ~(Len(u) < k)
    BY <1>1
  <2> QED
    BY <2>1 DEF KeptOf
<1> QED
  BY <1>3, <1>5, <1>6 DEF r

-----------------------------------------------------------------------------
(* What the commands write.                                                *)

\* What reaches the disk of a file that is fit is fit.
LEMMA PrefixFacts ==
  ASSUME NEW u \in Stored, NEW n \in 0 .. Len(u)
  PROVE  /\ SubSeq(u, 1, n) \in Stored
         /\ Unique(u) => Unique(SubSeq(u, 1, n))
         /\ SubSeq(u, 1, Len(u)) = u
<1> DEFINE U == [id : Ids, data : Data]
           p == SubSeq(u, 1, n)
<1>1. u \in Seq(U) /\ Stored = Seq(U)
  BY DEF Stored
<1> HIDE DEF U
<1>2. Len(u) \in Nat /\ \A m \in 1 .. Len(u) : u[m] \in U
  BY <1>1
<1>3. p \in Seq(U) /\ Len(p) = n /\ \A m \in 1 .. n : p[m] = u[m]
  BY <1>1, <1>2, SubSeqProperties
<1>4. SubSeq(u, 1, Len(u)) = u
  BY <1>1
<1>5. DOMAIN p = 1 .. n /\ DOMAIN u = 1 .. Len(u) /\ 1 .. n \subseteq 1 .. Len(u)
  BY <1>1, <1>2, <1>3
<1>6. Unique(u) => Unique(p)
  BY <1>3, <1>5 DEF Unique
<1> QED
  BY <1>1, <1>3, <1>4, <1>6

LEMMA WrittenFacts ==
  ASSUME NEW u \in Stored, NEW w \in Written(u)
  PROVE  /\ w \in Stored
         /\ Unique(u) => Unique(w)
         /\ ~disk_full => w = u
<1>1. CASE disk_full
  <2>1. PICK n \in 0 .. Len(u) : w = SubSeq(u, 1, n)
    BY <1>1 DEF Written
  <2> QED
    BY <1>1, <2>1, PrefixFacts
<1>2. CASE ~disk_full
  BY <1>2 DEF Written
<1> QED
  BY <1>1, <1>2

\* A copy of a file without repetitions has none, and an update is in it.
LEMMA CopyFacts ==
  ASSUME TypeOK, UniqueIds, users # ABSENT
  PROVE  /\ Copy \in Stored /\ Unique(Copy)
         /\ command = "update" /\ Exists(id) => Holds(Copy, User(id, data))
<1>1. users \in Stored /\ Unique(users) /\ id \in Ids /\ data \in Data
  BY DEF TypeOK, UniqueIds, Unique
<1> DEFINE U == [id : Ids, data : Data]
<1>2. CASE command = "update"
  <2> DEFINE c == [j \in DOMAIN users |-> IF users[j].id = id THEN User(id, data) ELSE users[j]]
  <2>1. Copy = c
    BY <1>2 DEF Copy
  <2>2. User(id, data) \in U /\ User(id, data).id = id
    BY <1>1 DEF User
  <2>3. users \in Seq(U) /\ Stored = Seq(U)
    BY <1>1 DEF Stored
  <2> HIDE DEF U
  <2>4. Len(users) \in Nat /\ DOMAIN users = 1 .. Len(users) /\ \A m \in 1 .. Len(users) : users[m] \in U
    BY <2>3
  <2>5. c \in Seq(U)
    BY <2>2, <2>4
  <2>6. \A j \in DOMAIN users : c[j].id = users[j].id
    BY <2>2
  <2>7. Unique(c)
    <3>1. DOMAIN c = DOMAIN users
      OBVIOUS
    <3> HIDE DEF c
    <3> QED
      BY <1>1, <2>6, <3>1 DEF Unique
  <2>8. Exists(id) => Holds(c, User(id, data))
    BY DEF Exists, Holds
  <2> QED
    BY <2>1, <2>3, <2>5, <2>7, <2>8
<1>3. CASE command # "update"
  <2>1. Copy = Others(users, id)
    BY <1>3 DEF Copy
  <2>2. CASE \E j \in DOMAIN users : users[j].id = id
    <3>1. PICK k \in DOMAIN users : users[k].id = id
      BY <2>2
    <3>2. Copy = RemoveAt(users, k)
      BY <1>1, <2>1, <3>1, OthersRemoves
    <3>3. /\ Copy \in Stored /\ Len(Copy) = Len(users) - 1
          /\ \A j \in 1 .. Len(users) - 1 : Copy[j] = IF j < k THEN users[j] ELSE users[j + 1]
      BY <1>1, <3>2, RemoveAtElements DEF Stored
    <3>4. Len(users) \in Nat /\ DOMAIN users = 1 .. Len(users) /\ k \in 1 .. Len(users)
          /\ DOMAIN Copy = 1 .. Len(users) - 1
      BY <1>1, <3>3 DEF Stored
    <3>5. Unique(Copy)
      <4> SUFFICES ASSUME NEW a \in DOMAIN Copy, NEW b \in DOMAIN Copy, Copy[a].id = Copy[b].id
                   PROVE  a = b
        BY DEF Unique
      <4> DEFINE from(j) == IF j < k THEN j ELSE j + 1
      <4>1. /\ from(a) \in DOMAIN users /\ from(b) \in DOMAIN users
            /\ Copy[a] = users[from(a)] /\ Copy[b] = users[from(b)]
        BY <3>3, <3>4
      <4>2. from(a) = from(b)
        BY <1>1, <4>1 DEF Unique
      <4> QED
        BY <3>4, <4>2
    <3> QED
      BY <1>3, <3>3, <3>5
  <2>3. CASE ~\E j \in DOMAIN users : users[j].id = id
    BY <1>1, <1>3, <2>1, <2>3, OthersSame
  <2> QED
    BY <2>2, <2>3
<1> QED
  BY <1>2, <1>3

-----------------------------------------------------------------------------
(* Every step keeps the invariant.                                         *)

LEMMA InitInv == Init => UserInv
<1> SUFFICES ASSUME Init PROVE UserInv
  OBVIOUS
<1>1. TypeOK
  <2>1. MAX_OPEN \in Nat /\ 0 \in 0 .. MAX_OPEN
    BY UserFileAssumption
  <2> QED
    BY <2>1 DEF Init, TypeOK
<1>2. UniqueIds /\ SaysWhatIsStored /\ Looked /\ CopyMade /\ TempUnique /\ SaidAtTheEnd
  BY DEF Init, UniqueIds, SaysWhatIsStored, Looked, CopyMade, TempUnique, SaidAtTheEnd
<1> QED
  BY <1>1, <1>2 DEF UserInv, RecordsOK

\* One more user goes to the end of the file.
LEMMA AppendedFacts ==
  ASSUME UserInv, NEW d \in Data, at = "adding", NEW new \in Written(<<User(id, d)>>)
  PROVE  /\ users \o new \in Stored /\ Unique(users \o new)
         /\ ~disk_full => \E i \in DOMAIN (users \o new) : (users \o new)[i] = User(id, d)
<1> DEFINE U == [id : Ids, data : Data]
           x == User(id, d)
<1>1. /\ users \in Stored /\ users # ABSENT /\ Unique(users) /\ x \in U /\ x.id = id
      /\ \A j \in DOMAIN users : users[j].id # id
  BY DEF UserInv, RecordsOK, TypeOK, UniqueIds, Unique, Looked, Exists, User
<1>2. /\ <<x>> \in Stored /\ <<x>> \in Seq(U) /\ Stored = Seq(U)
  BY <1>1 DEF Stored
<1>3. new = <<>> \/ new = <<x>>
  <2>1. CASE disk_full
    <3>1. PICK n \in 0 .. 1 : new = SubSeq(<<x>>, 1, n)
      BY <2>1 DEF Written
    <3>2. n = 0 \/ n = 1
      OBVIOUS
    <3>3. SubSeq(<<x>>, 1, 0) = <<>>
      <4>1. Len(<<x>>) = 1
        OBVIOUS
      <4>2. SubSeq(<<x>>, 1, 0) \in Seq(U) /\ Len(SubSeq(<<x>>, 1, 0)) = 0
        <5> HIDE DEF x, U
        <5> QED
          BY <1>2, <4>1, SubSeqProperties
      <4> QED
        BY <4>2, EmptySeq
    <3>4. SubSeq(<<x>>, 1, 1) = <<x>>
      <4>1. Len(<<x>>) = 1 /\ 1 \in 0 .. 1
        OBVIOUS
      <4>2. SubSeq(<<x>>, 1, Len(<<x>>)) = <<x>>
        <5> HIDE DEF x
        <5> QED
          BY <1>2, <4>1, PrefixFacts
      <4> QED
        BY <4>1, <4>2
    <3> QED
      BY <3>1, <3>2, <3>3, <3>4
  <2>2. CASE ~disk_full
    BY <2>2 DEF Written
  <2> QED
    BY <2>1, <2>2
<1>4. ~disk_full => new = <<x>>
  BY DEF Written
<1>5. Len(users) \in Nat /\ DOMAIN users = 1 .. Len(users)
  BY <1>1 DEF Stored
<1> HIDE DEF x, U
<1>6. CASE new = <<>>
  BY <1>1, <1>2, <1>4, <1>6
<1>7. CASE new = <<x>>
  <2> DEFINE w == users \o <<x>>
  <2>1. w \in Seq(U) /\ Len(w) = Len(users) + 1 /\ DOMAIN w = 1 .. Len(users) + 1
        /\ w[Len(users) + 1] = x
        /\ \A j \in 1 .. Len(users) : w[j] = users[j]
    BY <1>1, <1>2, <1>5
  <2> HIDE DEF w
  <2>2. Unique(w)
    BY <1>1, <1>5, <2>1 DEF Unique
  <2>3. Len(users) + 1 \in DOMAIN w
    BY <1>5, <2>1
  <2> QED
    BY <1>2, <1>7, <2>1, <2>2, <2>3 DEF w, x
<1> QED
  BY <1>3, <1>6, <1>7

LEMMA NextInv == UserInv /\ [Next]_vars => UserInv'
<1> SUFFICES ASSUME UserInv, [Next]_vars PROVE UserInv'
  OBVIOUS
<1> USE UserFileAssumption
<1>0. /\ TypeOK /\ UniqueIds /\ SaysWhatIsStored /\ Looked /\ CopyMade /\ TempUnique /\ SaidAtTheEnd
  BY DEF UserInv, RecordsOK
<1>w. ASSUME UNCHANGED <<users, arguments>> PROVE Copy' = Copy
  BY <1>w DEF arguments, Copy
<1>n. ABSENT \notin Stored
  BY DEF Stored
<1>s. <<>> \in Stored /\ DOMAIN <<>> = {} /\ Unique(<<>>)
  BY DEF Stored, Unique
<1>1. CASE DiskFills
  <2>1. Copy' = Copy /\ Exists(id)' = Exists(id)
    BY <1>1, <1>w DEF DiskFills, arguments, Exists
  <2>2. users # ABSENT => Copy = SubSeq(Copy, 1, Len(Copy)) /\ Len(Copy) \in 0 .. Len(Copy)
    <3>1. users # ABSENT => Copy \in Stored
      BY <1>0, CopyFacts
    <3>2. \A u \in Stored : Len(u) \in 0 .. Len(u)
      BY DEF Stored
    <3> QED
      BY <3>1, <3>2, PrefixFacts
  <2>3. CopyMade'
    <3>1. at = "copied" => temp \in { SubSeq(Copy, 1, n) : n \in 0 .. Len(Copy) }
      BY <1>0, <2>2 DEF CopyMade, Written, Looked
    <3> QED
      BY <1>0, <1>1, <2>1, <3>1 DEF DiskFills, CopyMade, Written
  <2> QED
    BY <1>0, <1>1, <2>1, <2>3 DEF DiskFills, arguments, UserInv, RecordsOK, TypeOK, UniqueIds,
       SaysWhatIsStored, Looked, TempUnique, SaidAtTheEnd
<1>2. CASE Start
  BY <1>0, <1>2 DEF Start, arguments, UserInv, RecordsOK, TypeOK, UniqueIds,
     SaysWhatIsStored, Looked, CopyMade, TempUnique, SaidAtTheEnd
<1>3. CASE Quit
  BY <1>0, <1>3 DEF Quit, arguments, UserInv, RecordsOK, TypeOK, UniqueIds,
     SaysWhatIsStored, Looked, CopyMade, TempUnique, SaidAtTheEnd
<1>4. CASE Interrupt
  <2>1. (temp' \in Stored \cup {ABSENT}) /\ TempUnique'
    <3>1. CASE at = "copying"
      <4>1. PICK n \in 0 .. Len(Copy) : temp' = SubSeq(Copy, 1, n)
        BY <1>4, <3>1 DEF Interrupt
      <4>2. Copy \in Stored /\ Unique(Copy)
        BY <1>0, <3>1, CopyFacts DEF Looked
      <4> QED
        BY <4>1, <4>2, PrefixFacts DEF TempUnique
    <3>2. CASE at # "copying"
      BY <1>0, <1>4, <3>2 DEF Interrupt, TempUnique, TypeOK
    <3> QED
      BY <3>1, <3>2
  <2>2. TypeOK'
    BY <1>0, <1>4, <2>1 DEF Interrupt, arguments, TypeOK
  <2> QED
    BY <1>0, <1>4, <2>1, <2>2 DEF Interrupt, arguments, UserInv, RecordsOK, UniqueIds,
       SaysWhatIsStored, Looked, CopyMade, SaidAtTheEnd
<1>5. ASSUME NEW i \in Ids, openForAdding(i) PROVE UserInv'
  <2>1. /\ users' \in Stored /\ users' # ABSENT /\ Unique(users')
        /\ \A j \in DOMAIN users' : users'[j].id # i
    <3>1. CASE users = ABSENT
      <4>1. users' = <<>>
        BY <1>5, <3>1 DEF openForAdding
      <4>2. <<>> # ABSENT /\ \A j \in DOMAIN <<>> : <<>>[j].id # i
        BY <1>s, <1>n
      <4> QED
        BY <4>1, <4>2, <1>s
    <3>2. CASE users # ABSENT
      BY <1>0, <1>5, <3>2 DEF openForAdding, TypeOK, UniqueIds, Unique, Exists
    <3> QED
      BY <3>1, <3>2
  <2>2. TypeOK' /\ UniqueIds'
    BY <1>0, <1>5, <2>1 DEF openForAdding, TypeOK, UniqueIds, Unique
  <2>3. Looked'
    BY <1>5, <2>1 DEF openForAdding, Looked, Exists
  <2> QED
    BY <1>0, <1>5, <2>2, <2>3 DEF openForAdding, UserInv, RecordsOK,
       SaysWhatIsStored, CopyMade, TempUnique, SaidAtTheEnd
<1>6. ASSUME NEW d \in Data, appendUser(d) PROVE UserInv'
  <2>1. PICK new \in Written(<<User(id, d)>>) : users' = users \o new
    BY <1>6 DEF appendUser
  <2>2. /\ users' \in Stored /\ Unique(users')
        /\ ~disk_full => \E i \in DOMAIN users' : users'[i] = User(id, d)
    BY <1>6, <2>1, AppendedFacts DEF appendUser
  <2>3. User(id, d) \in [id : Ids, data : Data] /\ <<User(id, d)>>[1] = User(id, d)
    BY <1>0 DEF User, TypeOK
  <2>4. TypeOK' /\ UniqueIds'
    BY <1>0, <1>6, <2>2, <2>3 DEF appendUser, arguments, TypeOK, UniqueIds, Unique
  <2>5. SaysWhatIsStored'
    <3>1. users' # ABSENT /\ disk_full' = disk_full /\ printed'[1] = User(id, d)
      BY <1>6, <1>n, <2>2, <2>3 DEF appendUser
    <3> QED
      BY <2>2, <3>1 DEF SaysWhatIsStored
  <2> QED
    BY <1>0, <1>6, <2>4, <2>5 DEF appendUser, UserInv, RecordsOK, Looked, CopyMade,
       TempUnique, SaidAtTheEnd
<1>t. Truncated \in Stored \cup {ABSENT} /\ (Truncated # ABSENT => Unique(Truncated))
  BY <1>0, <1>s DEF Truncated, TypeOK, TempUnique
<1>7. CASE openFails
  <2>1. leaked' \in 0 .. MAX_OPEN
    BY <1>0, <1>7 DEF openFails, LeftOpen, CanOpen, TypeOK
  <2> QED
    BY <1>0, <1>7, <1>t, <2>1 DEF openFails, arguments, UserInv, RecordsOK, TypeOK, UniqueIds,
       SaysWhatIsStored, Looked, CopyMade, TempUnique, SaidAtTheEnd
<1>8. ASSUME NEW c \in {"update", "delete"}, NEW i \in Ids, NEW d \in Data, openBoth(c, i, d)
      PROVE  UserInv'
  <2>1. TypeOK'
    BY <1>0, <1>8, <1>t DEF openBoth, TypeOK, Exists
  <2>2. Looked'
    BY <1>8 DEF openBoth, Looked, Exists
  <2> QED
    BY <1>0, <1>8, <1>t, <2>1, <2>2 DEF openBoth, UserInv, RecordsOK, UniqueIds,
       SaysWhatIsStored, CopyMade, TempUnique, SaidAtTheEnd
<1>9. CASE closeCopy
  <2>1. Copy' = Copy /\ Exists(id)' = Exists(id)
    BY <1>9, <1>w DEF closeCopy, arguments, Exists
  <2>2. Copy \in Stored /\ Unique(Copy)
    BY <1>0, <1>9, CopyFacts DEF Looked, closeCopy
  <2>3. temp' \in Stored /\ Unique(temp')
    BY <1>9, <2>2, WrittenFacts DEF closeCopy
  <2>4. CopyMade'
    BY <1>9, <2>1 DEF closeCopy, CopyMade, Written
  <2>5. TempUnique'
    BY <2>3 DEF TempUnique
  <2> QED
    BY <1>0, <1>9, <2>1, <2>3, <2>4, <2>5 DEF closeCopy, arguments, UserInv, RecordsOK, TypeOK,
       UniqueIds, SaysWhatIsStored, Looked, SaidAtTheEnd
<1>10. CASE removeOld
  <2>1. CASE users' = ABSENT /\ at' = "removed"
    <3>1. at = "copied" /\ users # ABSENT /\ temp \in Written(Copy) /\ (found <=> Exists(id))
      BY <1>0, <1>10 DEF removeOld, Looked, CopyMade
    <3>2. /\ Copy \in Stored
          /\ command = "update" /\ Exists(id) => Holds(Copy, User(id, data))
      BY <1>0, <3>1, CopyFacts
    <3>3. temp \in Stored /\ (~disk_full => temp = Copy)
      BY <3>1, <3>2, WrittenFacts
    <3>4. CopyMade'
      BY <1>10, <2>1, <3>1, <3>2, <3>3 DEF removeOld, arguments, CopyMade, Holds, User, Stored
    <3> QED
      BY <1>0, <1>10, <2>1, <3>4 DEF removeOld, arguments, UserInv, RecordsOK, TypeOK,
         UniqueIds, SaysWhatIsStored, Looked, TempUnique, SaidAtTheEnd
  <2>2. CASE at' = "menu" /\ UNCHANGED users
    BY <1>0, <1>10, <2>2 DEF removeOld, arguments, UserInv, RecordsOK, TypeOK,
       UniqueIds, SaysWhatIsStored, Looked, CopyMade, TempUnique, SaidAtTheEnd
  <2> QED
    BY <1>10, <2>1, <2>2 DEF removeOld
<1>11. CASE renameNew
  <2>1. CASE users' = temp /\ temp' = ABSENT
             /\ printed' = IF found /\ command = "update" THEN <<User(id, data)>> ELSE <<>>
    <3>1. /\ temp # ABSENT /\ Unique(temp)
          /\ found /\ command = "update" /\ ~disk_full => Holds(temp, User(id, data))
      BY <1>0, <1>11 DEF renameNew, CopyMade, TempUnique
    <3>2. User(id, data) \in [id : Ids, data : Data] /\ <<User(id, data)>>[1] = User(id, data)
      BY <1>0 DEF User, TypeOK
    <3>3. TypeOK' /\ UniqueIds'
      BY <1>0, <1>11, <2>1, <3>1, <3>2 DEF renameNew, arguments, TypeOK, UniqueIds, Unique
    <3>4. SaysWhatIsStored'
      BY <1>11, <2>1, <3>1, <3>2 DEF renameNew, SaysWhatIsStored, Holds
    <3> QED
      BY <1>0, <1>11, <2>1, <3>3, <3>4 DEF renameNew, UserInv, RecordsOK, Looked, CopyMade,
         TempUnique, SaidAtTheEnd
  <2>2. CASE UNCHANGED <<users, temp, printed>>
    BY <1>0, <1>11, <2>2 DEF renameNew, arguments, UserInv, RecordsOK, TypeOK,
       UniqueIds, SaysWhatIsStored, Looked, CopyMade, TempUnique, SaidAtTheEnd
  <2> QED
    BY <1>11, <2>1, <2>2 DEF renameNew
<1>12. CASE UNCHANGED vars
  <2>1. Copy' = Copy
    BY <1>12, <1>w DEF vars, arguments
  <2> QED
    BY <1>0, <1>12, <2>1 DEF vars, arguments, UserInv, RecordsOK, TypeOK, UniqueIds, Exists,
       SaysWhatIsStored, Looked, CopyMade, Written, TempUnique, SaidAtTheEnd
<1> QED
  BY <1>1, <1>2, <1>3, <1>4, <1>5, <1>6, <1>7, <1>8, <1>9, <1>10, <1>11, <1>12 DEF Next

\* After any number of commands, interruptions, failing calls and starts, also
\* on a full disk: the ids in users.txt are unique, at most MAX_OPEN files are
\* open, and what addUser and updateUser said they stored is stored.
THEOREM RecordsCorrect == Spec => []RecordsOK
<1>1. UserInv => RecordsOK
  BY DEF UserInv
<1> QED
  BY InitInv, NextInv, <1>1, PTL DEF Spec

-----------------------------------------------------------------------------
(* Every command takes effect as a whole or not at all.                    *)

\* The stored users and the phase that UserDirectory sees.
Seen == IF users # ABSENT THEN users ELSE IF temp # ABSENT THEN temp ELSE <<>>
Phase == IF at = "removed" THEN "pending"
         ELSE IF users = ABSENT /\ temp \notin {ABSENT, <<>>} THEN "broken" ELSE "whole"

DirectoryVars == <<Seen, disk_full, Phase>>

\* While users.txt is there, it is the directory.
LEMMA SeenWhole ==
  ASSUME users # ABSENT, at # "removed"
  PROVE  Seen = users /\ Phase = "whole"
  BY DEF Seen, Phase

\* addUser: at the end of the file.
LEMMA AppendRefines ==
  ASSUME UserInv, NEW d \in Data, appendUser(d)
  PROVE  Directory!Next
<1>1. /\ users # ABSENT /\ at = "adding" /\ id \in Ids
      /\ \A j \in DOMAIN users : users[j].id # id
  BY DEF UserInv, RecordsOK, TypeOK, Looked, Exists, appendUser
<1>2. Seen = users /\ Phase = "whole"
  BY <1>1, SeenWhole
<1>3. PICK new \in Written(<<User(id, d)>>) : users' = users \o new
  BY DEF appendUser
<1>4. users' # ABSENT
  BY <1>1, <1>3, AppendedFacts, UserFileAssumption DEF Stored
<1>5. Seen' = users \o new /\ Phase' = "whole" /\ disk_full' = disk_full
  BY <1>3, <1>4 DEF appendUser, Seen, Phase
<1>6. id \notin Directory!StoredIds
  BY <1>1, <1>2 DEF Directory!StoredIds, Seen
<1>7. new \in Directory!Kept(<<[id |-> id, data |-> d]>>)
  BY <1>3 DEF Written, Directory!Kept, User
<1>8. Directory!Add(id, d)
  BY <1>2, <1>5, <1>6, <1>7 DEF Directory!Add, Seen, Phase
<1> QED
  BY <1>1, <1>8 DEF Directory!Next

\* updateUser and deleteUser: when the old file is removed.
LEMMA RemoveRefines ==
  ASSUME UserInv, removeOld, users' = ABSENT, at' = "removed"
  PROVE  Directory!Next
<1>1. /\ users # ABSENT /\ at = "copied" /\ id \in Ids /\ data \in Data
      /\ users \in Stored /\ Unique(users) /\ temp \in Written(Copy)
      /\ command \in {"update", "delete"}
      /\ temp' = temp /\ disk_full' = disk_full
  BY DEF UserInv, RecordsOK, TypeOK, UniqueIds, Unique, Looked, CopyMade, removeOld
<1>2. Seen = users /\ Phase = "whole"
  BY <1>1, SeenWhole
<1>3. temp # ABSENT
  <2>1. Copy \in Stored
    BY <1>1, CopyFacts DEF UserInv, RecordsOK
  <2> QED
    BY <1>1, <2>1, WrittenFacts, UserFileAssumption DEF Stored
<1>4. Seen' = temp /\ Phase' = "pending"
  BY <1>1, <1>3 DEF Seen, Phase
<1>5. \A c : Written(c) = Directory!Kept(c)
  BY DEF Written, Directory!Kept
<1>6. Directory!StoredIds = { users[i].id : i \in DOMAIN users }
  BY <1>2 DEF Directory!StoredIds, Seen
<1>7. CASE \A j \in DOMAIN users : users[j].id # id
  <2>1. Copy = users
    <3>1. CASE command = "update"
      <4>1. Copy = [j \in DOMAIN users |-> users[j]]
        BY <1>7, <3>1 DEF Copy
      <4> QED
        BY <1>1, <4>1 DEF Stored
    <3>2. CASE command # "update"
      BY <1>1, <1>7, <3>2, OthersSame DEF Copy
    <3> QED
      BY <3>1, <3>2
  <2>2. id \notin Directory!StoredIds /\ Seen' \in Directory!Kept(Seen)
    BY <1>1, <1>2, <1>4, <1>5, <1>6, <1>7, <2>1
  <2>3. Directory!NotFound(id)
    BY <1>1, <1>2, <1>4, <2>2 DEF Directory!NotFound, Seen, Phase
  <2> QED
    BY <1>1, <2>3 DEF Directory!Next
<1>8. ASSUME NEW k \in DOMAIN users, users[k].id = id PROVE Directory!Next
  <2>1. CASE command = "update"
    <3>1. id \in Directory!StoredIds
      BY <1>6, <1>8
    <3>2. Copy = [i \in DOMAIN Seen |->
                    IF Seen[i].id = id THEN [id |-> id, data |-> data] ELSE Seen[i]]
      BY <1>2, <2>1 DEF Copy, User
    <3>3. Seen' \in Directory!Kept([i \in DOMAIN Seen |->
                    IF Seen[i].id = id THEN [id |-> id, data |-> data] ELSE Seen[i]])
      BY <1>1, <1>4, <1>5, <3>2
    <3>4. Directory!Update(id, data)
      BY <1>1, <1>2, <1>4, <3>1, <3>3 DEF Directory!Update, Seen, Phase
    <3> QED
      BY <1>1, <3>4 DEF Directory!Next
  <2>2. CASE command = "delete"
    <3>1. Copy = RemoveAt(users, k)
      BY <1>1, <1>8, <2>2, OthersRemoves DEF Copy
    <3>2. Directory!RemoveAt(users, k) = RemoveAt(users, k)
      BY DEF Directory!RemoveAt, RemoveAt
    <3>3. k \in DOMAIN Seen /\ Seen[k].id = id /\ Seen' \in Directory!Kept(Directory!RemoveAt(Seen, k))
      BY <1>1, <1>2, <1>4, <1>5, <1>8, <3>1, <3>2
    <3>4. Directory!Delete(id)
      BY <1>1, <1>2, <1>4, <3>3 DEF Directory!Delete, Seen, Phase
    <3> QED
      BY <1>1, <3>4 DEF Directory!Next
  <2> QED
    BY <1>1, <2>1, <2>2
<1> QED
  BY <1>7, <1>8

\* The steps that change nothing of users.txt show only when it is missing: a
\* command that was cut short is then undone at the next use of the program.
LEMMA StepRefines ==
  ASSUME UserInv, [Next]_vars
  PROVE  [Directory!Next]_DirectoryVars
<1> USE DEF DirectoryVars
<1>0. /\ at = "adding" => users # ABSENT
      /\ at \in {"copying", "copied"} => users # ABSENT
      /\ at = "removed" => users = ABSENT /\ temp # ABSENT
  BY DEF UserInv, Looked, CopyMade
<1>n. <<>> # ABSENT
  <2>1. <<>> \in Seq([id : Ids, data : Data])
    OBVIOUS
  <2> QED
    BY <2>1, UserFileAssumption
<1>1. CASE DiskFills
  <2>1. Directory!DiskFills
    BY <1>1 DEF DiskFills, Directory!DiskFills, Seen, Phase
  <2> QED
    BY <2>1 DEF Directory!Next
<1>2. CASE Start \/ Quit
  BY <1>2 DEF Start, Quit, Seen, Phase
<1>3. CASE Interrupt
  <2>1. CASE at = "removed"
    <3>1. Seen' = Seen /\ disk_full' = disk_full /\ Phase = "pending"
          /\ Phase' \in {"broken", "whole"}
      BY <1>3, <2>1 DEF Interrupt, Seen, Phase
    <3>2. Directory!CutShort \/ Directory!Complete
      BY <3>1 DEF Directory!CutShort, Directory!Complete, Seen, Phase
    <3> QED
      BY <3>2 DEF Directory!Next
  <2>2. CASE at # "removed"
    BY <1>0, <1>3, <2>2 DEF Interrupt, Seen, Phase
  <2> QED
    BY <2>1, <2>2
<1>4. ASSUME NEW i \in Ids, openForAdding(i) PROVE [Directory!Next]_DirectoryVars
  <2>1. CASE Phase = "broken"
    <3>1. Seen' = <<>> /\ Phase' = "whole" /\ disk_full' = disk_full
      BY <1>4, <1>n, <2>1 DEF openForAdding, Seen, Phase
    <3>2. Directory!Lose
      BY <2>1, <3>1 DEF Directory!Lose, Seen, Phase
    <3> QED
      BY <3>2 DEF Directory!Next
  <2>2. CASE Phase # "broken"
    BY <1>4, <1>n, <2>2 DEF openForAdding, Seen, Phase
  <2> QED
    BY <2>1, <2>2
<1>5. ASSUME NEW d \in Data, appendUser(d) PROVE [Directory!Next]_DirectoryVars
  BY <1>5, AppendRefines
<1>6. CASE openFails
  <2>1. CASE Phase = "broken" /\ Truncated = <<>>
    <3>1. Seen' = <<>> /\ Phase' = "whole" /\ disk_full' = disk_full
      BY <1>6, <1>n, <2>1 DEF openFails, Seen, Phase
    <3>2. Directory!Lose
      BY <2>1, <3>1 DEF Directory!Lose, Seen, Phase
    <3> QED
      BY <3>2 DEF Directory!Next
  <2>2. CASE Phase # "broken" \/ Truncated # <<>>
    BY <1>6, <1>n, <2>2 DEF openFails, Truncated, Seen, Phase
  <2> QED
    BY <2>1, <2>2
<1>7. ASSUME NEW c \in {"update", "delete"}, NEW i \in Ids, NEW d \in Data, openBoth(c, i, d)
      PROVE  [Directory!Next]_DirectoryVars
  BY <1>7 DEF openBoth, Seen, Phase
<1>8. CASE closeCopy
  BY <1>0, <1>8 DEF closeCopy, Seen, Phase
<1>9. CASE removeOld
  <2>1. CASE users' = ABSENT /\ at' = "removed"
    BY <1>9, <2>1, RemoveRefines
  <2>2. CASE at' = "menu" /\ UNCHANGED users
    BY <1>0, <1>9, <2>2 DEF removeOld, Seen, Phase
  <2> QED
    BY <1>9, <2>1, <2>2 DEF removeOld
<1>10. CASE renameNew
  <2>1. Seen' = Seen /\ disk_full' = disk_full /\ Phase = "pending" /\ Phase' \in {"broken", "whole"}
    BY <1>0, <1>10 DEF renameNew, Seen, Phase
  <2>2. Directory!CutShort \/ Directory!Complete
    BY <2>1 DEF Directory!CutShort, Directory!Complete, Seen, Phase
  <2> QED
    BY <2>2 DEF Directory!Next
<1>11. CASE UNCHANGED vars
  BY <1>11 DEF vars, Seen, Phase
<1> QED
  BY <1>1, <1>2, <1>3, <1>4, <1>5, <1>6, <1>7, <1>8, <1>9, <1>10, <1>11 DEF Next

\* crud_users.c keeps the promise of UserDirectory: wherever the program is
\* interrupted and whichever call fails, an addition, an update or a deletion
\* has happened as a whole or not at all, and users are lost only on a full disk
\* or when the program is used on while users.txt is missing.
THEOREM CommandsAreAtomic == Spec => RefinesDirectory
<1>1. Init => Directory!Init
  BY DEF Init, Directory!Init
<1>2. UserInv /\ [Next]_vars => [Directory!Next]_DirectoryVars
  BY StepRefines
<1>3. Spec => []UserInv
  BY InitInv, NextInv, PTL DEF Spec
<1> QED
  BY <1>1, <1>2, <1>3, PTL DEF Spec, RefinesDirectory, Directory!Spec, Directory!vars,
     DirectoryVars, Seen, Phase

-----------------------------------------------------------------------------
(* The inductive invariant of VirtualFileSystem.                           *)

\* The children of dir in nodes form a circle that spells c from the first.
Ring(c, nodes, dir) ==
  /\ c \in Seq(Nodes) /\ IsInjective(c)
  /\ nodes[dir].firstChild = (IF Len(c) = 0 THEN NULL ELSE c[1])
  /\ \A i \in 1 .. Len(c) : nodes[c[i]].nextSibling = (IF i = Len(c) THEN c[1] ELSE c[i + 1])

\* What the circles spell, for every node.
Kids(nodes) == [d \in Nodes |-> Siblings(nodes, d)]

\* S holds the children of all that it holds.
Whole(kids, S) == \A d \in S : \A i \in 1 .. Len(kids[d]) : kids[d][i] \in S

\* Every node has a circle, most of them an empty one.
Rings(nodes, kids) == \A d \in Nodes : Ring(kids[d], nodes, d)

\* Every child is in use, knows its parent, and has a name of its own.
Families(nodes, used, kids) ==
  \A d \in Nodes :
    /\ Len(kids[d]) # 0 => nodes[d].isFolder
    /\ \A i \in 1 .. Len(kids[d]) :
         kids[d][i] \in used /\ kids[d][i] # root /\ nodes[kids[d][i]].parent = d
    /\ \A i, j \in 1 .. Len(kids[d]) :
         nodes[kids[d][i]].name = nodes[kids[d][j]].name => i = j

\* Every node in use but the root is a child of one in use.
ParentsKnow(nodes, used, kids) ==
  \A n \in used : n # root =>
    /\ nodes[n].parent \in used
    /\ \E i \in 1 .. Len(kids[nodes[n].parent]) : kids[nodes[n].parent][i] = n

\* No node in use is out of reach of the root.
Reached(used, kids) == \A S \in SUBSET Nodes : root \in S /\ Whole(kids, S) => used \subseteq S

\* The nodes in use form one tree, whose circles spell kids.
Structure(nodes, used, kids) ==
  /\ used \subseteq Nodes /\ root \in used /\ nodes[root].isFolder
  /\ \A d \in Nodes : d \notin used => nodes[d] = Garbage
  /\ Rings(nodes, kids)
  /\ Families(nodes, used, kids)
  /\ ParentsKnow(nodes, used, kids)
  /\ Reached(used, kids)

\* A block is free or has one owner, and the owner is a file.
Owned(nodes, used, list) ==
  /\ list \in Seq(Blocks) /\ IsInjective(list)
  /\ \A n \in used : nodes[n].isFolder => nodes[n].block = NULL
  /\ \A n \in used : \A i \in 1 .. Len(list) : nodes[n].block # list[i]
  /\ \A m, n \in used : nodes[m].block = nodes[n].block /\ nodes[m].block # NULL => m = n
  /\ ~MallocMayFail => \A b \in Blocks :
        (\E i \in 1 .. Len(list) : list[i] = b) \/ (\E n \in used : nodes[n].block = b)

\* What every command preserves.  Two nodes of a circle never share a name, no
\* node is in two circles, and what the circles do not reach is not in use.
VfsInv ==
  /\ VfsTypeOK
  /\ Running => /\ rootDirectory = root /\ currentDirectory \in allocated
                /\ node[currentDirectory].isFolder
                /\ Structure(node, allocated, Kids(node))
                /\ Owned(node, allocated, freeBlockList)
  /\ ~Running => allocated = {}

-----------------------------------------------------------------------------
(* The loops over a circle meet what it spells.                            *)

\* The first k of a circle: what the loop has met on its way.
FirstOf(c, k) == [j \in 1 .. k |-> c[j]]

\* One more node is met with each step.
LEMMA RingPrefix ==
  ASSUME NEW c \in Seq(Nodes), NEW k \in 1 .. Len(c)
  PROVE  /\ FirstOf(c, k) \in Seq(Nodes) /\ Len(FirstOf(c, k)) = k
         /\ Last(FirstOf(c, k)) = c[k]
         /\ k # Len(c) => k + 1 \in 1 .. Len(c) /\ FirstOf(c, k + 1) = Append(FirstOf(c, k), c[k + 1])
<1> DEFINE p == FirstOf(c, k)
<1>1. Len(c) \in Nat /\ k \in Nat /\ k >= 1 /\ \A j \in 1 .. k : j \in 1 .. Len(c) /\ c[j] \in Nodes
  OBVIOUS
<1>2. p = [j \in 1 .. k |-> c[j]] /\ DOMAIN p = 1 .. k /\ \A j \in 1 .. k : p[j] = c[j]
  BY DEF FirstOf
<1>3. p \in Seq(Nodes) /\ Len(p) = k
  <2>1. p \in [1 .. k -> Nodes]
    BY <1>1, <1>2
  <2> QED
    BY <1>1, <2>1
<1>4. Last(p) = c[k]
  BY <1>1, <1>2, <1>3 DEF Last
<1>5. ASSUME k # Len(c)
      PROVE  k + 1 \in 1 .. Len(c) /\ FirstOf(c, k + 1) = Append(p, c[k + 1])
  <2>1. k + 1 \in 1 .. Len(c) /\ c[k + 1] \in Nodes
    BY <1>1, <1>5
  <2> DEFINE a == Append(p, c[k + 1])
  <2> HIDE DEF p
  <2>2. a \in Seq(Nodes) /\ Len(a) = k + 1 /\ \A j \in 1 .. k + 1 : a[j] = IF j <= k THEN p[j] ELSE c[k + 1]
    BY <1>1, <1>3, <2>1
  <2>3. \A j \in 1 .. k + 1 : a[j] = c[j]
    <3> TAKE j \in 1 .. k + 1
    <3>1. j \in 1 .. k \/ j = k + 1
      BY <1>1
    <3> QED
      BY <1>1, <1>2, <2>2, <3>1
  <2>4. DOMAIN a = 1 .. k + 1 /\ a = [j \in 1 .. k + 1 |-> a[j]]
    BY <2>2
  <2>5. a = [j \in 1 .. k + 1 |-> c[j]]
    BY <2>3, <2>4
  <2> QED
    BY <2>1, <2>5 DEF FirstOf
<1> QED
  BY <1>3, <1>4, <1>5

\* The loop starts at the first node and has met all of them at the end.
LEMMA WholeRing ==
  ASSUME NEW c \in Seq(Nodes), Len(c) # 0
  PROVE  FirstOf(c, Len(c)) = c /\ FirstOf(c, 1) = <<c[1]>>
<1>1. Len(c) \in Nat /\ c = [j \in 1 .. Len(c) |-> c[j]]
  OBVIOUS
<1>2. FirstOf(c, Len(c)) = c
  BY <1>1 DEF FirstOf
<1>3. 1 \in 1 .. Len(c)
  BY <1>1
<1>4. FirstOf(c, 1) \in Seq(Nodes) /\ Len(FirstOf(c, 1)) = 1 /\ FirstOf(c, 1)[1] = c[1]
  BY <1>3, RingPrefix DEF FirstOf
<1> QED
  BY <1>2, <1>4

\* A circle has no more nodes than there are.
LEMMA RingFits ==
  ASSUME NEW c \in Seq(Nodes), IsInjective(c)
  PROVE  Cardinality(Nodes) \in Nat /\ Len(c) <= Cardinality(Nodes)
<1>1. Len(c) \in Nat /\ c \in [1 .. Len(c) -> Nodes] /\ DOMAIN c = 1 .. Len(c)
  OBVIOUS
<1>2. IsFiniteSet(Nodes) /\ IsFiniteSet(1 .. Len(c)) /\ Cardinality(1 .. Len(c)) = Len(c)
  BY <1>1, IntervalFacts, FileSystemAssumption
<1>3. c \in Injection(1 .. Len(c), Nodes)
  BY <1>1, InjectionByElements DEF IsInjective
<1> QED
  BY <1>2, <1>3, FS_Injection, FS_CardinalityType

\* One step of the loop.
Onward(nodes, first) ==
  [met \in Seq(Nodes) |->
     LET next == nodes[Last(met)].nextSibling
     IN IF next \in {NULL, first} THEN met ELSE Append(met, next)]

\* What the loop has met after i steps.
Upto(c, i) == FirstOf(c, IF i < Len(c) THEN i + 1 ELSE Len(c))

\* One step of the loop over a circle goes to the next node, or stops at the last.
LEMMA OnwardFacts ==
  ASSUME NEW nodes, NEW dir, NEW c, Ring(c, nodes, dir), NEW i \in Nat, Len(c) # 0
  PROVE  Onward(nodes, c[1])[Upto(c, i)] = Upto(c, i + 1)
<1>1. /\ c \in Seq(Nodes) /\ Len(c) \in Nat /\ IsInjective(c) /\ DOMAIN c = 1 .. Len(c)
      /\ \A j \in 1 .. Len(c) : c[j] \in Nodes /\ c[j] # NULL
  BY FileSystemAssumption DEF Ring
<1> PICK n : n = Len(c)
  OBVIOUS
<1>2. PICK k : k = IF i < n THEN i + 1 ELSE n
  OBVIOUS
<1>a. n \in Nat /\ n # 0 /\ i \in Nat
  BY <1>1
<1>3. k \in 1 .. Len(c) /\ Upto(c, i) = FirstOf(c, k)
  <2>1. k \in 1 .. n
    BY <1>2, <1>a
  <2> QED
    BY <1>2, <2>1 DEF Upto
<1>4. /\ FirstOf(c, k) \in Seq(Nodes) /\ Last(FirstOf(c, k)) = c[k]
      /\ k # Len(c) => k + 1 \in 1 .. Len(c) /\ FirstOf(c, k + 1) = Append(FirstOf(c, k), c[k + 1])
  BY <1>1, <1>3, RingPrefix
<1>5. nodes[c[k]].nextSibling = IF k = Len(c) THEN c[1] ELSE c[k + 1]
  BY <1>3 DEF Ring
<1>6. Onward(nodes, c[1])[FirstOf(c, k)] =
        IF nodes[c[k]].nextSibling \in {NULL, c[1]} THEN FirstOf(c, k)
        ELSE Append(FirstOf(c, k), nodes[c[k]].nextSibling)
  BY <1>4 DEF Onward
<1>7. CASE k = Len(c)
  <2>1. Upto(c, i + 1) = FirstOf(c, k)
    <3>1. (IF i + 1 < n THEN i + 1 + 1 ELSE n) = n
      BY <1>2, <1>7, <1>a
    <3> QED
      BY <1>7, <3>1 DEF Upto
  <2> QED
    BY <1>3, <1>5, <1>6, <1>7, <2>1
<1>8. CASE k # Len(c)
  <2>1. k = i + 1 /\ (IF i + 1 < n THEN i + 1 + 1 ELSE n) = k + 1
    BY <1>2, <1>8, <1>a
  <2>2. Upto(c, i + 1) = FirstOf(c, k + 1)
    BY <2>1 DEF Upto
  <2>3. k + 1 \in 1 .. Len(c) /\ 1 \in 1 .. Len(c) /\ k + 1 # 1
    BY <1>3, <1>4, <1>8
  <2>4. c[k + 1] # NULL /\ c[k + 1] # c[1]
    BY <1>1, <2>3 DEF IsInjective
  <2> QED
    BY <1>3, <1>4, <1>5, <1>6, <1>8, <2>2, <2>4
<1> QED
  BY <1>7, <1>8

\* The loop over the children meets the nodes of the circle, each one once.
LEMMA RingIsMet ==
  ASSUME NEW nodes, NEW dir, NEW c, Ring(c, nodes, dir)
  PROVE  Siblings(nodes, dir) = c
<1> PICK C : C = Cardinality(Nodes)
  OBVIOUS
<1> DEFINE first == nodes[dir].firstChild
           w == CHOOSE f : f = [i \in 0 .. C |-> IF i = 0 THEN <<first>> ELSE Onward(nodes, first)[f[i - 1]]]
           T == { i \in Nat : i \in 0 .. C => w[i] = Upto(c, i) }
<1>1. /\ c \in Seq(Nodes) /\ Len(c) \in Nat /\ C \in Nat /\ Len(c) <= C
      /\ first = IF Len(c) = 0 THEN NULL ELSE c[1]
      /\ \A j \in 1 .. Len(c) : c[j] \in Nodes /\ c[j] # NULL
  BY RingFits, FileSystemAssumption DEF Ring
<1>2. Siblings(nodes, dir) = IF first = NULL THEN <<>> ELSE w[C]
  BY DEF Siblings, Onward
<1>3. CASE Len(c) = 0
  BY <1>1, <1>2, <1>3
<1>4. CASE Len(c) # 0
  <2>1. 1 \in 1 .. Len(c) /\ first = c[1] /\ first # NULL
    BY <1>1, <1>4
  <2> HIDE DEF w, T, first
  <2> DEFINE e == [i \in 0 .. C |-> Upto(c, i)]
  <2>2. \A i \in Nat : Onward(nodes, first)[Upto(c, i)] = Upto(c, i + 1)
    BY <1>4, <2>1, OnwardFacts
  <2>3. Upto(c, 0) = <<first>>
    <3>1. (IF 0 < Len(c) THEN 0 + 1 ELSE Len(c)) = 1
      BY <1>1, <1>4
    <3>2. FirstOf(c, 1) = <<c[1]>>
      BY <1>1, <1>4, WholeRing
    <3> QED
      BY <2>1, <3>1, <3>2 DEF Upto
  <2>4. \A i \in 0 .. C : e[i] = IF i = 0 THEN <<first>> ELSE Onward(nodes, first)[e[i - 1]]
    <3> TAKE i \in 0 .. C
    <3>1. CASE i = 0
      BY <1>1, <2>3, <3>1
    <3>2. CASE i # 0
      <4>1. i - 1 \in Nat /\ i - 1 \in 0 .. C /\ i - 1 + 1 = i
        BY <1>1, <3>2
      <4>2. Onward(nodes, first)[Upto(c, i - 1)] = Upto(c, i)
        BY <2>2, <4>1
      <4> QED
        BY <3>2, <4>1, <4>2
    <3> QED
      BY <3>1, <3>2
  <2>5. e = [i \in 0 .. C |-> IF i = 0 THEN <<first>> ELSE Onward(nodes, first)[e[i - 1]]]
    <3>1. e = [i \in 0 .. C |-> e[i]]
      OBVIOUS
    <3> HIDE DEF e
    <3> QED
      BY <2>4, <3>1
  <2> HIDE DEF e
  <2>6. w = [i \in 0 .. C |-> IF i = 0 THEN <<first>> ELSE Onward(nodes, first)[w[i - 1]]]
    <3>1. \E g : g = [i \in 0 .. C |-> IF i = 0 THEN <<first>> ELSE Onward(nodes, first)[g[i - 1]]]
      BY <2>5
    <3> QED
      BY <3>1 DEF w
  <2>7. \A i \in 0 .. C : w[i] = IF i = 0 THEN <<first>> ELSE Onward(nodes, first)[w[i - 1]]
    BY <2>6
  <2>8. 0 \in T
    <3>1. 0 \in 0 .. C
      BY <1>1
    <3> QED
      BY <2>3, <2>7, <3>1 DEF T
  <2>9. ASSUME NEW i \in Nat, i \in T PROVE i + 1 \in T
    <3> SUFFICES ASSUME i + 1 \in 0 .. C PROVE w[i + 1] = Upto(c, i + 1)
      BY DEF T
    <3>1. PICK m : m = i + 1
      OBVIOUS
    <3>2. m \in 0 .. C /\ m # 0 /\ m - 1 = i /\ i \in 0 .. C
      BY <1>1, <3>1
    <3>3. w[m] = Onward(nodes, first)[w[i]]
      BY <2>7, <3>2
    <3>4. w[i] = Upto(c, i)
      BY <2>9, <3>2 DEF T
    <3> QED
      BY <2>2, <3>1, <3>3, <3>4
  <2>10. Nat \subseteq T
    BY <2>8, <2>9, InductionOnNat
  <2>11. w[C] = Upto(c, C)
    BY <1>1, <2>10 DEF T
  <2>12. Upto(c, C) = c
    <3>1. (IF C < Len(c) THEN C + 1 ELSE Len(c)) = Len(c)
      BY <1>1
    <3>2. FirstOf(c, Len(c)) = c
      BY <1>1, <1>4, WholeRing
    <3> QED
      BY <3>1, <3>2 DEF Upto
  <2> QED
    BY <1>2, <2>1, <2>11, <2>12
<1> QED
  BY <1>3, <1>4

\* So the circles are what the loops meet.
LEMMA SiblingsAreKids ==
  ASSUME NEW nodes, NEW kids, kids = [d \in Nodes |-> kids[d]], Rings(nodes, kids)
  PROVE  Kids(nodes) = kids
<1>1. \A d \in Nodes : Siblings(nodes, d) = kids[d]
  BY RingIsMet DEF Rings
<1> QED
  BY <1>1 DEF Kids

-----------------------------------------------------------------------------
(* What is known of the nodes and circles.                                 *)

\* What memory may hold for a Node.
NodeRecords ==
  [name : Names \cup {NULL}, isFolder : BOOLEAN, parent : Pointers,
   nextSibling : Pointers, firstChild : Pointers, block : Blocks \cup {NULL}]

\* What the structure says of the children of one node.
LEMMA KidFacts ==
  ASSUME NEW nodes, NEW used, NEW kids, Structure(nodes, used, kids), NEW d \in Nodes
  PROVE  /\ kids[d] \in Seq(Nodes) /\ Len(kids[d]) \in Nat /\ DOMAIN kids[d] = 1 .. Len(kids[d])
         /\ \A i \in 1 .. Len(kids[d]) :
              /\ kids[d][i] \in Nodes /\ kids[d][i] # NULL
              /\ kids[d][i] \in used /\ kids[d][i] # root /\ nodes[kids[d][i]].parent = d
         /\ \A i, j \in 1 .. Len(kids[d]) : kids[d][i] = kids[d][j] => i = j
         /\ nodes[d].firstChild = IF Len(kids[d]) = 0 THEN NULL ELSE kids[d][1]
         /\ d \notin used => Len(kids[d]) = 0
<1>1. Ring(kids[d], nodes, d)
  BY DEF Structure, Rings
<1>2. kids[d] \in Seq(Nodes) /\ Len(kids[d]) \in Nat /\ DOMAIN kids[d] = 1 .. Len(kids[d])
  BY <1>1 DEF Ring
<1>3. \A i \in 1 .. Len(kids[d]) : kids[d][i] \in Nodes /\ kids[d][i] # NULL
  BY <1>2, FileSystemAssumption
<1>4. \A i \in 1 .. Len(kids[d]) :
        kids[d][i] \in used /\ kids[d][i] # root /\ nodes[kids[d][i]].parent = d
  BY DEF Structure, Families
<1>5. \A i, j \in 1 .. Len(kids[d]) : kids[d][i] = kids[d][j] => i = j
  BY <1>1, <1>2 DEF Ring, IsInjective
<1>6. nodes[d].firstChild = IF Len(kids[d]) = 0 THEN NULL ELSE kids[d][1]
  BY <1>1 DEF Ring
<1>7. ASSUME d \notin used PROVE Len(kids[d]) = 0
  <2>1. nodes[d].firstChild = NULL
    BY <1>7 DEF Structure, Garbage, Made
  <2>2. Len(kids[d]) # 0 => 1 \in 1 .. Len(kids[d])
    BY <1>2
  <2> QED
    BY <1>3, <1>6, <2>1, <2>2
<1> QED
  BY <1>2, <1>3, <1>4, <1>5, <1>6, <1>7

\* A node is in no circle but that of its parent, and at one place there.
LEMMA OneCircle ==
  ASSUME NEW nodes, NEW used, NEW kids, Structure(nodes, used, kids),
         NEW d \in Nodes, NEW e \in Nodes,
         NEW i \in 1 .. Len(kids[d]), NEW j \in 1 .. Len(kids[e]), kids[d][i] = kids[e][j]
  PROVE  d = e /\ i = j
<1>1. nodes[kids[d][i]].parent = d /\ nodes[kids[e][j]].parent = e
  <2>1. nodes[kids[d][i]].parent = d
    BY KidFacts
  <2>2. nodes[kids[e][j]].parent = e
    BY KidFacts
  <2> QED
    BY <2>1, <2>2
<1>2. d = e
  BY <1>1
<1>3. \A k, l \in 1 .. Len(kids[d]) : kids[d][k] = kids[d][l] => k = l
  BY KidFacts
<1> QED
  BY <1>2, <1>3

-----------------------------------------------------------------------------
(* A new child.                                                            *)

\* The nodes with n at the end of the circle c of dir.
AddedTo(nodes, c, dir, n, name, isFolder) ==
  IF Len(c) = 0
  THEN [nodes EXCEPT ![n] = Made(name, isFolder, dir, n), ![dir].firstChild = n]
  ELSE [nodes EXCEPT ![n] = Made(name, isFolder, dir, c[1]), ![c[Len(c)]].nextSibling = n]

\* What stays of a node whose links may change.
SameButLinks(new, old) ==
  /\ new.name = old.name /\ new.isFolder = old.isFolder
  /\ new.parent = old.parent /\ new.block = old.block

\* What becomes of the fields when n joins c.
Added(nodes, c, dir, n, name, isFolder, new) ==
  /\ new \in [Nodes -> NodeRecords]
  /\ new[n] = Made(name, isFolder, dir, IF Len(c) = 0 THEN n ELSE c[1])
  /\ \A x \in Nodes : x # n =>
       /\ SameButLinks(new[x], nodes[x])
       /\ new[x].firstChild = (IF x = dir /\ Len(c) = 0 THEN n ELSE nodes[x].firstChild)
       /\ new[x].nextSibling =
            (IF Len(c) # 0 /\ x = c[Len(c)] THEN n ELSE nodes[x].nextSibling)
       /\ x # dir /\ (Len(c) # 0 => x # c[Len(c)]) => new[x] = nodes[x]

\* What putting n in writes, field by field.
LEMMA AddedFields ==
  ASSUME NEW nodes \in [Nodes -> NodeRecords], NEW c \in Seq(Nodes), NEW dir \in Nodes,
         NEW n \in Nodes, n # dir, \A i \in 1 .. Len(c) : c[i] # n,
         NEW name \in Names, NEW isFolder \in BOOLEAN,
         NEW new, new = AddedTo(nodes, c, dir, n, name, isFolder)
  PROVE  Added(nodes, c, dir, n, name, isFolder, new)
<1>1. Made(name, isFolder, dir, n) \in NodeRecords /\ \A f \in Nodes : Made(name, isFolder, dir, f) \in NodeRecords
  BY DEF Made, NodeRecords, Pointers
<1>2. CASE Len(c) = 0
  <2>1. new = [nodes EXCEPT ![n] = Made(name, isFolder, dir, n), ![dir].firstChild = n]
    BY <1>2 DEF AddedTo
  <2>2. /\ new \in [Nodes -> NodeRecords] /\ new[n] = Made(name, isFolder, dir, n)
    BY <1>1, <2>1 DEF NodeRecords, Pointers
  <2>3. new[dir] = [nodes[dir] EXCEPT !.firstChild = n] /\ \A x \in Nodes : x # n /\ x # dir => new[x] = nodes[x]
    BY <2>1
  <2>4. nodes[dir] \in NodeRecords
    OBVIOUS
  <2>5. /\ SameButLinks(new[dir], nodes[dir]) /\ new[dir].firstChild = n
        /\ new[dir].nextSibling = nodes[dir].nextSibling
    BY <2>3, <2>4 DEF SameButLinks, NodeRecords
  <2> QED
    BY <1>2, <2>2, <2>3, <2>5 DEF SameButLinks, Added
<1>3. CASE Len(c) # 0
  <2>1. new = [nodes EXCEPT ![n] = Made(name, isFolder, dir, c[1]), ![c[Len(c)]].nextSibling = n]
    BY <1>3 DEF AddedTo
  <2>2. PICK l : l = c[Len(c)]
    OBVIOUS
  <2>3. Len(c) \in 1 .. Len(c) /\ 1 \in 1 .. Len(c) /\ c[1] \in Nodes /\ l \in Nodes /\ l # n
    BY <1>3, <2>2
  <2>4. new = [nodes EXCEPT ![n] = Made(name, isFolder, dir, c[1]), ![l].nextSibling = n]
    BY <2>1, <2>2
  <2>5. /\ new \in [Nodes -> NodeRecords] /\ new[n] = Made(name, isFolder, dir, c[1])
    <3>1. PICK m : m = Made(name, isFolder, dir, c[1])
      OBVIOUS
    <3>2. m \in NodeRecords
      BY <1>1, <2>3, <3>1
    <3>3. new = [nodes EXCEPT ![n] = m, ![l].nextSibling = n]
      BY <2>4, <3>1
    <3>4. [nodes[l] EXCEPT !.nextSibling = n] \in NodeRecords
      BY <2>3 DEF NodeRecords, Pointers
    <3>5. /\ new[n] = m /\ new[l] = [nodes[l] EXCEPT !.nextSibling = n]
          /\ \A x \in Nodes : x # n /\ x # l => new[x] = nodes[x]
      BY <2>3, <3>3
    <3>6. new = [x \in Nodes |-> new[x]]
      BY <3>3
    <3> QED
      BY <2>3, <3>1, <3>2, <3>4, <3>5, <3>6
  <2>6. new[l] = [nodes[l] EXCEPT !.nextSibling = n] /\ \A x \in Nodes : x # n /\ x # l => new[x] = nodes[x]
    BY <2>3, <2>4
  <2>7. nodes[l] \in NodeRecords
    BY <2>3
  <2>8. /\ SameButLinks(new[l], nodes[l]) /\ new[l].nextSibling = n
        /\ new[l].firstChild = nodes[l].firstChild
    BY <2>6, <2>7 DEF SameButLinks, NodeRecords
  <2> QED
    BY <1>3, <2>2, <2>5, <2>6, <2>8 DEF SameButLinks, Added
<1> QED
  BY <1>2, <1>3

\* The circle of the directory that got the new node.
LEMMA AddedRing ==
  ASSUME NEW nodes, NEW c, NEW dir, Ring(c, nodes, dir), NEW n \in Nodes,
         \A i \in 1 .. Len(c) : c[i] # n, NEW new,
         new[n].nextSibling = IF Len(c) = 0 THEN n ELSE c[1],
         new[dir].firstChild = IF Len(c) = 0 THEN n ELSE nodes[dir].firstChild,
         \A i \in 1 .. Len(c) :
           new[c[i]].nextSibling = IF i = Len(c) THEN n ELSE nodes[c[i]].nextSibling
  PROVE  Ring(Append(c, n), new, dir)
<1> PICK k : k = Len(c)
  OBVIOUS
<1> PICK a : a = Append(c, n)
  OBVIOUS
<1>1. /\ c \in Seq(Nodes) /\ k \in Nat /\ DOMAIN c = 1 .. k /\ IsInjective(c)
      /\ a \in Seq(Nodes) /\ Len(a) = k + 1 /\ DOMAIN a = 1 .. k + 1 /\ a[k + 1] = n
      /\ \A i \in 1 .. k : a[i] = c[i]
  BY DEF Ring
<1>2. IsInjective(a)
  <2>1. \A i \in 1 .. k + 1 : i \in 1 .. k \/ i = k + 1
    BY <1>1
  <2>2. \A i, j \in 1 .. k : c[i] = c[j] => i = j
    BY <1>1 DEF IsInjective
  <2>3. \A i, j \in 1 .. k + 1 : a[i] = a[j] => i = j
    BY <1>1, <2>1, <2>2
  <2> QED
    BY <1>1, <2>3 DEF IsInjective
<1>3. new[dir].firstChild = a[1] /\ a[1] = (IF k = 0 THEN n ELSE c[1])
  <2>1. nodes[dir].firstChild = IF k = 0 THEN NULL ELSE c[1]
    BY DEF Ring
  <2>2. k # 0 => 1 \in 1 .. k
    BY <1>1
  <2> QED
    BY <1>1, <2>1, <2>2
<1>4. ASSUME NEW i \in 1 .. k + 1
      PROVE  new[a[i]].nextSibling = IF i = k + 1 THEN a[1] ELSE a[i + 1]
  <2>1. CASE i = k + 1
    BY <1>1, <1>3, <2>1
  <2>2. CASE i # k + 1
    <3>1. i \in 1 .. k /\ (i # k => i + 1 \in 1 .. k)
      BY <1>1, <2>2
    <3>2. nodes[c[i]].nextSibling = IF i = k THEN c[1] ELSE c[i + 1]
      BY <3>1 DEF Ring
    <3>3. a[i + 1] = IF i = k THEN n ELSE c[i + 1]
      BY <1>1, <3>1
    <3> QED
      BY <1>1, <2>2, <3>1, <3>2, <3>3
  <2> QED
    BY <2>1, <2>2
<1>5. Len(a) # 0
  BY <1>1
<1> QED
  BY <1>1, <1>2, <1>3, <1>4, <1>5 DEF Ring

\* A circle none of whose nodes changes.
LEMMA SameRing ==
  ASSUME NEW nodes, NEW c, NEW d, Ring(c, nodes, d), NEW new,
         new[d].firstChild = nodes[d].firstChild,
         \A i \in 1 .. Len(c) : new[c[i]].nextSibling = nodes[c[i]].nextSibling
  PROVE  Ring(c, new, d)
  BY DEF Ring

\* The structure with a new child.
LEMMA AddedStructure ==
  ASSUME NEW nodes \in [Nodes -> NodeRecords], NEW used, NEW kids, Structure(nodes, used, kids),
         kids = [d \in Nodes |-> kids[d]],
         NEW dir \in used, nodes[dir].isFolder, NEW n \in Nodes, n \notin used,
         NEW name \in Names, NEW isFolder \in BOOLEAN,
         \A i \in 1 .. Len(kids[dir]) : nodes[kids[dir][i]].name # name,
         NEW new, new = AddedTo(nodes, kids[dir], dir, n, name, isFolder)
  PROVE  /\ new \in [Nodes -> NodeRecords]
         /\ Structure(new, used \cup {n}, [kids EXCEPT ![dir] = Append(kids[dir], n)])
<1> PICK c : c = kids[dir]
  OBVIOUS
<1> PICK k : k = Len(c)
  OBVIOUS
<1> PICK more : more = [kids EXCEPT ![dir] = Append(c, n)]
  OBVIOUS
<1>1. /\ used \subseteq Nodes /\ root \in used /\ dir \in Nodes /\ n # dir /\ n # root
      /\ nodes[root].isFolder /\ nodes[n] = Garbage
      /\ \A d \in Nodes : d \notin used => nodes[d] = Garbage
  BY DEF Structure
<1>2. /\ c \in Seq(Nodes) /\ k \in Nat /\ DOMAIN c = 1 .. k
      /\ \A i \in 1 .. k : c[i] \in Nodes /\ c[i] \in used /\ c[i] # root /\ nodes[c[i]].parent = dir
      /\ \A i \in 1 .. k : c[i] # n
  BY <1>1, KidFacts
<1>a. \A i, j \in 1 .. k : c[i] = c[j] => i = j
  <2> SUFFICES ASSUME NEW i \in 1 .. Len(kids[dir]), NEW j \in 1 .. Len(kids[dir]),
                      kids[dir][i] = kids[dir][j]
               PROVE  i = j
    OBVIOUS
  <2> QED
    BY <1>1, OneCircle
<1>b. \A i \in 1 .. k : nodes[c[i]].name # name
  OBVIOUS
<1>3. /\ new \in [Nodes -> NodeRecords]
      /\ new[n] = Made(name, isFolder, dir, IF k = 0 THEN n ELSE c[1])
      /\ \A x \in Nodes : x # n =>
           /\ SameButLinks(new[x], nodes[x])
           /\ new[x].firstChild = (IF x = dir /\ k = 0 THEN n ELSE nodes[x].firstChild)
           /\ new[x].nextSibling = (IF k # 0 /\ x = c[k] THEN n ELSE nodes[x].nextSibling)
           /\ x # dir /\ (k # 0 => x # c[k]) => new[x] = nodes[x]
  BY <1>1, <1>2, AddedFields DEF Added
<1>4. /\ more[dir] = Append(c, n) /\ \A d \in Nodes : d # dir => more[d] = kids[d]
      /\ Len(more[dir]) = k + 1 /\ more[dir][k + 1] = n /\ \A i \in 1 .. k : more[dir][i] = c[i]
  BY <1>1, <1>2
<1>5. /\ new[n].name = name /\ new[n].isFolder = isFolder /\ new[n].parent = dir
      /\ new[n].nextSibling = (IF k = 0 THEN n ELSE c[1]) /\ new[n].firstChild = NULL
  BY <1>3 DEF Made
<1>6. Rings(new, more)
  <2> SUFFICES ASSUME NEW d \in Nodes PROVE Ring(more[d], new, d)
    BY DEF Rings
  <2>1. Ring(kids[d], nodes, d) /\ Ring(c, nodes, dir)
    BY <1>1 DEF Structure, Rings
  <2>2. CASE d = dir
    <3>1. k # 0 => k \in 1 .. k
      BY <1>2
    <3>3. \A i \in 1 .. k : new[c[i]].nextSibling = IF i = k THEN n ELSE nodes[c[i]].nextSibling
      <4> TAKE i \in 1 .. k
      <4>0. k # 0 /\ k \in 1 .. k
        BY <1>2
      <4>1. k # 0 /\ k \in 1 .. k /\ c[i] \in Nodes /\ c[i] # n
        BY <1>2, <4>0
      <4>2. c[i] = c[k] <=> i = k
        BY <1>a, <4>1
      <4>3. new[c[i]].nextSibling = (IF k # 0 /\ c[i] = c[k] THEN n ELSE nodes[c[i]].nextSibling)
        BY <1>3, <4>1
      <4> QED
        BY <4>1, <4>2, <4>3
    <3>4. new[dir].firstChild = IF k = 0 THEN n ELSE nodes[dir].firstChild
      BY <1>1, <1>3
    <3> QED
      BY <1>2, <1>4, <1>5, <2>1, <2>2, <3>3, <3>4, AddedRing
  <2>3. CASE d # dir
    <3>1. new[d].firstChild = nodes[d].firstChild
      <4>1. CASE d = n
        BY <1>1, <1>5, <4>1 DEF Garbage, Made
      <4>2. CASE d # n
        BY <1>3, <2>3, <4>2
      <4> QED
        BY <4>1, <4>2
    <3>2. ASSUME NEW i \in 1 .. Len(kids[d]) PROVE new[kids[d][i]].nextSibling = nodes[kids[d][i]].nextSibling
      <4>1. kids[d][i] \in Nodes /\ kids[d][i] # n
        BY <1>1, KidFacts
      <4>2. k # 0 => k \in 1 .. k
        BY <1>2
      <4>3. k # 0 => kids[d][i] # c[k]
        BY <1>1, <2>3, <4>2, OneCircle
      <4> QED
        BY <1>3, <4>1, <4>3
    <3>3. Ring(kids[d], new, d)
      BY <2>1, <3>1, <3>2, SameRing
    <3> QED
      BY <1>4, <2>3, <3>3
  <2> QED
    BY <2>2, <2>3
<1>7. Families(new, used \cup {n}, more)
  <2> SUFFICES ASSUME NEW d \in Nodes
               PROVE  /\ Len(more[d]) # 0 => new[d].isFolder
                      /\ \A i \in 1 .. Len(more[d]) :
                           more[d][i] \in used \cup {n} /\ more[d][i] # root /\ new[more[d][i]].parent = d
                      /\ \A i, j \in 1 .. Len(more[d]) :
                           new[more[d][i]].name = new[more[d][j]].name => i = j
    BY DEF Families
  <2>1. /\ Len(kids[d]) # 0 => nodes[d].isFolder
        /\ \A i \in 1 .. Len(kids[d]) :
             /\ kids[d][i] \in Nodes /\ kids[d][i] # n /\ kids[d][i] \in used /\ kids[d][i] # root
             /\ nodes[kids[d][i]].parent = d
        /\ \A i, j \in 1 .. Len(kids[d]) : nodes[kids[d][i]].name = nodes[kids[d][j]].name => i = j
    <3>1. \A i \in 1 .. Len(kids[d]) :
            /\ kids[d][i] \in Nodes /\ kids[d][i] \in used /\ kids[d][i] # root
            /\ nodes[kids[d][i]].parent = d
      BY KidFacts
    <3>2. Families(nodes, used, kids)
      BY DEF Structure
    <3> QED
      BY <1>1, <3>1, <3>2 DEF Families
  <2>2. \A i \in 1 .. Len(kids[d]) : SameButLinks(new[kids[d][i]], nodes[kids[d][i]])
    BY <1>3, <2>1
  <2>3. CASE d # dir
    <3>1. Len(kids[d]) # 0 => new[d].isFolder
      <4>1. Len(kids[d]) # 0 => d \in used /\ d # n /\ nodes[d].isFolder
        BY <2>1, KidFacts
      <4>2. d # n => SameButLinks(new[d], nodes[d])
        BY <1>3
      <4> QED
        BY <4>1, <4>2 DEF SameButLinks
    <3>2. more[d] = kids[d]
      BY <1>4, <2>3
    <3>3. \A i \in 1 .. Len(kids[d]) :
            kids[d][i] \in used \cup {n} /\ kids[d][i] # root /\ new[kids[d][i]].parent = d
      BY <2>1, <2>2 DEF SameButLinks
    <3>4. \A i, j \in 1 .. Len(kids[d]) : new[kids[d][i]].name = new[kids[d][j]].name => i = j
      BY <2>1, <2>2 DEF SameButLinks
    <3> QED
      BY <3>1, <3>2, <3>3, <3>4
  <2>4. CASE d = dir
    <3>1. new[dir].isFolder
      BY <1>1, <1>3 DEF SameButLinks
    <3>2. \A i \in 1 .. k : new[c[i]].parent = dir /\ new[c[i]].name = nodes[c[i]].name /\ new[c[i]].name # name
      <4> TAKE i \in 1 .. k
      <4>1. SameButLinks(new[c[i]], nodes[c[i]]) /\ nodes[c[i]].parent = dir /\ nodes[c[i]].name # name
        BY <1>2, <1>3, <1>b
      <4> QED
        BY <4>1 DEF SameButLinks
    <3>3. \A i \in 1 .. k + 1 : i \in 1 .. k \/ i = k + 1
      BY <1>2
    <3>4. \A i \in 1 .. k + 1 :
            more[d][i] \in used \cup {n} /\ more[d][i] # root /\ new[more[d][i]].parent = d
      BY <1>1, <1>2, <1>4, <1>5, <2>4, <3>2, <3>3
    <3>5. \A i, j \in 1 .. k : new[c[i]].name = new[c[j]].name => i = j
      BY <2>1, <2>4, <3>2
    <3>6. \A i, j \in 1 .. k + 1 : new[more[d][i]].name = new[more[d][j]].name => i = j
      BY <1>4, <1>5, <2>4, <3>2, <3>3, <3>5
    <3> QED
      BY <1>4, <2>4, <3>1, <3>4, <3>6
  <2> QED
    BY <2>3, <2>4
<1>8. ParentsKnow(new, used \cup {n}, more)
  <2> SUFFICES ASSUME NEW x \in used \cup {n}, x # root
               PROVE  /\ new[x].parent \in used \cup {n}
                      /\ \E i \in 1 .. Len(more[new[x].parent]) : more[new[x].parent][i] = x
    BY DEF ParentsKnow
  <2>1. CASE x = n
    <3>1. k + 1 \in 1 .. Len(more[dir]) /\ more[dir][k + 1] = n
      BY <1>2, <1>4
    <3>2. new[x].parent = dir /\ dir \in used
      BY <1>1, <1>5, <2>1
    <3> QED
      BY <2>1, <3>1, <3>2
  <2>2. CASE x # n
    <3>1. x \in used /\ x \in Nodes /\ new[x].parent = nodes[x].parent
      BY <1>1, <1>3, <2>2 DEF SameButLinks
    <3>2. PICK p : p = nodes[x].parent
      OBVIOUS
    <3>3. p \in used /\ p \in Nodes /\ \E i \in 1 .. Len(kids[p]) : kids[p][i] = x
      BY <1>1, <3>1, <3>2 DEF Structure, ParentsKnow
    <3>4. PICK i \in 1 .. Len(kids[p]) : kids[p][i] = x
      BY <3>3
    <3>5. i \in 1 .. Len(more[p]) /\ more[p][i] = x
      <4>1. CASE p = dir
        BY <1>2, <1>4, <3>4, <4>1
      <4>2. CASE p # dir
        BY <1>4, <3>3, <3>4, <4>2
      <4> QED
        BY <4>1, <4>2
    <3> QED
      BY <3>1, <3>2, <3>3, <3>5
  <2> QED
    BY <2>1, <2>2
<1>9. Reached(used \cup {n}, more)
  <2> SUFFICES ASSUME NEW S \in SUBSET Nodes, root \in S, Whole(more, S)
               PROVE  used \cup {n} \subseteq S
    BY DEF Reached
  <2>1. Whole(kids, S)
    <3> SUFFICES ASSUME NEW d \in S, NEW i \in 1 .. Len(kids[d]) PROVE kids[d][i] \in S
      BY DEF Whole
    <3>1. d \in Nodes /\ \A j \in 1 .. Len(more[d]) : more[d][j] \in S
      BY DEF Whole
    <3>2. i \in 1 .. Len(more[d]) /\ more[d][i] = kids[d][i]
      <4>1. CASE d = dir
        BY <1>2, <1>4, <4>1
      <4>2. CASE d # dir
        BY <1>4, <3>1, <4>2
      <4> QED
        BY <4>1, <4>2
    <3> QED
      BY <3>1, <3>2
  <2>2. used \subseteq S
    BY <2>1 DEF Structure, Reached
  <2>3. n \in S
    <3>1. k + 1 \in 1 .. Len(more[dir]) /\ more[dir][k + 1] = n
      BY <1>2, <1>4
    <3> QED
      BY <2>2, <3>1 DEF Whole
  <2> QED
    BY <2>2, <2>3
<1>10. \A d \in Nodes : d \notin used \cup {n} => new[d] = Garbage
  <2> SUFFICES ASSUME NEW d \in Nodes, d \notin used, d # n PROVE new[d] = Garbage
    OBVIOUS
  <2>1. k # 0 => k \in 1 .. k
    BY <1>2
  <2>2. d # dir /\ (k # 0 => d # c[k])
    BY <1>2, <2>1
  <2> QED
    BY <1>1, <1>3, <2>2
<1>11. new[root].isFolder
  BY <1>1, <1>3 DEF SameButLinks
<1>12. used \cup {n} \subseteq Nodes /\ root \in used \cup {n}
  BY <1>1
<1> QED
  BY <1>3, <1>6, <1>7, <1>8, <1>9, <1>10, <1>11, <1>12 DEF Structure

-----------------------------------------------------------------------------
(* A child that goes.                                                      *)

\* The nodes without c[i], the i-th in the circle c of dir.
DroppedFrom(nodes, c, dir, i) ==
  LET next == IF i = Len(c) THEN c[1] ELSE c[i + 1]
      before == IF i = 1 THEN c[Len(c)] ELSE c[i - 1]
  IN IF Len(c) = 1 THEN [nodes EXCEPT ![dir].firstChild = NULL, ![c[i]] = Garbage]
     ELSE [nodes EXCEPT ![before].nextSibling = next,
                        ![dir].firstChild = IF i = 1 THEN next ELSE c[1],
                        ![c[i]] = Garbage]

\* What becomes of the fields when n, the i-th of k in c, goes.
Dropped(nodes, c, k, dir, i, n, new) ==
  /\ new \in [Nodes -> NodeRecords] /\ new[n] = Garbage
  /\ \A x \in Nodes : x # n =>
       /\ SameButLinks(new[x], nodes[x])
       /\ new[x].firstChild =
            (IF x # dir THEN nodes[x].firstChild
             ELSE IF k = 1 THEN NULL ELSE IF i = 1 THEN c[2] ELSE c[1])
       /\ new[x].nextSibling =
            (IF x = (IF i = 1 THEN c[k] ELSE c[i - 1])
             THEN IF i = k THEN c[1] ELSE c[i + 1]
             ELSE nodes[x].nextSibling)
       /\ x # dir /\ (\A j \in 1 .. k : x # c[j]) => new[x] = nodes[x]

\* What taking a node out writes, field by field.
LEMMA DroppedFields ==
  ASSUME NEW nodes \in [Nodes -> NodeRecords], NEW c \in Seq(Nodes), NEW dir \in Nodes,
         NEW i \in 1 .. Len(c), \A j \in 1 .. Len(c) : c[j] = c[i] => j = i,
         c[i] # dir,
         NEW new, new = DroppedFrom(nodes, c, dir, i)
  PROVE  Dropped(nodes, c, Len(c), dir, i, c[i], new)
<1> PICK k : k = Len(c)
  OBVIOUS
<1> PICK n : n = c[i]
  OBVIOUS
<1> PICK next : next = IF i = k THEN c[1] ELSE c[i + 1]
  OBVIOUS
<1> PICK before : before = IF i = 1 THEN c[k] ELSE c[i - 1]
  OBVIOUS
<1>1. /\ k \in Nat /\ i \in Nat /\ i >= 1 /\ i <= k /\ 1 \in 1 .. k /\ k \in 1 .. k
      /\ i # k => i + 1 \in 1 .. k
      /\ i # 1 => i - 1 \in 1 .. k
  OBVIOUS
<1>2. n \in Nodes /\ next \in Nodes /\ before \in Nodes /\ c[1] \in Nodes
  BY <1>1
<1>3. Garbage \in NodeRecords
  BY DEF Garbage, Made, NodeRecords, Pointers
<1>4. CASE k = 1
  <2>1. new = [nodes EXCEPT ![dir].firstChild = NULL, ![n] = Garbage]
    BY <1>4 DEF DroppedFrom
  <2>2. nodes[dir] \in NodeRecords /\ [nodes[dir] EXCEPT !.firstChild = NULL] \in NodeRecords
    BY DEF NodeRecords, Pointers
  <2>3. /\ new = [x \in Nodes |-> new[x]]
        /\ new[n] = Garbage /\ new[dir] = [nodes[dir] EXCEPT !.firstChild = NULL]
        /\ \A x \in Nodes : x # n /\ x # dir => new[x] = nodes[x]
    BY <1>2, <2>1
  <2>4. new \in [Nodes -> NodeRecords]
    BY <1>2, <1>3, <2>2, <2>3
  <2>5. /\ SameButLinks(new[dir], nodes[dir]) /\ new[dir].firstChild = NULL
        /\ new[dir].nextSibling = nodes[dir].nextSibling
    BY <2>2, <2>3 DEF SameButLinks, NodeRecords
  <2>6. i = 1 /\ c[k] = n /\ before = n
    BY <1>1, <1>4
  <2> QED
    BY <1>4, <2>3, <2>4, <2>5, <2>6 DEF SameButLinks, Dropped
<1>5. CASE k # 1
  <2> PICK first : first = IF i = 1 THEN next ELSE c[1]
    OBVIOUS
  <2> PICK mid : mid = [nodes EXCEPT ![before].nextSibling = next]
    OBVIOUS
  <2>1. new = [nodes EXCEPT ![before].nextSibling = next, ![dir].firstChild = first, ![n] = Garbage]
    BY <1>5 DEF DroppedFrom
  <2>2. new = [mid EXCEPT ![dir].firstChild = first, ![n] = Garbage]
    BY <2>1
  <2>3. first \in Nodes /\ first = (IF i = 1 THEN c[2] ELSE c[1]) /\ before # n
    <3>1. i = 1 => i + 1 = 2 /\ i # k
      BY <1>1, <1>5
    <3>2. before # n
      <4>1. CASE i = 1
        BY <1>1, <1>5, <4>1
      <4>2. CASE i # 1
        <5>1. i - 1 \in 1 .. k /\ i - 1 # i
          BY <1>1, <4>2
        <5> QED
          BY <4>2, <5>1
      <4> QED
        BY <4>1, <4>2
    <3> QED
      BY <1>2, <3>1, <3>2
  <2>4. nodes[before] \in NodeRecords /\ [nodes[before] EXCEPT !.nextSibling = next] \in NodeRecords
    BY <1>2 DEF NodeRecords, Pointers
  <2>5. /\ mid = [x \in Nodes |-> mid[x]] /\ mid[before] = [nodes[before] EXCEPT !.nextSibling = next]
        /\ \A x \in Nodes : x # before => mid[x] = nodes[x]
    BY <1>2
  <2>6. mid \in [Nodes -> NodeRecords]
    BY <2>4, <2>5
  <2>7. /\ SameButLinks(mid[before], nodes[before]) /\ mid[before].nextSibling = next
        /\ mid[before].firstChild = nodes[before].firstChild
    BY <2>4, <2>5 DEF SameButLinks, NodeRecords
  <2>8. mid[dir] \in NodeRecords /\ [mid[dir] EXCEPT !.firstChild = first] \in NodeRecords
    <3>1. mid[dir] \in NodeRecords /\ first \in Pointers
      BY <2>3, <2>6 DEF Pointers
    <3> QED
      BY ONLY <3>1 DEF NodeRecords
  <2>9. /\ new = [x \in Nodes |-> new[x]]
        /\ new[n] = Garbage /\ new[dir] = [mid[dir] EXCEPT !.firstChild = first]
        /\ \A x \in Nodes : x # n /\ x # dir => new[x] = mid[x]
    BY <1>2, <2>2, <2>6
  <2>10. new \in [Nodes -> NodeRecords]
    <3>1. ASSUME NEW x \in Nodes PROVE new[x] \in NodeRecords
      <4>1. mid[x] \in NodeRecords
        BY <2>6
      <4> QED
        BY ONLY <1>3, <2>8, <2>9, <3>1, <4>1
    <3> QED
      BY ONLY <2>9, <3>1
  <2>11. /\ SameButLinks(new[dir], mid[dir]) /\ new[dir].firstChild = first
         /\ new[dir].nextSibling = mid[dir].nextSibling
    BY <2>8, <2>9 DEF SameButLinks, NodeRecords
  <2>12. \A x \in Nodes : x # n =>
           /\ SameButLinks(new[x], mid[x]) /\ new[x].nextSibling = mid[x].nextSibling
           /\ new[x].firstChild = IF x = dir THEN first ELSE mid[x].firstChild
    BY <2>9, <2>11 DEF SameButLinks
  <2>13. \A x \in Nodes :
           /\ SameButLinks(mid[x], nodes[x]) /\ mid[x].firstChild = nodes[x].firstChild
           /\ mid[x].nextSibling = IF x = before THEN next ELSE nodes[x].nextSibling
    BY <2>5, <2>7 DEF SameButLinks
  <2>14. \A x \in Nodes : (\A j \in 1 .. k : x # c[j]) => x # before /\ x # n
    BY <1>1
  <2>15. \A x \in Nodes : x # dir /\ (\A j \in 1 .. k : x # c[j]) => new[x] = nodes[x]
    BY <2>5, <2>9, <2>14
  <2>16. \A x \in Nodes : x # n =>
           /\ SameButLinks(new[x], nodes[x])
           /\ new[x].firstChild = (IF x # dir THEN nodes[x].firstChild ELSE first)
           /\ new[x].nextSibling = (IF x = before THEN next ELSE nodes[x].nextSibling)
    BY <2>12, <2>13 DEF SameButLinks
  <2> QED
    BY <1>5, <2>3, <2>9, <2>10, <2>15, <2>16 DEF Dropped
<1> QED
  BY <1>4, <1>5

\* The circle of the directory that has lost a node.
LEMMA DroppedRing ==
  ASSUME NEW nodes, NEW c, NEW dir, Ring(c, nodes, dir), NEW i \in 1 .. Len(c), NEW new,
         new[dir].firstChild = IF Len(c) = 1 THEN NULL ELSE IF i = 1 THEN c[2] ELSE c[1],
         \A m \in 1 .. Len(c) : m # i =>
           new[c[m]].nextSibling =
             IF m = (IF i = 1 THEN Len(c) ELSE i - 1)
             THEN IF i = Len(c) THEN c[1] ELSE c[i + 1]
             ELSE nodes[c[m]].nextSibling
  PROVE  Ring(RemoveAt(c, i), new, dir)
<1> PICK k : k = Len(c)
  OBVIOUS
<1> PICK t : t = RemoveAt(c, i)
  OBVIOUS
<1>1. /\ c \in Seq(Nodes) /\ k \in Nat /\ DOMAIN c = 1 .. k /\ IsInjective(c)
      /\ i \in Nat /\ i >= 1 /\ i <= k
  BY DEF Ring
<1>2. /\ t \in Seq(Nodes) /\ Len(t) = k - 1 /\ IsInjective(t)
      /\ \A j \in 1 .. k - 1 : t[j] = IF j < i THEN c[j] ELSE c[j + 1]
  <2>1. c \in Seq(Nodes) /\ IsInjective(c) /\ i \in DOMAIN c
    BY <1>1
  <2>2. IsInjective(t)
    BY <2>1, RemoveAtFacts
  <2>3. t \in Seq(Nodes) /\ Len(t) = Len(c) - 1
    BY <2>1, RemoveAtElements
  <2>4. \A j \in 1 .. Len(c) - 1 : t[j] = IF j < i THEN c[j] ELSE c[j + 1]
    BY <2>1, RemoveAtElements
  <2> QED
    BY <2>2, <2>3, <2>4
<1>3. new[dir].firstChild = IF Len(t) = 0 THEN NULL ELSE t[1]
  <2>1. k - 1 = 0 <=> k = 1
    BY <1>1
  <2>2. ASSUME k # 1 PROVE t[1] = IF i = 1 THEN c[2] ELSE c[1]
    <3>1. 1 \in 1 .. k - 1 /\ (1 < i <=> i # 1) /\ 1 + 1 = 2
      BY <1>1, <2>2
    <3> QED
      BY <1>2, <3>1
  <2> QED
    BY <1>2, <2>1, <2>2
<1>4. ASSUME NEW j \in 1 .. k - 1
      PROVE  new[t[j]].nextSibling = IF j = k - 1 THEN t[1] ELSE t[j + 1]
  <2>0. /\ k # 1 /\ j \in Nat /\ j >= 1 /\ j <= k - 1 /\ 1 \in 1 .. k - 1
        /\ (j # k - 1 => j + 1 \in 1 .. k - 1)
    BY <1>1
  <2>1. \A m \in 1 .. k : nodes[c[m]].nextSibling = (IF m = k THEN c[1] ELSE c[m + 1])
    BY DEF Ring
  <2>2. t[1] = IF 1 < i THEN c[1] ELSE c[2]
    BY <1>2, <2>0
  <2>3. t[j] = IF j < i THEN c[j] ELSE c[j + 1]
    BY <1>2
  <2>4. j # k - 1 => t[j + 1] = IF j + 1 < i THEN c[j + 1] ELSE c[j + 1 + 1]
    BY <1>2, <2>0
  <2>5. \A m \in 1 .. k : m # i =>
           new[c[m]].nextSibling =
             IF m = (IF i = 1 THEN k ELSE i - 1)
             THEN IF i = k THEN c[1] ELSE c[i + 1]
             ELSE nodes[c[m]].nextSibling
    OBVIOUS
  <2>6. CASE j = i - 1
    <3>1. /\ j \in 1 .. k /\ j # i /\ i # 1 /\ j < i /\ 1 < i
          /\ (i = k <=> j = k - 1) /\ ~(j + 1 < i) /\ j + 1 = i
      BY <1>1, <2>0, <2>6
    <3>2. new[c[j]].nextSibling = IF i = k THEN c[1] ELSE c[i + 1]
      BY <2>5, <2>6, <3>1
    <3> QED
      BY <2>2, <2>3, <2>4, <3>1, <3>2
  <2>7. CASE j < i /\ j # i - 1
    <3>1. j \in 1 .. k /\ j # i /\ i # 1 /\ j + 1 < i /\ j # k - 1 /\ j # k
      BY <1>1, <2>0, <2>7
    <3>2. new[c[j]].nextSibling = c[j + 1]
      BY <2>1, <2>5, <2>7, <3>1
    <3> QED
      BY <2>3, <2>4, <2>7, <3>1, <3>2
  <2>8. CASE ~(j < i)
    <3> PICK m : m = j + 1
      OBVIOUS
    <3>1. m \in 1 .. k /\ m # i /\ (m = k <=> j = k - 1) /\ m # i - 1 /\ ~(j + 1 < i)
      BY <1>1, <2>0, <2>8
    <3>2. CASE i = 1 /\ m = k
      <4>1. i # k /\ ~(1 < i) /\ i + 1 = 2
        BY <2>0, <3>2
      <4>2. new[c[m]].nextSibling = c[2]
        BY <2>5, <3>1, <3>2, <4>1
      <4> QED
        BY <2>2, <2>3, <2>8, <3>1, <3>2, <4>1, <4>2
    <3>3. CASE ~(i = 1 /\ m = k)
      <4>1. new[c[m]].nextSibling = IF m = k THEN c[1] ELSE c[m + 1]
        BY <2>1, <2>5, <3>1, <3>3
      <4>2. m = k => 1 < i
        BY <1>1, <3>3
      <4> QED
        BY <2>2, <2>3, <2>4, <2>8, <3>1, <4>1, <4>2
    <3> QED
      BY <3>2, <3>3
  <2> QED
    BY <1>1, <2>0, <2>6, <2>7, <2>8
<1>5. \A j \in 1 .. Len(t) : new[t[j]].nextSibling = IF j = Len(t) THEN t[1] ELSE t[j + 1]
  BY <1>2, <1>4
<1> QED
  BY <1>2, <1>3, <1>5 DEF Ring

\* The structure without the child at place p of dir.
WithoutChild(nodes, used, kids, dir, p, new) ==
  /\ new \in [Nodes -> NodeRecords]
  /\ Structure(new, used \ {kids[dir][p]}, [kids EXCEPT ![dir] = RemoveAt(kids[dir], p)])

\* A child that has no children may go.
LEMMA DroppedStructure ==
  ASSUME NEW nodes \in [Nodes -> NodeRecords], NEW used, NEW kids, Structure(nodes, used, kids),
         kids = [d \in Nodes |-> kids[d]],
         NEW dir \in used, NEW p \in 1 .. Len(kids[dir]), Len(kids[kids[dir][p]]) = 0,
         NEW new, new = DroppedFrom(nodes, kids[dir], dir, p)
  PROVE  WithoutChild(nodes, used, kids, dir, p, new)
<1> PICK c : c = kids[dir]
  OBVIOUS
<1> PICK k : k = Len(c)
  OBVIOUS
<1> PICK n : n = c[p]
  OBVIOUS
<1> PICK t : t = RemoveAt(c, p)
  OBVIOUS
<1> PICK less : less = [kids EXCEPT ![dir] = t]
  OBVIOUS
<1>1. /\ used \subseteq Nodes /\ root \in used /\ dir \in Nodes /\ nodes[root].isFolder
      /\ \A d \in Nodes : d \notin used => nodes[d] = Garbage
  BY DEF Structure
<1>2. /\ c \in Seq(Nodes) /\ k \in Nat /\ DOMAIN c = 1 .. k /\ p \in 1 .. k
      /\ \A i \in 1 .. k : c[i] \in Nodes /\ c[i] \in used /\ c[i] # root /\ nodes[c[i]].parent = dir
  BY <1>1, KidFacts
<1>3. \A i, j \in 1 .. k : c[i] = c[j] => i = j
  <2> SUFFICES ASSUME NEW i \in 1 .. Len(kids[dir]), NEW j \in 1 .. Len(kids[dir]),
                      kids[dir][i] = kids[dir][j]
               PROVE  i = j
    OBVIOUS
  <2> QED
    BY <1>1, OneCircle
<1>4. n \in Nodes /\ n \in used /\ n # root /\ Len(kids[n]) = 0 /\ n # dir
  <2>1. k # 0
    BY <1>2
  <2> QED
    BY <1>2, <2>1
<1>5. /\ new \in [Nodes -> NodeRecords] /\ new[n] = Garbage
      /\ \A x \in Nodes : x # n =>
           /\ SameButLinks(new[x], nodes[x])
           /\ new[x].firstChild =
                (IF x # dir THEN nodes[x].firstChild
                 ELSE IF k = 1 THEN NULL ELSE IF p = 1 THEN c[2] ELSE c[1])
           /\ new[x].nextSibling =
                (IF x = (IF p = 1 THEN c[k] ELSE c[p - 1])
                 THEN IF p = k THEN c[1] ELSE c[p + 1]
                 ELSE nodes[x].nextSibling)
           /\ x # dir /\ (\A j \in 1 .. k : x # c[j]) => new[x] = nodes[x]
  <2>1. /\ nodes \in [Nodes -> NodeRecords] /\ c \in Seq(Nodes) /\ dir \in Nodes
        /\ p \in 1 .. Len(c) /\ c[p] # dir /\ new = DroppedFrom(nodes, c, dir, p)
    BY <1>1, <1>2, <1>4
  <2>2. \A j \in 1 .. Len(c) : c[j] = c[p] => j = p
    BY <1>2, <1>3
  <2>3. Dropped(nodes, c, Len(c), dir, p, c[p], new)
    BY ONLY <2>1, <2>2, DroppedFields
  <2>4. Dropped(nodes, c, k, dir, p, n, new)
    BY <2>3
  <2> QED
    BY <2>4 DEF Dropped
<1>6. /\ less[dir] = t /\ \A d \in Nodes : d # dir => less[d] = kids[d]
      /\ t \in Seq(Nodes) /\ Len(t) = k - 1
      /\ \A j \in 1 .. k - 1 : t[j] = IF j < p THEN c[j] ELSE c[j + 1]
  <2>1. c \in Seq(Nodes) /\ p \in DOMAIN c
    BY <1>2
  <2>2. /\ t \in Seq(Nodes) /\ Len(t) = Len(c) - 1
        /\ \A j \in 1 .. Len(c) - 1 : t[j] = IF j < p THEN c[j] ELSE c[j + 1]
    <3>1. t = RemoveAt(c, p)
      OBVIOUS
    <3>2. RemoveAt(c, p) \in Seq(Nodes) /\ Len(RemoveAt(c, p)) = Len(c) - 1
      BY ONLY <2>1, RemoveAtElements
    <3>3. \A j \in 1 .. Len(c) - 1 : RemoveAt(c, p)[j] = IF j < p THEN c[j] ELSE c[j + 1]
      BY ONLY <2>1, RemoveAtElements
    <3> QED
      BY ONLY <3>1, <3>2, <3>3
  <2>3. less[dir] = t /\ \A d \in Nodes : d # dir => less[d] = kids[d]
    BY <1>1
  <2> QED
    BY <2>2, <2>3
\* The places of what is left.
<1>7. \A j \in 1 .. k - 1 : \E i \in 1 .. k : i # p /\ t[j] = c[i] /\ i = IF j < p THEN j ELSE j + 1
  <2> TAKE j \in 1 .. k - 1
  <2>1. (IF j < p THEN j ELSE j + 1) \in 1 .. k /\ (IF j < p THEN j ELSE j + 1) # p
    BY <1>2
  <2> QED
    BY <1>6, <2>1
<1>8. \A i \in 1 .. k : i # p => \E j \in 1 .. k - 1 : t[j] = c[i]
  <2> TAKE i \in 1 .. k
  <2> HAVE i # p
  <2>1. CASE i < p
    <3>1. i \in 1 .. k - 1
      BY <1>2, <2>1
    <3> QED
      BY <1>6, <2>1, <3>1
  <2>2. CASE ~(i < p)
    <3>1. i - 1 \in 1 .. k - 1 /\ ~(i - 1 < p) /\ i - 1 + 1 = i
      BY <1>2, <2>2
    <3>2. t[i - 1] = c[i]
      BY <1>6, <3>1
    <3> QED
      BY <3>1, <3>2
  <2> QED
    BY <2>1, <2>2
<1>9. Rings(new, less)
  <2> SUFFICES ASSUME NEW d \in Nodes PROVE Ring(less[d], new, d)
    BY DEF Rings
  <2>1. Ring(kids[d], nodes, d) /\ Ring(c, nodes, dir)
    BY <1>1 DEF Structure, Rings
  <2>2. CASE d = dir
    <3>1. ASSUME NEW m \in 1 .. k, m # p
          PROVE  new[c[m]].nextSibling =
                   IF m = (IF p = 1 THEN k ELSE p - 1)
                   THEN IF p = k THEN c[1] ELSE c[p + 1] ELSE nodes[c[m]].nextSibling
      <4>1. c[m] \in Nodes /\ c[m] # n
        BY <1>2, <1>3, <3>1
      <4>2. (IF p = 1 THEN k ELSE p - 1) \in 1 .. k
        BY <1>2
      <4>3. c[m] = (IF p = 1 THEN c[k] ELSE c[p - 1]) <=> m = (IF p = 1 THEN k ELSE p - 1)
        BY <1>3, <4>2
      <4>4. new[c[m]].nextSibling =
              (IF c[m] = (IF p = 1 THEN c[k] ELSE c[p - 1])
               THEN IF p = k THEN c[1] ELSE c[p + 1] ELSE nodes[c[m]].nextSibling)
        BY <1>5, <4>1
      <4> QED
        BY <4>3, <4>4
    <3>2. new[dir].firstChild = IF k = 1 THEN NULL ELSE IF p = 1 THEN c[2] ELSE c[1]
      BY <1>1, <1>4, <1>5
    <3>4. /\ Ring(c, nodes, dir) /\ p \in 1 .. Len(c)
          /\ new[dir].firstChild = IF Len(c) = 1 THEN NULL ELSE IF p = 1 THEN c[2] ELSE c[1]
      BY <1>2, <2>1, <3>2
    <3>5. \A m \in 1 .. Len(c) : m # p =>
            new[c[m]].nextSibling =
              IF m = (IF p = 1 THEN Len(c) ELSE p - 1)
              THEN IF p = Len(c) THEN c[1] ELSE c[p + 1] ELSE nodes[c[m]].nextSibling
      BY <3>1
    <3>6. Ring(RemoveAt(c, p), new, dir)
      BY ONLY <3>4, <3>5, DroppedRing
    <3>3. Ring(t, new, dir)
      BY <3>6
    <3> QED
      BY <1>6, <2>2, <3>3
  <2>3. CASE d # dir
    <3>1. new[d].firstChild = nodes[d].firstChild
      <4>1. CASE d = n
        <5>1. nodes[n].firstChild = NULL
          BY <1>4, KidFacts
        <5> QED
          BY <1>5, <4>1, <5>1 DEF Garbage, Made
      <4>2. CASE d # n
        BY <1>5, <2>3, <4>2
      <4> QED
        BY <4>1, <4>2
    <3>2. ASSUME NEW i \in 1 .. Len(kids[d]) PROVE new[kids[d][i]].nextSibling = nodes[kids[d][i]].nextSibling
      <4>1. kids[d][i] \in Nodes
        BY KidFacts
      <4>2. ASSUME NEW j \in 1 .. k PROVE kids[d][i] # c[j]
        BY <1>1, <2>3, OneCircle
      <4>3. (IF p = 1 THEN k ELSE p - 1) \in 1 .. k
        BY <1>2
      <4>4. kids[d][i] # n /\ kids[d][i] # (IF p = 1 THEN c[k] ELSE c[p - 1])
        BY <1>2, <4>2, <4>3
      <4> QED
        BY <1>5, <4>1, <4>4
    <3>3. Ring(kids[d], new, d)
      BY <2>1, <3>1, <3>2, SameRing
    <3> QED
      BY <1>6, <2>3, <3>3
  <2> QED
    BY <2>2, <2>3
<1>10. Families(new, used \ {n}, less)
  <2> SUFFICES ASSUME NEW d \in Nodes
               PROVE  /\ Len(less[d]) # 0 => new[d].isFolder
                      /\ \A i \in 1 .. Len(less[d]) :
                           less[d][i] \in used \ {n} /\ less[d][i] # root /\ new[less[d][i]].parent = d
                      /\ \A i, j \in 1 .. Len(less[d]) :
                           new[less[d][i]].name = new[less[d][j]].name => i = j
    BY DEF Families
  <2>1. /\ Len(kids[d]) # 0 => nodes[d].isFolder
        /\ \A i \in 1 .. Len(kids[d]) :
             /\ kids[d][i] \in Nodes /\ kids[d][i] \in used /\ kids[d][i] # root
             /\ nodes[kids[d][i]].parent = d
        /\ \A i, j \in 1 .. Len(kids[d]) : nodes[kids[d][i]].name = nodes[kids[d][j]].name => i = j
    <3>1. \A i \in 1 .. Len(kids[d]) :
            /\ kids[d][i] \in Nodes /\ kids[d][i] \in used /\ kids[d][i] # root
            /\ nodes[kids[d][i]].parent = d
      BY KidFacts
    <3>2. Families(nodes, used, kids)
      BY DEF Structure
    <3> QED
      BY <3>1, <3>2 DEF Families
  <2>2. CASE d # dir
    <3>1. less[d] = kids[d]
      BY <1>6, <2>2
    <3>2. \A i \in 1 .. Len(kids[d]) : kids[d][i] # n
      <4> TAKE i \in 1 .. Len(kids[d])
      <4> QED
        BY <1>1, <1>2, <2>2, OneCircle
    <3>3. \A i \in 1 .. Len(kids[d]) : SameButLinks(new[kids[d][i]], nodes[kids[d][i]])
      BY <1>5, <2>1, <3>2
    <3>4. Len(kids[d]) # 0 => new[d].isFolder
      <4>1. Len(kids[d]) # 0 => d # n /\ nodes[d].isFolder
        BY <1>4, <2>1
      <4>2. d # n => SameButLinks(new[d], nodes[d])
        BY <1>5
      <4> QED
        BY <4>1, <4>2 DEF SameButLinks
    <3>5. \A i \in 1 .. Len(kids[d]) :
            kids[d][i] \in used \ {n} /\ kids[d][i] # root /\ new[kids[d][i]].parent = d
      BY <2>1, <3>2, <3>3 DEF SameButLinks
    <3>6. \A i, j \in 1 .. Len(kids[d]) : new[kids[d][i]].name = new[kids[d][j]].name => i = j
      BY <2>1, <3>3 DEF SameButLinks
    <3> QED
      BY <3>1, <3>4, <3>5, <3>6
  <2>3. CASE d = dir
    <3>1. nodes[dir].isFolder
      <4>1. k # 0
        BY <1>2
      <4> QED
        BY <2>1, <2>3, <4>1
    <3>2. new[dir].isFolder
      BY <1>1, <1>4, <1>5, <3>1 DEF SameButLinks
    <3>3. \A i \in 1 .. k : i # p => c[i] # n /\ SameButLinks(new[c[i]], nodes[c[i]])
      <4> TAKE i \in 1 .. k
      <4> HAVE i # p
      <4>1. c[i] # n /\ c[i] \in Nodes
        BY <1>2, <1>3
      <4> QED
        BY <1>5, <4>1
    <3>4. \A j \in 1 .. k - 1 : t[j] \in used \ {n} /\ t[j] # root /\ new[t[j]].parent = dir
      <4> TAKE j \in 1 .. k - 1
      <4>1. PICK i \in 1 .. k : i # p /\ t[j] = c[i]
        BY <1>7
      <4>2. nodes[c[i]].parent = dir /\ SameButLinks(new[c[i]], nodes[c[i]]) /\ c[i] # n
        BY <1>2, <3>3, <4>1
      <4> QED
        BY <1>2, <4>1, <4>2 DEF SameButLinks
    <3>5. \A j, l \in 1 .. k - 1 : new[t[j]].name = new[t[l]].name => j = l
      <4> SUFFICES ASSUME NEW j \in 1 .. k - 1, NEW l \in 1 .. k - 1, new[t[j]].name = new[t[l]].name
                   PROVE  j = l
        OBVIOUS
      <4>1. PICK i \in 1 .. k : i # p /\ t[j] = c[i] /\ i = IF j < p THEN j ELSE j + 1
        BY <1>7
      <4>2. PICK m \in 1 .. k : m # p /\ t[l] = c[m] /\ m = IF l < p THEN l ELSE l + 1
        BY <1>7
      <4>0. SameButLinks(new[c[i]], nodes[c[i]]) /\ SameButLinks(new[c[m]], nodes[c[m]])
        BY <3>3, <4>1, <4>2
      <4>a. t[j] = c[i] /\ t[l] = c[m]
        BY <4>1, <4>2
      <4>b. new[c[i]].name = new[c[m]].name
        BY <4>a
      <4>3. nodes[c[i]].name = nodes[c[m]].name
        BY <4>0, <4>b DEF SameButLinks
      <4>4. i = m
        BY <2>1, <2>3, <4>3
      <4> QED
        BY <1>2, <4>1, <4>2, <4>4
    <3> QED
      BY <1>6, <2>3, <3>2, <3>4, <3>5
  <2> QED
    BY <2>2, <2>3
<1>11. ParentsKnow(new, used \ {n}, less)
  <2> SUFFICES ASSUME NEW x \in used, x # n, x # root
               PROVE  /\ new[x].parent \in used \ {n}
                      /\ \E i \in 1 .. Len(less[new[x].parent]) : less[new[x].parent][i] = x
    BY DEF ParentsKnow
  <2> PICK d : d = nodes[x].parent
    OBVIOUS
  <2>1. d \in used /\ d \in Nodes /\ \E i \in 1 .. Len(kids[d]) : kids[d][i] = x
    BY <1>1 DEF Structure, ParentsKnow
  <2>2. PICK i \in 1 .. Len(kids[d]) : kids[d][i] = x
    BY <2>1
  <2>3. new[x].parent = d
    BY <1>1, <1>5 DEF SameButLinks
  <2>4. d # n
    <3>1. Len(kids[d]) # 0
      BY <2>1, <2>2, KidFacts
    <3> QED
      BY <1>4, <3>1
  <2>5. \E j \in 1 .. Len(less[d]) : less[d][j] = x
    <3>1. CASE d = dir
      <4>1. i \in 1 .. k /\ c[i] = x /\ i # p
        BY <2>2, <3>1
      <4>2. \E j \in 1 .. k - 1 : t[j] = x
        BY <1>8, <4>1
      <4> QED
        BY <1>6, <3>1, <4>2
    <3>2. CASE d # dir
      BY <1>6, <2>1, <2>2, <3>2
    <3> QED
      BY <3>1, <3>2
  <2> QED
    BY <2>1, <2>3, <2>4, <2>5
<1>12. Reached(used \ {n}, less)
  <2> SUFFICES ASSUME NEW S \in SUBSET Nodes, root \in S, Whole(less, S)
               PROVE  used \ {n} \subseteq S
    BY DEF Reached
  <2> PICK U : U = S \cup {n}
    OBVIOUS
  <2>1. Whole(kids, U)
    <3> SUFFICES ASSUME NEW d \in U, NEW i \in 1 .. Len(kids[d]) PROVE kids[d][i] \in U
      BY DEF Whole
    <3>1. d \in Nodes /\ d # n /\ d \in S
      <4>1. d \in Nodes
        BY <1>4
      <4>2. Len(kids[d]) # 0
        BY <4>1, KidFacts
      <4> QED
        BY <1>4, <4>1, <4>2
    <3>2. \A j \in 1 .. Len(less[d]) : less[d][j] \in S
      BY <3>1 DEF Whole
    <3>3. CASE d = dir
      <4>1. i \in 1 .. k /\ kids[d][i] = c[i]
        BY <3>3
      <4>2. i # p => \E j \in 1 .. k - 1 : t[j] = c[i]
        BY <1>8, <4>1
      <4>4. less[d] = t /\ Len(t) = k - 1
        BY <1>6, <3>3
      <4>3. \A j \in 1 .. k - 1 : t[j] \in S
        BY <3>2, <4>4
      <4> QED
        BY <4>1, <4>2, <4>3
    <3>4. CASE d # dir
      BY <1>6, <3>1, <3>2, <3>4
    <3> QED
      BY <3>3, <3>4
  <2>2. used \subseteq U
    <3>1. U \in SUBSET Nodes /\ root \in U
      BY <1>4
    <3> QED
      BY <2>1, <3>1 DEF Structure, Reached
  <2> QED
    BY <2>2
<1>13. \A d \in Nodes : d \notin used \ {n} => new[d] = Garbage
  <2> SUFFICES ASSUME NEW d \in Nodes, d \notin used, d # n PROVE new[d] = Garbage
    BY <1>5
  <2>1. d # dir /\ \A j \in 1 .. k : d # c[j]
    BY <1>2
  <2> QED
    BY <1>1, <1>5, <2>1
<1>14. new[root].isFolder /\ used \ {n} \subseteq Nodes /\ root \in used \ {n}
  BY <1>1, <1>4, <1>5 DEF SameButLinks
<1>15. Structure(new, used \ {n}, less)
  BY <1>9, <1>10, <1>11, <1>12, <1>13, <1>14 DEF Structure
<1> QED
  BY <1>5, <1>15 DEF WithoutChild

\* A change of blocks only.
LEMMA SameStructure ==
  ASSUME NEW nodes, NEW used, NEW kids, Structure(nodes, used, kids), NEW new,
         \A x \in Nodes : x \notin used => new[x] = nodes[x],
         \A x \in Nodes :
           /\ new[x].name = nodes[x].name /\ new[x].isFolder = nodes[x].isFolder
           /\ new[x].parent = nodes[x].parent
           /\ new[x].nextSibling = nodes[x].nextSibling /\ new[x].firstChild = nodes[x].firstChild
  PROVE  Structure(new, used, kids)
<1>1. used \subseteq Nodes /\ root \in used /\ root \in Nodes /\ new[root].isFolder
  BY FileSystemAssumption DEF Structure
<1>2. \A d \in Nodes : d \notin used => new[d] = Garbage
  BY DEF Structure
<1>3. \A d \in Nodes : \A i \in 1 .. Len(kids[d]) : kids[d][i] \in Nodes
  BY KidFacts
<1>4. Rings(new, kids)
  <2> SUFFICES ASSUME NEW d \in Nodes PROVE Ring(kids[d], new, d)
    BY DEF Rings
  <2>1. Ring(kids[d], nodes, d)
    BY DEF Structure, Rings
  <2>2. \A i \in 1 .. Len(kids[d]) : new[kids[d][i]].nextSibling = nodes[kids[d][i]].nextSibling
    BY <1>3
  <2> QED
    BY <2>1, <2>2, SameRing
<1>5. Families(new, used, kids)
  <2>1. Families(nodes, used, kids)
    BY DEF Structure
  <2> QED
    BY <1>3, <2>1 DEF Families
<1>6. ParentsKnow(new, used, kids)
  <2>1. ParentsKnow(nodes, used, kids)
    BY DEF Structure
  <2> QED
    BY <1>1, <2>1 DEF ParentsKnow
<1> QED
  BY <1>1, <1>2, <1>4, <1>5, <1>6 DEF Structure

-----------------------------------------------------------------------------
(* Who owns the blocks.                                                    *)

\* Nodes without a block come and go.
LEMMA SameOwned ==
  ASSUME NEW nodes, NEW used, NEW list, Owned(nodes, used, list), NEW new, NEW more,
         \A x \in more :
           \/ x \in used /\ new[x].isFolder = nodes[x].isFolder /\ new[x].block = nodes[x].block
           \/ new[x].block = NULL,
         \A x \in used : (x \in more /\ new[x].block = nodes[x].block) \/ nodes[x].block = NULL
  PROVE  Owned(new, more, list)
<1>1. /\ list \in Seq(Blocks) /\ IsInjective(list) /\ Len(list) \in Nat
      /\ \A i \in 1 .. Len(list) : list[i] \in Blocks /\ list[i] # NULL
  BY FileSystemAssumption DEF Owned
<1>2. \A b \in Blocks : b # NULL
  BY FileSystemAssumption
<1>3. \A n \in more : new[n].isFolder => new[n].block = NULL
  BY DEF Owned
<1>4. \A n \in more : \A i \in 1 .. Len(list) : new[n].block # list[i]
  BY <1>1 DEF Owned
<1>5. \A m, n \in more : new[m].block = new[n].block /\ new[m].block # NULL => m = n
  BY DEF Owned
<1>6. ASSUME ~MallocMayFail, NEW b \in Blocks, ~(\E i \in 1 .. Len(list) : list[i] = b)
      PROVE  \E n \in more : new[n].block = b
  <2>1. PICK n \in used : nodes[n].block = b
    BY <1>6 DEF Owned
  <2> QED
    BY <1>2, <2>1
<1> QED
  BY <1>1, <1>3, <1>4, <1>5, <1>6 DEF Owned

\* What may become of the free list when a block, or NULL, is given back.
GivenBack(block, list) ==
  IF block = NULL THEN {list} ELSE {<<block>> \o list} \cup IF MallocMayFail THEN {list} ELSE {}

\* A file gives its block back.
LEMMA ReleasedOwned ==
  ASSUME NEW nodes, NEW used, NEW list, Owned(nodes, used, list), NEW n \in used,
         nodes[n].block \in Blocks \cup {NULL},
         NEW l \in GivenBack(nodes[n].block, list), NEW new, new[n].block = NULL,
         \A x \in used : x # n =>
           new[x].isFolder = nodes[x].isFolder /\ new[x].block = nodes[x].block
  PROVE  Owned(new, used, l)
<1> PICK b : b = nodes[n].block
  OBVIOUS
<1> PICK k : k = Len(list)
  OBVIOUS
<1>1. /\ list \in Seq(Blocks) /\ IsInjective(list) /\ k \in Nat /\ DOMAIN list = 1 .. k
      /\ \A i \in 1 .. k : list[i] \in Blocks /\ list[i] # NULL
  BY FileSystemAssumption DEF Owned
<1>2. /\ \A x \in used : nodes[x].isFolder => nodes[x].block = NULL
      /\ \A x \in used : \A i \in 1 .. k : nodes[x].block # list[i]
      /\ \A x, y \in used : nodes[x].block = nodes[y].block /\ nodes[x].block # NULL => x = y
      /\ ~MallocMayFail => \A d \in Blocks :
            (\E i \in 1 .. k : list[i] = d) \/ (\E x \in used : nodes[x].block = d)
  BY DEF Owned
<1>3. \A x \in used : new[x].isFolder => new[x].block = NULL
  BY <1>2
<1>4. \A x, y \in used : new[x].block = new[y].block /\ new[x].block # NULL => x = y
  BY <1>2
<1>5. CASE l = list /\ (b = NULL \/ MallocMayFail)
  <2>1. \A x \in used : \A i \in 1 .. k : new[x].block # list[i]
    BY <1>1, <1>2
  <2>2. ASSUME ~MallocMayFail, NEW d \in Blocks, ~(\E i \in 1 .. k : list[i] = d)
        PROVE  \E x \in used : new[x].block = d
    <3>1. PICK x \in used : nodes[x].block = d
      BY <1>2, <2>2
    <3>2. x # n
      BY <1>5, <2>2, <3>1, FileSystemAssumption
    <3> QED
      BY <3>1, <3>2
  <2> QED
    BY <1>1, <1>3, <1>4, <1>5, <2>1, <2>2 DEF Owned
<1>6. CASE l = <<b>> \o list /\ b # NULL
  <2>1. b \in Blocks
    BY <1>6
  <2>2. /\ l \in Seq(Blocks) /\ Len(l) = k + 1 /\ DOMAIN l = 1 .. k + 1
        /\ l[1] = b /\ \A i \in 1 .. k + 1 : i # 1 => i - 1 \in 1 .. k /\ l[i] = list[i - 1]
    BY <1>1, <1>6, <2>1
  <2>3. \A i \in 1 .. k + 1 : i # 1 => l[i] # b
    BY <1>2, <2>2
  <2>4. IsInjective(l)
    <3>1. \A i, j \in 1 .. k : list[i] = list[j] => i = j
      BY <1>1 DEF IsInjective
    <3>2. \A i, j \in 1 .. k + 1 : l[i] = l[j] => i = j
      <4> SUFFICES ASSUME NEW i \in 1 .. k + 1, NEW j \in 1 .. k + 1, l[i] = l[j] PROVE i = j
        OBVIOUS
      <4>1. CASE i = 1 \/ j = 1
        BY <2>2, <2>3, <4>1
      <4>2. CASE i # 1 /\ j # 1
        <5>1. i - 1 = j - 1
          BY <2>2, <3>1, <4>2
        <5> QED
          BY <1>1, <5>1
      <4> QED
        BY <4>1, <4>2
    <3> QED
      BY <2>2, <3>2 DEF IsInjective
  <2>5. \A x \in used : \A i \in 1 .. k + 1 : new[x].block # l[i]
    <3> SUFFICES ASSUME NEW x \in used, NEW i \in 1 .. k + 1 PROVE new[x].block # l[i]
      OBVIOUS
    <3>1. l[i] # NULL
      BY <2>2, FileSystemAssumption
    <3>2. CASE x = n
      BY <3>1, <3>2
    <3>3. CASE x # n
      <4>1. new[x].block = nodes[x].block /\ nodes[x].block # b
        BY <1>2, <1>6, <3>3
      <4> QED
        BY <1>2, <2>2, <4>1
    <3> QED
      BY <3>2, <3>3
  <2>6. ASSUME ~MallocMayFail, NEW d \in Blocks
        PROVE  (\E i \in 1 .. k + 1 : l[i] = d) \/ (\E x \in used : new[x].block = d)
    <3>1. CASE \E i \in 1 .. k : list[i] = d
      <4>1. PICK i \in 1 .. k : list[i] = d
        BY <3>1
      <4>2. i + 1 \in 1 .. k + 1 /\ i + 1 # 1 /\ i + 1 - 1 = i
        BY <1>1
      <4>3. l[i + 1] = d
        BY <2>2, <4>1, <4>2
      <4> QED
        BY <4>2, <4>3
    <3>2. CASE \E x \in used : nodes[x].block = d
      <4>1. PICK x \in used : nodes[x].block = d
        BY <3>2
      <4>2. CASE x = n
        <5>1. 1 \in 1 .. k + 1
          BY <1>1
        <5> QED
          BY <2>2, <4>1, <4>2, <5>1
      <4>3. CASE x # n
        BY <4>1, <4>3
      <4> QED
        BY <4>2, <4>3
    <3> QED
      BY <1>2, <2>6, <3>1, <3>2
  <2> QED
    BY <1>3, <1>4, <2>2, <2>4, <2>5, <2>6 DEF Owned
<1>7. \/ l = list /\ (b = NULL \/ MallocMayFail)
      \/ l = <<b>> \o list /\ b # NULL
  BY DEF GivenBack
<1> QED
  BY <1>5, <1>6, <1>7

\* A file without a block takes the first free one.
LEMMA TakenOwned ==
  ASSUME NEW nodes, NEW used, NEW list, Owned(nodes, used, list), list # <<>>, NEW n \in used,
         nodes[n].block = NULL, ~nodes[n].isFolder,
         NEW new, new[n].block = Head(list), new[n].isFolder = nodes[n].isFolder,
         \A x \in used : x # n =>
           new[x].isFolder = nodes[x].isFolder /\ new[x].block = nodes[x].block
  PROVE  Owned(new, used, Tail(list)) /\ Head(list) \in Blocks
<1> PICK k : k = Len(list)
  OBVIOUS
<1> PICK l : l = Tail(list)
  OBVIOUS
<1>1. /\ list \in Seq(Blocks) /\ IsInjective(list) /\ k \in Nat /\ k # 0 /\ DOMAIN list = 1 .. k
      /\ \A i \in 1 .. k : list[i] \in Blocks /\ list[i] # NULL
  BY FileSystemAssumption DEF Owned
<1>2. /\ \A x \in used : nodes[x].isFolder => nodes[x].block = NULL
      /\ \A x \in used : \A i \in 1 .. k : nodes[x].block # list[i]
      /\ \A x, y \in used : nodes[x].block = nodes[y].block /\ nodes[x].block # NULL => x = y
      /\ ~MallocMayFail => \A d \in Blocks :
            (\E i \in 1 .. k : list[i] = d) \/ (\E x \in used : nodes[x].block = d)
  BY DEF Owned
<1>3. 1 \in 1 .. k /\ Head(list) = list[1] /\ new[n].block = list[1]
  BY <1>1
<1>4. /\ l \in Seq(Blocks) /\ Len(l) = k - 1 /\ DOMAIN l = 1 .. k - 1
      /\ \A i \in 1 .. k - 1 : l[i] = list[i + 1] /\ i + 1 \in 1 .. k
  BY <1>1
<1>5. \A i, j \in 1 .. k : list[i] = list[j] => i = j
  BY <1>1 DEF IsInjective
<1>6. IsInjective(l)
  BY <1>4, <1>5 DEF IsInjective
<1>7. \A x \in used : new[x].isFolder => new[x].block = NULL
  BY <1>2
<1>8. \A x \in used : \A i \in 1 .. k - 1 : new[x].block # l[i]
  <2> SUFFICES ASSUME NEW x \in used, NEW i \in 1 .. k - 1 PROVE new[x].block # l[i]
    OBVIOUS
  <2>1. l[i] = list[i + 1] /\ i + 1 \in 1 .. k /\ i + 1 # 1
    BY <1>4
  <2>2. CASE x = n
    BY <1>3, <1>5, <2>1, <2>2
  <2>3. CASE x # n
    BY <1>2, <2>1, <2>3
  <2> QED
    BY <2>2, <2>3
<1>9. \A x, y \in used : new[x].block = new[y].block /\ new[x].block # NULL => x = y
  <2> SUFFICES ASSUME NEW x \in used, NEW y \in used, new[x].block = new[y].block, new[x].block # NULL
               PROVE  x = y
    OBVIOUS
  <2>1. CASE x # n /\ y # n
    BY <1>2, <2>1
  <2>2. CASE x = n /\ y # n
    BY <1>2, <1>3, <2>2
  <2>3. CASE x # n /\ y = n
    BY <1>2, <1>3, <2>3
  <2> QED
    BY <2>1, <2>2, <2>3
<1>10. ASSUME ~MallocMayFail, NEW d \in Blocks
       PROVE  (\E i \in 1 .. k - 1 : l[i] = d) \/ (\E x \in used : new[x].block = d)
  <2>1. CASE \E i \in 1 .. k : list[i] = d
    <3>1. PICK i \in 1 .. k : list[i] = d
      BY <2>1
    <3>2. CASE i = 1
      BY <1>3, <3>1, <3>2
    <3>3. CASE i # 1
      <4>1. i - 1 \in 1 .. k - 1 /\ i - 1 + 1 = i
        BY <1>1, <3>3
      <4> QED
        BY <1>4, <3>1, <4>1
    <3> QED
      BY <3>2, <3>3
  <2>2. CASE \E x \in used : nodes[x].block = d
    <3>1. PICK x \in used : nodes[x].block = d
      BY <2>2
    <3>2. x # n
      BY <3>1, FileSystemAssumption
    <3> QED
      BY <3>1, <3>2
  <2> QED
    BY <1>2, <1>10, <2>1, <2>2
<1> QED
  BY <1>1, <1>3, <1>4, <1>6, <1>7, <1>8, <1>9, <1>10 DEF Owned

-----------------------------------------------------------------------------
(* The steps of the program.                                               *)

\* What VfsInv says of a running program.
Standing ==
  /\ node \in [Nodes -> NodeRecords] /\ currentDirectory \in allocated
  /\ node[currentDirectory].isFolder /\ rootDirectory = root
  /\ Structure(node, allocated, Kids(node)) /\ Owned(node, allocated, freeBlockList)

\* While the program runs the structure stands.
LEMMA InvStands == VfsInv /\ Running => Standing
  BY DEF VfsInv, VfsTypeOK, NodeRecords, Standing

\* To restore the invariant it is enough to name the new circles.
LEMMA StandsAgain ==
  ASSUME VfsTypeOK, Running,
         node' \in [Nodes -> NodeRecords], diskMemory' \in [Blocks -> Texts \cup {NoData}],
         state' = state, rootDirectory' = rootDirectory, rootDirectory = root,
         currentDirectory' \in allocated', node'[currentDirectory'].isFolder,
         NEW kids, kids = [d \in Nodes |-> kids[d]], Structure(node', allocated', kids),
         Owned(node', allocated', freeBlockList')
  PROVE  VfsInv'
<1>1. Kids(node') = kids
  BY SiblingsAreKids DEF Structure
<1>2. allocated' \subseteq Nodes
  BY DEF Structure
<1>3. freeBlockList' \in Seq(Blocks)
  BY DEF Owned
<1>4. VfsTypeOK'
  BY <1>2, <1>3 DEF VfsTypeOK, NodeRecords, Pointers
<1> QED
  BY <1>1, <1>4 DEF VfsInv, Running

\* Kids is a function of the nodes.
LEMMA KidsAre ==
  ASSUME NEW nodes
  PROVE  /\ Kids(nodes) = [d \in Nodes |-> Kids(nodes)[d]]
         /\ \A d \in Nodes : Kids(nodes)[d] = Siblings(nodes, d)
  BY DEF Kids

\* What a search among the children finds.
LEMMA FindFinds ==
  ASSUME Standing, NEW name, NEW wanted
  PROVE  LET c == Kids(node)[currentDirectory]
             n == Find(name, wanted)
         IN /\ n = NULL => \A i \in 1 .. Len(c) : ~(node[c[i]].name = name /\ c[i] \in wanted)
            /\ n # NULL => \E i \in 1 .. Len(c) : n = c[i] /\ node[n].name = name /\ n \in wanted
<1> PICK c : c = Kids(node)[currentDirectory]
  OBVIOUS
<1> PICK hits : hits = { i \in DOMAIN c : node[c[i]].name = name /\ c[i] \in wanted }
  OBVIOUS
<1>1. currentDirectory \in Nodes /\ Children(currentDirectory) = c
  BY KidsAre DEF Standing, Structure, Children
<1>2. Find(name, wanted) = IF hits = {} THEN NULL ELSE c[CHOOSE i \in hits : \A j \in hits : i <= j]
  BY <1>1 DEF Find
<1>3. DOMAIN c = 1 .. Len(c) /\ Len(c) \in Nat /\ \A i \in 1 .. Len(c) : c[i] # NULL
  BY <1>1, KidFacts DEF Standing
<1>4. hits # {} => (CHOOSE i \in hits : \A j \in hits : i <= j) \in hits
  <2> SUFFICES ASSUME hits # {} PROVE \E i \in hits : \A j \in hits : i <= j
    OBVIOUS
  <2>1. hits \in SUBSET Nat
    BY <1>3
  <2>2. PICK i \in hits : \A j \in hits : ~(j < i)
    BY <2>1, LeastElement
  <2>3. \A j \in hits : i <= j
    BY <2>1, <2>2
  <2> QED
    BY <2>3
<1>5. CASE hits = {}
  BY <1>2, <1>3, <1>5
<1>6. CASE hits # {}
  <2>1. PICK i \in hits : Find(name, wanted) = c[i]
    BY <1>2, <1>4, <1>6
  <2>2. i \in 1 .. Len(c) /\ node[c[i]].name = name /\ c[i] \in wanted /\ c[i] # NULL
    BY <1>3, <2>1
  <2> QED
    BY <2>1, <2>2
<1> QED
  BY <1>5, <1>6

\* The nodes after a child was put in.
LEMMA LinkedIs ==
  ASSUME Standing, NEW n, NEW name, NEW isFolder
  PROVE  Linked(n, name, isFolder) =
           AddedTo(node, Kids(node)[currentDirectory], currentDirectory, n, name, isFolder)
<1> PICK c : c = Kids(node)[currentDirectory]
  OBVIOUS
<1>1. currentDirectory \in Nodes /\ Children(currentDirectory) = c
  BY KidsAre DEF Standing, Structure, Children
<1>2. /\ Len(c) \in Nat /\ node[currentDirectory].firstChild = (IF Len(c) = 0 THEN NULL ELSE c[1])
      /\ \A i \in 1 .. Len(c) : c[i] # NULL
  <2> PICK kids : kids = Kids(node)
    OBVIOUS
  <2>1. Structure(node, allocated, kids) /\ c = kids[currentDirectory]
    BY DEF Standing
  <2> QED
    BY <1>1, <2>1, KidFacts
<1>3. Len(c) # 0 => 1 \in 1 .. Len(c)
  BY <1>2
<1>4. node[currentDirectory].firstChild = NULL <=> Len(c) = 0
  BY <1>2, <1>3
<1>5. Last(c) = c[Len(c)]
  BY DEF Last
<1> QED
  BY <1>1, <1>2, <1>4, <1>5 DEF Linked, AddedTo

\* The nodes after a child was taken out.
LEMMA UnlinkedIs ==
  ASSUME Standing, NEW i \in 1 .. Len(Kids(node)[currentDirectory])
  PROVE  Unlinked(Kids(node)[currentDirectory][i]) =
           DroppedFrom(node, Kids(node)[currentDirectory], currentDirectory, i)
<1> PICK c : c = Kids(node)[currentDirectory]
  OBVIOUS
<1> PICK k : k = Len(c)
  OBVIOUS
<1> PICK n : n = c[i]
  OBVIOUS
<1>1. currentDirectory \in Nodes /\ Children(currentDirectory) = c
  BY KidsAre DEF Standing, Structure, Children
<1>2. /\ c \in Seq(Nodes) /\ k \in Nat /\ DOMAIN c = 1 .. k /\ i \in 1 .. k
      /\ node[currentDirectory].firstChild = (IF k = 0 THEN NULL ELSE c[1])
  BY <1>1, KidFacts DEF Standing
<1>3. ASSUME NEW a \in 1 .. k, NEW b \in 1 .. k, c[a] = c[b] PROVE a = b
  BY <1>1, <1>3, OneCircle DEF Standing
<1>4. \A j \in 1 .. k : node[c[j]].nextSibling = IF j = k THEN c[1] ELSE c[j + 1]
  BY <1>1 DEF Standing, Structure, Rings, Ring
<1>5. ToSet(c) = { c[j] : j \in 1 .. k }
  BY <1>2 DEF ToSet
<1>6. k # 0 /\ 1 \in 1 .. k /\ k \in 1 .. k /\ (i # k => i + 1 \in 1 .. k) /\ (i # 1 => i - 1 \in 1 .. k)
  BY <1>2
<1> PICK before : before = IF i = 1 THEN c[k] ELSE c[i - 1]
  OBVIOUS
<1>7. before \in ToSet(c) /\ node[before].nextSibling = n
  <2>1. CASE i = 1
    BY <1>4, <1>5, <1>6, <2>1
  <2>2. CASE i # 1
    <3>1. i - 1 \in 1 .. k /\ i - 1 # k /\ i - 1 + 1 = i
      BY <1>2, <2>2
    <3> QED
      BY <1>4, <1>5, <2>2, <3>1
  <2> QED
    BY <2>1, <2>2
<1>8. \A m \in ToSet(c) : node[m].nextSibling = n => m = before
  <2> SUFFICES ASSUME NEW j \in 1 .. k, node[c[j]].nextSibling = n PROVE c[j] = before
    BY <1>5
  <2>1. CASE j = k
    BY <1>3, <1>4, <1>6, <2>1
  <2>2. CASE j # k
    <3>1. j + 1 \in 1 .. k
      BY <1>2, <2>2
    <3>2. j + 1 = i
      BY <1>3, <1>4, <2>2, <3>1
    <3>3. i # 1 /\ i - 1 = j
      BY <1>2, <3>2
    <3> QED
      BY <3>3
  <2> QED
    BY <2>1, <2>2
<1>9. (CHOOSE m \in ToSet(c) : node[m].nextSibling = n) = before
  BY <1>7, <1>8
<1>10. node[n].nextSibling = IF i = k THEN c[1] ELSE c[i + 1]
  BY <1>2, <1>4
<1>11. node[n].nextSibling = n <=> k = 1
  <2>1. CASE i = k
    <3>1. c[1] = c[i] <=> 1 = i
      BY <1>2, <1>3, <1>6
    <3> QED
      BY <1>10, <2>1, <3>1
  <2>2. CASE i # k
    <3>1. i + 1 \in 1 .. k /\ i + 1 # i /\ k # 1
      BY <1>2, <2>2
    <3>2. c[i + 1] # c[i]
      BY <1>2, <1>3, <3>1
    <3> QED
      BY <1>10, <2>2, <3>1, <3>2
  <2> QED
    BY <2>1, <2>2
<1>12. n = node[currentDirectory].firstChild <=> i = 1
  <2>1. c[i] = c[1] <=> i = 1
    BY <1>2, <1>3, <1>6
  <2> QED
    BY <1>2, <1>6, <2>1
<1> PICK next : next = node[n].nextSibling
  OBVIOUS
<1> DEFINE dir == currentDirectory
           Without(b, m, f) == [node EXCEPT ![b].nextSibling = m, ![dir].firstChild = f, ![n] = Garbage]
<1>a. node[dir].firstChild = c[1] /\ Children(dir) = c
  BY <1>1, <1>2, <1>6
<1>b. (IF n = c[1] THEN next ELSE c[1]) = (IF i = 1 THEN next ELSE c[1])
  BY <1>2, <1>6, <1>12
<1>c. Unlinked(n) =
        IF node[n].nextSibling = n THEN [node EXCEPT ![dir].firstChild = NULL, ![n] = Garbage]
        ELSE Without(CHOOSE m \in ToSet(Children(dir)) : node[m].nextSibling = n, node[n].nextSibling,
                     IF n = node[dir].firstChild THEN node[n].nextSibling ELSE node[dir].firstChild)
  BY DEF Unlinked
<1> HIDE DEF Without
<1>d. Unlinked(n) =
        IF next = n THEN [node EXCEPT ![dir].firstChild = NULL, ![n] = Garbage]
        ELSE Without(CHOOSE m \in ToSet(c) : node[m].nextSibling = n, next, IF n = c[1] THEN next ELSE c[1])
  BY <1>a, <1>c
<1>e. Unlinked(n) =
        IF k = 1 THEN [node EXCEPT ![dir].firstChild = NULL, ![n] = Garbage]
        ELSE Without(before, next, IF i = 1 THEN next ELSE c[1])
  BY <1>b, <1>d, <1>9, <1>11
<1>f. Unlinked(n) =
        IF k = 1 THEN [node EXCEPT ![dir].firstChild = NULL, ![n] = Garbage]
        ELSE Without(before, IF i = k THEN c[1] ELSE c[i + 1],
                     IF i = 1 THEN IF i = k THEN c[1] ELSE c[i + 1] ELSE c[1])
  BY <1>e, <1>10
<1>13. Unlinked(n) =
         IF k = 1 THEN [node EXCEPT ![currentDirectory].firstChild = NULL, ![n] = Garbage]
         ELSE [node EXCEPT ![before].nextSibling = IF i = k THEN c[1] ELSE c[i + 1],
                           ![currentDirectory].firstChild =
                             IF i = 1 THEN IF i = k THEN c[1] ELSE c[i + 1] ELSE c[1],
                           ![n] = Garbage]
  BY <1>f DEF Without
<1> QED
  BY <1>13 DEF DroppedFrom

\* mkdir and create keep the invariant.
LEMMA CreateKeeps ==
  ASSUME VfsInv, NEW name \in Names, NEW isFolder \in BOOLEAN, create(name, isFolder)
  PROVE  VfsInv'
<1> PICK dir : dir = currentDirectory
  OBVIOUS
<1> PICK kids : kids = Kids(node)
  OBVIOUS
<1>1. Running /\ Standing
  BY InvStands DEF create, Prompt, Running
<1>2. PICK n \in Nodes \ allocated : node' = Linked(n, name, isFolder) /\ allocated' = allocated \cup {n}
  BY DEF create
<1>3. /\ node \in [Nodes -> NodeRecords] /\ Structure(node, allocated, kids)
      /\ Owned(node, allocated, freeBlockList)
      /\ dir \in allocated /\ node[dir].isFolder /\ allocated \subseteq Nodes
  BY <1>1 DEF Standing, Structure
<1>4. kids = [d \in Nodes |-> kids[d]]
  BY KidsAre
<1>5. node' = AddedTo(node, kids[dir], dir, n, name, isFolder)
  BY <1>1, <1>2, LinkedIs
<1>6. \A i \in 1 .. Len(kids[dir]) : node[kids[dir][i]].name # name
  <2>1. Find(name, Nodes) = NULL
    BY DEF create
  <2>2. \A i \in 1 .. Len(kids[dir]) : ~(node[kids[dir][i]].name = name /\ kids[dir][i] \in Nodes)
    BY <1>1, <2>1, FindFinds
  <2>3. \A i \in 1 .. Len(kids[dir]) : kids[dir][i] \in Nodes
    BY <1>3, KidFacts
  <2> QED
    BY <2>2, <2>3
<1> PICK more : more = [kids EXCEPT ![dir] = Append(kids[dir], n)]
  OBVIOUS
<1> PICK new : new = node'
  OBVIOUS
<1> PICK used : used = allocated
  OBVIOUS
<1> PICK nodes : nodes = node
  OBVIOUS
<1>a. /\ nodes \in [Nodes -> NodeRecords] /\ Structure(nodes, used, kids) /\ kids = [d \in Nodes |-> kids[d]]
      /\ dir \in used /\ nodes[dir].isFolder /\ n \in Nodes /\ n \notin used
      /\ \A i \in 1 .. Len(kids[dir]) : nodes[kids[dir][i]].name # name
      /\ new = AddedTo(nodes, kids[dir], dir, n, name, isFolder)
      /\ name \in Names /\ isFolder \in BOOLEAN
  BY <1>2, <1>3, <1>4, <1>5, <1>6
<1>7. /\ node' \in [Nodes -> NodeRecords] /\ Structure(node', allocated', more)
  <2>1. /\ new \in [Nodes -> NodeRecords]
        /\ Structure(new, used \cup {n}, [kids EXCEPT ![dir] = Append(kids[dir], n)])
    BY ONLY <1>a, AddedStructure
  <2> QED
    BY <1>2, <2>1
<1>b. Added(nodes, kids[dir], dir, n, name, isFolder, new)
  <2>1. kids[dir] \in Seq(Nodes) /\ dir \in Nodes /\ \A i \in 1 .. Len(kids[dir]) : kids[dir][i] # n
    BY <1>2, <1>3, KidFacts
  <2>2. n # dir
    BY <1>2, <1>3
  <2> QED
    BY ONLY <1>a, <2>1, <2>2, AddedFields
<1>8. \A x \in allocated : x # n /\ SameButLinks(node'[x], node[x])
  <2>1. \A x \in Nodes : x # n => SameButLinks(new[x], nodes[x])
    BY <1>b DEF Added
  <2> QED
    BY <1>2, <1>3, <2>1
<1>9. node'[n].block = NULL
  BY <1>b DEF Added, Made
<1>10. Owned(node', allocated', freeBlockList')
  <2>1. freeBlockList' = freeBlockList
    BY DEF create
  <2>2. \A x \in allocated' :
          \/ x \in allocated /\ node'[x].isFolder = node[x].isFolder /\ node'[x].block = node[x].block
          \/ node'[x].block = NULL
    BY <1>2, <1>8, <1>9 DEF SameButLinks
  <2>3. \A x \in allocated : x \in allocated' /\ node'[x].block = node[x].block
    BY <1>2, <1>8 DEF SameButLinks
  <2>4. Owned(node', allocated', freeBlockList)
    BY ONLY <1>3, <2>2, <2>3, SameOwned
  <2> QED
    BY <2>1, <2>4
<1>11. node'[dir].isFolder /\ dir \in allocated'
  BY <1>2, <1>3, <1>8 DEF SameButLinks
<1>12. /\ state' = state /\ rootDirectory' = rootDirectory /\ currentDirectory' = currentDirectory
       /\ diskMemory' = diskMemory
  BY DEF create
<1>13. VfsTypeOK /\ rootDirectory = root /\ diskMemory \in [Blocks -> Texts \cup {NoData}]
  BY <1>1 DEF VfsInv, VfsTypeOK, Standing
<1>14. more = [d \in Nodes |-> more[d]]
  BY <1>4
<1> QED
  BY <1>1, <1>7, <1>10, <1>11, <1>12, <1>13, <1>14, StandsAgain

\* A step that only goes somewhere else.
LEMMA MoveKeeps ==
  ASSUME VfsInv, Running, currentDirectory' \in allocated, node[currentDirectory'].isFolder,
         UNCHANGED <<state, node, allocated, rootDirectory, freeBlockList, diskMemory>>
  PROVE  VfsInv'
<1>1. Standing
  BY InvStands
<1>2. VfsTypeOK /\ diskMemory \in [Blocks -> Texts \cup {NoData}]
  BY DEF VfsInv, VfsTypeOK
<1>3. Kids(node) = [d \in Nodes |-> Kids(node)[d]]
  BY KidsAre
<1> QED
  BY <1>1, <1>2, <1>3, StandsAgain DEF Standing

\* cd .. keeps it: the parent of a directory is a directory in use.
LEMMA UpKeeps ==
  ASSUME VfsInv, moveToParentDirectory
  PROVE  VfsInv'
<1>1. Running /\ Standing
  BY InvStands DEF moveToParentDirectory, Prompt, Running
<1> PICK d : d = node[currentDirectory].parent
  OBVIOUS
<1>2. /\ currentDirectory \in allocated /\ currentDirectory # root /\ allocated \subseteq Nodes
      /\ Structure(node, allocated, Kids(node))
  BY <1>1 DEF Standing, Structure, moveToParentDirectory
<1>3. d \in allocated /\ \E i \in 1 .. Len(Kids(node)[d]) : Kids(node)[d][i] = currentDirectory
  BY <1>2 DEF Structure, ParentsKnow
<1>4. node[d].isFolder
  <2>1. Len(Kids(node)[d]) \in Nat
    BY <1>2, <1>3, KidFacts
  <2>2. Len(Kids(node)[d]) # 0
    BY <1>3, <2>1
  <2> QED
    BY <1>2, <1>3, <2>2 DEF Structure, Families
<1> QED
  BY <1>1, <1>3, <1>4, MoveKeeps DEF moveToParentDirectory

\* cd keeps it.
LEMMA ChangeKeeps ==
  ASSUME VfsInv, NEW name \in Names, changeDirectory(name)
  PROVE  VfsInv'
<1>1. CASE moveToParentDirectory
  BY <1>1, UpKeeps
<1>2. CASE /\ Prompt /\ Find(name, FolderNodes) # NULL
           /\ currentDirectory' = Find(name, FolderNodes)
           /\ UNCHANGED <<state, node, allocated, rootDirectory, freeBlockList, diskMemory>>
  <2>1. Running /\ Standing
    BY <1>2, InvStands DEF Prompt, Running
  <2> PICK c : c = Kids(node)[currentDirectory]
    OBVIOUS
  <2>2. PICK i \in 1 .. Len(c) : currentDirectory' = c[i] /\ c[i] \in FolderNodes
    BY <1>2, <2>1, FindFinds
  <2>3. c[i] \in allocated
    BY <2>1, KidFacts DEF Standing, Structure
  <2> QED
    BY <1>2, <2>1, <2>2, <2>3, MoveKeeps DEF FolderNodes
<1> QED
  BY <1>1, <1>2 DEF changeDirectory

\* A child without children goes.
LEMMA ChildGoes ==
  ASSUME VfsInv, Running, NEW i \in 1 .. Len(Kids(node)[currentDirectory]),
         NEW n, n = Kids(node)[currentDirectory][i], Len(Kids(node)[n]) = 0,
         NEW new, new = Unlinked(n)
  PROVE  /\ new \in [Nodes -> NodeRecords]
         /\ \E kids : kids = [d \in Nodes |-> kids[d]] /\ Structure(new, allocated \ {n}, kids)
         /\ n \in allocated /\ currentDirectory \in allocated \ {n}
         /\ new[currentDirectory].isFolder
         /\ \A x \in allocated : x # n => SameButLinks(new[x], node[x])
<1> PICK dir : dir = currentDirectory
  OBVIOUS
<1> PICK kids : kids = Kids(node)
  OBVIOUS
<1> PICK used : used = allocated
  OBVIOUS
<1> PICK nodes : nodes = node
  OBVIOUS
<1>1. Standing
  BY InvStands
<1>2. /\ nodes \in [Nodes -> NodeRecords] /\ Structure(nodes, used, kids)
      /\ dir \in used /\ nodes[dir].isFolder /\ used \subseteq Nodes
  BY <1>1 DEF Standing, Structure
<1>3. kids = [d \in Nodes |-> kids[d]]
  BY KidsAre
<1>4. new = DroppedFrom(nodes, kids[dir], dir, i)
  BY <1>1, UnlinkedIs
<1>5. i \in 1 .. Len(kids[dir]) /\ n = kids[dir][i] /\ Len(kids[kids[dir][i]]) = 0
  OBVIOUS
<1>6. kids[dir] \in Seq(Nodes) /\ Len(kids[dir]) \in Nat /\ n \in used
  BY <1>2, <1>5, KidFacts
<1>7. n # dir
  <2>1. Len(kids[dir]) # 0
    BY <1>5, <1>6
  <2> QED
    BY <1>5, <2>1
<1>8. /\ new \in [Nodes -> NodeRecords]
      /\ Structure(new, used \ {kids[dir][i]}, [kids EXCEPT ![dir] = RemoveAt(kids[dir], i)])
  <2>1. i \in 1 .. Len(kids[dir]) /\ Len(kids[kids[dir][i]]) = 0
    BY <1>5
  <2> QED
    <3>1. WithoutChild(nodes, used, kids, dir, i, new)
      BY ONLY <1>2, <1>3, <1>4, <2>1, DroppedStructure
    <3> QED
      BY <3>1 DEF WithoutChild
<1>9. [kids EXCEPT ![dir] = RemoveAt(kids[dir], i)] =
        [d \in Nodes |-> [kids EXCEPT ![dir] = RemoveAt(kids[dir], i)][d]]
  BY <1>3
<1>10. \A x \in used : x # n => SameButLinks(new[x], nodes[x])
  <2>1. ASSUME NEW j \in 1 .. Len(kids[dir]), kids[dir][j] = kids[dir][i] PROVE j = i
    BY <1>2, <2>1, OneCircle
  <2>2. \A j \in 1 .. Len(kids[dir]) : kids[dir][j] = kids[dir][i] => j = i
    BY <2>1
  <2>3. kids[dir][i] # dir /\ dir \in Nodes
    BY <1>2, <1>7
  <2>4. Dropped(nodes, kids[dir], Len(kids[dir]), dir, i, kids[dir][i], new)
    BY ONLY <1>2, <1>4, <1>5, <1>6, <2>2, <2>3, DroppedFields
  <2> QED
    BY <1>2, <2>4 DEF Dropped
<1>11. new[dir].isFolder
  BY <1>2, <1>7, <1>10 DEF SameButLinks
<1> QED
  BY <1>2, <1>6, <1>7, <1>8, <1>9, <1>10, <1>11

\* rmdir keeps it: the directory is empty, so it is not the current one.
LEMMA RemoveKeeps ==
  ASSUME VfsInv, NEW name \in Names, removeDirectory(name)
  PROVE  VfsInv'
<1> PICK c : c = Kids(node)[currentDirectory]
  OBVIOUS
<1> PICK n : n = Find(name, Nodes)
  OBVIOUS
<1> PICK new : new = node'
  OBVIOUS
<1>1. Running /\ Standing
  BY InvStands DEF removeDirectory, Prompt, Running
<1>2. /\ n # NULL /\ node[n].isFolder /\ node[n].firstChild = NULL
      /\ new = Unlinked(n) /\ allocated' = allocated \ {n}
      /\ UNCHANGED <<state, rootDirectory, currentDirectory, freeBlockList, diskMemory>>
  BY DEF removeDirectory
<1>3. PICK i \in 1 .. Len(c) : n = c[i]
  BY <1>1, <1>2, FindFinds
<1>4. n \in Nodes /\ n \in allocated
  BY <1>1, <1>3, KidFacts DEF Standing, Structure
<1>5. Len(Kids(node)[n]) = 0
  <2>1. /\ Len(Kids(node)[n]) \in Nat /\ \A j \in 1 .. Len(Kids(node)[n]) : Kids(node)[n][j] # NULL
        /\ node[n].firstChild = IF Len(Kids(node)[n]) = 0 THEN NULL ELSE Kids(node)[n][1]
    BY <1>1, <1>4, KidFacts DEF Standing
  <2>2. Len(Kids(node)[n]) # 0 => 1 \in 1 .. Len(Kids(node)[n])
    BY <2>1
  <2> QED
    BY <1>2, <2>1, <2>2
<1>6. /\ new \in [Nodes -> NodeRecords]
      /\ \E kids : kids = [d \in Nodes |-> kids[d]] /\ Structure(new, allocated \ {n}, kids)
      /\ currentDirectory \in allocated \ {n} /\ new[currentDirectory].isFolder
      /\ \A x \in allocated : x # n => SameButLinks(new[x], node[x])
  BY <1>1, <1>2, <1>3, <1>5, ChildGoes
<1>7. PICK kids : kids = [d \in Nodes |-> kids[d]] /\ Structure(new, allocated \ {n}, kids)
  BY <1>6
<1>8. Owned(node', allocated', freeBlockList')
  <2>1. Owned(node, allocated, freeBlockList)
    BY <1>1 DEF Standing
  <2>2. node[n].block = NULL
    BY <1>2, <1>4, <2>1 DEF Owned
  <2>3. \A x \in allocated \ {n} :
          \/ x \in allocated /\ new[x].isFolder = node[x].isFolder /\ new[x].block = node[x].block
          \/ new[x].block = NULL
    BY <1>6 DEF SameButLinks
  <2>4. \A x \in allocated :
           (x \in allocated \ {n} /\ new[x].block = node[x].block) \/ node[x].block = NULL
    BY <1>6, <2>2 DEF SameButLinks
  <2>5. Owned(new, allocated \ {n}, freeBlockList)
    BY ONLY <2>1, <2>3, <2>4, SameOwned
  <2> QED
    BY <1>2, <2>5
<1>9. VfsTypeOK /\ rootDirectory = root /\ diskMemory \in [Blocks -> Texts \cup {NoData}]
  BY <1>1 DEF VfsInv, VfsTypeOK, Standing
<1> QED
  BY <1>1, <1>2, <1>6, <1>7, <1>8, <1>9, StandsAgain

\* releaseFileBlocks gives back the block of the file.
LEMMA GivenBackIs ==
  ASSUME NEW n
  PROVE  releaseFileBlocks(n) = GivenBack(node[n].block, freeBlockList)
  BY DEF releaseFileBlocks, GivenBack

\* delete keeps it: the block of the file is free before its node goes.
LEMMA DeleteKeeps ==
  ASSUME VfsInv, NEW name \in Names, deleteFileByName(name)
  PROVE  VfsInv'
<1> PICK c : c = Kids(node)[currentDirectory]
  OBVIOUS
<1> PICK n : n = Find(name, FileNodes)
  OBVIOUS
<1> PICK new : new = node'
  OBVIOUS
<1> PICK list : list = freeBlockList'
  OBVIOUS
<1>1. Running /\ Standing
  BY InvStands DEF deleteFileByName, Prompt, Running
<1>2. /\ n # NULL /\ list \in releaseFileBlocks(n)
      /\ new = Unlinked(n) /\ allocated' = allocated \ {n}
      /\ UNCHANGED <<state, rootDirectory, currentDirectory, diskMemory>>
  BY DEF deleteFileByName
<1>3. PICK i \in 1 .. Len(c) : n = c[i] /\ n \in FileNodes
  BY <1>1, <1>2, FindFinds
<1>4. n \in Nodes /\ n \in allocated /\ ~node[n].isFolder /\ node[n].block \in Blocks \cup {NULL}
  BY <1>1, <1>3, KidFacts DEF Standing, Structure, FileNodes, NodeRecords
<1>5. Len(Kids(node)[n]) = 0
  BY <1>1, <1>4 DEF Standing, Structure, Families
<1>6. /\ new \in [Nodes -> NodeRecords]
      /\ \E kids : kids = [d \in Nodes |-> kids[d]] /\ Structure(new, allocated \ {n}, kids)
      /\ currentDirectory \in allocated \ {n} /\ new[currentDirectory].isFolder
      /\ \A x \in allocated : x # n => SameButLinks(new[x], node[x])
  BY <1>1, <1>2, <1>3, <1>5, ChildGoes
<1>7. PICK kids : kids = [d \in Nodes |-> kids[d]] /\ Structure(new, allocated \ {n}, kids)
  BY <1>6
<1>8. Owned(node', allocated', freeBlockList')
  <2> PICK mid : mid = [x \in Nodes |-> IF x = n THEN [node[n] EXCEPT !.block = NULL] ELSE node[x]]
    OBVIOUS
  <2>0. node[n] \in NodeRecords /\ allocated \subseteq Nodes
    BY <1>1, <1>4 DEF Standing, Structure
  <2>1. mid[n].block = NULL /\ \A x \in allocated : x # n => mid[x] = node[x]
    BY <1>4, <2>0 DEF NodeRecords
  <2>2. Owned(node, allocated, freeBlockList) /\ list \in GivenBack(node[n].block, freeBlockList)
    BY <1>1, <1>2, GivenBackIs DEF Standing
  <2>3. \A x \in allocated : x # n =>
          mid[x].isFolder = node[x].isFolder /\ mid[x].block = node[x].block
    BY <2>1
  <2>4. Owned(mid, allocated, list)
    BY ONLY <1>4, <2>1, <2>2, <2>3, ReleasedOwned
  <2>5. \A x \in allocated \ {n} :
          \/ x \in allocated /\ new[x].isFolder = mid[x].isFolder /\ new[x].block = mid[x].block
          \/ new[x].block = NULL
    BY <1>6, <2>1 DEF SameButLinks
  <2>6. \A x \in allocated :
           (x \in allocated \ {n} /\ new[x].block = mid[x].block) \/ mid[x].block = NULL
    BY <1>6, <2>1 DEF SameButLinks
  <2>7. Owned(new, allocated \ {n}, list)
    BY ONLY <2>4, <2>5, <2>6, SameOwned
  <2> QED
    BY <1>2, <2>7
<1>9. VfsTypeOK /\ rootDirectory = root /\ diskMemory \in [Blocks -> Texts \cup {NoData}]
  BY <1>1 DEF VfsInv, VfsTypeOK, Standing
<1> QED
  BY <1>1, <1>2, <1>6, <1>7, <1>8, <1>9, StandsAgain

\* The same nodes, but that n has another block.
OtherBlock(nodes, n, block, new) ==
  /\ new \in [Nodes -> NodeRecords]
  /\ new[n].block = block /\ \A x \in Nodes : new[x].isFolder = nodes[x].isFolder
  /\ \A x \in Nodes : new[x].name = nodes[x].name /\ new[x].parent = nodes[x].parent
  /\ \A x \in Nodes : x # n => new[x] = nodes[x]

\* Another block leaves the circles as they are.
LEMMA BlockSet ==
  ASSUME Standing, NEW n \in allocated, NEW block \in Blocks \cup {NULL},
         NEW new, new = [node EXCEPT ![n].block = block]
  PROVE  OtherBlock(node, n, block, new) /\ Structure(new, allocated, Kids(node))
<1>1. /\ node \in [Nodes -> NodeRecords] /\ n \in Nodes /\ allocated \subseteq Nodes
      /\ Structure(node, allocated, Kids(node))
  BY DEF Standing, Structure
<1>2. node[n] \in NodeRecords /\ [node[n] EXCEPT !.block = block] \in NodeRecords
  BY <1>1 DEF NodeRecords
<1>3. /\ new = [x \in Nodes |-> new[x]] /\ new[n] = [node[n] EXCEPT !.block = block]
      /\ \A x \in Nodes : x # n => new[x] = node[x]
  BY <1>1
<1>4. new \in [Nodes -> NodeRecords]
  BY <1>1, <1>2, <1>3
<1>5. /\ new[n].block = block
      /\ new[n].name = node[n].name /\ new[n].isFolder = node[n].isFolder
      /\ new[n].parent = node[n].parent
      /\ new[n].nextSibling = node[n].nextSibling /\ new[n].firstChild = node[n].firstChild
  BY <1>2, <1>3 DEF NodeRecords
<1>6. \A x \in Nodes :
        /\ new[x].name = node[x].name /\ new[x].isFolder = node[x].isFolder
        /\ new[x].parent = node[x].parent
        /\ new[x].nextSibling = node[x].nextSibling /\ new[x].firstChild = node[x].firstChild
  BY <1>3, <1>5
<1>7. \A x \in Nodes : x \notin allocated => new[x] = node[x]
  BY <1>3
<1>8. Structure(new, allocated, Kids(node))
  BY ONLY <1>1, <1>6, <1>7, SameStructure
<1> QED
  BY <1>3, <1>4, <1>5, <1>6, <1>8 DEF OtherBlock

\* write keeps it: the block that is taken is not one of another file.
LEMMA WriteKeeps ==
  ASSUME VfsInv, NEW name \in Names, NEW text \in Texts \cup {NoData}, writeFile(name, text)
  PROVE  VfsInv'
<1> PICK n : n = Find(name, Nodes)
  OBVIOUS
<1>1. Running /\ Standing
  BY InvStands DEF writeFile, Prompt, Running
<1>2. /\ n # NULL /\ ~node[n].isFolder
      /\ \E list \in releaseFileBlocks(n) :
           IF text = NoData \/ list = <<>>
           THEN /\ node' = [node EXCEPT ![n].block = NULL]
                /\ freeBlockList' = list
                /\ UNCHANGED diskMemory
           ELSE /\ node' = [node EXCEPT ![n].block = Head(list)]
                /\ freeBlockList' = Tail(list)
                /\ diskMemory' = [diskMemory EXCEPT ![Head(list)] = text]
      /\ UNCHANGED <<state, allocated, rootDirectory, currentDirectory>>
  BY DEF writeFile
<1>3. n \in Nodes /\ n \in allocated /\ node[n].block \in Blocks \cup {NULL} /\ allocated \subseteq Nodes
  <2>1. \E i \in 1 .. Len(Kids(node)[currentDirectory]) : n = Kids(node)[currentDirectory][i]
    BY <1>1, <1>2, FindFinds
  <2>2. n \in Nodes /\ n \in allocated /\ allocated \subseteq Nodes
    BY <1>1, <2>1, KidFacts DEF Standing, Structure
  <2> QED
    BY <1>1, <2>2 DEF Standing, NodeRecords
<1>4. PICK list \in GivenBack(node[n].block, freeBlockList) :
         IF text = NoData \/ list = <<>>
         THEN /\ node' = [node EXCEPT ![n].block = NULL]
              /\ freeBlockList' = list
              /\ UNCHANGED diskMemory
         ELSE /\ node' = [node EXCEPT ![n].block = Head(list)]
              /\ freeBlockList' = Tail(list)
              /\ diskMemory' = [diskMemory EXCEPT ![Head(list)] = text]
  BY <1>2, GivenBackIs
<1> PICK mid : mid = [node EXCEPT ![n].block = NULL]
  OBVIOUS
<1> PICK new : new = node'
  OBVIOUS
<1>5. /\ mid \in [Nodes -> NodeRecords] /\ Structure(mid, allocated, Kids(node))
      /\ mid[n].block = NULL /\ \A x \in Nodes : mid[x].isFolder = node[x].isFolder
      /\ \A x \in Nodes : x # n => mid[x] = node[x]
  <2>1. mid = [node EXCEPT ![n].block = NULL] /\ NULL \in Blocks \cup {NULL}
    OBVIOUS
  <2>2. OtherBlock(node, n, NULL, mid) /\ Structure(mid, allocated, Kids(node))
    BY ONLY <1>1, <1>3, <2>1, BlockSet
  <2> QED
    BY <2>2 DEF OtherBlock
<1>6. Owned(mid, allocated, list)
  <2>1. Owned(node, allocated, freeBlockList)
    BY <1>1 DEF Standing
  <2>2. \A x \in allocated : x # n =>
          mid[x].isFolder = node[x].isFolder /\ mid[x].block = node[x].block
    BY <1>3, <1>5
  <2> QED
    BY ONLY <1>3, <1>4, <1>5, <2>1, <2>2, ReleasedOwned
<1>7. /\ VfsTypeOK /\ rootDirectory = root /\ diskMemory \in [Blocks -> Texts \cup {NoData}]
      /\ currentDirectory \in allocated /\ currentDirectory \in Nodes /\ node[currentDirectory].isFolder
  BY <1>1, <1>3 DEF VfsInv, VfsTypeOK, Standing
<1>8. CASE text = NoData \/ list = <<>>
  <2>1. node' = mid /\ freeBlockList' = list /\ diskMemory' = diskMemory
    BY <1>4, <1>8
  <2>2. node'[currentDirectory].isFolder
    BY <1>5, <1>7, <2>1
  <2> QED
    BY <1>1, <1>2, <1>5, <1>6, <1>7, <2>1, <2>2, KidsAre, StandsAgain
<1>9. CASE ~(text = NoData \/ list = <<>>)
  <2>1. /\ node' = [node EXCEPT ![n].block = Head(list)] /\ freeBlockList' = Tail(list)
        /\ diskMemory' = [diskMemory EXCEPT ![Head(list)] = text] /\ list # <<>>
    BY <1>4, <1>9
  <2>2. Head(list) \in Blocks
    <3>1. list \in Seq(Blocks)
      BY <1>6 DEF Owned
    <3> QED
      BY <2>1, <3>1
  <2>3. /\ new \in [Nodes -> NodeRecords] /\ Structure(new, allocated, Kids(node))
        /\ new[n].block = Head(list) /\ \A x \in Nodes : new[x].isFolder = node[x].isFolder
        /\ \A x \in Nodes : x # n => new[x] = node[x]
    <3>1. new = [node EXCEPT ![n].block = Head(list)] /\ Head(list) \in Blocks \cup {NULL}
      BY <2>1, <2>2
    <3>2. OtherBlock(node, n, Head(list), new) /\ Structure(new, allocated, Kids(node))
      BY ONLY <1>1, <1>3, <3>1, BlockSet
    <3> QED
      BY <3>2 DEF OtherBlock
  <2>4. Owned(new, allocated, Tail(list))
    <3>1. \A x \in allocated : x # n =>
            new[x].isFolder = mid[x].isFolder /\ new[x].block = mid[x].block
      BY <1>3, <1>5, <2>3
    <3>2. ~mid[n].isFolder /\ new[n].isFolder = mid[n].isFolder
      BY <1>2, <1>3, <1>5, <2>3
    <3> QED
      BY ONLY <1>3, <1>5, <1>6, <2>1, <2>3, <3>1, <3>2, TakenOwned
  <2>5. node'[currentDirectory].isFolder
    BY <1>7, <2>3
  <2>6. diskMemory' \in [Blocks -> Texts \cup {NoData}]
    BY <1>7, <2>1, <2>2
  <2> QED
    BY <1>1, <1>2, <1>7, <2>1, <2>3, <2>4, <2>5, <2>6, KidsAre, StandsAgain
<1> QED
  BY <1>8, <1>9

\* The nodes below the root are those in use.
LEMMA AllBelow == Standing => Below(root) = allocated
<1> SUFFICES ASSUME Standing PROVE Below(root) = allocated
  OBVIOUS
<1> PICK kids : kids = Kids(node)
  OBVIOUS
<1>1. Structure(node, allocated, kids) /\ allocated \subseteq Nodes /\ root \in allocated
  BY DEF Standing, Structure
<1>2. \A d \in Nodes : Children(d) = kids[d] /\ DOMAIN kids[d] = 1 .. Len(kids[d])
  BY <1>1, KidsAre, KidFacts DEF Children
<1>3. ASSUME NEW S \in SUBSET Nodes PROVE HoldsChildren(S) <=> Whole(kids, S)
  <2>1. \A d \in S : ToSet(Children(d)) = { kids[d][i] : i \in 1 .. Len(kids[d]) }
    BY <1>2 DEF ToSet
  <2> QED
    BY <2>1 DEF HoldsChildren, Whole
<1>4. Whole(kids, allocated)
  BY <1>1, KidFacts DEF Whole
<1>5. \A S \in SUBSET Nodes : root \in S /\ Whole(kids, S) => allocated \subseteq S
  BY <1>1 DEF Structure, Reached
<1>6. Below(root) = { m \in Nodes : \A S \in SUBSET Nodes : root \in S /\ HoldsChildren(S) => m \in S }
  BY DEF Below
<1> QED
  BY <1>1, <1>3, <1>4, <1>5, <1>6

\* exit leaves nothing in use.
LEMMA ExitKeeps == VfsInv /\ exitVFS => VfsInv'
<1> SUFFICES ASSUME VfsInv, exitVFS PROVE VfsInv'
  OBVIOUS
<1>1. Running /\ Standing /\ Below(rootDirectory) = allocated
  BY InvStands, AllBelow DEF exitVFS, Prompt, Running, Standing
<1>2. allocated' = {} /\ state' = "ended"
  BY <1>1 DEF exitVFS
<1>3. node' \in [Nodes -> NodeRecords]
  <2>1. node \in [Nodes -> NodeRecords] /\ Garbage \in NodeRecords
    BY <1>1 DEF Standing, Garbage, Made, NodeRecords, Pointers
  <2>2. node' = [n \in Nodes |-> IF n \in Below(rootDirectory) THEN Garbage ELSE node[n]]
    BY DEF exitVFS
  <2> QED
    BY <2>1, <2>2
<1>4. /\ rootDirectory' = NULL /\ currentDirectory' = NULL /\ freeBlockList' = <<>>
      /\ diskMemory' = diskMemory
  BY DEF exitVFS
<1>5. VfsTypeOK'
  BY <1>2, <1>3, <1>4 DEF VfsInv, VfsTypeOK, NodeRecords, Pointers
<1> QED
  BY <1>2, <1>5 DEF VfsInv, Running

\* The disk at the start.
LEMMA BlocksListed ==
  ASSUME NEW n \in 0 .. Cardinality(Blocks)
  PROVE  /\ SubSeq(SetToSeq(Blocks), 1, n) \in Seq(Blocks)
         /\ IsInjective(SubSeq(SetToSeq(Blocks), 1, n))
         /\ n = Cardinality(Blocks) =>
              \A b \in Blocks :
                \E i \in 1 .. Len(SubSeq(SetToSeq(Blocks), 1, n)) : SubSeq(SetToSeq(Blocks), 1, n)[i] = b
<1> PICK k : k = Cardinality(Blocks)
  OBVIOUS
<1> PICK s : s = SetToSeq(Blocks)
  OBVIOUS
<1>1. IsFiniteSet(Blocks) /\ k \in Nat
  BY FileSystemAssumption, FS_CardinalityType
<1>2. \E f \in [1 .. k -> Blocks] : IsInjective(f)
  <2>1. IsFiniteSet(1 .. k) /\ Cardinality(1 .. k) = k
    BY <1>1, IntervalFacts
  <2>2. \E f : f \in Bijection(1 .. k, Blocks)
    BY <1>1, FS_CardinalityType, FileSystemAssumption DEF ExistsBijection
  <2>3. PICK f : f \in Bijection(1 .. k, Blocks)
    BY <2>2
  <2>4. f \in [1 .. k -> Blocks] /\ IsInjective(f)
    BY <2>3 DEF Bijection, Injection, IsInjective
  <2> QED
    BY <2>4
<1>3. s \in [1 .. k -> Blocks] /\ IsInjective(s)
  BY <1>2 DEF SetToSeq
<1>4. \A b \in Blocks : \E i \in 1 .. k : s[i] = b
  <2>1. IsFiniteSet(1 .. k) /\ Cardinality(1 .. k) = k
    BY <1>1, IntervalFacts
  <2>2. s \in Injection(1 .. k, Blocks)
    BY <1>3, InjectionByElements DEF IsInjective
  <2>3. s \in Surjection(1 .. k, Blocks)
    BY <1>1, <2>1, <2>2, FS_Injection
  <2> QED
    BY <2>3 DEF Surjection
<1> PICK t : t = SubSeq(s, 1, n)
  OBVIOUS
<1>5. t \in Seq(Blocks) /\ Len(t) = n /\ DOMAIN t = 1 .. n /\ \A i \in 1 .. n : t[i] = s[i]
  <2>1. \A i \in 1 .. n : i \in 1 .. k /\ s[i] \in Blocks
    BY <1>1, <1>3
  <2>2. n \in Nat /\ 1 + n - 1 = n /\ \A i \in 1 .. n : 1 + i - 1 = i
    BY <1>1
  <2>3. t \in Seq(Blocks) /\ Len(t) = (IF 1 <= n THEN n - 1 + 1 ELSE 0) /\ \A i \in 1 .. n - 1 + 1 : t[i] = s[1 + i - 1]
    BY <2>1, <2>2, SubSeqProperties
  <2>4. Len(t) = n
    BY <2>2, <2>3
  <2>5. \A i \in 1 .. n : t[i] = s[i]
    BY <2>2, <2>3
  <2> QED
    BY <2>3, <2>4, <2>5
<1>6. IsInjective(t)
  <2>1. \A i, j \in 1 .. k : s[i] = s[j] => i = j
    BY <1>3 DEF IsInjective
  <2>2. \A i \in 1 .. n : i \in 1 .. k
    BY <1>1
  <2> QED
    BY <1>5, <2>1, <2>2 DEF IsInjective
<1> QED
  BY <1>4, <1>5, <1>6

\* The invariant holds at the start.
LEMMA StartStands == VfsInit => VfsInv
<1> SUFFICES ASSUME VfsInit PROVE VfsInv
  OBVIOUS
<1> PICK kids : kids = [d \in Nodes |-> <<>>]
  OBVIOUS
<1>1. /\ state = "running" /\ allocated = {root} /\ rootDirectory = root /\ currentDirectory = root
      /\ node = [n \in Nodes |-> IF n = root THEN Made(NULL, TRUE, NULL, root) ELSE Garbage]
      /\ diskMemory = [b \in Blocks |-> NoData] /\ root \in Nodes
  BY FileSystemAssumption DEF VfsInit
<1>2. /\ node \in [Nodes -> NodeRecords]
      /\ node[root] = Made(NULL, TRUE, NULL, root)
      /\ \A n \in Nodes : n # root => node[n] = Garbage
  <2>1. Garbage \in NodeRecords /\ Made(NULL, TRUE, NULL, root) \in NodeRecords
    BY <1>1 DEF Garbage, Made, NodeRecords, Pointers
  <2> QED
    BY <1>1, <2>1
<1>3. /\ node[root].isFolder /\ node[root].block = NULL
      /\ \A n \in Nodes : node[n].firstChild = NULL
  BY <1>2 DEF Made, Garbage
<1>4. /\ \A d \in Nodes : kids[d] = <<>> /\ kids[d] \in Seq(Nodes) /\ Len(kids[d]) = 0 /\ IsInjective(kids[d])
      /\ kids = [d \in Nodes |-> kids[d]]
  BY DEF IsInjective
<1>5. Structure(node, allocated, kids)
  <2>1. Rings(node, kids)
    BY <1>3, <1>4 DEF Rings, Ring
  <2>2. Families(node, allocated, kids)
    BY <1>4 DEF Families
  <2>3. ParentsKnow(node, allocated, kids) /\ Reached(allocated, kids)
    BY <1>1 DEF ParentsKnow, Reached
  <2> QED
    BY <1>1, <1>2, <1>3, <2>1, <2>2, <2>3 DEF Structure
<1>6. Kids(node) = kids
  BY <1>4, <1>5, SiblingsAreKids DEF Structure
<1>7. Owned(node, allocated, freeBlockList)
  <2>1. PICK n \in 0 .. Cardinality(Blocks) :
          /\ n < Cardinality(Blocks) => MallocMayFail
          /\ freeBlockList = SubSeq(SetToSeq(Blocks), 1, n)
    BY DEF VfsInit
  <2>2. Cardinality(Blocks) \in Nat
    BY FileSystemAssumption, FS_CardinalityType
  <2>3. /\ freeBlockList \in Seq(Blocks) /\ IsInjective(freeBlockList)
        /\ n = Cardinality(Blocks) =>
             \A b \in Blocks : \E i \in 1 .. Len(freeBlockList) : freeBlockList[i] = b
    BY <2>1, BlocksListed
  <2>4. ~MallocMayFail => n = Cardinality(Blocks)
    BY <2>1, <2>2
  <2>5. \A i \in 1 .. Len(freeBlockList) : freeBlockList[i] # NULL
    BY <2>3, FileSystemAssumption
  <2> QED
    BY <1>1, <1>3, <2>3, <2>4, <2>5 DEF Owned
<1>8. VfsTypeOK
  <2>1. freeBlockList \in Seq(Blocks)
    BY <1>7 DEF Owned
  <2> QED
    BY <1>1, <1>2, <2>1 DEF VfsTypeOK, NodeRecords, Pointers
<1> QED
  BY <1>1, <1>3, <1>5, <1>6, <1>7, <1>8 DEF VfsInv, Running

\* Every command keeps the invariant.
LEMMA VfsNextKeeps == VfsInv /\ [VfsNext]_vfsVars => VfsInv'
<1> SUFFICES ASSUME VfsInv, [VfsNext]_vfsVars PROVE VfsInv'
  OBVIOUS
<1>1. ASSUME NEW name \in Names, makeDirectory(name) PROVE VfsInv'
  BY <1>1, CreateKeeps DEF makeDirectory
<1>2. ASSUME NEW name \in Names, createFile(name) PROVE VfsInv'
  BY <1>2, CreateKeeps DEF createFile
<1>3. CASE UNCHANGED vfsVars
  BY <1>3 DEF VfsInv, vfsVars, VfsTypeOK, Running
<1> QED
  BY <1>1, <1>2, <1>3, ChangeKeeps, DeleteKeeps, RemoveKeeps, WriteKeeps, UpKeeps, ExitKeeps
     DEF VfsNext

\* So the invariant always holds.
LEMMA VfsInvAlways == VfsSpec => []VfsInv
<1> QED
  BY StartStands, VfsNextKeeps, PTL DEF VfsSpec

\* The invariant implies what the run checks.
LEMMA VfsInvGivesOK == VfsInv => StructureOK
<1> SUFFICES ASSUME VfsInv PROVE StructureOK
  OBVIOUS
<1> PICK kids : kids = Kids(node)
  OBVIOUS
<1>1. VfsTypeOK
  BY DEF VfsInv
<1>2. CASE ~Running
  <2>1. allocated = {}
    BY <1>2 DEF VfsInv
  <2> QED
    BY <1>1, <1>2, <2>1 DEF StructureOK, CirclesClosed, NothingLost, BlocksAccounted
<1>3. CASE Running
  <2>1. Standing
    BY <1>3, InvStands
  <2>2. /\ Structure(node, allocated, kids) /\ Owned(node, allocated, freeBlockList)
        /\ allocated \subseteq Nodes /\ root \in allocated
    BY <2>1 DEF Standing, Structure
  <2>3. \A d \in Nodes : Children(d) = kids[d]
    BY KidsAre DEF Children
  <2>4. ASSUME NEW d \in allocated
        PROVE  LET children == Children(d)
               IN /\ children # <<>> => node[Last(children)].nextSibling = children[1]
                  /\ \A i, j \in DOMAIN children :
                       node[children[i]].name = node[children[j]].name => i = j
                  /\ \A i \in DOMAIN children : node[children[i]].parent = d
                  /\ children # <<>> => node[d].isFolder
    <3> PICK c : c = kids[d]
      OBVIOUS
    <3>1. d \in Nodes /\ Children(d) = c /\ Ring(c, node, d)
      BY <2>2, <2>3 DEF Structure, Rings
    <3>2. c \in Seq(Nodes) /\ Len(c) \in Nat /\ DOMAIN c = 1 .. Len(c)
      BY <3>1 DEF Ring
    <3>3. c # <<>> => Len(c) # 0 /\ Len(c) \in 1 .. Len(c)
      BY <3>2
    <3>4. c # <<>> => node[Last(c)].nextSibling = c[1]
      BY <3>1, <3>3 DEF Ring, Last
    <3>5. /\ Len(c) # 0 => node[d].isFolder
          /\ \A i \in 1 .. Len(c) : node[c[i]].parent = d
          /\ \A i, j \in 1 .. Len(c) : node[c[i]].name = node[c[j]].name => i = j
      BY <2>2, <3>1 DEF Structure, Families
    <3> QED
      BY <3>1, <3>2, <3>3, <3>4, <3>5
  <2>5. ASSUME NEW n \in allocated \ {root}
        PROVE  node[n].parent \in allocated /\ n \in ToSet(Children(node[n].parent))
    <3> PICK p : p = node[n].parent
      OBVIOUS
    <3>1. p \in allocated /\ \E i \in 1 .. Len(kids[p]) : kids[p][i] = n
      BY <2>2 DEF Structure, ParentsKnow
    <3>2. p \in Nodes /\ Children(p) = kids[p] /\ DOMAIN kids[p] = 1 .. Len(kids[p])
      BY <2>2, <2>3, <3>1, KidFacts
    <3>3. ToSet(kids[p]) = { kids[p][i] : i \in 1 .. Len(kids[p]) }
      BY <3>2 DEF ToSet
    <3> QED
      BY <3>1, <3>2, <3>3
  <2>6. CirclesClosed
    BY <2>4, <2>5 DEF CirclesClosed
  <2>7. NothingLost
    BY <1>3, <2>1, <2>2, AllBelow DEF NothingLost, Standing, FolderNodes
  <2>8. ASSUME NEW b \in Blocks
        PROVE  Cardinality({ n \in allocated : node[n].block = b })
                 + (IF b \in ToSet(freeBlockList) THEN 1 ELSE 0)
                 \in IF MallocMayFail THEN {0, 1} ELSE {1}
    <3> PICK own : own = { n \in allocated : node[n].block = b }
      OBVIOUS
    <3>1. b # NULL /\ freeBlockList \in Seq(Blocks)
      BY <2>2, FileSystemAssumption DEF Owned
    <3>2. b \in ToSet(freeBlockList) <=> \E i \in 1 .. Len(freeBlockList) : freeBlockList[i] = b
      BY <3>1 DEF ToSet
    <3>3. b \in ToSet(freeBlockList) => own = {}
      BY <2>2, <3>2 DEF Owned
    <3>4. \A m, n \in own : m = n
      BY <2>2, <3>1 DEF Owned
    <3>5. ~MallocMayFail => b \in ToSet(freeBlockList) \/ own # {}
      BY <2>2, <3>2 DEF Owned
    <3>6. CASE own = {}
      <4>1. Cardinality(own) = 0
        BY <3>6, FS_EmptySet
      <4>2. ~MallocMayFail => b \in ToSet(freeBlockList)
        BY <3>5, <3>6
      <4>3. Cardinality(own) + (IF b \in ToSet(freeBlockList) THEN 1 ELSE 0)
              = IF b \in ToSet(freeBlockList) THEN 1 ELSE 0
        BY <4>1
      <4> QED
        BY <4>2, <4>3
    <3>7. CASE own # {}
      <4>1. PICK m : own = {m}
        BY <3>4, <3>7
      <4>2. Cardinality(own) = 1
        BY <4>1, FS_Singleton
      <4> QED
        BY <3>3, <3>7, <4>2
    <3> QED
      BY <3>6, <3>7
  <2>9. \A i, j \in DOMAIN freeBlockList : freeBlockList[i] = freeBlockList[j] => i = j
    BY <2>2 DEF Owned, IsInjective
  <2>10. BlocksAccounted
    BY <2>8, <2>9 DEF BlocksAccounted
  <2> QED
    BY <1>1, <2>6, <2>7, <2>10 DEF StructureOK
<1> QED
  BY <1>2, <1>3

\* After every command the circles of siblings close, every node in use is in
\* the circle of its parent and within reach of the root, the current directory
\* is a folder in use, and every block is free or has one owner: for any names,
\* nodes and blocks, and also when an allocation failed.
THEOREM StructureCorrect == VfsSpec => []StructureOK
BY VfsInvAlways, VfsInvGivesOK, PTL

-----------------------------------------------------------------------------
(* Functions of paths.                                                     *)

\* l gives each path f[n], for n in F, the value v[n].
Values(l, F, f, v) ==
  /\ l = [p \in { f[n] : n \in F } |-> l[p]]
  /\ \A n \in F : l[f[n]] = v[n]

\* l with one more path q, for which it has u, or without q; and, where the
\* directory at p lists it, the value w there.
OneMore(l, q, u) == [r \in DOMAIN l \cup {q} |-> IF r = q THEN u ELSE l[r]]
OneMoreListed(l, q, u, p, w) ==
  [r \in DOMAIN l \cup {q} |-> IF r = q THEN u ELSE IF r = p THEN w ELSE l[r]]
OneLess(l, q) == [r \in DOMAIN l \ {q} |-> l[r]]
OneLessListed(l, q, p, w) == [r \in DOMAIN l \ {q} |-> IF r = p THEN w ELSE l[r]]

\* There is only one such function.
LEMMA ValuesUnique ==
  ASSUME NEW F, NEW f, NEW v, NEW l, Values(l, F, f, v), NEW k, Values(k, F, f, v)
  PROVE  k = l
<1>1. ASSUME NEW p \in { f[n] : n \in F } PROVE k[p] = l[p]
  BY DEF Values
<1>2. /\ l = [p \in { f[n] : n \in F } |-> l[p]]
      /\ k = [p \in { f[n] : n \in F } |-> k[p]]
  BY DEF Values
<1> QED
  BY <1>1, <1>2

\* Nothing changes.
LEMMA ValuesSame ==
  ASSUME NEW F, NEW f, NEW v, NEW l, Values(l, F, f, v),
         NEW g, NEW w, NEW k, Values(k, F, g, w), \A m \in F : g[m] = f[m] /\ w[m] = v[m]
  PROVE  k = l
<1>1. { g[n] : n \in F } = { f[n] : n \in F }
  OBVIOUS
<1>2. Values(k, F, f, v)
  BY <1>1 DEF Values
<1> QED
  BY <1>2, ValuesUnique

\* One value changes.
LEMMA ValuesSet ==
  ASSUME NEW F, NEW f, NEW v, NEW l, Values(l, F, f, v),
         NEW g, NEW w, NEW k, Values(k, F, g, w), \A m \in F : g[m] = f[m],
         NEW d \in F, \A m \in F : m # d => f[m] # f[d] /\ w[m] = v[m]
  PROVE  k = [l EXCEPT ![f[d]] = w[d]]
<1> PICK r : r = [l EXCEPT ![f[d]] = w[d]]
  OBVIOUS
<1>1. { g[n] : n \in F } = { f[n] : n \in F }
  OBVIOUS
<1>2. Values(k, F, f, w)
  BY <1>1 DEF Values
<1>3. l = [p \in { f[n] : n \in F } |-> l[p]] /\ DOMAIN l = { f[n] : n \in F }
  BY DEF Values
<1>4. r = [p \in { f[n] : n \in F } |-> r[p]]
  BY <1>3
<1>5. r[f[d]] = w[d]
  BY <1>3
<1>6. ASSUME NEW m \in F, m # d PROVE r[f[m]] = w[m]
  <2>1. f[m] \in DOMAIN l /\ f[m] # f[d] /\ w[m] = v[m]
    BY <1>3, <1>6
  <2>2. r[f[m]] = l[f[m]]
    BY <2>1
  <2> QED
    BY <2>1, <2>2 DEF Values
<1>7. Values(r, F, f, w)
  BY <1>4, <1>5, <1>6 DEF Values
<1> QED
  BY <1>2, <1>7, ValuesUnique

\* A path is added, and nothing else changes.
LEMMA ValuesMore ==
  ASSUME NEW F, NEW f, NEW v, NEW l, Values(l, F, f, v),
         NEW n, n \notin F, NEW g, NEW w, NEW k, Values(k, F \cup {n}, g, w),
         \A m \in F : g[m] = f[m] /\ f[m] # g[n], \A m \in F : w[m] = v[m]
  PROVE  k = OneMore(l, g[n], w[n])
<1>1. l = [p \in { f[m] : m \in F } |-> l[p]] /\ DOMAIN l = { f[m] : m \in F }
  BY DEF Values
<1>2. { g[m] : m \in F \cup {n} } = DOMAIN l \cup {g[n]}
  BY <1>1
<1>3. k = [p \in DOMAIN l \cup {g[n]} |-> k[p]] /\ k[g[n]] = w[n]
  BY <1>2 DEF Values
<1>4. ASSUME NEW p \in DOMAIN l PROVE k[p] = l[p] /\ p # g[n]
  <2>1. PICK m \in F : p = f[m]
    BY <1>1
  <2>2. k[f[m]] = w[m] /\ l[f[m]] = v[m] /\ f[m] # g[n]
    BY DEF Values
  <2> QED
    BY <2>1, <2>2
<1> QED
  BY <1>3, <1>4 DEF OneMore

\* A path is added, and one other value changes.
LEMMA ValuesMoreSet ==
  ASSUME NEW F, NEW f, NEW v, NEW l, Values(l, F, f, v),
         NEW n, n \notin F, NEW g, NEW w, NEW k, Values(k, F \cup {n}, g, w),
         \A m \in F : g[m] = f[m] /\ f[m] # g[n],
         NEW d \in F, \A m \in F : m # d => f[m] # f[d] /\ w[m] = v[m]
  PROVE  k = OneMoreListed(l, g[n], w[n], f[d], w[d])
<1>1. l = [p \in { f[m] : m \in F } |-> l[p]] /\ DOMAIN l = { f[m] : m \in F }
  BY DEF Values
<1>2. { g[m] : m \in F \cup {n} } = DOMAIN l \cup {g[n]}
  BY <1>1
<1>3. k = [p \in DOMAIN l \cup {g[n]} |-> k[p]] /\ k[g[n]] = w[n]
  BY <1>2 DEF Values
<1>4. ASSUME NEW p \in DOMAIN l
      PROVE  k[p] = (IF p = f[d] THEN w[d] ELSE l[p]) /\ p # g[n]
  <2>1. PICK m \in F : p = f[m]
    BY <1>1
  <2>2. k[f[m]] = w[m] /\ l[f[m]] = v[m] /\ f[m] # g[n]
    BY DEF Values
  <2>3. m # d => p # f[d] /\ w[m] = v[m]
    BY <2>1
  <2> QED
    BY <2>1, <2>2, <2>3
<1> QED
  BY <1>3, <1>4 DEF OneMoreListed

\* A path is gone, and nothing else changes.
LEMMA ValuesLess ==
  ASSUME NEW F, NEW f, NEW v, NEW l, Values(l, F, f, v),
         NEW n \in F, NEW g, NEW w, NEW k, Values(k, F \ {n}, g, w),
         \A m \in F : m # n => g[m] = f[m] /\ f[m] # f[n] /\ w[m] = v[m]
  PROVE  k = OneLess(l, f[n])
<1>1. l = [p \in { f[m] : m \in F } |-> l[p]] /\ DOMAIN l = { f[m] : m \in F }
  BY DEF Values
<1>2. { g[m] : m \in F \ {n} } = DOMAIN l \ {f[n]}
  BY <1>1
<1>3. k = [p \in DOMAIN l \ {f[n]} |-> k[p]]
  BY <1>2 DEF Values
<1>4. ASSUME NEW p \in DOMAIN l \ {f[n]} PROVE k[p] = l[p]
  <2>1. PICK m \in F : p = f[m] /\ m # n
    BY <1>1
  <2>2. k[f[m]] = w[m] /\ l[f[m]] = v[m]
    BY <2>1 DEF Values
  <2> QED
    BY <2>1, <2>2
<1> QED
  BY <1>3, <1>4 DEF OneLess

\* A path is gone, and one other value changes.
LEMMA ValuesLessSet ==
  ASSUME NEW F, NEW f, NEW v, NEW l, Values(l, F, f, v),
         NEW n \in F, NEW g, NEW w, NEW k, Values(k, F \ {n}, g, w),
         \A m \in F : m # n => g[m] = f[m] /\ f[m] # f[n],
         NEW d \in F, d # n, \A m \in F : m # n /\ m # d => f[m] # f[d] /\ w[m] = v[m]
  PROVE  k = OneLessListed(l, f[n], f[d], w[d])
<1>1. l = [p \in { f[m] : m \in F } |-> l[p]] /\ DOMAIN l = { f[m] : m \in F }
  BY DEF Values
<1>2. { g[m] : m \in F \ {n} } = DOMAIN l \ {f[n]}
  BY <1>1
<1>3. k = [p \in DOMAIN l \ {f[n]} |-> k[p]]
  BY <1>2 DEF Values
<1>4. ASSUME NEW p \in DOMAIN l \ {f[n]} PROVE k[p] = IF p = f[d] THEN w[d] ELSE l[p]
  <2>1. PICK m \in F : p = f[m] /\ m # n
    BY <1>1
  <2>2. k[f[m]] = w[m] /\ l[f[m]] = v[m]
    BY <2>1 DEF Values
  <2>3. m # d => p # f[d] /\ w[m] = v[m]
    BY <2>1
  <2> QED
    BY <2>1, <2>2, <2>3
<1> QED
  BY <1>3, <1>4 DEF OneLessListed
-----------------------------------------------------------------------------
(* The tree that the nodes picture.                                        *)

Strings == Seq(Names \cup {NULL})

\* f spells the path of every node in use.
Spelled(nodes, used, f) ==
  /\ f \in [used -> Strings] /\ f[root] = <<>>
  /\ \A m \in used : m # root => f[m] = Append(f[nodes[m].parent], nodes[m].name)

\* A path is the path of the directory and the name.
LEMMA PathParts ==
  ASSUME NEW s \in Strings, NEW t \in Strings,
         NEW e \in Names \cup {NULL}, NEW h \in Names \cup {NULL}
  PROVE  /\ Append(s, e) \in Strings /\ Append(s, e) # <<>>
         /\ Append(s, e) = Append(t, h) => s = t /\ e = h
<1> DEFINE a == Append(s, e)
           b == Append(t, h)
<1>1. /\ s \in Seq(Names \cup {NULL}) /\ t \in Seq(Names \cup {NULL})
      /\ Len(s) \in Nat /\ Len(t) \in Nat
  BY DEF Strings
<1>2. /\ a \in Strings /\ Len(a) = Len(s) + 1 /\ a[Len(s) + 1] = e
      /\ \A i \in 1 .. Len(s) : a[i] = s[i]
  BY <1>1 DEF Strings
<1>3. /\ Len(b) = Len(t) + 1 /\ b[Len(t) + 1] = h
      /\ \A i \in 1 .. Len(t) : b[i] = t[i]
  BY <1>1
<1> HIDE DEF a, b
<1>4. ASSUME a = b PROVE s = t /\ e = h
  <2>1. Len(s) = Len(t)
    BY <1>1, <1>2, <1>3, <1>4
  <2>2. \A i \in 1 .. Len(s) : s[i] = t[i]
    BY <1>2, <1>3, <1>4, <2>1
  <2>3. e = h
    BY <1>2, <1>3, <1>4, <2>1
  <2>4. s = t
    BY <1>1, <2>1, <2>2
  <2> QED
    BY <2>3, <2>4
<1>5. a # <<>>
  BY <1>1, <1>2
<1> QED
  BY <1>2, <1>4, <1>5 DEF a, b

\* What Spelled says of one node.
LEMMA SpelledFacts ==
  ASSUME NEW nodes \in [Nodes -> NodeRecords], NEW used, NEW kids, Structure(nodes, used, kids),
         NEW f, Spelled(nodes, used, f), NEW m \in used
  PROVE  /\ f[m] \in Strings /\ m \in Nodes /\ nodes[m].name \in Names \cup {NULL}
         /\ f[root] = <<>>
         /\ m # root =>
              /\ nodes[m].parent \in used /\ f[nodes[m].parent] \in Strings
              /\ f[m] = Append(f[nodes[m].parent], nodes[m].name) /\ f[m] # <<>>
<1>1. f[m] \in Strings /\ m \in Nodes /\ f[root] = <<>>
  BY DEF Spelled, Structure
<1>2. nodes[m] \in NodeRecords
  BY <1>1
<1>3. nodes[m].name \in Names \cup {NULL}
  BY <1>2 DEF NodeRecords
<1>4. ASSUME m # root
      PROVE  /\ nodes[m].parent \in used /\ f[nodes[m].parent] \in Strings
             /\ f[m] = Append(f[nodes[m].parent], nodes[m].name)
  BY <1>4 DEF Spelled, Structure, ParentsKnow
<1>5. ASSUME m # root PROVE f[m] # <<>>
  BY <1>3, <1>4, <1>5, PathParts
<1> QED
  BY <1>1, <1>3, <1>4, <1>5

\* Two nodes have two paths.
LEMMA PathsDiffer ==
  ASSUME NEW nodes \in [Nodes -> NodeRecords], NEW used, NEW kids, Structure(nodes, used, kids),
         NEW f, Spelled(nodes, used, f)
  PROVE  \A m, n \in used : f[m] = f[n] => m = n
<1> PICK S : S = { x \in Nodes : x \in used /\ \A y \in used : f[x] = f[y] => x = y }
  OBVIOUS
<1>1. used \subseteq Nodes /\ root \in used
  BY DEF Structure
<1>2. root \in S
  <2>1. ASSUME NEW y \in used, f[root] = f[y] PROVE root = y
    BY <2>1, SpelledFacts
  <2> QED
    BY <1>1, <2>1
<1>3. ASSUME NEW d \in S, NEW i \in 1 .. Len(kids[d])
      PROVE  kids[d][i] \in S
  <2>1. d \in used /\ d \in Nodes /\ \A y \in used : f[d] = f[y] => d = y
    OBVIOUS
  <2> PICK x : x = kids[d][i]
    OBVIOUS
  <2>2. x \in used /\ x \in Nodes /\ x # root /\ nodes[x].parent = d
    BY <2>1, KidFacts
  <2>3. ASSUME NEW y \in used, f[x] = f[y] PROVE x = y
    <3>1. /\ f[x] # <<>> /\ f[root] = <<>> /\ f[d] \in Strings
          /\ f[x] = Append(f[d], nodes[x].name) /\ nodes[x].name \in Names \cup {NULL}
      <4>1. f[x] # <<>> /\ f[root] = <<>>
        BY <2>2, SpelledFacts
      <4>2. f[x] = Append(f[d], nodes[x].name) /\ f[d] \in Strings
        BY <2>1, <2>2 DEF Spelled
      <4>3. nodes[x].name \in Names \cup {NULL}
        BY <2>2, SpelledFacts
      <4> QED
        BY <4>1, <4>2, <4>3
    <3>2. y # root
      BY <2>3, <3>1
    <3> PICK e : e = nodes[y].parent
      OBVIOUS
    <3>3. /\ e \in used /\ f[e] \in Strings
          /\ f[y] = Append(f[e], nodes[y].name) /\ nodes[y].name \in Names \cup {NULL}
      BY <3>2, SpelledFacts
    <3>4. f[d] = f[e] /\ nodes[x].name = nodes[y].name
      <4> PICK s, t, g, h : s = f[d] /\ t = f[e] /\ g = nodes[x].name /\ h = nodes[y].name
        OBVIOUS
      <4>1. /\ s \in Strings /\ t \in Strings /\ Append(s, g) = Append(t, h)
            /\ g \in Names \cup {NULL} /\ h \in Names \cup {NULL}
        BY <2>3, <3>1, <3>3
      <4>2. s = t /\ g = h
        BY ONLY <4>1, PathParts
      <4> QED
        BY <4>2
    <3>5. d = e
      BY <2>1, <3>3, <3>4
    <3>6. PICK j \in 1 .. Len(kids[d]) : kids[d][j] = y
      BY <3>2, <3>5 DEF Structure, ParentsKnow
    <3>7. i = j
      BY <2>1, <3>4, <3>6 DEF Structure, Families
    <3> QED
      BY <3>6, <3>7
  <2> QED
    BY <2>2, <2>3
<1>4. S \in SUBSET Nodes /\ Whole(kids, S)
  BY <1>3 DEF Whole
<1>5. used \subseteq S
  BY <1>2, <1>4 DEF Structure, Reached
<1> QED
  BY <1>5

\* The path that the model looks up is the one that f spells.
LEMMA PathIs ==
  ASSUME NEW nodes \in [Nodes -> NodeRecords], NEW used, NEW kids, Structure(nodes, used, kids),
         NEW f, Spelled(nodes, used, f), NEW n \in used
  PROVE  Path(n, nodes, used) = f[n]
<1> DEFINE step(g) == [m \in used |-> IF m = root THEN <<>> ELSE Append(g[nodes[m].parent], nodes[m].name)]
           p == CHOOSE g : g = step(g)
<1>1. f = step(f)
  BY DEF Spelled
<1>2. p = step(p)
  BY <1>1
<1>3. Path(n, nodes, used) = p[n]
  BY DEF Path
<1> PICK q : q = p
  OBVIOUS
<1>4. \A m \in used : q[m] = IF m = root THEN <<>> ELSE Append(q[nodes[m].parent], nodes[m].name)
  BY <1>2
<1> HIDE DEF p
<1> PICK S : S = { x \in Nodes : x \in used /\ q[x] = f[x] }
  OBVIOUS
<1>5. used \subseteq Nodes /\ root \in used
  BY DEF Structure
<1>6. root \in S
  BY <1>4, <1>5 DEF Spelled
<1>7. ASSUME NEW d \in S, NEW i \in 1 .. Len(kids[d])
      PROVE  kids[d][i] \in S
  <2> PICK x : x = kids[d][i]
    OBVIOUS
  <2>1. x \in used /\ x \in Nodes /\ x # root /\ nodes[x].parent = d
    BY KidFacts
  <2>2. q[x] = Append(q[d], nodes[x].name) /\ f[x] = Append(f[d], nodes[x].name)
    BY <1>4, <2>1 DEF Spelled
  <2> QED
    BY <2>1, <2>2
<1>8. S \in SUBSET Nodes /\ Whole(kids, S)
  BY <1>7 DEF Whole
<1>9. used \subseteq S
  BY <1>6, <1>8 DEF Structure, Reached
<1> QED
  BY <1>3, <1>9

\* What FileTree lists for the directories and holds for the files.
NamesIn(nodes, used, kids) == [n \in Folders(nodes, used) |-> NamesOf(kids[n], nodes)]
TextsIn(nodes, used, disk) == [n \in Files(nodes, used) |-> ReadFrom(nodes[n].block, disk)]
Lists(l, nodes, used, kids, f) == Values(l, Folders(nodes, used), f, NamesIn(nodes, used, kids))
Stores(c, nodes, used, f, disk) == Values(c, Files(nodes, used), f, TextsIn(nodes, used, disk))

\* The mapping gives what the nodes picture.
LEMMA ListingIs ==
  ASSUME NEW nodes \in [Nodes -> NodeRecords], NEW used, NEW kids, Structure(nodes, used, kids),
         kids = [d \in Nodes |-> kids[d]], NEW f, Spelled(nodes, used, f)
  PROVE  Lists(Listing(nodes, used), nodes, used, kids, f)
<1> PICK F : F = Folders(nodes, used)
  OBVIOUS
<1>1. F \subseteq used /\ used \subseteq Nodes
  BY DEF Folders, Structure
<1>2. \A n \in F : Path(n, nodes, used) = f[n]
  BY <1>1, PathIs
<1>3. { Path(n, nodes, used) : n \in F } = { f[n] : n \in F }
  BY <1>2
<1>4. ASSUME NEW n \in F PROVE At(f[n], F, nodes, used) = n
  <2>1. \A m \in F : Path(m, nodes, used) = f[n] <=> m = n
    BY <1>1, <1>2, PathsDiffer
  <2> QED
    BY <2>1 DEF At
<1>5. \A n \in F : Siblings(nodes, n) = kids[n]
  BY <1>1, SiblingsAreKids, KidsAre DEF Structure
<1> PICK l : l = Listing(nodes, used)
  OBVIOUS
<1>6. l = [p \in { f[n] : n \in F } |-> NamesOf(Siblings(nodes, At(p, F, nodes, used)), nodes)]
  BY <1>1, <1>3 DEF Listing
<1>7. ASSUME NEW n \in F PROVE l[f[n]] = NamesOf(kids[n], nodes)
  <2>1. f[n] \in { f[m] : m \in F }
    OBVIOUS
  <2>2. l[f[n]] = NamesOf(Siblings(nodes, At(f[n], F, nodes, used)), nodes)
    BY ONLY <1>6, <2>1
  <2> QED
    BY ONLY <1>4, <1>5, <1>7, <2>2
<1>8. l = [p \in { f[n] : n \in F } |-> l[p]]
  BY <1>6
<1> QED
  BY <1>7, <1>8 DEF Lists, Values, NamesIn

\* So does its reading of the files.
LEMMA ContentIs ==
  ASSUME NEW nodes \in [Nodes -> NodeRecords], NEW used, NEW kids, Structure(nodes, used, kids),
         NEW f, Spelled(nodes, used, f), NEW disk
  PROVE  Stores(Content(nodes, used, disk), nodes, used, f, disk)
<1> PICK F : F = Files(nodes, used)
  OBVIOUS
<1>1. F \subseteq used
  BY DEF Files
<1>2. \A n \in F : Path(n, nodes, used) = f[n]
  BY <1>1, PathIs
<1>3. { Path(n, nodes, used) : n \in F } = { f[n] : n \in F }
  BY <1>2
<1>4. ASSUME NEW n \in F PROVE At(f[n], F, nodes, used) = n
  <2>1. \A m \in F : Path(m, nodes, used) = f[n] <=> m = n
    BY <1>1, <1>2, PathsDiffer
  <2> QED
    BY <2>1 DEF At
<1> PICK c : c = Content(nodes, used, disk)
  OBVIOUS
<1>6. c = [p \in { f[n] : n \in F } |-> ReadFrom(nodes[At(p, F, nodes, used)].block, disk)]
  BY <1>1, <1>3 DEF Content
<1>7. ASSUME NEW n \in F PROVE c[f[n]] = ReadFrom(nodes[n].block, disk)
  <2>1. f[n] \in { f[m] : m \in F }
    OBVIOUS
  <2>2. c[f[n]] = ReadFrom(nodes[At(f[n], F, nodes, used)].block, disk)
    BY ONLY <1>6, <2>1
  <2> QED
    BY ONLY <1>4, <1>7, <2>2
<1>8. c = [p \in { f[n] : n \in F } |-> c[p]]
  BY <1>6
<1> QED
  BY <1>7, <1>8 DEF Stores, Values, TextsIn
-----------------------------------------------------------------------------
(* The tree with a new file or directory.                                  *)

\* The nodes in use picture a tree in which f spells the paths.
Pictured(nodes, used, kids, f) ==
  /\ nodes \in [Nodes -> NodeRecords] /\ Structure(nodes, used, kids)
  /\ kids = [d \in Nodes |-> kids[d]] /\ Spelled(nodes, used, f)

\* n may join the children of dir, and does so.
MayJoin(nodes, used, kids, dir, n, name, isFolder) ==
  /\ dir \in used /\ nodes[dir].isFolder /\ n \in Nodes /\ n \notin used
  /\ name \in Names /\ isFolder \in BOOLEAN
  /\ \A i \in 1 .. Len(kids[dir]) : nodes[kids[dir][i]].name # name
Joins(nodes, used, kids, dir, n, name, isFolder, new) ==
  MayJoin(nodes, used, kids, dir, n, name, isFolder)
  /\ Added(nodes, kids[dir], dir, n, name, isFolder, new)

\* The circles and the paths with n.
KidsWith(kids, dir, n) == [kids EXCEPT ![dir] = Append(kids[dir], n)]
PathsWith(used, f, n, q) == [m \in used \cup {n} |-> IF m = n THEN q ELSE f[m]]
SpelledWith(new, used, f, n, q, g) ==
  /\ Spelled(new, used \cup {n}, g) /\ g[n] = q
  /\ \A m \in used : g[m] = f[m] /\ f[m] # q

\* A path that ends in name is the path of the child of that name.
LEMMA ChildPath ==
  ASSUME NEW nodes, NEW used, NEW kids, NEW f, Pictured(nodes, used, kids, f),
         NEW dir \in used, NEW name \in Names \cup {NULL},
         NEW m \in used, f[m] = Append(f[dir], name)
  PROVE  \E i \in 1 .. Len(kids[dir]) : kids[dir][i] = m /\ nodes[m].name = name
<1>1. /\ nodes \in [Nodes -> NodeRecords] /\ Structure(nodes, used, kids) /\ Spelled(nodes, used, f)
  BY DEF Pictured
<1>2. f[dir] \in Strings /\ f[root] = <<>> /\ nodes[m].name \in Names \cup {NULL}
  BY <1>1, SpelledFacts
<1>3. m # root
  BY <1>2, PathParts
<1> PICK e : e = nodes[m].parent
  OBVIOUS
<1>4. e \in used /\ f[e] \in Strings /\ f[m] = Append(f[e], nodes[m].name)
  BY <1>1, <1>3, SpelledFacts
<1>5. f[dir] = f[e] /\ name = nodes[m].name
  <2> PICK s, t, h : s = f[dir] /\ t = f[e] /\ h = nodes[m].name
    OBVIOUS
  <2>1. /\ s \in Strings /\ t \in Strings /\ Append(s, name) = Append(t, h)
        /\ name \in Names \cup {NULL} /\ h \in Names \cup {NULL}
    BY <1>2, <1>4
  <2>2. s = t /\ name = h
    BY ONLY <2>1, PathParts
  <2> QED
    BY <2>2
<1>6. dir = e
  BY <1>1, <1>4, <1>5, PathsDiffer
<1> QED
  BY <1>1, <1>3, <1>5, <1>6 DEF Structure, ParentsKnow

\* The new node is at a new path.
LEMMA JoinedPaths ==
  ASSUME NEW nodes, NEW used, NEW kids, NEW f, Pictured(nodes, used, kids, f),
         NEW dir, NEW n, NEW name, NEW isFolder, NEW new,
         Joins(nodes, used, kids, dir, n, name, isFolder, new),
         NEW q, q = Append(f[dir], name), NEW g, g = PathsWith(used, f, n, q)
  PROVE  SpelledWith(new, used, f, n, q, g)
<1>1. /\ nodes \in [Nodes -> NodeRecords] /\ Structure(nodes, used, kids) /\ Spelled(nodes, used, f)
      /\ used \subseteq Nodes /\ root \in used
  BY DEF Pictured, Structure
<1>2. /\ dir \in used /\ n \in Nodes /\ n \notin used /\ name \in Names
      /\ \A i \in 1 .. Len(kids[dir]) : nodes[kids[dir][i]].name # name
      /\ Added(nodes, kids[dir], dir, n, name, isFolder, new)
  BY DEF Joins, MayJoin
<1>3. /\ new[n].name = name /\ new[n].parent = dir
      /\ \A m \in used : new[m].name = nodes[m].name /\ new[m].parent = nodes[m].parent
  BY <1>1, <1>2 DEF Added, SameButLinks, Made
<1>4. f[dir] \in Strings /\ Append(f[dir], name) \in Strings
  <2>1. f[dir] \in Strings /\ name \in Names \cup {NULL}
    BY <1>1, <1>2 DEF Spelled
  <2> QED
    BY <2>1, PathParts
<1>5. g[n] = Append(f[dir], name) /\ \A m \in used : g[m] = f[m]
  BY <1>2 DEF PathsWith
<1>6. ASSUME NEW m \in used PROVE f[m] # g[n]
  <2>1. ASSUME f[m] = Append(f[dir], name) PROVE FALSE
    <3>1. name \in Names \cup {NULL}
      BY <1>2
    <3>2. \E i \in 1 .. Len(kids[dir]) : kids[dir][i] = m /\ nodes[m].name = name
      BY <1>2, <2>1, <3>1, ChildPath
    <3> QED
      BY <1>2, <3>2
  <2> QED
    BY <1>5, <2>1
<1>7. g \in [used \cup {n} -> Strings]
  BY <1>1, <1>4 DEF Spelled, PathsWith
<1>8. g[root] = <<>>
  BY <1>1, <1>5 DEF Spelled
<1>9. ASSUME NEW m \in used \cup {n}, m # root
      PROVE  g[m] = Append(g[new[m].parent], new[m].name)
  <2>1. CASE m = n
    BY <1>2, <1>3, <1>5, <2>1
  <2>2. CASE m # n
    <3>1. m \in used /\ nodes[m].parent \in used
      BY <1>1, <1>9, <2>2 DEF Structure, ParentsKnow
    <3>2. f[m] = Append(f[nodes[m].parent], nodes[m].name)
      BY <1>1, <1>9, <3>1 DEF Spelled
    <3> QED
      BY <1>3, <1>5, <3>1, <3>2
  <2> QED
    BY <2>1, <2>2
<1>10. Spelled(new, used \cup {n}, g)
  BY <1>7, <1>8, <1>9 DEF Spelled
<1> QED
  BY <1>5, <1>6, <1>10 DEF SpelledWith

\* Its name is the last in the listing of dir.
NamesJoined(nodes, used, kids, dir, n, name, new, more) ==
  /\ \A m \in used : m # dir => NamesOf(more[m], new) = NamesOf(kids[m], nodes)
  /\ NamesOf(more[dir], new) = Append(NamesOf(kids[dir], nodes), name)
  /\ NamesOf(more[n], new) = <<>>
\* The listings with n.
LEMMA JoinedNames ==
  ASSUME NEW nodes, NEW used, NEW kids, NEW f, Pictured(nodes, used, kids, f),
         NEW dir, NEW n, NEW name, NEW isFolder, NEW new,
         Joins(nodes, used, kids, dir, n, name, isFolder, new),
         NEW more, more = KidsWith(kids, dir, n)
  PROVE  NamesJoined(nodes, used, kids, dir, n, name, new, more)
<1>1. /\ Structure(nodes, used, kids) /\ used \subseteq Nodes /\ kids = [d \in Nodes |-> kids[d]]
  BY DEF Pictured, Structure
<1>2. /\ dir \in used /\ n \in Nodes /\ n \notin used
      /\ Added(nodes, kids[dir], dir, n, name, isFolder, new)
  BY DEF Joins, MayJoin
<1>3. /\ new[n].name = name /\ \A m \in used : new[m].name = nodes[m].name
  BY <1>1, <1>2 DEF Added, SameButLinks, Made
<1>4. ASSUME NEW m \in Nodes
      PROVE  /\ kids[m] \in Seq(Nodes) /\ Len(kids[m]) \in Nat /\ DOMAIN kids[m] = 1 .. Len(kids[m])
             /\ \A i \in 1 .. Len(kids[m]) : kids[m][i] \in used
             /\ m \notin used => Len(kids[m]) = 0
  BY <1>1, KidFacts
<1>5. more[dir] = Append(kids[dir], n) /\ \A m \in Nodes : m # dir => more[m] = kids[m]
  BY <1>1, <1>2 DEF KidsWith
<1>6. ASSUME NEW m \in used, m # dir PROVE NamesOf(more[m], new) = NamesOf(kids[m], nodes)
  <2>1. \A i \in DOMAIN kids[m] : new[kids[m][i]].name = nodes[kids[m][i]].name
    BY <1>1, <1>3, <1>4
  <2>2. more[m] = kids[m]
    BY <1>1, <1>5, <1>6
  <2> QED
    BY <2>1, <2>2 DEF NamesOf
<1>7. NamesOf(more[n], new) = <<>>
  <2>1. more[n] = kids[n] /\ kids[n] \in Seq(Nodes) /\ Len(kids[n]) = 0
    BY <1>2, <1>4, <1>5
  <2>2. kids[n] = <<>>
    BY <2>1
  <2>3. [i \in DOMAIN <<>> |-> new[<<>>[i]].name] = <<>>
    OBVIOUS
  <2> QED
    BY <2>1, <2>2, <2>3 DEF NamesOf
<1>8. NamesOf(more[dir], new) = Append(NamesOf(kids[dir], nodes), name)
  <2> PICK c : c = kids[dir]
    OBVIOUS
  <2> PICK a : a = Append(c, n)
    OBVIOUS
  <2> PICK s : s = NamesOf(c, nodes)
    OBVIOUS
  <2> PICK t : t = NamesOf(a, new)
    OBVIOUS
  <2>1. /\ c \in Seq(Nodes) /\ Len(c) \in Nat /\ DOMAIN c = 1 .. Len(c)
        /\ \A i \in 1 .. Len(c) : c[i] \in used
    BY <1>1, <1>2, <1>4
  <2>2. /\ DOMAIN a = 1 .. Len(c) + 1 /\ a[Len(c) + 1] = n /\ \A i \in 1 .. Len(c) : a[i] = c[i]
    BY <1>2, <2>1
  <2>3. /\ s = [i \in 1 .. Len(c) |-> s[i]] /\ \A i \in 1 .. Len(c) : s[i] = nodes[c[i]].name
    BY <2>1 DEF NamesOf
  <2>4. /\ t = [i \in 1 .. Len(c) + 1 |-> t[i]] /\ \A i \in 1 .. Len(c) + 1 : t[i] = new[a[i]].name
    BY <2>2 DEF NamesOf
  <2>5. t[Len(c) + 1] = name /\ \A i \in 1 .. Len(c) : t[i] = s[i]
    <3>1. t[Len(c) + 1] = name
      <4>1. Len(c) + 1 \in 1 .. Len(c) + 1
        BY <2>1
      <4> QED
        BY <1>3, <2>2, <2>4, <4>1
    <3>2. ASSUME NEW i \in 1 .. Len(c) PROVE t[i] = s[i]
      <4>1. i \in 1 .. Len(c) + 1 /\ a[i] = c[i] /\ c[i] \in used
        BY <2>1, <2>2
      <4>2. t[i] = new[c[i]].name
        BY <2>4, <4>1
      <4> QED
        BY <1>3, <2>3, <4>1, <4>2
    <3> QED
      BY <3>1, <3>2
  <2> PICK R : R = { s[i] : i \in 1 .. Len(c) } \cup {name}
    OBVIOUS
  <2>6. s \in Seq(R) /\ Len(s) = Len(c)
    BY <2>1, <2>3
  <2>7. /\ Append(s, name) = [i \in 1 .. Len(c) + 1 |-> Append(s, name)[i]]
        /\ \A i \in 1 .. Len(c) + 1 : Append(s, name)[i] = IF i = Len(c) + 1 THEN name ELSE s[i]
    <3>1. s \in Seq(R) /\ name \in R /\ Len(s) = Len(c) /\ Len(c) \in Nat
      BY <2>1, <2>6
    <3>2. Append(s, name) \in Seq(R) /\ Len(Append(s, name)) = Len(c) + 1
      BY ONLY <3>1
    <3>3. \A i \in 1 .. Len(c) + 1 : Append(s, name)[i] = IF i = Len(c) + 1 THEN name ELSE s[i]
      BY ONLY <3>1
    <3> PICK b : b = Append(s, name)
      OBVIOUS
    <3>4. b \in Seq(R) /\ Len(b) = Len(c) + 1 /\ Len(c) \in Nat
      BY <3>1, <3>2
    <3>5. DOMAIN b = 1 .. Len(c) + 1 /\ b = [i \in DOMAIN b |-> b[i]]
      BY ONLY <3>4
    <3>6. b = [i \in 1 .. Len(c) + 1 |-> b[i]]
      BY ONLY <3>5
    <3> QED
      BY ONLY <3>3, <3>6, b = Append(s, name)
  <2>8. \A i \in 1 .. Len(c) + 1 : t[i] = Append(s, name)[i]
    BY <2>1, <2>5, <2>7
  <2>9. t = Append(s, name)
    BY <2>4, <2>7, <2>8
  <2> QED
    BY <1>5, <2>9
<1> QED
  BY <1>6, <1>7, <1>8 DEF NamesJoined

\* What mkdir and create do to listings and contents.
Grown(l, c, k, e, p, q, name, isFolder) ==
  /\ q \notin DOMAIN l \cup DOMAIN c
  /\ isFolder => k = OneMoreListed(l, q, <<>>, p, Append(l[p], name)) /\ e = c
  /\ ~isFolder => k = [l EXCEPT ![p] = Append(l[p], name)] /\ e = OneMore(c, q, NoData)
\* The listings and contents with n.
LEMMA JoinedTree ==
  ASSUME NEW nodes, NEW used, NEW kids, NEW f, Pictured(nodes, used, kids, f),
         NEW dir, NEW n, NEW name, NEW isFolder, NEW new,
         Joins(nodes, used, kids, dir, n, name, isFolder, new),
         NEW more, more = KidsWith(kids, dir, n),
         NEW q, q = Append(f[dir], name), NEW g, SpelledWith(new, used, f, n, q, g),
         NEW l, Lists(l, nodes, used, kids, f),
         NEW k, Lists(k, new, used \cup {n}, more, g),
         NEW disk, NEW c, Stores(c, nodes, used, f, disk),
         NEW e, Stores(e, new, used \cup {n}, g, disk)
  PROVE  Grown(l, c, k, e, f[dir], q, name, isFolder)
<1>1. /\ nodes \in [Nodes -> NodeRecords] /\ Structure(nodes, used, kids) /\ used \subseteq Nodes
      /\ Spelled(nodes, used, f)
  BY DEF Pictured, Structure
<1>2. /\ dir \in used /\ nodes[dir].isFolder /\ n \in Nodes /\ n \notin used /\ isFolder \in BOOLEAN
      /\ Added(nodes, kids[dir], dir, n, name, isFolder, new)
  BY DEF Joins, MayJoin
<1>3. /\ new[n].isFolder = isFolder /\ new[n].block = NULL
      /\ \A m \in used : new[m].isFolder = nodes[m].isFolder /\ new[m].block = nodes[m].block
  BY <1>1, <1>2 DEF Added, SameButLinks, Made
<1>b. /\ Spelled(new, used \cup {n}, g) /\ g[n] = q /\ q = Append(f[dir], name)
      /\ \A m \in used : g[m] = f[m] /\ f[m] # g[n]
  BY DEF SpelledWith
<1>4. \A x, y \in used : f[x] = f[y] => x = y
  BY <1>1, PathsDiffer
<1>5. /\ \A m \in used : m # dir => NamesOf(more[m], new) = NamesOf(kids[m], nodes)
      /\ NamesOf(more[dir], new) = Append(NamesOf(kids[dir], nodes), name)
      /\ NamesOf(more[n], new) = <<>>
  <2>1. NamesJoined(nodes, used, kids, dir, n, name, new, more)
    BY JoinedNames
  <2> QED
    BY <2>1 DEF NamesJoined
<1> PICK F : F = Folders(nodes, used)
  OBVIOUS
<1> PICK H : H = Files(nodes, used)
  OBVIOUS
<1> PICK FF : FF = Folders(new, used \cup {n})
  OBVIOUS
<1> PICK HH : HH = Files(new, used \cup {n})
  OBVIOUS
<1>6. /\ FF = (IF isFolder THEN F \cup {n} ELSE F) /\ HH = (IF isFolder THEN H ELSE H \cup {n})
      /\ n \notin F /\ n \notin H /\ dir \in F /\ dir \notin H /\ F \subseteq used /\ H \subseteq used
  BY <1>2, <1>3 DEF Folders, Files
<1> PICK v : v = NamesIn(nodes, used, kids)
  OBVIOUS
<1> PICK w : w = NamesIn(new, used \cup {n}, more)
  OBVIOUS
<1> PICK r : r = TextsIn(nodes, used, disk)
  OBVIOUS
<1> PICK s : s = TextsIn(new, used \cup {n}, disk)
  OBVIOUS
<1>7. Values(l, F, f, v) /\ Values(k, FF, g, w) /\ Values(c, H, f, r) /\ Values(e, HH, g, s)
  BY DEF Lists, Stores
<1>a. /\ \A m \in F : v[m] = NamesOf(kids[m], nodes)
      /\ \A m \in FF : w[m] = NamesOf(more[m], new)
      /\ \A m \in H : r[m] = ReadFrom(nodes[m].block, disk)
      /\ \A m \in HH : s[m] = ReadFrom(new[m].block, disk)
  BY DEF NamesIn, TextsIn
<1>8. /\ w[dir] = Append(v[dir], name) /\ l[f[dir]] = v[dir]
      /\ \A m \in F : m # dir => f[m] # f[dir] /\ w[m] = v[m]
      /\ \A m \in F : g[m] = f[m] /\ f[m] # g[n]
      /\ \A m \in F : g[m] = f[m]
      /\ \A m \in H : g[m] = f[m] /\ f[m] # g[n]
      /\ \A m \in H : g[m] = f[m] /\ s[m] = r[m]
      /\ \A m \in H : s[m] = r[m]
      /\ n \in FF => w[n] = <<>>
      /\ n \in HH => s[n] = NoData
  <2>1. w[dir] = Append(v[dir], name) /\ n \in FF => w[n] = <<>>
    BY <1>5, <1>6, <1>a
  <2>2. l[f[dir]] = v[dir]
    BY <1>6, <1>7 DEF Values
  <2>3. \A m \in F : m # dir => f[m] # f[dir] /\ w[m] = v[m]
    <3>1. ASSUME NEW m \in F, m # dir PROVE f[m] # f[dir] /\ w[m] = v[m]
      <4>1. m \in used /\ m \in FF
        BY <1>6
      <4>2. f[m] # f[dir]
        BY <1>2, <1>4, <3>1, <4>1
      <4>3. w[m] = v[m]
        BY <1>5, <1>a, <3>1, <4>1
      <4> QED
        BY <4>2, <4>3
    <3> QED
      BY <3>1
  <2>4. \A m \in H : s[m] = r[m]
    BY <1>3, <1>6, <1>a
  <2>5. n \in HH => s[n] = NoData
    BY <1>3, <1>a DEF ReadFrom
  <2>6. w[dir] = Append(v[dir], name)
    BY <1>5, <1>6, <1>a
  <2> QED
    BY <1>6, <1>b, <2>1, <2>2, <2>3, <2>4, <2>5, <2>6
<1>9. ASSUME isFolder
      PROVE  k = OneMoreListed(l, g[n], <<>>, f[dir], Append(l[f[dir]], name)) /\ e = c
  <2>1. /\ FF = F \cup {n} /\ HH = H /\ n \in FF
    BY <1>6, <1>9
  <2>2. Values(k, F \cup {n}, g, w) /\ Values(e, H, g, s)
    BY <1>7, <2>1
  <2>3. k = OneMoreListed(l, g[n], w[n], f[dir], w[dir])
    <3>1. /\ Values(l, F, f, v) /\ n \notin F /\ Values(k, F \cup {n}, g, w) /\ dir \in F
          /\ \A m \in F : g[m] = f[m] /\ f[m] # g[n]
          /\ \A m \in F : m # dir => f[m] # f[dir] /\ w[m] = v[m]
      BY <1>6, <1>7, <1>8, <2>2
    <3> QED
      BY ONLY <3>1, ValuesMoreSet
  <2>4. e = c
    BY ONLY <1>7, <1>8, <2>2, ValuesSame
  <2> QED
    BY <1>8, <2>1, <2>3, <2>4
<1>10. ASSUME ~isFolder
       PROVE  k = [l EXCEPT ![f[dir]] = Append(l[f[dir]], name)] /\ e = OneMore(c, g[n], NoData)
  <2>1. /\ FF = F /\ HH = H \cup {n} /\ n \in HH
    BY <1>6, <1>10
  <2>2. Values(k, F, g, w) /\ Values(e, H \cup {n}, g, s)
    BY <1>7, <2>1
  <2>3. k = [l EXCEPT ![f[dir]] = w[dir]]
    BY ONLY <1>6, <1>7, <1>8, <2>2, ValuesSet
  <2>4. e = OneMore(c, g[n], s[n])
    BY ONLY <1>6, <1>7, <1>8, <2>2, ValuesMore
  <2> QED
    BY <1>8, <2>1, <2>3, <2>4
<1>11. q \notin DOMAIN l \cup DOMAIN c
  <2>1. DOMAIN l \subseteq { f[m] : m \in used } /\ DOMAIN c \subseteq { f[m] : m \in used }
    BY DEF Lists, Stores, Values, Folders, Files
  <2> QED
    BY <2>1 DEF SpelledWith
<1> QED
  BY <1>9, <1>10, <1>11, <1>b DEF Grown
-----------------------------------------------------------------------------
(* The tree without a file or an empty directory.                          *)

\* n, the child at place i of dir, may go, and does so.
MayLeave(nodes, used, kids, dir, i, n) ==
  /\ dir \in used /\ nodes[dir].isFolder /\ i \in 1 .. Len(kids[dir]) /\ n = kids[dir][i]
  /\ Len(kids[n]) = 0
Leaves(nodes, used, kids, dir, i, n, new) ==
  /\ MayLeave(nodes, used, kids, dir, i, n)
  /\ Dropped(nodes, kids[dir], Len(kids[dir]), dir, i, n, new)

\* The circles and the paths without n.
KidsWithout(kids, dir, i) == [kids EXCEPT ![dir] = RemoveAt(kids[dir], i)]
PathsWithout(used, f, n) == [m \in used \ {n} |-> f[m]]

\* What this means for n.
LEMMA LeavesFacts ==
  ASSUME NEW nodes, NEW used, NEW kids, NEW f, Pictured(nodes, used, kids, f),
         NEW dir, NEW i, NEW n, NEW new, Leaves(nodes, used, kids, dir, i, n, new)
  PROVE  /\ n \in used /\ n \in Nodes /\ n # root /\ nodes[n].parent = dir /\ n # dir
         /\ \A m \in used : m # n => SameButLinks(new[m], nodes[m])
         /\ \A m \in used : m # root => nodes[m].parent \in used /\ nodes[m].parent # n
<1>1. /\ Structure(nodes, used, kids) /\ used \subseteq Nodes
      /\ dir \in Nodes /\ i \in 1 .. Len(kids[dir]) /\ n = kids[dir][i] /\ Len(kids[n]) = 0
  BY DEF Pictured, Structure, Leaves, MayLeave
<1>2. n \in used /\ n \in Nodes /\ n # root /\ nodes[n].parent = dir
  BY <1>1, KidFacts
<1>3. n # dir
  <2>1. Len(kids[dir]) # 0
    BY <1>1, KidFacts
  <2> QED
    BY <1>1, <2>1
<1>4. \A m \in used : m # n => SameButLinks(new[m], nodes[m])
  BY <1>1 DEF Leaves, Dropped
<1>5. ASSUME NEW m \in used, m # root PROVE nodes[m].parent \in used /\ nodes[m].parent # n
  <2>1. /\ nodes[m].parent \in used
        /\ \E j \in 1 .. Len(kids[nodes[m].parent]) : kids[nodes[m].parent][j] = m
    BY <1>1, <1>5 DEF Structure, ParentsKnow
  <2>2. nodes[m].parent = n => FALSE
    BY <1>1, <2>1
  <2> QED
    BY <2>1, <2>2
<1> QED
  BY <1>2, <1>3, <1>4, <1>5

\* The others stay where they are.
LEMMA LeftPaths ==
  ASSUME NEW nodes, NEW used, NEW kids, NEW f, Pictured(nodes, used, kids, f),
         NEW dir, NEW i, NEW n, NEW new, Leaves(nodes, used, kids, dir, i, n, new),
         NEW g, g = PathsWithout(used, f, n)
  PROVE  Spelled(new, used \ {n}, g)
<1>1. /\ n \in used /\ n # root
      /\ \A m \in used : m # n => SameButLinks(new[m], nodes[m])
      /\ \A m \in used : m # root => nodes[m].parent \in used /\ nodes[m].parent # n
  BY LeavesFacts
<1>2. /\ f \in [used -> Strings] /\ f[root] = <<>> /\ root \in used
      /\ \A m \in used : m # root => f[m] = Append(f[nodes[m].parent], nodes[m].name)
  BY DEF Pictured, Spelled, Structure
<1>3. g \in [used \ {n} -> Strings] /\ g[root] = <<>>
  BY <1>1, <1>2 DEF PathsWithout
<1>4. ASSUME NEW m \in used \ {n}, m # root PROVE g[m] = Append(g[new[m].parent], new[m].name)
  <2>1. new[m].parent = nodes[m].parent /\ new[m].name = nodes[m].name
    BY <1>1 DEF SameButLinks
  <2>2. nodes[m].parent \in used \ {n}
    BY <1>1, <1>4
  <2>3. f[m] = Append(f[nodes[m].parent], nodes[m].name)
    BY <1>2, <1>4
  <2> QED
    BY <2>1, <2>2, <2>3 DEF PathsWithout
<1> QED
  BY <1>3, <1>4 DEF Spelled

\* Its name goes from the listing of dir.
NamesLeft(nodes, used, kids, dir, i, n, new, less) ==
  /\ \A m \in used : m # dir /\ m # n => NamesOf(less[m], new) = NamesOf(kids[m], nodes)
  /\ NamesOf(less[dir], new) = RemoveAt(NamesOf(kids[dir], nodes), i)
\* The listings without n.
LEMMA LeftNames ==
  ASSUME NEW nodes, NEW used, NEW kids, NEW f, Pictured(nodes, used, kids, f),
         NEW dir, NEW i, NEW n, NEW new, Leaves(nodes, used, kids, dir, i, n, new),
         NEW less, less = KidsWithout(kids, dir, i)
  PROVE  NamesLeft(nodes, used, kids, dir, i, n, new, less)
<1>1. /\ Structure(nodes, used, kids) /\ used \subseteq Nodes /\ kids = [d \in Nodes |-> kids[d]]
      /\ nodes \in [Nodes -> NodeRecords]
      /\ dir \in Nodes /\ i \in 1 .. Len(kids[dir]) /\ n = kids[dir][i]
  BY DEF Pictured, Structure, Leaves, MayLeave
<1>2. \A m \in used : m # n => new[m].name = nodes[m].name
  <2>1. \A m \in used : m # n => SameButLinks(new[m], nodes[m])
    BY LeavesFacts
  <2> QED
    BY <2>1 DEF SameButLinks
<1>3. less[dir] = RemoveAt(kids[dir], i) /\ \A m \in Nodes : m # dir => less[m] = kids[m]
  BY <1>1 DEF KidsWithout
<1>4. ASSUME NEW m \in Nodes
      PROVE  /\ kids[m] \in Seq(Nodes) /\ Len(kids[m]) \in Nat /\ DOMAIN kids[m] = 1 .. Len(kids[m])
             /\ \A j \in 1 .. Len(kids[m]) : kids[m][j] \in used
  <2>1. Structure(nodes, used, kids) /\ m \in Nodes
    BY <1>1
  <2> QED
    BY ONLY <2>1, KidFacts
<1>5. ASSUME NEW m \in Nodes, NEW j \in 1 .. Len(kids[m]), kids[m][j] = n
      PROVE  m = dir /\ j = i
  BY <1>1, <1>5, OneCircle
<1>6. ASSUME NEW m \in used, m # dir, m # n PROVE NamesOf(less[m], new) = NamesOf(kids[m], nodes)
  <2>1. \A j \in DOMAIN kids[m] : new[kids[m][j]].name = nodes[kids[m][j]].name
    <3> SUFFICES ASSUME NEW j \in 1 .. Len(kids[m])
                 PROVE  new[kids[m][j]].name = nodes[kids[m][j]].name
      BY <1>1, <1>4
    <3>1. kids[m][j] \in used /\ kids[m][j] # n
      BY <1>1, <1>4, <1>5, <1>6
    <3> QED
      BY <1>2, <3>1
  <2>2. less[m] = kids[m]
    BY <1>1, <1>3, <1>6
  <2> QED
    BY <2>1, <2>2 DEF NamesOf
<1>7. NamesOf(less[dir], new) = RemoveAt(NamesOf(kids[dir], nodes), i)
  <2> PICK c : c = kids[dir]
    OBVIOUS
  <2> PICK a : a = RemoveAt(c, i)
    OBVIOUS
  <2> PICK s : s = NamesOf(c, nodes)
    OBVIOUS
  <2> PICK t : t = NamesOf(a, new)
    OBVIOUS
  <2> PICK b : b = RemoveAt(s, i)
    OBVIOUS
  <2>1. /\ c \in Seq(Nodes) /\ Len(c) \in Nat /\ DOMAIN c = 1 .. Len(c) /\ i \in 1 .. Len(c)
        /\ \A j \in 1 .. Len(c) : c[j] \in used /\ (j # i => c[j] # n)
    BY <1>1, <1>4, <1>5
  <2>2. /\ a \in Seq(Nodes) /\ Len(a) = Len(c) - 1
        /\ \A j \in 1 .. Len(c) - 1 : a[j] = IF j < i THEN c[j] ELSE c[j + 1]
    <3>1. c \in Seq(Nodes) /\ i \in DOMAIN c
      BY <2>1
    <3>2. RemoveAt(c, i) \in Seq(Nodes) /\ Len(RemoveAt(c, i)) = Len(c) - 1
      BY ONLY <3>1, RemoveAtElements
    <3>3. \A j \in 1 .. Len(c) - 1 : RemoveAt(c, i)[j] = IF j < i THEN c[j] ELSE c[j + 1]
      BY ONLY <3>1, RemoveAtElements
    <3> QED
      BY <3>2, <3>3
  <2> PICK R : R = { nodes[c[j]].name : j \in 1 .. Len(c) }
    OBVIOUS
  <2>3. /\ s = [j \in 1 .. Len(c) |-> nodes[c[j]].name]
        /\ \A j \in 1 .. Len(c) : s[j] = nodes[c[j]].name
    BY <2>1 DEF NamesOf
  <2>4. s \in Seq(R) /\ Len(s) = Len(c) /\ i \in DOMAIN s
    <3>1. DOMAIN s = 1 .. Len(c) /\ Len(c) \in Nat /\ i \in 1 .. Len(c)
      BY ONLY <2>1, <2>3
    <3>2. \A j \in 1 .. Len(c) : s[j] \in R
      BY ONLY <2>3, R = { nodes[c[j]].name : j \in 1 .. Len(c) }
    <3>3. s = [j \in 1 .. Len(c) |-> s[j]]
      BY ONLY <2>3
    <3> QED
      BY ONLY <3>1, <3>2, <3>3
  <2>5. /\ b \in Seq(R) /\ Len(b) = Len(c) - 1
        /\ \A j \in 1 .. Len(c) - 1 : b[j] = IF j < i THEN s[j] ELSE s[j + 1]
    <3>1. RemoveAt(s, i) \in Seq(R) /\ Len(RemoveAt(s, i)) = Len(s) - 1
      BY ONLY <2>4, RemoveAtElements
    <3>2. \A j \in 1 .. Len(s) - 1 : RemoveAt(s, i)[j] = IF j < i THEN s[j] ELSE s[j + 1]
      BY ONLY <2>4, RemoveAtElements
    <3> QED
      BY <2>4, <3>1, <3>2
  <2>6. /\ t = [j \in 1 .. Len(c) - 1 |-> t[j]]
        /\ \A j \in 1 .. Len(c) - 1 : t[j] = new[a[j]].name
    <3>1. DOMAIN a = 1 .. Len(c) - 1
      BY <2>1, <2>2
    <3> QED
      BY <3>1 DEF NamesOf
  <2>7. ASSUME NEW j \in 1 .. Len(c) - 1 PROVE t[j] = b[j]
    <3> PICK m : m = IF j < i THEN j ELSE j + 1
      OBVIOUS
    <3>1. m \in 1 .. Len(c) /\ m # i
      BY <2>1
    <3>2. a[j] = c[m] /\ b[j] = s[m]
      BY <2>2, <2>5
    <3>3. c[m] \in used /\ c[m] # n
      BY <2>1, <3>1
    <3>4. t[j] = new[c[m]].name
      <4>1. t[j] = new[a[j]].name
        BY <2>6
      <4> QED
        BY <3>2, <4>1
    <3>5. s[m] = nodes[c[m]].name
      BY <2>3, <3>1
    <3> QED
      BY <1>2, <3>2, <3>3, <3>4, <3>5
  <2>8. b = [j \in 1 .. Len(c) - 1 |-> b[j]]
    <3>1. DOMAIN b = 1 .. Len(c) - 1 /\ b = [j \in DOMAIN b |-> b[j]]
      BY <2>1, <2>5
    <3> QED
      BY ONLY <3>1
  <2>9. t = b
    BY <2>6, <2>7, <2>8
  <2> QED
    BY <1>3, <2>9
<1> QED
  BY <1>6, <1>7 DEF NamesLeft

\* What rmdir and delete do to listings and contents.
Shrunk(l, c, k, e, p, q, i, name, isFolder) ==
  /\ i \in DOMAIN l[p] /\ \A j \in DOMAIN l[p] : l[p][j] = name <=> j = i
  /\ isFolder => /\ q \in DOMAIN l /\ l[q] = <<>>
                 /\ k = OneLessListed(l, q, p, RemoveAt(l[p], i)) /\ e = c
  /\ ~isFolder => /\ q \in DOMAIN c
                  /\ k = [l EXCEPT ![p] = RemoveAt(l[p], i)] /\ e = OneLess(c, q)
\* The listings and contents without n.
LEMMA LeftTree ==
  ASSUME NEW nodes, NEW used, NEW kids, NEW f, Pictured(nodes, used, kids, f),
         NEW dir, NEW i, NEW n, NEW new, Leaves(nodes, used, kids, dir, i, n, new),
         NEW less, less = KidsWithout(kids, dir, i),
         NEW g, g = PathsWithout(used, f, n),
         NEW l, Lists(l, nodes, used, kids, f),
         NEW k, Lists(k, new, used \ {n}, less, g),
         NEW disk, NEW c, Stores(c, nodes, used, f, disk),
         NEW e, Stores(e, new, used \ {n}, g, disk)
  PROVE  Shrunk(l, c, k, e, f[dir], f[n], i, nodes[n].name, nodes[n].isFolder)
<1>1. /\ nodes \in [Nodes -> NodeRecords] /\ Structure(nodes, used, kids) /\ used \subseteq Nodes
      /\ Spelled(nodes, used, f)
  BY DEF Pictured, Structure
<1>2. dir \in used /\ nodes[dir].isFolder /\ n \in used /\ n # dir
  <2>1. dir \in used /\ nodes[dir].isFolder
    BY DEF Leaves, MayLeave
  <2>2. n \in used /\ n # dir
    BY LeavesFacts
  <2> QED
    BY <2>1, <2>2
<1>3. \A m \in used : m # n => new[m].isFolder = nodes[m].isFolder /\ new[m].block = nodes[m].block
  <2>1. \A m \in used : m # n => SameButLinks(new[m], nodes[m])
    BY LeavesFacts
  <2> QED
    BY <2>1 DEF SameButLinks
<1>4. \A x, y \in used : f[x] = f[y] => x = y
  BY <1>1, PathsDiffer
<1>5. /\ \A m \in used : m # dir /\ m # n => NamesOf(less[m], new) = NamesOf(kids[m], nodes)
      /\ NamesOf(less[dir], new) = RemoveAt(NamesOf(kids[dir], nodes), i)
  <2>1. NamesLeft(nodes, used, kids, dir, i, n, new, less)
    BY LeftNames
  <2> QED
    BY <2>1 DEF NamesLeft
<1> PICK F : F = Folders(nodes, used)
  OBVIOUS
<1> PICK H : H = Files(nodes, used)
  OBVIOUS
<1> PICK FF : FF = Folders(new, used \ {n})
  OBVIOUS
<1> PICK HH : HH = Files(new, used \ {n})
  OBVIOUS
<1>6. /\ nodes[n].isFolder => FF = F \ {n} /\ HH = H /\ n \in F /\ n \notin H
      /\ ~nodes[n].isFolder => FF = F /\ HH = H \ {n} /\ n \in H /\ n \notin F
      /\ dir \in F /\ F \subseteq used /\ H \subseteq used
  BY <1>2, <1>3 DEF Folders, Files
<1> PICK v : v = NamesIn(nodes, used, kids)
  OBVIOUS
<1> PICK w : w = NamesIn(new, used \ {n}, less)
  OBVIOUS
<1> PICK r : r = TextsIn(nodes, used, disk)
  OBVIOUS
<1> PICK s : s = TextsIn(new, used \ {n}, disk)
  OBVIOUS
<1>7. Values(l, F, f, v) /\ Values(k, FF, g, w) /\ Values(c, H, f, r) /\ Values(e, HH, g, s)
  BY DEF Lists, Stores
<1>8. /\ \A m \in F : v[m] = NamesOf(kids[m], nodes)
      /\ \A m \in FF : w[m] = NamesOf(less[m], new)
      /\ \A m \in H : r[m] = ReadFrom(nodes[m].block, disk)
      /\ \A m \in HH : s[m] = ReadFrom(new[m].block, disk)
  BY DEF NamesIn, TextsIn
<1>9. ASSUME NEW m \in used, m # n
      PROVE  /\ g[m] = f[m] /\ f[m] # f[n] /\ (m # dir => f[m] # f[dir])
             /\ m \in F => m \in FF /\ (m # dir => w[m] = v[m])
             /\ m \in H => m \in HH /\ s[m] = r[m]
  <2>1. g[m] = f[m] /\ f[m] # f[n] /\ (m # dir => f[m] # f[dir])
    BY <1>2, <1>4, <1>9 DEF PathsWithout
  <2>2. (m \in F => m \in FF) /\ (m \in H => m \in HH)
    BY <1>6, <1>9
  <2>3. m \in F /\ m # dir => w[m] = v[m]
    BY <1>5, <1>8, <1>9, <2>2
  <2>4. m \in H => s[m] = r[m]
    BY <1>3, <1>8, <1>9, <2>2
  <2> QED
    BY <2>1, <2>2, <2>3, <2>4
<1>10. w[dir] = RemoveAt(l[f[dir]], i)
  <2>1. dir \in FF /\ l[f[dir]] = v[dir]
    BY <1>2, <1>6, <1>7, <1>9 DEF Values
  <2> QED
    BY <1>5, <1>6, <1>8, <2>1
<1>11. ASSUME nodes[n].isFolder
       PROVE  k = OneLessListed(l, f[n], f[dir], RemoveAt(l[f[dir]], i)) /\ e = c
  <2>1. /\ Values(l, F, f, v) /\ n \in F /\ Values(k, F \ {n}, g, w) /\ dir \in F /\ dir # n
        /\ \A m \in F : m # n => g[m] = f[m] /\ f[m] # f[n]
        /\ \A m \in F : m # n /\ m # dir => f[m] # f[dir] /\ w[m] = v[m]
    BY <1>2, <1>6, <1>7, <1>9, <1>11
  <2>2. k = OneLessListed(l, f[n], f[dir], w[dir])
    BY ONLY <2>1, ValuesLessSet
  <2>3. /\ Values(c, H, f, r) /\ Values(e, H, g, s) /\ \A m \in H : g[m] = f[m] /\ s[m] = r[m]
    BY <1>6, <1>7, <1>9, <1>11
  <2>4. e = c
    BY ONLY <2>3, ValuesSame
  <2> QED
    BY <1>10, <2>2, <2>4
<1>12. ASSUME ~nodes[n].isFolder
       PROVE  k = [l EXCEPT ![f[dir]] = RemoveAt(l[f[dir]], i)] /\ e = OneLess(c, f[n])
  <2>1. /\ Values(l, F, f, v) /\ Values(k, F, g, w) /\ dir \in F
        /\ \A m \in F : g[m] = f[m]
        /\ \A m \in F : m # dir => f[m] # f[dir] /\ w[m] = v[m]
    BY <1>2, <1>6, <1>7, <1>9, <1>12
  <2>2. k = [l EXCEPT ![f[dir]] = w[dir]]
    BY ONLY <2>1, ValuesSet
  <2>3. /\ Values(c, H, f, r) /\ n \in H /\ Values(e, H \ {n}, g, s)
        /\ \A m \in H : m # n => g[m] = f[m] /\ f[m] # f[n] /\ s[m] = r[m]
    BY <1>6, <1>7, <1>9, <1>12
  <2>4. e = OneLess(c, f[n])
    BY ONLY <2>3, ValuesLess
  <2> QED
    BY <1>10, <2>2, <2>4
<1>13. i \in DOMAIN l[f[dir]] /\ \A j \in DOMAIN l[f[dir]] : l[f[dir]][j] = nodes[n].name <=> j = i
  <2>1. l[f[dir]] = NamesOf(kids[dir], nodes)
    BY <1>6, <1>7, <1>8 DEF Values
  <2>2. DOMAIN kids[dir] = 1 .. Len(kids[dir]) /\ i \in 1 .. Len(kids[dir]) /\ n = kids[dir][i]
    <3>1. i \in 1 .. Len(kids[dir]) /\ n = kids[dir][i]
      BY DEF Leaves, MayLeave
    <3> QED
      BY <1>1, <1>2, <3>1, KidFacts
  <2>3. \A j \in 1 .. Len(kids[dir]) : nodes[kids[dir][j]].name = nodes[n].name => j = i
    BY <1>1, <1>2, <2>2 DEF Structure, Families
  <2> QED
    BY <2>1, <2>2, <2>3 DEF NamesOf
<1>14. nodes[n].isFolder => f[n] \in DOMAIN l /\ l[f[n]] = <<>>
  <2>1. Len(kids[n]) = 0
    BY DEF Leaves, MayLeave
  <2>2. kids[n] \in Seq(Nodes)
    BY <1>1, <1>2, KidFacts
  <2>3. kids[n] = <<>>
    BY <2>1, <2>2
  <2>4. [j \in DOMAIN <<>> |-> nodes[<<>>[j]].name] = <<>>
    OBVIOUS
  <2>5. NamesOf(kids[n], nodes) = <<>>
    BY <2>3, <2>4 DEF NamesOf
  <2> QED
    BY <1>6, <1>7, <1>8, <2>5 DEF Values
<1>15. ~nodes[n].isFolder => f[n] \in DOMAIN c
  BY <1>6, <1>7 DEF Values
<1> QED
  BY <1>11, <1>12, <1>13, <1>14, <1>15 DEF Shrunk
-----------------------------------------------------------------------------
(* The commands as steps of FileTree.                                      *)

\* A block that a file has holds what was written.
Filled(nodes, used, disk) ==
  \A n \in used : nodes[n].block # NULL => disk[nodes[n].block] # NoData

\* The invariant for the refinement: every node in use has a path.
TreeInv ==
  /\ VfsInv
  /\ Running => /\ \E f : Spelled(node, allocated, f)
                /\ Filled(node, allocated, diskMemory)

\* The current directory of FileTree.
Cwd == IF Running THEN Path(currentDirectory, node, allocated) ELSE <<>>

\* The mapping of a picture.
Mapped(l, c, nodes, used, kids, f, disk) ==
  Lists(l, nodes, used, kids, f) /\ Stores(c, nodes, used, f, disk)

\* A picture maps to its listings, its contents and its paths.
LEMMA PictureMapped ==
  ASSUME NEW nodes, NEW used, NEW kids, NEW f, Pictured(nodes, used, kids, f), NEW disk
  PROVE  /\ Mapped(Listing(nodes, used), Content(nodes, used, disk), nodes, used, kids, f, disk)
         /\ \A n \in used : Path(n, nodes, used) = f[n]
<1>1. /\ nodes \in [Nodes -> NodeRecords] /\ Structure(nodes, used, kids)
      /\ kids = [d \in Nodes |-> kids[d]] /\ Spelled(nodes, used, f)
  BY DEF Pictured
<1>2. Lists(Listing(nodes, used), nodes, used, kids, f)
  BY <1>1, ListingIs
<1>3. Stores(Content(nodes, used, disk), nodes, used, f, disk)
  BY <1>1, ContentIs
<1>4. \A n \in used : Path(n, nodes, used) = f[n]
  BY <1>1, PathIs
<1> QED
  BY <1>2, <1>3, <1>4 DEF Mapped

\* The paths of the tree are those of the nodes in use.
LEMMA MappedPaths ==
  ASSUME NEW l, NEW c, NEW nodes, NEW used, NEW kids, NEW f, NEW disk,
         Mapped(l, c, nodes, used, kids, f, disk)
  PROVE  /\ DOMAIN l = { f[m] : m \in Folders(nodes, used) }
         /\ DOMAIN c = { f[m] : m \in Files(nodes, used) }
         /\ DOMAIN l \cup DOMAIN c = { f[m] : m \in used }
         /\ \A m \in used : nodes[m].isFolder => f[m] \in DOMAIN l /\ l[f[m]] = NamesOf(kids[m], nodes)
         /\ \A m \in used : ~nodes[m].isFolder =>
              f[m] \in DOMAIN c /\ c[f[m]] = ReadFrom(nodes[m].block, disk)
<1>1. /\ DOMAIN l = { f[m] : m \in Folders(nodes, used) }
      /\ DOMAIN c = { f[m] : m \in Files(nodes, used) }
  BY DEF Mapped, Lists, Stores, Values
<1>2. used = Folders(nodes, used) \cup Files(nodes, used)
  BY DEF Folders, Files
<1>3. DOMAIN l \cup DOMAIN c = { f[m] : m \in used }
  BY <1>1, <1>2
<1>4. ASSUME NEW m \in used, nodes[m].isFolder
      PROVE  f[m] \in DOMAIN l /\ l[f[m]] = NamesOf(kids[m], nodes)
  <2>1. m \in Folders(nodes, used)
    BY <1>4 DEF Folders
  <2>2. l[f[m]] = NamesIn(nodes, used, kids)[m]
    BY <2>1 DEF Mapped, Lists, Values
  <2> QED
    BY <1>1, <2>1, <2>2 DEF NamesIn
<1>5. ASSUME NEW m \in used, ~nodes[m].isFolder
      PROVE  f[m] \in DOMAIN c /\ c[f[m]] = ReadFrom(nodes[m].block, disk)
  <2>1. m \in Files(nodes, used)
    BY <1>5 DEF Folders, Files
  <2>2. c[f[m]] = TextsIn(nodes, used, disk)[m]
    BY <2>1 DEF Mapped, Stores, Values
  <2> QED
    BY <1>1, <2>1, <2>2 DEF TextsIn
<1> QED
  BY <1>1, <1>3, <1>4, <1>5

\* What is known before a command.
LEMMA TreeStands ==
  ASSUME TreeInv, Running
  PROVE  \E f : /\ Pictured(node, allocated, Kids(node), f)
                /\ Mapped(Listing(node, allocated), Content(node, allocated, diskMemory),
                          node, allocated, Kids(node), f, diskMemory)
                /\ Cwd = f[currentDirectory] /\ Cwd \in DOMAIN Listing(node, allocated)
                /\ f[currentDirectory] \in Strings
<1>1. Standing
  BY InvStands DEF TreeInv
<1>2. PICK f : Spelled(node, allocated, f)
  BY DEF TreeInv
<1>3. Pictured(node, allocated, Kids(node), f)
  BY <1>1, <1>2, KidsAre DEF Standing, Pictured
<1>4. /\ Mapped(Listing(node, allocated), Content(node, allocated, diskMemory),
                node, allocated, Kids(node), f, diskMemory)
      /\ \A n \in allocated : Path(n, node, allocated) = f[n]
  BY <1>3, PictureMapped
<1>5. currentDirectory \in allocated /\ node[currentDirectory].isFolder
  BY <1>1 DEF Standing
<1>6. Cwd = f[currentDirectory]
  BY <1>4, <1>5 DEF Cwd
<1>7. f[currentDirectory] \in DOMAIN Listing(node, allocated)
  BY <1>4, <1>5, MappedPaths
<1>8. f[currentDirectory] \in Strings
  BY <1>2, <1>5 DEF Spelled
<1> QED
  BY <1>3, <1>4, <1>6, <1>7, <1>8

-----------------------------------------------------------------------------
(* mkdir, create, delete and rmdir.                                        *)

\* The paths of the nodes that were in use before, and of a new node n.
PathsKept(new, used, n, f) ==
  \E g : /\ Spelled(new, used \cup {n}, g)
         /\ \A m \in used : g[m] = f[m] /\ Path(m, new, used \cup {n}) = f[m]

\* The circle of dir with n in it.
Extended(nodes, used, kids, dir, n, name, isFolder, new, more) ==
  /\ new \in [Nodes -> NodeRecords] /\ Structure(new, used \cup {n}, more)
  /\ Joins(nodes, used, kids, dir, n, name, isFolder, new)
\* A node that may join, joins a structure that stands.
LEMMA JoinedStructure ==
  ASSUME NEW nodes, NEW used, NEW kids, NEW f, Pictured(nodes, used, kids, f),
         NEW dir, NEW n, NEW name, NEW isFolder, NEW new,
         MayJoin(nodes, used, kids, dir, n, name, isFolder),
         new = AddedTo(nodes, kids[dir], dir, n, name, isFolder),
         NEW more, more = KidsWith(kids, dir, n)
  PROVE  Extended(nodes, used, kids, dir, n, name, isFolder, new, more)
<1>1. /\ nodes \in [Nodes -> NodeRecords] /\ Structure(nodes, used, kids)
      /\ kids = [d \in Nodes |-> kids[d]]
      /\ dir \in used /\ nodes[dir].isFolder /\ n \in Nodes /\ n \notin used /\ name \in Names
      /\ isFolder \in BOOLEAN /\ \A i \in 1 .. Len(kids[dir]) : nodes[kids[dir][i]].name # name
  BY DEF Pictured, MayJoin
<1>2. dir \in Nodes
  BY <1>1 DEF Structure
<1>3. new \in [Nodes -> NodeRecords] /\ Structure(new, used \cup {n}, more)
  BY <1>1, AddedStructure DEF KidsWith
<1>4. kids[dir] \in Seq(Nodes) /\ \A i \in 1 .. Len(kids[dir]) : kids[dir][i] \in used
  BY <1>1, <1>2, KidFacts
<1>5. n # dir /\ \A i \in 1 .. Len(kids[dir]) : kids[dir][i] # n
  BY <1>1, <1>4
<1>6. Added(nodes, kids[dir], dir, n, name, isFolder, new)
  <2> PICK c : c = kids[dir]
    OBVIOUS
  <2>1. /\ nodes \in [Nodes -> NodeRecords] /\ c \in Seq(Nodes) /\ dir \in Nodes
        /\ n \in Nodes /\ n # dir /\ (\A i \in 1 .. Len(c) : c[i] # n)
        /\ name \in Names /\ isFolder \in BOOLEAN
        /\ new = AddedTo(nodes, c, dir, n, name, isFolder)
    BY <1>1, <1>2, <1>4, <1>5
  <2>2. Added(nodes, c, dir, n, name, isFolder, new)
    BY ONLY <2>1, AddedFields
  <2> QED
    BY <2>2
<1> QED
  BY <1>3, <1>6 DEF Extended, Joins

\* What mkdir and create do to the mapping.
TreeGrown(nodes, used, f, dir, n, name, isFolder, new, disk) ==
  /\ Grown(Listing(nodes, used), Content(nodes, used, disk),
           Listing(new, used \cup {n}), Content(new, used \cup {n}, disk),
           f[dir], Append(f[dir], name), name, isFolder)
  /\ PathsKept(new, used, n, f)
  /\ new[n].block = NULL /\ \A m \in used : new[m].block = nodes[m].block
\* A node that joins makes the mapping grow.
LEMMA TreeGrows ==
  ASSUME NEW nodes, NEW used, NEW kids, NEW f, Pictured(nodes, used, kids, f),
         NEW dir, NEW n, NEW name, NEW isFolder, NEW new,
         MayJoin(nodes, used, kids, dir, n, name, isFolder),
         new = AddedTo(nodes, kids[dir], dir, n, name, isFolder), NEW disk
  PROVE  TreeGrown(nodes, used, f, dir, n, name, isFolder, new, disk)
<1> PICK more : more = KidsWith(kids, dir, n)
  OBVIOUS
<1> PICK q : q = Append(f[dir], name)
  OBVIOUS
<1> PICK g : g = PathsWith(used, f, n, q)
  OBVIOUS
<1> PICK U : U = used \cup {n}
  OBVIOUS
<1> PICK l : l = Listing(nodes, used)
  OBVIOUS
<1> PICK c : c = Content(nodes, used, disk)
  OBVIOUS
<1> PICK k : k = Listing(new, U)
  OBVIOUS
<1> PICK e : e = Content(new, U, disk)
  OBVIOUS
<1>1. Extended(nodes, used, kids, dir, n, name, isFolder, new, more)
  BY JoinedStructure
<1>2. /\ new \in [Nodes -> NodeRecords] /\ Structure(new, U, more)
      /\ Joins(nodes, used, kids, dir, n, name, isFolder, new)
  BY <1>1 DEF Extended
<1>3. SpelledWith(new, used, f, n, q, g)
  BY <1>2, JoinedPaths
<1>4. Spelled(new, U, g) /\ g[n] = q /\ \A m \in used : g[m] = f[m]
  BY <1>3 DEF SpelledWith
<1>5. Lists(l, nodes, used, kids, f) /\ Stores(c, nodes, used, f, disk)
  <2>1. /\ nodes \in [Nodes -> NodeRecords] /\ Structure(nodes, used, kids)
        /\ kids = [d \in Nodes |-> kids[d]] /\ Spelled(nodes, used, f)
    BY DEF Pictured
  <2>2. Lists(l, nodes, used, kids, f)
    BY <2>1, ListingIs
  <2>3. Stores(c, nodes, used, f, disk)
    BY <2>1, ContentIs
  <2> QED
    BY <2>2, <2>3
<1>6. /\ Lists(k, new, U, more, g) /\ Stores(e, new, U, g, disk)
      /\ \A m \in U : Path(m, new, U) = g[m]
  <2>1. /\ new \in [Nodes -> NodeRecords] /\ Structure(new, U, more)
        /\ more = [d \in Nodes |-> more[d]] /\ Spelled(new, U, g)
    BY <1>2, <1>4 DEF Pictured, KidsWith
  <2>2. Lists(Listing(new, U), new, U, more, g)
    BY ONLY <2>1, ListingIs
  <2>3. Stores(Content(new, U, disk), new, U, g, disk)
    BY ONLY <2>1, ContentIs
  <2>4. \A m \in U : Path(m, new, U) = g[m]
    BY ONLY <2>1, PathIs
  <2> QED
    BY <2>2, <2>3, <2>4
<1>7. Grown(l, c, k, e, f[dir], q, name, isFolder)
  BY <1>2, <1>3, <1>5, <1>6, JoinedTree
<1>8. PathsKept(new, used, n, f)
  BY <1>4, <1>6 DEF PathsKept
<1>9. new[n].block = NULL /\ \A m \in used : new[m].block = nodes[m].block
  <2>1. Added(nodes, kids[dir], dir, n, name, isFolder, new) /\ used \subseteq Nodes /\ n \notin used
    BY <1>2 DEF Joins, MayJoin, Pictured, Structure
  <2> QED
    BY <2>1 DEF Added, SameButLinks, Made
<1> QED
  BY <1>7, <1>8, <1>9 DEF TreeGrown

\* The paths of the nodes that stay.
PathsStay(new, used, n, f) ==
  \E g : /\ Spelled(new, used \ {n}, g)
         /\ \A m \in used \ {n} : Path(m, new, used \ {n}) = f[m]

\* The circle of dir without n.
Reduced(nodes, used, kids, dir, i, n, new, less) ==
  /\ new \in [Nodes -> NodeRecords] /\ Structure(new, used \ {n}, less)
  /\ Leaves(nodes, used, kids, dir, i, n, new)
\* A node that may leave, leaves a structure that stands.
LEMMA LeftStructure ==
  ASSUME NEW nodes, NEW used, NEW kids, NEW f, Pictured(nodes, used, kids, f),
         NEW dir, NEW i, NEW n, NEW new, MayLeave(nodes, used, kids, dir, i, n),
         new = DroppedFrom(nodes, kids[dir], dir, i),
         NEW less, less = KidsWithout(kids, dir, i)
  PROVE  Reduced(nodes, used, kids, dir, i, n, new, less)
<1>1. /\ nodes \in [Nodes -> NodeRecords] /\ Structure(nodes, used, kids)
      /\ kids = [d \in Nodes |-> kids[d]]
      /\ dir \in used /\ i \in 1 .. Len(kids[dir]) /\ n = kids[dir][i] /\ Len(kids[n]) = 0
      /\ Len(kids[kids[dir][i]]) = 0
  BY DEF Pictured, MayLeave
<1>2. dir \in Nodes /\ kids[dir] \in Seq(Nodes) /\ Len(kids[dir]) \in Nat
  BY <1>1, KidFacts DEF Structure
<1>3. WithoutChild(nodes, used, kids, dir, i, new)
  BY ONLY <1>1, DroppedStructure, new = DroppedFrom(nodes, kids[dir], dir, i)
<1>4. new \in [Nodes -> NodeRecords] /\ Structure(new, used \ {n}, less)
  BY <1>1, <1>3 DEF WithoutChild, KidsWithout
<1>5. Dropped(nodes, kids[dir], Len(kids[dir]), dir, i, n, new)
  <2>1. ASSUME NEW j \in 1 .. Len(kids[dir]), kids[dir][j] = kids[dir][i] PROVE j = i
    BY <1>1, <1>2, <2>1, OneCircle
  <2>2. \A j \in 1 .. Len(kids[dir]) : kids[dir][j] = kids[dir][i] => j = i
    BY <2>1
  <2>3. kids[dir][i] # dir
    <3>1. Len(kids[dir]) # 0
      BY <1>1, <1>2
    <3> QED
      BY <1>1, <3>1
  <2>4. Dropped(nodes, kids[dir], Len(kids[dir]), dir, i, kids[dir][i], new)
    BY ONLY <1>1, <1>2, <2>2, <2>3, DroppedFields, new = DroppedFrom(nodes, kids[dir], dir, i)
  <2> QED
    BY <1>1, <2>4
<1> QED
  BY <1>4, <1>5 DEF Reduced, Leaves

\* What rmdir and delete do to the mapping.
TreeShrunk(nodes, used, f, dir, i, n, new, disk) ==
  /\ Shrunk(Listing(nodes, used), Content(nodes, used, disk),
            Listing(new, used \ {n}), Content(new, used \ {n}, disk),
            f[dir], f[n], i, nodes[n].name, nodes[n].isFolder)
  /\ f[n] = Append(f[dir], nodes[n].name) /\ n \in used /\ n # dir
  /\ ~nodes[n].isFolder => Content(nodes, used, disk)[f[n]] = ReadFrom(nodes[n].block, disk)
  /\ PathsStay(new, used, n, f)
  /\ \A m \in used \ {n} : new[m].block = nodes[m].block
\* A node that leaves makes the mapping shrink.
LEMMA TreeShrinks ==
  ASSUME NEW nodes, NEW used, NEW kids, NEW f, Pictured(nodes, used, kids, f),
         NEW dir, NEW i, NEW n, NEW new, MayLeave(nodes, used, kids, dir, i, n),
         new = DroppedFrom(nodes, kids[dir], dir, i), NEW disk
  PROVE  TreeShrunk(nodes, used, f, dir, i, n, new, disk)
<1> PICK less : less = KidsWithout(kids, dir, i)
  OBVIOUS
<1> PICK g : g = PathsWithout(used, f, n)
  OBVIOUS
<1> PICK U : U = used \ {n}
  OBVIOUS
<1> PICK l : l = Listing(nodes, used)
  OBVIOUS
<1> PICK c : c = Content(nodes, used, disk)
  OBVIOUS
<1> PICK k : k = Listing(new, U)
  OBVIOUS
<1> PICK e : e = Content(new, U, disk)
  OBVIOUS
<1>1. Reduced(nodes, used, kids, dir, i, n, new, less)
  BY LeftStructure
<1>2. /\ new \in [Nodes -> NodeRecords] /\ Structure(new, U, less)
      /\ Leaves(nodes, used, kids, dir, i, n, new)
  BY <1>1 DEF Reduced
<1>3. Spelled(new, used \ {n}, g)
  BY <1>2, LeftPaths
<1>4. /\ nodes \in [Nodes -> NodeRecords] /\ Structure(nodes, used, kids)
      /\ kids = [d \in Nodes |-> kids[d]] /\ Spelled(nodes, used, f)
  BY DEF Pictured
<1>5. Lists(l, nodes, used, kids, f) /\ Stores(c, nodes, used, f, disk)
  <2>1. Lists(l, nodes, used, kids, f)
    BY <1>4, ListingIs
  <2>2. Stores(c, nodes, used, f, disk)
    BY <1>4, ContentIs
  <2> QED
    BY <2>1, <2>2
<1>6. /\ Lists(k, new, U, less, g) /\ Stores(e, new, U, g, disk)
      /\ \A m \in U : Path(m, new, U) = g[m]
  <2>1. /\ new \in [Nodes -> NodeRecords] /\ Structure(new, U, less)
        /\ less = [d \in Nodes |-> less[d]] /\ Spelled(new, U, g)
    BY <1>2, <1>3, <1>4 DEF KidsWithout
  <2>2. Lists(Listing(new, U), new, U, less, g)
    BY ONLY <2>1, ListingIs
  <2>3. Stores(Content(new, U, disk), new, U, g, disk)
    BY ONLY <2>1, ContentIs
  <2>4. \A m \in U : Path(m, new, U) = g[m]
    BY ONLY <2>1, PathIs
  <2> QED
    BY <2>2, <2>3, <2>4
<1>7. Shrunk(l, c, k, e, f[dir], f[n], i, nodes[n].name, nodes[n].isFolder)
  BY <1>2, <1>5, <1>6, LeftTree
<1>8. PathsStay(new, used, n, f)
  BY <1>3, <1>6 DEF PathsStay, PathsWithout
<1>9. /\ n \in used /\ n # root /\ nodes[n].parent = dir /\ n # dir
      /\ \A m \in used : m # n => SameButLinks(new[m], nodes[m])
  BY <1>2, LeavesFacts
<1>10. f[n] = Append(f[dir], nodes[n].name) /\ \A m \in used \ {n} : new[m].block = nodes[m].block
  BY <1>4, <1>9 DEF Spelled, SameButLinks
<1>11. ~nodes[n].isFolder => c[f[n]] = ReadFrom(nodes[n].block, disk)
  <2>1. ~nodes[n].isFolder => n \in Files(nodes, used)
    BY <1>9 DEF Files, Folders
  <2> QED
    BY <1>5, <2>1 DEF Stores, Values, TextsIn
<1> QED
  BY <1>7, <1>8, <1>9, <1>10, <1>11 DEF TreeShrunk

\* What mkdir and create find.
LEMMA CreateFinds ==
  ASSUME Standing, NEW name \in Names, NEW isFolder \in BOOLEAN, create(name, isFolder)
  PROVE  \E n \in Nodes \ allocated :
           /\ allocated' = allocated \cup {n}
           /\ node' = AddedTo(node, Kids(node)[currentDirectory], currentDirectory, n, name, isFolder)
           /\ MayJoin(node, allocated, Kids(node), currentDirectory, n, name, isFolder)
<1> PICK kids : kids = Kids(node)
  OBVIOUS
<1> PICK dir : dir = currentDirectory
  OBVIOUS
<1>1. PICK n \in Nodes \ allocated : node' = Linked(n, name, isFolder) /\ allocated' = allocated \cup {n}
  BY DEF create
<1>2. /\ Structure(node, allocated, kids) /\ dir \in allocated /\ node[dir].isFolder
      /\ allocated \subseteq Nodes /\ dir \in Nodes
  BY DEF Standing, Structure
<1>3. node' = AddedTo(node, kids[dir], dir, n, name, isFolder)
  BY <1>1, LinkedIs
<1>4. \A i \in 1 .. Len(kids[dir]) : node[kids[dir][i]].name # name
  <2>1. Find(name, Nodes) = NULL
    BY DEF create
  <2>2. \A i \in 1 .. Len(kids[dir]) : ~(node[kids[dir][i]].name = name /\ kids[dir][i] \in Nodes)
    BY <2>1, FindFinds
  <2>3. \A i \in 1 .. Len(kids[dir]) : kids[dir][i] \in Nodes
    BY <1>2, KidFacts
  <2> QED
    BY <2>2, <2>3
<1>5. MayJoin(node, allocated, kids, dir, n, name, isFolder)
  BY <1>1, <1>2, <1>4 DEF MayJoin
<1> QED
  BY <1>1, <1>3, <1>5

\* mkdir and create.
LEMMA CreateRefines ==
  ASSUME TreeInv, VfsInv', NEW name \in Names, NEW isFolder \in BOOLEAN, create(name, isFolder)
  PROVE  /\ TreeInv' /\ Cwd \in DOMAIN Listing(node, allocated)
         /\ isFolder => Tree!MakeDirectory(name)
         /\ ~isFolder => Tree!CreateFile(name)
<1> PICK dir : dir = currentDirectory
  OBVIOUS
<1> PICK kids : kids = Kids(node)
  OBVIOUS
<1> PICK used : used = allocated
  OBVIOUS
<1> PICK nodes : nodes = node
  OBVIOUS
<1> PICK new : new = node'
  OBVIOUS
<1> PICK disk : disk = diskMemory
  OBVIOUS
<1>1. Running /\ Standing
  BY InvStands DEF create, Prompt, Running, TreeInv
<1>2. PICK f : /\ Pictured(nodes, used, kids, f)
               /\ Cwd = f[dir] /\ Cwd \in DOMAIN Listing(nodes, used)
  BY <1>1, TreeStands
<1>3. PICK n \in Nodes \ used :
        /\ allocated' = used \cup {n} /\ new = AddedTo(nodes, kids[dir], dir, n, name, isFolder)
        /\ MayJoin(nodes, used, kids, dir, n, name, isFolder)
  BY <1>1, CreateFinds
<1>4. /\ state' = state /\ currentDirectory' = dir /\ freeBlockList' = freeBlockList
      /\ diskMemory' = disk
  BY DEF create
<1> PICK l : l = Listing(nodes, used)
  OBVIOUS
<1> PICK c : c = Content(nodes, used, disk)
  OBVIOUS
<1> PICK k : k = Listing(new, used \cup {n})
  OBVIOUS
<1> PICK e : e = Content(new, used \cup {n}, disk)
  OBVIOUS
<1> PICK p : p = f[dir]
  OBVIOUS
<1>5. /\ Grown(l, c, k, e, p, Append(p, name), name, isFolder)
      /\ PathsKept(new, used, n, f)
      /\ new[n].block = NULL /\ \A m \in used : new[m].block = nodes[m].block
  <2>1. TreeGrown(nodes, used, f, dir, n, name, isFolder, new, disk)
    BY ONLY <1>2, <1>3, TreeGrows
  <2> QED
    BY <2>1 DEF TreeGrown
<1>6. PICK g : /\ Spelled(new, used \cup {n}, g)
               /\ \A m \in used : g[m] = f[m] /\ Path(m, new, used \cup {n}) = f[m]
  BY <1>5 DEF PathsKept
<1>7. /\ Listing(node, allocated) = l /\ Content(node, allocated, diskMemory) = c /\ Cwd = p
      /\ Listing(node, allocated)' = k /\ Content(node, allocated, diskMemory)' = e /\ Cwd' = p
  <2>1. dir \in used
    BY <1>1 DEF Standing
  <2>2. Path(currentDirectory, node, allocated)' = p
    BY <1>3, <1>4, <1>6, <2>1
  <2>3. Cwd' = p
    BY <1>1, <1>4, <2>2 DEF Cwd, Running
  <2> QED
    BY <1>2, <1>3, <1>4, <2>3
<1>8. Filled(node', allocated', diskMemory')
  <2>1. Filled(nodes, used, disk)
    BY <1>1 DEF TreeInv
  <2> QED
    BY <1>3, <1>4, <1>5, <2>1 DEF Filled
<1>9. TreeInv'
  BY <1>3, <1>6, <1>8 DEF TreeInv
<1>10. /\ ~Tree!Exists(name) /\ Tree!Here(name) = Append(p, name)
  BY <1>5, <1>7 DEF Tree!Exists, Tree!Here, Cwd, Grown
<1>11. ASSUME isFolder PROVE Tree!MakeDirectory(name)
  <2>1. k = OneMoreListed(l, Append(p, name), <<>>, p, Append(l[p], name)) /\ e = c
    BY <1>5, <1>11 DEF Grown
  <2> PICK q : q = Append(p, name)
    OBVIOUS
  <2>2. Tree!Here(name) = q /\ ~Tree!Exists(name)
    BY <1>10
  <2>3. k = [r \in DOMAIN l \cup {q} |->
               IF r = q THEN <<>> ELSE IF r = p THEN Append(l[p], name) ELSE l[r]]
    BY <2>1 DEF OneMoreListed
  <2>4. Listing(node, allocated)' =
          [r \in DOMAIN Listing(node, allocated) \cup {Tree!Here(name)} |->
             IF r = Tree!Here(name) THEN <<>>
             ELSE IF r = Cwd THEN Append(Listing(node, allocated)[Cwd], name)
             ELSE Listing(node, allocated)[r]]
    BY ONLY <1>7, <2>2, <2>3
  <2>5. Listing(node, allocated)' =
          [r \in DOMAIN Listing(node, allocated) \cup {Tree!Here(name)} |->
             IF r = Tree!Here(name) THEN <<>>
             ELSE Tree!Entries(Append(Listing(node, allocated)[Cwd], name), r)]
    BY <2>4 DEF Tree!Entries, Cwd
  <2>6. /\ Content(node, allocated, diskMemory)' = Content(node, allocated, diskMemory)
        /\ Cwd' = Cwd /\ Len(freeBlockList)' = Len(freeBlockList)
    BY <1>4, <1>7, <2>1
  <2> QED
    BY <2>2, <2>5, <2>6 DEF Tree!MakeDirectory, Cwd
<1>12. ASSUME ~isFolder PROVE Tree!CreateFile(name)
  <2>1. k = [l EXCEPT ![p] = Append(l[p], name)] /\ e = OneMore(c, Append(p, name), NoData)
    BY <1>5, <1>12 DEF Grown
  <2> QED
    BY <1>4, <1>7, <1>10, <2>1 DEF Tree!CreateFile, OneMore, Cwd
<1> QED
  BY <1>2, <1>9, <1>11, <1>12

\* What rmdir and delete find.
Found(name, isFolder) ==
  \E n : \E i \in 1 .. Len(Kids(node)[currentDirectory]) :
    /\ MayLeave(node, allocated, Kids(node), currentDirectory, i, n)
    /\ node' = DroppedFrom(node, Kids(node)[currentDirectory], currentDirectory, i)
    /\ allocated' = allocated \ {n} /\ node[n].name = name /\ node[n].isFolder = isFolder
    /\ isFolder => freeBlockList' = freeBlockList
    /\ ~isFolder => freeBlockList' \in releaseFileBlocks(n)
\* rmdir finds an empty directory.
LEMMA RemoveFinds ==
  ASSUME Standing, NEW name \in Names, removeDirectory(name)
  PROVE  Found(name, TRUE)
<1> PICK kids : kids = Kids(node)
  OBVIOUS
<1> PICK dir : dir = currentDirectory
  OBVIOUS
<1> PICK n : n = Find(name, Nodes)
  OBVIOUS
<1>1. /\ n # NULL /\ node[n].isFolder /\ node[n].firstChild = NULL
      /\ node' = Unlinked(n) /\ allocated' = allocated \ {n} /\ freeBlockList' = freeBlockList
  BY DEF removeDirectory
<1>2. PICK i \in 1 .. Len(kids[dir]) : n = kids[dir][i] /\ node[n].name = name
  BY <1>1, FindFinds
<1>3. /\ node \in [Nodes -> NodeRecords] /\ Structure(node, allocated, kids)
      /\ dir \in allocated /\ node[dir].isFolder /\ dir \in Nodes
  BY DEF Standing, Structure
<1>4. n \in Nodes
  BY <1>2, <1>3, KidFacts
<1>5. Len(kids[n]) = 0
  <2>1. /\ Len(kids[n]) \in Nat /\ \A j \in 1 .. Len(kids[n]) : kids[n][j] # NULL
        /\ node[n].firstChild = IF Len(kids[n]) = 0 THEN NULL ELSE kids[n][1]
    BY <1>3, <1>4, KidFacts
  <2>2. Len(kids[n]) # 0 => 1 \in 1 .. Len(kids[n])
    BY <2>1
  <2> QED
    BY <1>1, <2>1, <2>2
<1>6. MayLeave(node, allocated, kids, dir, i, n)
  BY <1>2, <1>3, <1>5 DEF MayLeave
<1>7. node' = DroppedFrom(node, kids[dir], dir, i)
  BY <1>1, <1>2, UnlinkedIs
<1>8. node[n].isFolder = TRUE
  BY <1>1, <1>3, <1>4 DEF NodeRecords
<1> QED
  BY <1>1, <1>2, <1>6, <1>7, <1>8 DEF Found
\* delete finds a file.
LEMMA DeleteFinds ==
  ASSUME Standing, NEW name \in Names, deleteFileByName(name)
  PROVE  Found(name, FALSE)
<1> PICK kids : kids = Kids(node)
  OBVIOUS
<1> PICK dir : dir = currentDirectory
  OBVIOUS
<1> PICK n : n = Find(name, FileNodes)
  OBVIOUS
<1>1. /\ n # NULL /\ node' = Unlinked(n) /\ allocated' = allocated \ {n}
      /\ freeBlockList' \in releaseFileBlocks(n)
  BY DEF deleteFileByName
<1>2. PICK i \in 1 .. Len(kids[dir]) : n = kids[dir][i] /\ node[n].name = name /\ n \in FileNodes
  BY <1>1, FindFinds
<1>3. /\ node \in [Nodes -> NodeRecords] /\ Structure(node, allocated, kids)
      /\ dir \in allocated /\ node[dir].isFolder /\ dir \in Nodes
  BY DEF Standing, Structure
<1>4. n \in Nodes /\ ~node[n].isFolder
  BY <1>2 DEF FileNodes
<1>5. Len(kids[n]) = 0
  BY <1>3, <1>4 DEF Structure, Families
<1>6. MayLeave(node, allocated, kids, dir, i, n)
  BY <1>2, <1>3, <1>5 DEF MayLeave
<1>7. node' = DroppedFrom(node, kids[dir], dir, i)
  BY <1>1, <1>2, UnlinkedIs
<1>8. node[n].isFolder = FALSE
  BY <1>3, <1>4 DEF NodeRecords
<1> QED
  BY <1>1, <1>2, <1>6, <1>7, <1>8 DEF Found

\* How many blocks are free when a file has given its block back.
RoomAfter(text, room) ==
  IF text = NoData THEN {room} ELSE {room + 1} \cup IF MallocMayFail THEN {room} ELSE {}
\* A file that has a block gives it back, one that has none gives nothing.
LEMMA RoomIs ==
  ASSUME NEW nodes, NEW used, NEW free, Owned(nodes, used, free), NEW disk, Filled(nodes, used, disk),
         NEW n \in used, nodes[n].block \in Blocks \cup {NULL},
         NEW list \in GivenBack(nodes[n].block, free)
  PROVE  list \in Seq(Blocks) /\ Len(list) \in RoomAfter(ReadFrom(nodes[n].block, disk), Len(free))
<1>1. free \in Seq(Blocks)
  BY DEF Owned
<1> PICK b : b = nodes[n].block
  OBVIOUS
<1>2. CASE b = NULL
  BY <1>1, <1>2 DEF GivenBack, RoomAfter, ReadFrom
<1>3. CASE b # NULL
  <2>1. b \in Blocks /\ disk[b] # NoData
    BY <1>3 DEF Filled
  <2>2. list = <<b>> \o free \/ (MallocMayFail /\ list = free)
    BY <1>3 DEF GivenBack
  <2>3. <<b>> \o free \in Seq(Blocks) /\ Len(<<b>> \o free) = Len(free) + 1
    BY <1>1, <2>1
  <2>4. ReadFrom(nodes[n].block, disk) # NoData
    BY <1>3, <2>1 DEF ReadFrom
  <2> QED
    BY <1>1, <2>2, <2>3, <2>4 DEF RoomAfter
<1> QED
  BY <1>2, <1>3

\* The name goes from where it stands.
LEMMA WithoutIs ==
  ASSUME NEW s, NEW i \in DOMAIN s, NEW name, \A j \in DOMAIN s : s[j] = name <=> j = i
  PROVE  Tree!Without(s, name) = RemoveAt(s, i)
<1>1. (CHOOSE j \in DOMAIN s : s[j] = name) = i
  OBVIOUS
<1> QED
  BY <1>1 DEF Tree!Without, Tree!RemoveAt, RemoveAt

\* rmdir and delete.
LEMMA LeavingRefines ==
  ASSUME TreeInv, Running, VfsInv', NEW name \in Names, NEW isFolder \in BOOLEAN,
         Found(name, isFolder), UNCHANGED <<state, currentDirectory, diskMemory>>
  PROVE  /\ TreeInv' /\ Cwd \in DOMAIN Listing(node, allocated)
         /\ isFolder => Tree!RemoveDirectory(name)
         /\ ~isFolder => Tree!DeleteFile(name)
<1> PICK dir : dir = currentDirectory
  OBVIOUS
<1> PICK kids : kids = Kids(node)
  OBVIOUS
<1> PICK used : used = allocated
  OBVIOUS
<1> PICK nodes : nodes = node
  OBVIOUS
<1> PICK new : new = node'
  OBVIOUS
<1> PICK disk : disk = diskMemory
  OBVIOUS
<1>1. Standing /\ Filled(nodes, used, disk)
  BY InvStands DEF TreeInv
<1>2. PICK f : /\ Pictured(nodes, used, kids, f)
               /\ Cwd = f[dir] /\ Cwd \in DOMAIN Listing(nodes, used)
  BY TreeStands
<1>3. PICK n : \E i \in 1 .. Len(kids[dir]) :
        /\ MayLeave(nodes, used, kids, dir, i, n) /\ new = DroppedFrom(nodes, kids[dir], dir, i)
        /\ allocated' = used \ {n} /\ nodes[n].name = name /\ nodes[n].isFolder = isFolder
        /\ isFolder => freeBlockList' = freeBlockList
        /\ ~isFolder => freeBlockList' \in releaseFileBlocks(n)
  BY DEF Found
<1>4. PICK i \in 1 .. Len(kids[dir]) :
        MayLeave(nodes, used, kids, dir, i, n) /\ new = DroppedFrom(nodes, kids[dir], dir, i)
  BY <1>3
<1>5. TreeShrunk(nodes, used, f, dir, i, n, new, disk)
  BY ONLY <1>2, <1>4, TreeShrinks
<1> PICK l : l = Listing(nodes, used)
  OBVIOUS
<1> PICK c : c = Content(nodes, used, disk)
  OBVIOUS
<1> PICK k : k = Listing(new, used \ {n})
  OBVIOUS
<1> PICK e : e = Content(new, used \ {n}, disk)
  OBVIOUS
<1> PICK p : p = f[dir]
  OBVIOUS
<1> PICK q : q = f[n]
  OBVIOUS
<1>6. /\ Shrunk(l, c, k, e, p, q, i, name, isFolder)
      /\ q = Append(p, name) /\ n \in used /\ n # dir
      /\ ~isFolder => c[q] = ReadFrom(nodes[n].block, disk)
      /\ PathsStay(new, used, n, f)
      /\ \A m \in used \ {n} : new[m].block = nodes[m].block
  BY <1>3, <1>5 DEF TreeShrunk
<1>7. PICK g : /\ Spelled(new, used \ {n}, g)
               /\ \A m \in used \ {n} : Path(m, new, used \ {n}) = f[m]
  BY <1>6 DEF PathsStay
<1>8. /\ Listing(node, allocated) = l /\ Content(node, allocated, diskMemory) = c /\ Cwd = p
      /\ Listing(node, allocated)' = k /\ Content(node, allocated, diskMemory)' = e /\ Cwd' = p
  <2>1. dir \in used \ {n}
    BY <1>1, <1>6 DEF Standing
  <2>2. Path(currentDirectory, node, allocated)' = p
    BY <1>3, <1>7, <2>1
  <2>3. Cwd' = p
    BY <2>2 DEF Cwd, Running
  <2> QED
    BY <1>2, <1>3, <2>3
<1>9. Filled(node', allocated', diskMemory')
  BY <1>1, <1>3, <1>6 DEF Filled
<1>10. TreeInv'
  BY <1>3, <1>7, <1>9 DEF TreeInv
<1>11. Tree!Here(name) = q
  BY <1>6, <1>8 DEF Tree!Here, Cwd
<1>12. /\ i \in DOMAIN l[p] /\ \A j \in DOMAIN l[p] : l[p][j] = name <=> j = i
       /\ isFolder => /\ q \in DOMAIN l /\ l[q] = <<>>
                      /\ k = OneLessListed(l, q, p, RemoveAt(l[p], i)) /\ e = c
       /\ ~isFolder => /\ q \in DOMAIN c
                       /\ k = [l EXCEPT ![p] = RemoveAt(l[p], i)] /\ e = OneLess(c, q)
  BY <1>6 DEF Shrunk
<1>13. Tree!Without(l[p], name) = RemoveAt(l[p], i)
  BY <1>12, WithoutIs
<1>14. ASSUME isFolder PROVE Tree!RemoveDirectory(name)
  <2>1. k = [r \in DOMAIN l \ {q} |-> IF r = p THEN Tree!Without(l[p], name) ELSE l[r]]
    BY <1>12, <1>13, <1>14 DEF OneLessListed
  <2>2. Listing(node, allocated)' =
          [r \in DOMAIN Listing(node, allocated) \ {Tree!Here(name)} |->
             IF r = Cwd THEN Tree!Without(Listing(node, allocated)[Cwd], name)
             ELSE Listing(node, allocated)[r]]
    BY ONLY <1>8, <1>11, <2>1
  <2>3. Listing(node, allocated)' =
          [r \in DOMAIN Listing(node, allocated) \ {Tree!Here(name)} |->
             Tree!Entries(Tree!Without(Listing(node, allocated)[Cwd], name), r)]
    BY <2>2 DEF Tree!Entries, Cwd
  <2>4. /\ Tree!Here(name) \in DOMAIN Listing(node, allocated)
        /\ Listing(node, allocated)[Tree!Here(name)] = <<>>
    BY <1>8, <1>11, <1>12, <1>14
  <2>5. /\ Content(node, allocated, diskMemory)' = Content(node, allocated, diskMemory)
        /\ Cwd' = Cwd /\ Len(freeBlockList)' = Len(freeBlockList)
    BY <1>3, <1>8, <1>12, <1>14
  <2> QED
    BY <2>3, <2>4, <2>5 DEF Tree!RemoveDirectory, Cwd
<1>15. ASSUME ~isFolder PROVE Tree!DeleteFile(name)
  <2>1. Len(freeBlockList') \in RoomAfter(c[q], Len(freeBlockList))
    <3>1. Owned(nodes, used, freeBlockList) /\ nodes[n].block \in Blocks \cup {NULL}
      BY <1>1, <1>6 DEF Standing, Structure, NodeRecords
    <3>2. freeBlockList' \in GivenBack(nodes[n].block, freeBlockList)
      BY <1>3, <1>15, GivenBackIs
    <3>3. Len(freeBlockList') \in RoomAfter(ReadFrom(nodes[n].block, disk), Len(freeBlockList))
      BY ONLY <1>1, <1>6, <3>1, <3>2, RoomIs
    <3> QED
      BY <1>6, <1>15, <3>3
  <2>2. Len(freeBlockList)' \in Tree!Released(Tree!Here(name))
    BY <1>8, <1>11, <2>1 DEF Tree!Released, RoomAfter
  <2>3. Listing(node, allocated)' =
          [Listing(node, allocated) EXCEPT ![Cwd] = Tree!Without(Listing(node, allocated)[Cwd], name)]
    BY <1>8, <1>12, <1>13, <1>15
  <2>4. Content(node, allocated, diskMemory)' =
          [r \in DOMAIN Content(node, allocated, diskMemory) \ {Tree!Here(name)} |->
             Content(node, allocated, diskMemory)[r]]
    BY <1>8, <1>11, <1>12, <1>15 DEF OneLess
  <2>5. Tree!Here(name) \in DOMAIN Content(node, allocated, diskMemory) /\ Cwd' = Cwd
    BY <1>8, <1>11, <1>12, <1>15
  <2> QED
    BY <2>2, <2>3, <2>4, <2>5 DEF Tree!DeleteFile, Cwd
<1> QED
  BY <1>2, <1>10, <1>14, <1>15
-----------------------------------------------------------------------------
(* write.                                                                  *)

\* The tree in which n holds text.
Rewritten(nodes, used, f, n, text, new, disk, after) ==
  /\ Listing(new, used) = Listing(nodes, used)
  /\ f[n] \in DOMAIN Content(nodes, used, disk)
  /\ Content(nodes, used, disk)[f[n]] = ReadFrom(nodes[n].block, disk)
  /\ Content(new, used, after) = [Content(nodes, used, disk) EXCEPT ![f[n]] = text]
  /\ Spelled(new, used, f) /\ \A m \in used : Path(m, new, used) = f[m]

\* The other files read what they did.
ReadSame(nodes, used, n, text, new, disk, after) ==
  /\ ReadFrom(new[n].block, after) = text
  /\ \A m \in used : m # n => ReadFrom(new[m].block, after) = ReadFrom(nodes[m].block, disk)
\* The mapping of a tree of which one file has changed.
LEMMA TreeRewrites ==
  ASSUME NEW nodes, NEW used, NEW kids, NEW f, Pictured(nodes, used, kids, f),
         NEW n, n \in used, ~nodes[n].isFolder,
         NEW block, NEW new, OtherBlock(nodes, n, block, new), Structure(new, used, kids),
         NEW text, NEW disk, NEW after, ReadSame(nodes, used, n, text, new, disk, after)
  PROVE  Rewritten(nodes, used, f, n, text, new, disk, after)
<1>1. /\ nodes \in [Nodes -> NodeRecords] /\ Structure(nodes, used, kids)
      /\ kids = [d \in Nodes |-> kids[d]] /\ Spelled(nodes, used, f) /\ used \subseteq Nodes
  BY DEF Pictured, Structure
<1>2. /\ new \in [Nodes -> NodeRecords]
      /\ \A x \in Nodes : /\ new[x].name = nodes[x].name /\ new[x].isFolder = nodes[x].isFolder
                          /\ new[x].parent = nodes[x].parent
  BY DEF OtherBlock
<1>3. Spelled(new, used, f)
  BY <1>1, <1>2 DEF Spelled
<1>4. \A m \in used : Path(m, new, used) = f[m]
  BY ONLY <1>1, <1>2, <1>3, Structure(new, used, kids), PathIs
<1> PICK F : F = Folders(nodes, used)
  OBVIOUS
<1> PICK H : H = Files(nodes, used)
  OBVIOUS
<1>5. /\ Folders(new, used) = F /\ Files(new, used) = H /\ n \in H /\ F \subseteq used /\ H \subseteq used
  BY <1>1, <1>2 DEF Folders, Files
<1> PICK v : v = NamesIn(nodes, used, kids)
  OBVIOUS
<1> PICK w : w = NamesIn(new, used, kids)
  OBVIOUS
<1> PICK r : r = TextsIn(nodes, used, disk)
  OBVIOUS
<1> PICK s : s = TextsIn(new, used, after)
  OBVIOUS
<1> PICK l : l = Listing(nodes, used)
  OBVIOUS
<1> PICK c : c = Content(nodes, used, disk)
  OBVIOUS
<1> PICK k : k = Listing(new, used)
  OBVIOUS
<1> PICK e : e = Content(new, used, after)
  OBVIOUS
<1>6. Values(l, F, f, v) /\ Values(c, H, f, r) /\ Values(k, F, f, w) /\ Values(e, H, f, s)
  <2>1. Lists(l, nodes, used, kids, f)
    BY <1>1, ListingIs
  <2>2. Stores(c, nodes, used, f, disk)
    BY <1>1, ContentIs
  <2>3. /\ new \in [Nodes -> NodeRecords] /\ Structure(new, used, kids)
        /\ kids = [d \in Nodes |-> kids[d]] /\ Spelled(new, used, f)
    BY <1>1, <1>2, <1>3
  <2>4. Lists(Listing(new, used), new, used, kids, f)
    BY ONLY <2>3, ListingIs
  <2>5. Stores(Content(new, used, after), new, used, f, after)
    BY ONLY <2>3, ContentIs
  <2> QED
    BY <1>5, <2>1, <2>2, <2>4, <2>5 DEF Lists, Stores
<1>7. k = l
  <2>1. \A m \in F : NamesOf(kids[m], new) = NamesOf(kids[m], nodes)
    <3> SUFFICES ASSUME NEW m \in F PROVE NamesOf(kids[m], new) = NamesOf(kids[m], nodes)
      OBVIOUS
    <3>1. \A i \in DOMAIN kids[m] : kids[m][i] \in Nodes
      BY <1>1, <1>5, KidFacts
    <3>2. \A i \in DOMAIN kids[m] : new[kids[m][i]].name = nodes[kids[m][i]].name
      BY <1>2, <3>1
    <3> QED
      BY <3>2 DEF NamesOf
  <2>2. \A m \in F : f[m] = f[m] /\ w[m] = v[m]
    BY <1>5, <2>1 DEF NamesIn
  <2> QED
    BY ONLY <1>6, <2>2, ValuesSame
<1>8. e = [c EXCEPT ![f[n]] = text] /\ f[n] \in DOMAIN c /\ c[f[n]] = ReadFrom(nodes[n].block, disk)
  <2>1. /\ \A m \in H : s[m] = ReadFrom(new[m].block, after)
        /\ \A m \in H : r[m] = ReadFrom(nodes[m].block, disk)
    BY <1>5 DEF TextsIn
  <2>2. s[n] = text /\ \A m \in H : m # n => s[m] = r[m]
    BY <1>5, <2>1 DEF ReadSame
  <2>3. \A x, y \in used : f[x] = f[y] => x = y
    BY <1>1, PathsDiffer
  <2>4. /\ n \in H /\ \A m \in H : f[m] = f[m]
        /\ \A m \in H : m # n => f[m] # f[n] /\ s[m] = r[m]
    BY <1>5, <2>2, <2>3
  <2>5. e = [c EXCEPT ![f[n]] = s[n]]
    BY ONLY <1>6, <2>4, ValuesSet
  <2>6. f[n] \in DOMAIN c /\ c[f[n]] = r[n]
    BY <1>5, <1>6 DEF Values
  <2> QED
    BY <1>5, <2>1, <2>2, <2>5, <2>6
<1> QED
  BY <1>3, <1>4, <1>7, <1>8 DEF Rewritten

\* What write does to the node of the file, the free list and the disk.
Writes(n, name, text, list) ==
  /\ n \in allocated /\ n # root /\ ~node[n].isFolder /\ node[n].name = name
  /\ node[n].parent = currentDirectory
  /\ list \in GivenBack(node[n].block, freeBlockList)
  /\ IF text = NoData \/ list = <<>>
     THEN /\ node' = [node EXCEPT ![n].block = NULL] /\ freeBlockList' = list
          /\ diskMemory' = diskMemory
     ELSE /\ node' = [node EXCEPT ![n].block = Head(list)] /\ freeBlockList' = Tail(list)
          /\ diskMemory' = [diskMemory EXCEPT ![Head(list)] = text]
\* write finds a file.
LEMMA WriteFinds ==
  ASSUME Standing, NEW name \in Names, NEW text \in Texts \cup {NoData}, writeFile(name, text)
  PROVE  \E n, list : Writes(n, name, text, list)
<1> PICK n : n = Find(name, Nodes)
  OBVIOUS
<1>1. /\ n # NULL /\ ~node[n].isFolder
      /\ \E list \in releaseFileBlocks(n) :
           IF text = NoData \/ list = <<>>
           THEN /\ node' = [node EXCEPT ![n].block = NULL]
                /\ freeBlockList' = list
                /\ UNCHANGED diskMemory
           ELSE /\ node' = [node EXCEPT ![n].block = Head(list)]
                /\ freeBlockList' = Tail(list)
                /\ diskMemory' = [diskMemory EXCEPT ![Head(list)] = text]
  BY DEF writeFile
<1>2. PICK i \in 1 .. Len(Kids(node)[currentDirectory]) :
        n = Kids(node)[currentDirectory][i] /\ node[n].name = name
  BY <1>1, FindFinds
<1>3. n \in allocated /\ n # root /\ node[n].parent = currentDirectory
  <2>1. Structure(node, allocated, Kids(node)) /\ currentDirectory \in Nodes
    BY DEF Standing, Structure
  <2> QED
    BY <1>2, <2>1, KidFacts
<1> QED
  BY <1>1, <1>2, <1>3, GivenBackIs DEF Writes

\* write.
LEMMA WriteRefines ==
  ASSUME TreeInv, VfsInv', NEW name \in Names, NEW text \in Texts \cup {NoData}, writeFile(name, text)
  PROVE  TreeInv' /\ Cwd \in DOMAIN Listing(node, allocated) /\ Tree!Write(name, text)
<1> PICK dir : dir = currentDirectory
  OBVIOUS
<1> PICK kids : kids = Kids(node)
  OBVIOUS
<1> PICK used : used = allocated
  OBVIOUS
<1> PICK nodes : nodes = node
  OBVIOUS
<1> PICK new : new = node'
  OBVIOUS
<1> PICK disk : disk = diskMemory
  OBVIOUS
<1> PICK after : after = diskMemory'
  OBVIOUS
<1>1. /\ Running /\ Standing /\ Filled(nodes, used, disk)
      /\ disk \in [Blocks -> Texts \cup {NoData}]
  BY InvStands DEF writeFile, Prompt, Running, TreeInv, VfsInv, VfsTypeOK
<1>2. PICK f : /\ Pictured(nodes, used, kids, f)
               /\ Cwd = f[dir] /\ Cwd \in DOMAIN Listing(nodes, used)
  BY <1>1, TreeStands
<1>3. PICK n, list : Writes(n, name, text, list)
  BY <1>1, WriteFinds
<1>4. state' = state /\ allocated' = used /\ currentDirectory' = dir
  BY DEF writeFile
<1>5. /\ n \in used /\ n # root /\ ~nodes[n].isFolder /\ nodes[n].name = name
      /\ nodes[n].parent = dir /\ nodes[n].block \in Blocks \cup {NULL} /\ used \subseteq Nodes
      /\ dir \in used
  BY <1>1, <1>3 DEF Writes, Standing, Structure, NodeRecords
<1>6. /\ list \in Seq(Blocks)
      /\ Len(list) \in RoomAfter(ReadFrom(nodes[n].block, disk), Len(freeBlockList))
  <2>1. Owned(nodes, used, freeBlockList) /\ list \in GivenBack(nodes[n].block, freeBlockList)
    BY <1>1, <1>3 DEF Writes, Standing
  <2> QED
    BY ONLY <1>1, <1>5, <2>1, RoomIs
<1> DEFINE none == text = NoData \/ list = <<>>
<1> PICK block : block = IF none THEN NULL ELSE Head(list)
  OBVIOUS
<1> PICK kept : kept = IF none THEN NoData ELSE text
  OBVIOUS
<1>7. /\ new = [nodes EXCEPT ![n].block = block] /\ block \in Blocks \cup {NULL}
      /\ none => block = NULL /\ kept = NoData /\ after = disk /\ freeBlockList' = list
      /\ ~none => /\ block \in Blocks /\ kept = text /\ text # NoData
                  /\ after = [disk EXCEPT ![block] = text] /\ freeBlockList' = Tail(list)
                  /\ list # <<>>
  <2>1. CASE none
    <3>1. block = NULL /\ kept = NoData
      BY <2>1
    <3> QED
      BY <1>3, <2>1, <3>1 DEF Writes
  <2>2. CASE ~none
    <3>1. block = Head(list) /\ kept = text /\ text # NoData /\ list # <<>>
      BY <2>2
    <3>2. Head(list) \in Blocks
      BY <1>6, <3>1
    <3> QED
      BY <1>3, <2>2, <3>1, <3>2 DEF Writes
  <2> QED
    BY <2>1, <2>2
<1>8. OtherBlock(nodes, n, block, new) /\ Structure(new, used, kids)
  BY <1>1, <1>5, <1>7, BlockSet
<1>9. new[n].block = block /\ \A m \in used : m # n => new[m].block = nodes[m].block
  BY <1>5, <1>8 DEF OtherBlock
<1>10. ASSUME NEW m \in used, m # n
       PROVE  ReadFrom(new[m].block, after) = ReadFrom(nodes[m].block, disk)
  <2>1. CASE none
    BY <1>7, <1>9, <1>10, <2>1
  <2>2. CASE ~none
    <3>1. new[m].block # block
      <4>1. Owned(new, used, freeBlockList')
        BY <1>1, <1>4 DEF VfsInv, Running
      <4>2. block # NULL
        BY <1>7, <2>2, FileSystemAssumption
      <4> QED
        BY <1>5, <1>9, <1>10, <4>1, <4>2 DEF Owned
    <3>2. nodes[m].block \in Blocks \cup {NULL}
      BY <1>1, <1>5 DEF Standing, NodeRecords
    <3> QED
      BY <1>1, <1>7, <1>9, <1>10, <2>2, <3>1, <3>2 DEF ReadFrom
  <2> QED
    BY <2>1, <2>2
<1>11. ReadFrom(new[n].block, after) = kept
  <2>1. CASE none
    BY <1>7, <1>9, <2>1 DEF ReadFrom
  <2>2. CASE ~none
    BY <1>1, <1>7, <1>9, <2>2, FileSystemAssumption DEF ReadFrom
  <2> QED
    BY <2>1, <2>2
<1>12. ReadSame(nodes, used, n, kept, new, disk, after)
  BY <1>10, <1>11 DEF ReadSame
<1>13. Rewritten(nodes, used, f, n, kept, new, disk, after)
  BY ONLY <1>2, <1>5, <1>8, <1>12, TreeRewrites
<1> PICK l : l = Listing(nodes, used)
  OBVIOUS
<1> PICK c : c = Content(nodes, used, disk)
  OBVIOUS
<1> PICK q : q = f[n]
  OBVIOUS
<1>14. /\ Listing(new, used) = l /\ Content(new, used, after) = [c EXCEPT ![q] = kept]
       /\ q \in DOMAIN c /\ c[q] = ReadFrom(nodes[n].block, disk)
       /\ Spelled(new, used, f) /\ \A m \in used : Path(m, new, used) = f[m]
  BY <1>13 DEF Rewritten
<1>15. q = Append(f[dir], name)
  BY <1>2, <1>5 DEF Pictured, Spelled
<1>16. /\ Listing(node, allocated) = l /\ Content(node, allocated, diskMemory) = c /\ Cwd = f[dir]
       /\ Listing(node, allocated)' = l /\ Cwd' = f[dir]
       /\ Content(node, allocated, diskMemory)' = [c EXCEPT ![q] = kept]
  <2>1. Path(currentDirectory, node, allocated)' = f[dir]
    BY <1>4, <1>5, <1>14
  <2>2. Cwd' = f[dir]
    BY <1>1, <1>4, <2>1 DEF Cwd, Running
  <2> QED
    BY <1>2, <1>4, <1>14, <2>2
<1>17. Filled(node', allocated', diskMemory')
  <2> SUFFICES ASSUME NEW m \in used, new[m].block # NULL PROVE after[new[m].block] # NoData
    BY <1>4 DEF Filled
  <2>1. CASE m = n
    BY <1>7, <1>9, <1>11, <2>1 DEF ReadFrom
  <2>2. CASE m # n
    <3>1. nodes[m].block # NULL /\ disk[nodes[m].block] # NoData
      BY <1>1, <1>9, <2>2 DEF Filled
    <3> QED
      BY <1>9, <1>10, <2>2, <3>1 DEF ReadFrom
  <2> QED
    BY <2>1, <2>2
<1>18. TreeInv'
  BY <1>4, <1>14, <1>17 DEF TreeInv
<1>19. Tree!Here(name) = q
  BY <1>15, <1>16 DEF Tree!Here, Cwd
<1>20. Len(list) \in Tree!Released(q)
  BY <1>6, <1>14, <1>16 DEF Tree!Released, RoomAfter
<1>21. IF text # NoData /\ Len(list) > 0
       THEN /\ Content(node, allocated, diskMemory)' =
                 [Content(node, allocated, diskMemory) EXCEPT ![q] = text]
            /\ Len(freeBlockList)' = Len(list) - 1
       ELSE /\ Content(node, allocated, diskMemory)' =
                 [Content(node, allocated, diskMemory) EXCEPT ![q] = NoData]
            /\ Len(freeBlockList)' = Len(list)
  <2>1. CASE none
    <3>1. ~(text # NoData /\ Len(list) > 0)
      <4>1. text = NoData \/ list = <<>>
        BY <2>1
      <4>2. Len(<<>>) = 0
        OBVIOUS
      <4> QED
        BY ONLY <4>1, <4>2
    <3> QED
      BY <1>7, <1>16, <2>1, <3>1
  <2>2. CASE ~none
    <3>1. text # NoData /\ Len(list) > 0 /\ Len(Tail(list)) = Len(list) - 1
      BY <1>6, <1>7, <2>2
    <3> QED
      BY <1>7, <1>16, <2>2, <3>1
  <2> QED
    BY <2>1, <2>2
<1>22. Tree!Write(name, text)
  <2>1. Tree!Here(name) \in DOMAIN Content(node, allocated, diskMemory)
    BY <1>14, <1>16, <1>19
  <2>2. Listing(node, allocated)' = Listing(node, allocated) /\ Cwd' = Cwd
    BY <1>16
  <2> QED
    BY <1>19, <1>20, <1>21, <2>1, <2>2 DEF Tree!Write, Cwd
<1> QED
  BY <1>2, <1>18, <1>22
-----------------------------------------------------------------------------
(* cd, exit and the start.                                                 *)

\* The path of the directory above.
LEMMA FrontIs ==
  ASSUME NEW s \in Strings, NEW e \in Names \cup {NULL}
  PROVE  Tree!Front(Append(s, e)) = s
<1>1. s \in Seq(Names \cup {NULL})
  BY DEF Strings
<1> PICK b : b = Append(s, e)
  OBVIOUS
<1>2. b \in Seq(Names \cup {NULL}) /\ Len(b) = Len(s) + 1 /\ \A i \in 1 .. Len(s) : b[i] = s[i]
  BY <1>1
<1>3. Tree!Front(b) = SubSeq(b, 1, Len(b) - 1)
  BY DEF Tree!Front
<1>4. SubSeq(b, 1, Len(b) - 1) = [i \in 1 .. Len(s) |-> b[i]]
  BY <1>1, <1>2
<1>5. s = [i \in 1 .. Len(s) |-> s[i]]
  BY <1>1
<1> QED
  BY <1>2, <1>3, <1>4, <1>5

\* Going somewhere else changes the current directory only.
LEMMA GoesTo ==
  ASSUME TreeInv, Running, VfsInv', NEW d \in allocated, currentDirectory' = d,
         UNCHANGED <<state, node, allocated, freeBlockList, diskMemory>>
  PROVE  /\ TreeInv' /\ Cwd' = Path(d, node, allocated)
         /\ Listing(node, allocated)' = Listing(node, allocated)
         /\ Content(node, allocated, diskMemory)' = Content(node, allocated, diskMemory)
         /\ Len(freeBlockList)' = Len(freeBlockList)
<1>1. TreeInv'
  BY DEF TreeInv, Running
<1>2. Cwd' = Path(d, node, allocated)
  BY DEF Cwd, Running
<1> QED
  BY <1>1, <1>2

\* cd .. leaves the directory.
LEMMA UpRefines ==
  ASSUME TreeInv, VfsInv', moveToParentDirectory
  PROVE  TreeInv' /\ Tree!Leave
<1> PICK dir : dir = currentDirectory
  OBVIOUS
<1> PICK d : d = node[currentDirectory].parent
  OBVIOUS
<1>1. Running /\ Standing
  BY InvStands DEF moveToParentDirectory, Prompt, Running, TreeInv
<1>2. /\ dir \in allocated /\ dir # root /\ node \in [Nodes -> NodeRecords]
      /\ Structure(node, allocated, Kids(node))
      /\ UNCHANGED <<state, node, allocated, freeBlockList, diskMemory>> /\ currentDirectory' = d
  BY <1>1 DEF Standing, moveToParentDirectory
<1>3. PICK f : Pictured(node, allocated, Kids(node), f) /\ Cwd = f[dir]
  BY <1>1, TreeStands
<1>4. Spelled(node, allocated, f)
  BY <1>3 DEF Pictured
<1>5. /\ d \in allocated /\ f[d] \in Strings /\ node[dir].name \in Names \cup {NULL}
      /\ f[dir] = Append(f[d], node[dir].name) /\ f[dir] # <<>>
  BY <1>2, <1>4, SpelledFacts
<1>6. /\ TreeInv' /\ Cwd' = Path(d, node, allocated)
      /\ Listing(node, allocated)' = Listing(node, allocated)
      /\ Content(node, allocated, diskMemory)' = Content(node, allocated, diskMemory)
      /\ Len(freeBlockList)' = Len(freeBlockList)
  BY <1>1, <1>2, <1>5, GoesTo
<1>7. Path(d, node, allocated) = f[d]
  BY <1>2, <1>4, <1>5, PathIs
<1>8. Tree!Front(Cwd) = f[d]
  BY <1>3, <1>5, FrontIs
<1>9. Cwd' = Tree!Front(Cwd) /\ Cwd # <<>>
  BY <1>3, <1>5, <1>6, <1>7, <1>8
<1> QED
  BY <1>6, <1>9 DEF Tree!Leave, Cwd

\* cd enters a directory, or leaves one.
LEMMA ChangeRefines ==
  ASSUME TreeInv, VfsInv', NEW name \in Names, changeDirectory(name)
  PROVE  /\ TreeInv'
         /\ Tree!Leave \/ (Cwd \in DOMAIN Listing(node, allocated) /\ Tree!Enter(name))
<1>1. CASE moveToParentDirectory
  BY <1>1, UpRefines
<1>2. CASE /\ Prompt /\ Find(name, FolderNodes) # NULL
           /\ currentDirectory' = Find(name, FolderNodes)
           /\ UNCHANGED <<state, node, allocated, rootDirectory, freeBlockList, diskMemory>>
  <2> PICK dir : dir = currentDirectory
    OBVIOUS
  <2> PICK d : d = Find(name, FolderNodes)
    OBVIOUS
  <2>1. Running /\ Standing
    BY <1>2, InvStands DEF Prompt, Running, TreeInv
  <2>2. PICK i \in 1 .. Len(Kids(node)[dir]) :
          d = Kids(node)[dir][i] /\ node[d].name = name /\ d \in FolderNodes
    BY <1>2, <2>1, FindFinds
  <2>3. /\ Structure(node, allocated, Kids(node)) /\ dir \in Nodes /\ dir \in allocated
        /\ node \in [Nodes -> NodeRecords]
    BY <2>1 DEF Standing, Structure
  <2>4. d \in allocated /\ d # root /\ node[d].parent = dir /\ node[d].isFolder
    BY <2>2, <2>3, KidFacts DEF FolderNodes
  <2>5. PICK f : /\ Pictured(node, allocated, Kids(node), f) /\ Cwd = f[dir]
                 /\ Cwd \in DOMAIN Listing(node, allocated)
                 /\ Mapped(Listing(node, allocated), Content(node, allocated, diskMemory),
                           node, allocated, Kids(node), f, diskMemory)
    BY <2>1, TreeStands
  <2>6. Spelled(node, allocated, f)
    BY <2>5 DEF Pictured
  <2>7. f[d] = Append(Cwd, name) /\ Path(d, node, allocated) = f[d]
    <3>1. f[d] = Append(f[dir], name)
      BY <2>2, <2>4, <2>6 DEF Spelled
    <3>2. Path(d, node, allocated) = f[d]
      BY <2>3, <2>4, <2>6, PathIs
    <3> QED
      BY <2>5, <3>1, <3>2
  <2>8. f[d] \in DOMAIN Listing(node, allocated)
    BY <2>4, <2>5, MappedPaths
  <2>9. /\ TreeInv' /\ Cwd' = Path(d, node, allocated)
        /\ Listing(node, allocated)' = Listing(node, allocated)
        /\ Content(node, allocated, diskMemory)' = Content(node, allocated, diskMemory)
        /\ Len(freeBlockList)' = Len(freeBlockList)
    BY <1>2, <2>1, <2>4, GoesTo
  <2>10. Tree!Here(name) = f[d]
    BY <2>7 DEF Tree!Here, Cwd
  <2>11. Tree!Here(name) \in DOMAIN Listing(node, allocated) /\ Cwd' = Tree!Here(name)
    BY <2>7, <2>8, <2>9, <2>10
  <2>12. Tree!Enter(name)
    BY <2>9, <2>11 DEF Tree!Enter, Cwd
  <2> QED
    BY <2>5, <2>9, <2>12
<1> QED
  BY <1>1, <1>2 DEF changeDirectory

\* Nothing in use, nothing listed.
LEMMA NothingMapped ==
  ASSUME NEW nodes, NEW disk
  PROVE  /\ Listing(nodes, {}) = [p \in {} |-> <<>>]
         /\ Content(nodes, {}, disk) = [p \in {} |-> NoData]
<1>1. Folders(nodes, {}) = {} /\ Files(nodes, {}) = {}
  BY DEF Folders, Files
<1>2. /\ { Path(n, nodes, {}) : n \in Folders(nodes, {}) } = {}
      /\ { Path(n, nodes, {}) : n \in Files(nodes, {}) } = {}
  BY <1>1
<1> QED
  BY <1>2 DEF Listing, Content

\* exit.
LEMMA ExitRefines ==
  ASSUME TreeInv, VfsInv', exitVFS
  PROVE  TreeInv' /\ Tree!Exit
<1>1. state' = "ended" /\ freeBlockList' = <<>>
  BY DEF exitVFS
<1>2. ~Running' /\ allocated' = {}
  BY <1>1 DEF Running, VfsInv
<1>3. /\ Listing(node, allocated)' = [p \in {} |-> <<>>]
      /\ Content(node, allocated, diskMemory)' = [p \in {} |-> NoData]
  BY <1>2, NothingMapped
<1>4. Cwd' = <<>> /\ Len(freeBlockList)' = 0
  BY <1>1, <1>2 DEF Cwd
<1> QED
  BY <1>2, <1>3, <1>4 DEF TreeInv, Tree!Exit, Cwd

\* The root is there, and empty.
LEMMA StartRefines == VfsInit => TreeInv /\ Tree!Init
<1> SUFFICES ASSUME VfsInit PROVE TreeInv /\ Tree!Init
  OBVIOUS
<1> PICK f : f = [m \in {root} |-> <<>>]
  OBVIOUS
<1> PICK kids : kids = Kids(node)
  OBVIOUS
<1>1. VfsInv /\ Running /\ Standing
  BY StartStands, InvStands DEF VfsInit, Running
<1>2. /\ allocated = {root} /\ currentDirectory = root /\ root \in Nodes
      /\ node[root] = Made(NULL, TRUE, NULL, root)
  BY FileSystemAssumption DEF VfsInit
<1>3. /\ node[root].isFolder /\ node[root].block = NULL /\ node[root].firstChild = NULL
  BY <1>2 DEF Made
<1>4. Structure(node, allocated, kids) /\ node \in [Nodes -> NodeRecords]
  BY <1>1 DEF Standing
<1>5. kids[root] = <<>>
  <2> PICK d : d = root
    OBVIOUS
  <2>1. Structure(node, allocated, kids) /\ d \in Nodes
    BY <1>2, <1>4
  <2>2. /\ kids[d] \in Seq(Nodes) /\ Len(kids[d]) \in Nat
        /\ \A i \in 1 .. Len(kids[d]) : kids[d][i] # NULL
        /\ node[d].firstChild = IF Len(kids[d]) = 0 THEN NULL ELSE kids[d][1]
    BY ONLY <2>1, KidFacts
  <2>3. Len(kids[d]) # 0 => 1 \in 1 .. Len(kids[d])
    BY <2>2
  <2>4. Len(kids[d]) = 0
    BY <1>3, <2>2, <2>3
  <2> QED
    BY <2>2, <2>4
<1>6. Spelled(node, allocated, f)
  <2>1. <<>> \in Strings
    BY DEF Strings
  <2> QED
    BY <1>2, <2>1 DEF Spelled
<1>7. Filled(node, allocated, diskMemory)
  BY <1>2, <1>3 DEF Filled
<1>8. TreeInv
  BY <1>1, <1>6, <1>7 DEF TreeInv
<1>9. kids = [d \in Nodes |-> kids[d]]
  BY KidsAre
<1>10. Folders(node, allocated) = {root} /\ Files(node, allocated) = {}
  BY <1>2, <1>3 DEF Folders, Files
<1>11. Listing(node, allocated) = [p \in {<<>>} |-> <<>>]
  <2> PICK l : l = Listing(node, allocated)
    OBVIOUS
  <2>1. Lists(l, node, allocated, kids, f)
    BY <1>4, <1>6, <1>9, ListingIs
  <2>2. f[root] = <<>>
    BY <1>6 DEF Spelled
  <2>3. [i \in DOMAIN <<>> |-> node[<<>>[i]].name] = <<>>
    OBVIOUS
  <2>4. NamesOf(kids[root], node) = <<>>
    BY <1>5, <2>3 DEF NamesOf
  <2>5. l = [p \in {<<>>} |-> l[p]] /\ l[<<>>] = <<>>
    BY <1>10, <2>1, <2>2, <2>4 DEF Lists, Values, NamesIn
  <2> QED
    BY <2>5
<1>12. Content(node, allocated, diskMemory) = [p \in {} |-> NoData]
  <2>1. { Path(n, node, allocated) : n \in Files(node, allocated) } = {}
    BY <1>10
  <2> QED
    BY <2>1 DEF Content
<1>13. Cwd = <<>>
  <2>1. Path(root, node, allocated) = f[root]
    BY <1>2, <1>4, <1>6, PathIs
  <2> QED
    BY <1>1, <1>2, <1>6, <2>1 DEF Cwd, Spelled
<1>14. Len(freeBlockList) \in Nat
  BY <1>1 DEF Standing, Owned
<1> QED
  BY <1>8, <1>11, <1>12, <1>13, <1>14 DEF Tree!Init, Cwd

\* Every command is a step of FileTree, or changes nothing of it.
LEMMA TreeStep == TreeInv /\ [VfsNext]_vfsVars => TreeInv' /\ [Tree!Next]_Tree!vars
<1> SUFFICES ASSUME TreeInv, [VfsNext]_vfsVars PROVE TreeInv' /\ [Tree!Next]_Tree!vars
  OBVIOUS
<1>1. VfsInv'
  BY VfsNextKeeps DEF TreeInv
<1>2. CASE UNCHANGED vfsVars
  <2>1. TreeInv'
    BY <1>1, <1>2 DEF TreeInv, vfsVars, Running
  <2>2. /\ UNCHANGED <<Listing(node, allocated), Content(node, allocated, diskMemory)>>
        /\ UNCHANGED <<Cwd, Len(freeBlockList)>>
    BY <1>2 DEF vfsVars, Cwd, Running
  <2> QED
    BY <2>1, <2>2 DEF Tree!vars, Cwd
<1>3. ASSUME NEW name \in Names, makeDirectory(name)
      PROVE  TreeInv' /\ Cwd \in DOMAIN Listing(node, allocated) /\ Tree!MakeDirectory(name)
  BY <1>1, <1>3, CreateRefines DEF makeDirectory
<1>4. ASSUME NEW name \in Names, createFile(name)
      PROVE  TreeInv' /\ Cwd \in DOMAIN Listing(node, allocated) /\ Tree!CreateFile(name)
  BY <1>1, <1>4, CreateRefines DEF createFile
<1>5. ASSUME NEW name \in Names, changeDirectory(name)
      PROVE  /\ TreeInv'
             /\ Tree!Leave \/ (Cwd \in DOMAIN Listing(node, allocated) /\ Tree!Enter(name))
  BY <1>1, <1>5, ChangeRefines
<1>6. ASSUME NEW name \in Names, removeDirectory(name)
      PROVE  TreeInv' /\ Cwd \in DOMAIN Listing(node, allocated) /\ Tree!RemoveDirectory(name)
  <2>1. Running /\ Standing /\ UNCHANGED <<state, currentDirectory, diskMemory>>
    BY <1>6, InvStands DEF removeDirectory, Prompt, Running, TreeInv
  <2>2. Found(name, TRUE)
    BY <1>6, <2>1, RemoveFinds
  <2> QED
    BY <1>1, <2>1, <2>2, LeavingRefines
<1>7. ASSUME NEW name \in Names, deleteFileByName(name)
      PROVE  TreeInv' /\ Cwd \in DOMAIN Listing(node, allocated) /\ Tree!DeleteFile(name)
  <2>1. Running /\ Standing /\ UNCHANGED <<state, currentDirectory, diskMemory>>
    BY <1>7, InvStands DEF deleteFileByName, Prompt, Running, TreeInv
  <2>2. Found(name, FALSE)
    BY <1>7, <2>1, DeleteFinds
  <2> QED
    BY <1>1, <2>1, <2>2, LeavingRefines
<1>8. ASSUME NEW name \in Names, NEW text \in Texts \cup {NoData}, writeFile(name, text)
      PROVE  TreeInv' /\ Cwd \in DOMAIN Listing(node, allocated) /\ Tree!Write(name, text)
  BY <1>1, <1>8, WriteRefines
<1>9. CASE moveToParentDirectory
  BY <1>1, <1>9, UpRefines DEF Tree!Next
<1>10. CASE exitVFS
  BY <1>1, <1>10, ExitRefines DEF Tree!Next
<1>11. CASE \E name \in Names :
              \/ makeDirectory(name) \/ createFile(name) \/ changeDirectory(name)
              \/ deleteFileByName(name) \/ removeDirectory(name)
              \/ \E text \in Texts \cup {NoData} : writeFile(name, text)
  <2>1. PICK name \in Names :
              \/ makeDirectory(name) \/ createFile(name) \/ changeDirectory(name)
              \/ deleteFileByName(name) \/ removeDirectory(name)
              \/ \E text \in Texts \cup {NoData} : writeFile(name, text)
    BY <1>11
  <2>2. /\ TreeInv'
        /\ \/ Tree!Leave
           \/ /\ Cwd \in DOMAIN Listing(node, allocated)
              /\ \/ Tree!MakeDirectory(name) \/ Tree!CreateFile(name) \/ Tree!DeleteFile(name)
                 \/ Tree!RemoveDirectory(name) \/ Tree!Enter(name)
                 \/ \E text \in Texts \cup {NoData} : Tree!Write(name, text)
    BY <1>3, <1>4, <1>5, <1>6, <1>7, <1>8, <2>1
  <2> QED
    BY <2>2 DEF Tree!Next, Cwd
<1> QED
  BY <1>2, <1>9, <1>10, <1>11 DEF VfsNext

\* Each command of the shell does to the paths, listings, contents and free
\* blocks what FileTree says, for any names, nodes, blocks and texts, also when
\* an allocation fails within it.
THEOREM TreeImplemented == VfsSpec => RefinesTree
<1> QED
  BY StartRefines, TreeStep, PTL DEF VfsSpec, RefinesTree, Tree!Spec
=============================================================================
