------------------------------- MODULE UserFile -------------------------------
(***************************************************************************)
(* crud_users.c: users in a text file.  An update or a deletion copies     *)
(* users.txt into temp.txt, removes the one and renames the other; the     *)
(* program may be interrupted between any two steps and started again.     *)
(*                                                                         *)
(* A file is the sequence of its users.  What is printed into a file       *)
(* reaches it at fclose, or in pieces before.  Numbers are typed where     *)
(* numbers are asked for, and names are one word that fits its 50 bytes.   *)
(***************************************************************************)
EXTENDS Integers, Sequences, SequencesExt, FiniteSets

CONSTANTS
  Ids, Data,  \* what is typed: an id; a name and an age
  MAX_OPEN,   \* how many files the process may have open
  MayFail,    \* whether remove and rename may fail
  ABSENT      \* a file that does not exist

ASSUME UserFileAssumption ==
  /\ MAX_OPEN \in Nat /\ MayFail \in BOOLEAN
  /\ ABSENT \notin Seq([id : Ids, data : Data])

VARIABLES
  users, temp,  \* the files users.txt and temp.txt
  at,           \* where the program is: "ended", "menu", or in a command
  command,      \* "update" or "delete", and its arguments
  id, data,
  found,        \* whether the copying loop has met the id
  disk_full,    \* whether there may be no room for what is printed into a file
  leaked,       \* the files left open by commands that returned early
  printed       \* the user the last success message is about, or <<>>

arguments == <<command, id, data, found>>
vars == <<users, temp, at, arguments, disk_full, leaked, printed>>

User(i, d) == [id |-> i, data |-> d]

Init ==
  /\ users = ABSENT /\ temp = ABSENT /\ at = "ended"
  /\ command = "update" /\ id \in Ids /\ data \in Data /\ found = FALSE
  /\ disk_full = FALSE /\ leaked = 0 /\ printed = <<>>

\* fopen has file descriptors for n more files.
CanOpen(n) == leaked + n <= MAX_OPEN

Start ==
  /\ at = "ended"
  /\ at' = "menu" /\ leaked' = 0 /\ printed' = <<>>
  /\ UNCHANGED <<users, temp, arguments, disk_full>>

Quit ==
  /\ at = "menu"
  /\ at' = "ended" /\ leaked' = 0
  /\ UNCHANGED <<users, temp, arguments, printed, disk_full>>

-----------------------------------------------------------------------------
\* What of the users u reaches the disk at fclose, which is not checked.
Written(u) == IF disk_full THEN { SubSeq(u, 1, n) : n \in 0 .. Len(u) } ELSE {u}

\* Mutant: the new id is compared with the first user only.
Exists_first(i) == users # ABSENT /\ users # <<>> /\ users[1].id = i

Exists(i) == users # ABSENT /\ \E j \in DOMAIN users : users[j].id = i

\* addUser up to fopen(FILE_NAME, "a"); a refusal leaves all as it is.
openForAdding(i) ==
  /\ at = "menu" /\ CanOpen(1) /\ ~Exists(i)
  /\ users' = IF users = ABSENT THEN <<>> ELSE users
  /\ at' = "adding" /\ id' = i /\ printed' = <<>>
  /\ UNCHANGED <<temp, command, data, found, leaked, disk_full>>

\* Name and age have been typed.
appendUser(d) ==
  /\ at = "adding"
  /\ \E new \in Written(<<User(id, d)>>) : users' = users \o new
  /\ at' = "menu" /\ printed' = <<User(id, d)>>
  /\ UNCHANGED <<temp, arguments, leaked, disk_full>>

-----------------------------------------------------------------------------
\* Mutant: both files are closed although one was never opened.
LeftOpen_closed == IF users = ABSENT THEN leaked - 1 ELSE leaked

\* The files an early return of updateUser or deleteUser leaves open: the one
\* that could be opened.
LeftOpen == leaked + (IF CanOpen(1) THEN 1 ELSE 0)

\* temp.txt after fopen("temp.txt", "w").
Truncated ==
  IF CanOpen(IF users = ABSENT THEN 1 ELSE 2) THEN <<>> ELSE temp

openFails ==
  /\ at = "menu" /\ (users = ABSENT \/ ~CanOpen(2))
  /\ temp' = Truncated /\ leaked' = LeftOpen /\ printed' = <<>>
  /\ UNCHANGED <<users, at, arguments, disk_full>>

\* Both files are open; the command goes on with what the user types: the id,
\* and for an update of a user that exists also name and age.
openBoth(c, i, d) ==
  /\ at = "menu" /\ users # ABSENT /\ CanOpen(2)
  /\ temp' = Truncated
  /\ at' = "copying" /\ command' = c /\ id' = i /\ data' = d /\ found' = Exists(i)
  /\ printed' = <<>>
  /\ UNCHANGED <<users, leaked, disk_full>>

\* The users of u with another id than i, as the loop of deleteUser meets them.
Others(u, i) ==
  LET kept[n \in 0 .. Len(u)] ==
        IF n = 0 THEN <<>> ELSE IF u[n].id = i THEN kept[n - 1] ELSE Append(kept[n - 1], u[n])
  IN kept[Len(u)]

\* What the loop prints into temp.txt.
Copy ==
  IF command = "update"
  THEN [j \in DOMAIN users |-> IF users[j].id = id THEN User(id, data) ELSE users[j]]
  ELSE Others(users, id)

\* Mutant: temp.txt is not closed, and what was printed is still in its buffer.
closeCopy_not ==
  /\ at = "copying"
  /\ at' = "copied"
  /\ UNCHANGED <<users, temp, arguments, leaked, printed, disk_full>>

closeCopy ==
  /\ at = "copying"
  /\ temp' \in Written(Copy)
  /\ at' = "copied"
  /\ UNCHANGED <<users, arguments, leaked, printed, disk_full>>

removeOld ==
  /\ at = "copied"
  /\ \/ users' = ABSENT /\ at' = "removed"
     \/ MayFail /\ at' = "menu" /\ UNCHANGED users
  /\ UNCHANGED <<temp, arguments, leaked, printed, disk_full>>

\* Mutant: the result of rename is not looked at.
renameNew_unchecked ==
  /\ at = "removed"
  /\ \/ users' = temp /\ temp' = ABSENT
     \/ MayFail /\ UNCHANGED <<users, temp>>
  /\ printed' = IF found /\ command = "update" THEN <<User(id, data)>> ELSE <<>>
  /\ at' = "menu"
  /\ UNCHANGED <<arguments, leaked, disk_full>>

\* rename, and the message that an update has succeeded.
renameNew ==
  /\ at = "removed"
  /\ \/ /\ users' = temp /\ temp' = ABSENT
        /\ printed' = IF found /\ command = "update" THEN <<User(id, data)>> ELSE <<>>
     \/ MayFail /\ UNCHANGED <<users, temp, printed>>
  /\ at' = "menu"
  /\ UNCHANGED <<arguments, leaked, disk_full>>

-----------------------------------------------------------------------------
\* The program is killed; some of what it was printing may be in the file.
Interrupt ==
  /\ at # "ended"
  /\ at' = "ended" /\ leaked' = 0 /\ printed' = <<>>
  /\ temp' \in IF at = "copying" THEN { SubSeq(Copy, 1, n) : n \in 0 .. Len(Copy) } ELSE {temp}
  /\ UNCHANGED <<users, arguments, disk_full>>

\* Other programs fill the disk.
DiskFills == disk_full' = TRUE /\ UNCHANGED <<users, temp, at, arguments, leaked, printed>>

Next ==
  \/ DiskFills
  \/ Start \/ Quit \/ Interrupt
  \/ \E i \in Ids : openForAdding(i) \/ \E c \in {"update", "delete"}, d \in Data : openBoth(c, i, d)
  \/ \E d \in Data : appendUser(d)
  \/ openFails \/ closeCopy \/ removeOld \/ renameNew

Spec == Init /\ [][Next]_vars
-----------------------------------------------------------------------------
Stored == Seq([id : Ids, data : Data])

\* The type invariant.
TypeOK ==
  /\ users \in Stored \cup {ABSENT} /\ temp \in Stored \cup {ABSENT}
  /\ at \in {"ended", "menu", "adding", "copying", "copied", "removed"}
  /\ command \in {"update", "delete"} /\ id \in Ids /\ data \in Data /\ found \in BOOLEAN
  /\ disk_full \in BOOLEAN /\ leaked \in 0 .. MAX_OPEN
  /\ printed = <<>> \/ \E u \in [id : Ids, data : Data] : printed = <<u>>

\* The ids in users.txt are unique, although they are compared only when users
\* are added, also when the program runs out of file descriptors, commands are
\* cut short and the disk is full.
UniqueIds ==
  users # ABSENT => \A i, j \in DOMAIN users : users[i].id = users[j].id => i = j

\* Whenever the program is interrupted and whichever call fails, a command has
\* taken effect as a whole or not at all, and no user is lost unless the disk is
\* full or the program is used again while users.txt is missing (UserDirectory).
Directory ==
  INSTANCE UserDirectory
    WITH directory <- IF users # ABSENT THEN users ELSE IF temp # ABSENT THEN temp ELSE <<>>,
         phase <- IF at = "removed" THEN "pending"
                  ELSE IF users = ABSENT /\ temp \notin {ABSENT, <<>>} THEN "broken" ELSE "whole"
RefinesDirectory == Directory!Spec

\* "User added successfully!" and "User updated successfully!": the user is in
\* users.txt as typed, unless the disk is full (no result of a write is looked
\* at).
SaysWhatIsStored ==
  printed # <<>> /\ ~disk_full => users # ABSENT /\ \E i \in DOMAIN users : users[i] = printed[1]

\* What the files hold is fit for the next command, and what the program said
\* of it is true.
RecordsOK == TypeOK /\ UniqueIds /\ SaysWhatIsStored
=============================================================================
