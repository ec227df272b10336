------------------------------- MODULE FileTree -------------------------------
(***************************************************************************)
(* What virtual_file_system.c promises: a tree of directories that list    *)
(* their entries in the order of creation, files that read back what was   *)
(* last written in them, and a disk with room for one block per written    *)
(* file.  Directories and files are named by their paths.                  *)
(***************************************************************************)
EXTENDS Naturals, Sequences, SequencesExt

CONSTANTS
  Names, Data,
  NoData,  \* the contents of an empty file
  MayFail  \* whether memory may run out, and a released block be lost for it

VARIABLES
  listing, \* path of a directory -> names of its entries
  content, \* path of a file -> Data or NoData
  cwd,     \* path of the current directory
  free     \* number of free blocks

vars == <<listing, content, cwd, free>>

Init ==
  /\ listing = [p \in {<<>>} |-> <<>>]
  /\ content = [p \in {} |-> NoData]
  /\ cwd = <<>>
  /\ free \in Nat

Here(n) == Append(cwd, n)
Exists(n) == Here(n) \in DOMAIN listing \cup DOMAIN content
\* The names in a directory are distinct.
Without(names, n) == RemoveAt(names, CHOOSE i \in DOMAIN names : names[i] = n)
Entries(names, p) == IF p = cwd THEN names ELSE listing[p]

MakeDirectory(n) ==
  /\ ~Exists(n)
  /\ listing' = [p \in DOMAIN listing \cup {Here(n)} |->
                   IF p = Here(n) THEN <<>> ELSE Entries(Append(listing[cwd], n), p)]
  /\ UNCHANGED <<content, cwd, free>>

CreateFile(n) ==
  /\ ~Exists(n)
  /\ listing' = [listing EXCEPT ![cwd] = Append(@, n)]
  /\ content' = [p \in DOMAIN content \cup {Here(n)} |->
                   IF p = Here(n) THEN NoData ELSE content[p]]
  /\ UNCHANGED <<cwd, free>>

\* The numbers of free blocks there may be when file p has given its block back.
Released(p) ==
  IF content[p] = NoData THEN {free} ELSE {free + 1} \cup IF MayFail THEN {free} ELSE {}

Write(n, d) ==
  /\ Here(n) \in DOMAIN content
  /\ \E room \in Released(Here(n)) :
       IF d # NoData /\ room > 0
       THEN content' = [content EXCEPT ![Here(n)] = d] /\ free' = room - 1
       ELSE content' = [content EXCEPT ![Here(n)] = NoData] /\ free' = room
  /\ UNCHANGED <<listing, cwd>>

DeleteFile(n) ==
  /\ Here(n) \in DOMAIN content
  /\ free' \in Released(Here(n))
  /\ content' = [p \in DOMAIN content \ {Here(n)} |-> content[p]]
  /\ listing' = [listing EXCEPT ![cwd] = Without(@, n)]
  /\ UNCHANGED cwd

RemoveDirectory(n) ==
  /\ Here(n) \in DOMAIN listing /\ listing[Here(n)] = <<>>
  /\ listing' = [p \in DOMAIN listing \ {Here(n)} |-> Entries(Without(listing[cwd], n), p)]
  /\ UNCHANGED <<content, cwd, free>>

Enter(n) == Here(n) \in DOMAIN listing /\ cwd' = Here(n) /\ UNCHANGED <<listing, content, free>>
Leave == cwd # <<>> /\ cwd' = Front(cwd) /\ UNCHANGED <<listing, content, free>>

Exit ==
  /\ listing' = [p \in {} |-> <<>>] /\ content' = [p \in {} |-> NoData]
  /\ cwd' = <<>> /\ free' = 0

Next ==
  \/ cwd \in DOMAIN listing
     /\ \E n \in Names :
          \/ MakeDirectory(n) \/ CreateFile(n) \/ DeleteFile(n) \/ RemoveDirectory(n) \/ Enter(n)
          \/ \E d \in Data \cup {NoData} : Write(n, d)
  \/ Leave \/ Exit

Spec == Init /\ [][Next]_vars
=============================================================================
