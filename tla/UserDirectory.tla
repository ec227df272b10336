----------------------------- MODULE UserDirectory -----------------------------
(***************************************************************************)
(* What crud_users.c promises of the stored users: no two with the same    *)
(* id, each command takes effect at once or not at all, and whatever goes  *)
(* wrong, users are lost only when the disk is full, or when the program   *)
(* is used again after an update or a deletion was cut short.              *)
(***************************************************************************)
EXTENDS Sequences, SequencesExt

CONSTANTS Ids, Data

VARIABLES
  directory, \* the stored users in the order of addition
  disk_full,
  phase      \* "whole"; "pending" while a command that has taken effect is
             \* under way; "broken" once it was cut short

vars == <<directory, disk_full, phase>>

Init == directory = <<>> /\ disk_full = FALSE /\ phase = "whole"

StoredIds == { directory[i].id : i \in DOMAIN directory }

\* What is left of the users d when they are written.
Kept(d) == IF disk_full THEN { SubSeq(d, 1, n) : n \in 0 .. Len(d) } ELSE {d}

Add(id, data) ==
  /\ phase = "whole" /\ id \notin StoredIds
  /\ \E new \in Kept(<<[id |-> id, data |-> data]>>) : directory' = directory \o new
  /\ UNCHANGED <<disk_full, phase>>

Update(id, data) ==
  /\ phase = "whole" /\ id \in StoredIds
  /\ directory' \in Kept([i \in DOMAIN directory |->
                            IF directory[i].id = id THEN [id |-> id, data |-> data] ELSE directory[i]])
  /\ phase' = "pending" /\ UNCHANGED disk_full

Delete(id) ==
  /\ phase = "whole"
  /\ \E i \in DOMAIN directory :
       directory[i].id = id /\ directory' \in Kept(RemoveAt(directory, i))
  /\ phase' = "pending" /\ UNCHANGED disk_full

NotFound(id) ==
  /\ phase = "whole" /\ id \notin StoredIds
  /\ directory' \in Kept(directory)
  /\ phase' = "pending" /\ UNCHANGED disk_full

Complete == phase = "pending" /\ phase' = "whole" /\ UNCHANGED <<directory, disk_full>>
CutShort == phase = "pending" /\ phase' = "broken" /\ UNCHANGED <<directory, disk_full>>
Lose == phase = "broken" /\ phase' = "whole" /\ directory' = <<>> /\ UNCHANGED disk_full
DiskFills == disk_full' = TRUE /\ UNCHANGED <<directory, phase>>

Next ==
  \/ \E id \in Ids :
       \/ Delete(id) \/ NotFound(id)
       \/ \E data \in Data : Add(id, data) \/ Update(id, data)
  \/ DiskFills \/ Complete \/ CutShort \/ Lose

Spec == Init /\ [][Next]_vars
=============================================================================
