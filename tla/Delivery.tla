------------------------------ MODULE Delivery ------------------------------
(***************************************************************************)
(* What a durable mailbox promises, by whatever way its mail travels and   *)
(* whenever the process restarts: a letter that was posted is kept; it is  *)
(* handed to the recipient again only when it is overdue; it is marked     *)
(* read only after it was handed over, or because the recipient asked what *)
(* it had not read yet; and it stays read.                                 *)
(***************************************************************************)
EXTENDS Naturals

CONSTANT Letter

VARIABLES
  posted,   \* letters in the mailbox
  handed,   \* how often a letter was handed over
  overdue,  \* letters that were on their way for too long
  asked,    \* what the recipient's questions in flight will be answered
  opened    \* letters marked as read

DeliveryInit ==
  /\ posted = {} /\ overdue = {} /\ asked = {} /\ opened = {}
  /\ handed = [l \in Letter |-> 0]

Post ==
  /\ \E l \in Letter \ posted : posted' = posted \cup {l}
  /\ UNCHANGED <<handed, overdue, asked, opened>>

HandOver(batch) ==
  /\ \A l \in batch : handed[l] = 0 \/ l \in overdue
  /\ handed' = [l \in Letter |-> handed[l] + IF l \in batch THEN 1 ELSE 0]
  /\ UNCHANGED <<posted, overdue, asked, opened>>

\* Questions are asked, looked into again, and forgotten.
Ask ==
  /\ asked' \ asked \subseteq posted \ opened
  /\ UNCHANGED <<posted, handed, overdue, opened>>

MarkRead(batch) ==
  /\ \A l \in batch : handed[l] > 0 \/ l \in asked
  /\ opened' = opened \cup batch
  /\ asked' \subseteq asked
  /\ UNCHANGED <<posted, handed, overdue>>

Delay ==
  /\ \E l \in posted \ opened : overdue' = overdue \cup {l}
  /\ UNCHANGED <<posted, handed, asked, opened>>

DeliveryNext ==
  \/ Post \/ Ask \/ Delay
  \/ \E batch \in SUBSET posted : HandOver(batch) \/ MarkRead(batch)

DeliverySpec ==
  DeliveryInit /\ [][DeliveryNext]_<<posted, handed, overdue, asked, opened>>
=============================================================================
