----------------------------- MODULE ContactTable -----------------------------
(***************************************************************************)
(* The contacts of one node: the routing table (UnlimitedULNRoutingTable   *)
(* behind UNSStrategy) with the state of every contact, and the underlay   *)
(* neighbours it may send to.  Operators on one record, without variables. *)
(*                                                                         *)
(* Of an active path the model keeps the first hop.  A contact that is its *)
(* own first hop has a path of one hop (is_uln) and lives in un_contacts,  *)
(* every other one in a bucket.  Proposed paths are left out: they change  *)
(* neither the state of a contact nor the path in use.                     *)
(***************************************************************************)
EXTENDS Naturals, FiniteSets

CONSTANT Contact  \* the ids of the nodes this node may know

ContactState == {"Absent", "Valid", "Invalid", "Rediscovering", "Dead"}

Table == [st      : [Contact -> ContactState],
          hop     : [Contact -> Contact],         \* first hop of the active path
          vias    : [Contact -> SUBSET Contact],  \* rev_via_contact_list
          retries : [Contact -> Nat],             \* backoff.current_retries
          ahead   : SUBSET Contact,  \* the stored SSN is greater than the contact's own
          uln     : SUBSET Contact]  \* uln_table

EmptyTable == [st      |-> [c \in Contact |-> "Absent"],
               hop     |-> [c \in Contact |-> c],
               vias    |-> [c \in Contact |-> {}],
               retries |-> [c \in Contact |-> 0],
               ahead   |-> {},
               uln     |-> {}]

Present(t)   == {c \in Contact : t.st[c] # "Absent"}
ValidOnes(t) == {c \in Contact : t.st[c] = "Valid"}
IsULN(t, c)  == t.st[c] # "Absent" /\ t.hop[c] = c
InBucket(t)  == {c \in Present(t) : t.hop[c] # c}
Via(t, u)    == {c \in Present(t) : t.hop[c] = u}

(* The via list and the backoff are part of ContactState::Rediscovering.   *)
SetState(t, c, s) == [t EXCEPT !.st[c] = s, !.vias[c] = {}, !.retries[c] = 0]

RemoveContact(t, c) ==
  [SetState(t, c, "Absent") EXCEPT !.hop[c] = c, !.ahead = @ \ {c}]

(* Contact::set_invalid for all of S: a contact that is invalid or being   *)
(* rediscovered only learns about another broken link.                     *)
SetInvalid(t, S) ==
  [t EXCEPT !.st = [c \in Contact |-> IF c \in S /\ t.st[c] \in {"Valid", "Dead"}
                                      THEN "Invalid" ELSE t.st[c]]]

(* A contact gets a validated path over h.                                 *)
SetActivePath(t, c, h) == [SetState(t, c, "Valid") EXCEPT !.hop[c] = h]

(* A new entry also takes over the SSN of the message.                     *)
NewEntry(t, c, h) == [SetActivePath(t, c, h) EXCEPT !.ahead = @ \ {c}]

(* UNSStrategy::update_existing with assess_path_candidate_and_update: a   *)
(* message with an older SSN is ignored, a valid contact takes the path    *)
(* only if it is better, a dead one never does.  The SSN stays as it is.   *)
UpdateExisting(t, c, h) ==
  IF c \in t.ahead \/ t.st[c] = "Dead" THEN {t}
  ELSE IF t.st[c] = "Valid"
       THEN IF IsULN(t, c) THEN {t} ELSE {t, SetActivePath(t, c, h)}
       ELSE {SetActivePath(t, c, h)}

(* Adding to the bucket of c.  If the bucket is full and cannot be split,  *)
(* c replaces a contact with a longer path or is dropped                   *)
(* (replace_in_full_bucket).                                               *)
AddToBucket(t, c, h) ==
  {t, NewEntry(t, c, h)} \cup {NewEntry(RemoveContact(t, w), c, h) : w \in InBucket(t) \ {c}}

(* UNSStrategy::insert for the source c of a message whose path starts at  *)
(* h.  The path to a node of the neighbour table is simplified to one hop. *)
(* A neighbour whose contact is not valid is taken out of un_contacts      *)
(* before the longer path is added, and a contact in a bucket before it    *)
(* becomes a neighbour; neither is reported as a removal.                  *)
Insert(t, c, h) ==
  IF h = c \/ c \in t.uln
  THEN IF IsULN(t, c) THEN UpdateExisting(t, c, c) ELSE {NewEntry(t, c, c)}
  ELSE IF c \in InBucket(t) \/ (IsULN(t, c) /\ t.st[c] = "Valid")
       THEN UpdateExisting(t, c, h)
       ELSE AddToBucket(RemoveContact(t, c), c, h)

(* The path of a message starts at a neighbour, unless the known path to a *)
(* valid contact on it is shorter and replaces its first part.             *)
FirstHops(t) == t.uln \cup {t.hop[c] : c \in ValidOnes(t)}

(* The contacts a message tells about.  Their paths are not validated and  *)
(* change nothing here, with two exceptions: the path to a node of the     *)
(* neighbour table is simplified to one hop, which counts as valid (a new  *)
(* neighbour, or a known one confirmed); and a neighbour whose contact is  *)
(* not valid is taken out of un_contacts before the longer path is refused *)
(* (lost).  What a message says of a known neighbour may be outdated.      *)
Confirmed(t) == {c \in t.uln : IsULN(t, c) /\ t.st[c] \in {"Invalid", "Rediscovering"}}
Lost(t)      == {c \in Contact \ t.uln : IsULN(t, c) /\ t.st[c] # "Valid"}
Reportable(t) == {c \in t.uln : ~IsULN(t, c)} \cup Confirmed(t) \cup Lost(t)

Told(t, R) ==
  [st      |-> [c \in Contact |-> IF c \notin R THEN t.st[c]
                                  ELSE IF c \in Lost(t) THEN "Absent" ELSE "Valid"],
   hop     |-> [c \in Contact |-> IF c \in R THEN c ELSE t.hop[c]],
   vias    |-> [c \in Contact |-> IF c \in R THEN {} ELSE t.vias[c]],
   retries |-> [c \in Contact |-> IF c \in R THEN 0 ELSE t.retries[c]],
   ahead   |-> t.ahead \ (R \ Confirmed(t)),
   uln     |-> t.uln]

Reported(t) == {Told(t, R) : R \in SUBSET Reportable(t)}
===============================================================================
