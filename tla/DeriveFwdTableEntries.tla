------------------------ MODULE DeriveFwdTableEntries ------------------------
(***************************************************************************)
(* The use case that turns the contacts of the routing table into entries  *)
(* of the forwarding table for node ids, composed with that table.  Every  *)
(* contact gets an entry of its own, every bucket one for the prefix of    *)
(* its ids that leads to the contact with the shortest path.               *)
(*                                                                         *)
(* Events are handled one after another in the order in which they were    *)
(* raised, and the table may have changed several times before: an event   *)
(* carries a copy of its contact, while buckets are looked up in the table *)
(* as it is.  The path of an entry is the size of the contact's path; size *)
(* 1 is NodeIdEntry::Forward, others are Encapsulate.  That the first hop  *)
(* of a path is missing from the uln_table, or that the contact is there   *)
(* without being a neighbour, is a choice: it ends the handler.  Updates   *)
(* reach the native tables in order; netlink and the lookup of neighbours  *)
(* succeed there.  The entry that start creates for the node's own path id *)
(* never changes and is left out.                                          *)
(***************************************************************************)
EXTENDS RoutingTable

CONSTANTS MaxEvents, \* bound: events in the queue while the table changes
          MaxErrors, \* bound: handlers that end in an error
          Unresolved \* contacts whose first hop may be missing from the uln_table

ASSUME DeriveAssumption == MaxEvents \in Nat /\ MaxErrors \in Nat /\ Unresolved \subseteq Contacts

VARIABLES
  fwd,   \* record, see Init
  errors \* number of handlers that ended in an error

vars == <<table, events, fwd, errors>>

Init ==
  /\ TableInit /\ errors = 0
  /\ fwd = [node   |-> [c \in Contacts |-> 0], \* node_id_table: size of the path, 0 is no entry
            route  |-> [c \in Contacts |-> 0], \* what the kernel routes the node id by
            subnet |-> <<>>,   \* node_id_table: prefix -> contact that packets are sent to
            prefix |-> <<>>,   \* bucket_prefix_entries: bucket -> prefix
            failed |-> {}]     \* contacts whose last entry was not derived
-----------------------------------------------------------------------------
With(f, x, v) == [y \in DOMAIN f \cup {x} |-> IF y = x THEN v ELSE f[y]]
Without(f, x) == Restrict(f, DOMAIN f \ {x})

(* NodeIdTableUpdate::CreateOrUpdate and Remove for the id of a contact.   *)
(* An entry that is there already is left alone, and the route of a        *)
(* neighbour outlives its entry.                                           *)
CreateOrUpdate(f, v) ==
  [f EXCEPT !.node[v.id] = v.size, !.failed = @ \ {v.id},
            !.route[v.id] = IF f.node[v.id] = v.size THEN @ ELSE v.size]

RemoveNode(f, c) ==
  [f EXCEPT !.node[c] = 0, !.failed = @ \ {c},
            !.route[c] = IF f.node[c] > 1 THEN 0 ELSE @]

(* get_bucket_prefix_length, and the prefix of that length of c.           *)
BucketPrefix(i, c) ==
  LET len  == ACC + ACC * ((i - 1) \div LevelWidth)
      rest == 2^(BITS - len)
  IN  [id |-> (c \div rest) * rest, len |-> len]

(* Proximity neighbour selection: the valid contacts with shortest paths.  *)
Proximate(i) ==
  {c \in valid \cap buckets[i] : \A d \in valid \cap buckets[i] : size[c] <= size[d]}

(* Mutant: the entry of the empty bucket is only forgotten.                *)
WithdrawForgotten(f, i) == [f EXCEPT !.prefix = Without(@, i)]

(* Bucket i has no valid contact any more.                                 *)
Withdraw(f, i) ==
  [f EXCEPT !.subnet = IF i \in DOMAIN f.prefix THEN Without(@, f.prefix[i]) ELSE @,
            !.prefix = Without(@, i)]

(* The prefix of bucket i is served by c; another prefix that the bucket   *)
(* had before, as the last bucket, is removed.                             *)
Install(f, i, c) ==
  LET prefix == BucketPrefix(i, c)
      others == IF i \in DOMAIN f.prefix THEN Without(f.subnet, f.prefix[i]) ELSE f.subnet
  IN  [f EXCEPT !.prefix = With(@, i, prefix), !.subnet = With(others, prefix, c)]

(* The contacts for which the derivation of an entry may fail.             *)
Underivable(S) == S \cap Unresolved

(* What a handler leaves behind, and whether it went through to the end.   *)
Result(f, ok) == [fwd |-> f, ok |-> ok]

(* update_bucket, for the bucket as it is in the table now.                *)
UpdateBucket(f, i) ==
  IF Proximate(i) = {} THEN {Result(Withdraw(f, i), TRUE)}
  ELSE {Result(f, FALSE) : c \in Underivable(Proximate(i))}
         \cup {Result(Install(f, i, c), TRUE) : c \in Proximate(i)}

Index(c) == BucketIndex(Len(buckets), c)

(* remove_node_id_entry: the bucket is left as it is if its prefix, filled *)
(* up with zeros, is another id than the contact's.                        *)
RemoveEntry(f, c) ==
  LET removed == RemoveNode(f, c)
  IN  IF Index(c) \in DOMAIN f.prefix /\ f.prefix[Index(c)].id # c
      THEN {Result(removed, TRUE)} ELSE UpdateBucket(removed, Index(c))

(* Mutant: the entry that is there already is kept.                        *)
CreateEntryOnce(f, v) ==
  {Result([f EXCEPT !.failed = @ \cup {c}], FALSE) : c \in Underivable({v.id})}
    \cup UpdateBucket(IF f.node[v.id] # 0 THEN f ELSE CreateOrUpdate(f, v), Index(v.id))

(* create_node_id_entry, update_node_id_entry.                             *)
CreateEntry(f, v) ==
  {Result([f EXCEPT !.failed = @ \cup {c}], FALSE) : c \in Underivable({v.id})}
    \cup UpdateBucket(CreateOrUpdate(f, v), Index(v.id))

(* contact_displacement: one after the other, the second only if the first *)
(* went through.                                                           *)
DisplaceEntry(f, old, v) ==
  UNION {IF r.ok THEN CreateEntry(r.fwd, v)
         ELSE {Result([r.fwd EXCEPT !.failed = @ \cup {v.id}], FALSE)} : r \in RemoveEntry(f, old)}
-----------------------------------------------------------------------------
(* The event that is handled next.                                         *)
First == Head(events)
Updated(was, is) == First.old.valid = was /\ First.new.valid = is
SameContact == First.old.id = First.new.id

(* handle_event for an event of the given type, with one of its outcomes.  *)
Handle(type, outcomes) ==
  /\ events # <<>> /\ First.type = type
  /\ \E r \in outcomes :
       /\ fwd' = r.fwd
       /\ errors' = IF r.ok THEN errors ELSE errors + 1
       /\ errors' <= MaxErrors
  /\ events' = Tail(events)
  /\ UNCHANGED table

ContactNew     == Handle("New", CreateEntry(fwd, First.new))
ContactRemoved == Handle("Removed", RemoveEntry(fwd, First.old.id))
BucketChanged  == Handle("Bucket", UpdateBucket(fwd, First.index))

ContactInvalidated ==
  Handle("Updated", IF Updated(TRUE, FALSE) THEN RemoveEntry(fwd, First.new.id) ELSE {})

ContactValidated ==
  Handle("Updated", IF Updated(FALSE, TRUE) THEN CreateEntry(fwd, First.new) ELSE {})

PathChanged ==
  Handle("Updated", IF Updated(TRUE, TRUE) /\ SameContact
                    THEN CreateEntry(fwd, First.new) ELSE {})

ContactDisplaced ==
  Handle("Updated", IF Updated(TRUE, TRUE) /\ ~SameContact
                    THEN DisplaceEntry(fwd, First.old.id, First.new) ELSE {})

Next ==
  \/ Len(events) < MaxEvents /\ TableNext /\ UNCHANGED <<fwd, errors>>
  \/ ContactNew \/ ContactRemoved \/ BucketChanged \/ ContactInvalidated
  \/ ContactValidated \/ PathChanged \/ ContactDisplaced

Spec == Init /\ [][Next]_vars
-----------------------------------------------------------------------------
(* Packets follow the paths of the routing table: once the events are      *)
(* handled, a valid contact has an entry and a route by its current path   *)
(* and another node has none, however contacts were moved between buckets  *)
(* and neighbours, displaced or lost meanwhile.  (The kernel keeps the     *)
(* route of a neighbour that is lost.  Contacts whose handler ended in an  *)
(* error are left out.)                                                    *)
EntriesFollowTable ==
  events = <<>> =>
    \A c \in Contacts \ fwd.failed :
      LET path == IF c \in Present \cap valid THEN size[c] ELSE 0
      IN  /\ fwd.node[c] = path
          /\ fwd.route[c] = path \/ (path = 0 /\ fwd.route[c] = 1)

(* No prefix route is left behind: the prefixes in the forwarding table    *)
(* are those the use case remembers, one for each bucket, so that each is  *)
(* withdrawn when its bucket is derived anew, whatever was split since.    *)
PrefixesAreRecorded ==
  /\ DOMAIN fwd.subnet = {fwd.prefix[i] : i \in DOMAIN fwd.prefix}
  /\ \A i, j \in DOMAIN fwd.prefix : fwd.prefix[i] = fwd.prefix[j] => i = j

=============================================================================
