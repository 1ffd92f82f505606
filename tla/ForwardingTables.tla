--------------------------- MODULE ForwardingTables ---------------------------
(***************************************************************************)
(* The native forwarding tables of one node (NativeFwdTables) and what     *)
(* they put into the kernel: the NAT rules that exchange one path id for   *)
(* the next and the routes of path ids (replace_via_route).  Operators on  *)
(* one record, without variables.                                          *)
(*                                                                         *)
(* A path id is the hash of a path; hashes do not collide, so the path     *)
(* itself stands for it.  The next hop of an entry is an underlay          *)
(* neighbour id, which the table resolves when it handles the update:      *)
(* known is the set of ids the underlay observer has at that moment.       *)
(* Netlink and nftables calls succeed.                                     *)
(***************************************************************************)
EXTENDS Sequences, Functions

NativeFwdTables(path, rule, via) ==
  [path |-> path,  \* path_id_table: path id -> next hop
   rule |-> rule,  \* forwarding map: path id -> path id
   via  |-> via]   \* routes: path id -> neighbour

Has(f, x)     == x \in DOMAIN f
Put(f, x, v)  == [y \in DOMAIN f \cup {x} |-> IF y = x THEN v ELSE f[y]]
Without(f, x) == Restrict(f, DOMAIN f \ {x})

PathUpdate(op, in, hop) == [op |-> op, in |-> in, hop |-> hop]

(* create_or_update of a PathIdEntry::Forward: the neighbour is resolved   *)
(* before anything changes; an entry that is there already is left alone,  *)
(* its route too.                                                          *)
PathCreateOrUpdate(t, in, hop, known) ==
  IF hop \notin known \/ (Has(t.path, in) /\ t.path[in] = hop) THEN t
  ELSE NativeFwdTables(Put(t.path, in, hop), Put(t.rule, in, Tail(in)), Put(t.via, Tail(in), hop))

(* remove: the route of the path id stays.                                 *)
PathRemove(t, in) ==
  NativeFwdTables(Without(t.path, in), IF Has(t.path, in) THEN Without(t.rule, in) ELSE t.rule, t.via)

(* handle_r2kad_request for the table of path ids.  An error is logged and *)
(* forgotten.                                                              *)
ApplyPathUpdate(t, u, known) ==
  CASE u.op = "Create"         -> IF Has(t.path, u.in) THEN t
                                  ELSE PathCreateOrUpdate(t, u.in, u.hop, known)
    [] u.op = "Update"         -> IF Has(t.path, u.in)
                                  THEN PathCreateOrUpdate(t, u.in, u.hop, known) ELSE t
    [] u.op = "CreateOrUpdate" -> PathCreateOrUpdate(t, u.in, u.hop, known)
    [] u.op = "Remove"         -> PathRemove(t, u.in)

===============================================================================
