------------------------------ MODULE PathProbing ------------------------------
(***************************************************************************)
(* Path probing at one node: the use case PathProbing, the contacts it     *)
(* probes (Contact, PathCollection and Path, as message forwarding changes *)
(* them) and the network between them.                                     *)
(*                                                                         *)
(* A contact has an active path, in use while the contact is valid, and at *)
(* most one proposed path, which others told about and which becomes the   *)
(* active one when a message has come over it.  A probe asks for such a    *)
(* message.  Probes of aged contacts have a timeout, probes of proposed    *)
(* paths have none and are forgotten by a garbage collection.              *)
(*                                                                         *)
(* Time is abstracted to what the handlers compare: whether a contact has  *)
(* reached probe_age, whether a probe has reached request_timeout, and     *)
(* whether the active path was validated or invalidated after a probe was  *)
(* sent.  Every contact is in one bucket and more than one hop away.       *)
(***************************************************************************)
EXTENDS Naturals, FiniteSets, Sequences

CONSTANTS
  Contact,          \* the contacts
  Path, Link,       \* the paths that exist, and the links between their nodes
  Dest,             \* [Path -> Contact]: the last node of a path
  LinksOf,          \* [Path -> SUBSET Link]: the links of a path after its first hop
  Neighbor,         \* the nodes that may be underlay neighbours
  FirstHop,         \* [Path -> Neighbor]: the first node of a path
  Rank,             \* [Path -> Nat]: is_better_than, the lower the better
  Nonce,            \* bound: as many probes are tracked at a time
  ProbesPerBucket,  \* take(2) of send_probe_reqs
  None,
  MaxReports,       \* bound: how often others tell about a path
  MaxFaults,        \* bound: how often a link fails or a message over a good path is lost
  SilentFailures    \* a failed link may also swallow probes without an error

ASSUME ProbingAssumption ==
  /\ IsFiniteSet(Contact) /\ IsFiniteSet(Path)
  /\ Dest \in [Path -> Contact] /\ LinksOf \in [Path -> SUBSET Link]
  /\ FirstHop \in [Path -> Neighbor] /\ IsFiniteSet(Neighbor)
  /\ Rank \in [Path -> Nat] /\ \A p, q \in Path : p # q => Rank[p] # Rank[q]
  /\ ProbesPerBucket \in Nat \ {0} /\ MaxReports \in Nat /\ MaxFaults \in Nat
  /\ SilentFailures \in BOOLEAN
  /\ None \notin Path \cup Link \cup Contact

VARIABLES
  contact,    \* [Contact -> ContactRecord], the routing table
  order,      \* the contacts in the table by last_seen, the oldest first
  aged,       \* the contacts last seen at least probe_age ago
  inflight,   \* [Nonce -> Probe or None]: requests_in_flight
  timers,     \* nonces of probe_timers
  scheduled,  \* scheduled_probe_requests
  waiting,    \* those that were there when the sending timer was started
  sendTimer,  \* scheduled_sending_timer is set
  net,        \* [Nonce -> message or None]: a probe on its way, or its answer
  uln,        \* the nodes of the neighbour table
  down,       \* failed links
  reports,    \* reports so far
  faults,     \* faults so far
  travelled   \* history: the paths a message has come over

probeVars == <<inflight, timers, scheduled, waiting, sendTimer>>
tableVars == <<contact, order, aged, travelled>>
vars == <<contact, order, aged, inflight, timers, scheduled, waiting, sendTimer, net, uln,
          down, reports, faults, travelled>>
envVars == <<uln, down, reports, faults>>

(* PartialEq of Path is derived: paths with the same nodes differ if their *)
(* state or last_validated (here: whether it is set) differ.               *)
PathRecord == [ids : Path, state : {"Valid", "Faulty", "NotValidated"}, dated : BOOLEAN]

Validated(p)   == [ids |-> p, state |-> "Valid", dated |-> TRUE]
Undated(p)     == [ids |-> p, state |-> "Valid", dated |-> FALSE]
Reported(p)    == [ids |-> p, state |-> "NotValidated", dated |-> FALSE]
Faulty(r)      == [r EXCEPT !.state = "Faulty", !.dated = TRUE]
Revalidated(r) == [r EXCEPT !.state = "Valid", !.dated = TRUE]

(* A contact that is being rediscovered counts as Invalid here.            *)
ContactRecord == [state : {"Absent", "Valid", "Invalid"},
                  active : PathRecord \cup {None}, proposed : PathRecord \cup {None}]

Absent == [state |-> "Absent", active |-> None, proposed |-> None]

(* since: the active path of the contact got a new last_validated after    *)
(* the probe was sent; late: request_timeout has passed.                   *)
Probe == [path : Path, since : BOOLEAN, late : BOOLEAN]

(* PathProbeAction.  ContactActivePath is never scheduled.                 *)
Action == [kind : {"ContactProposedPath"}, of : Contact] \cup [kind : {"ProbePath"}, of : Path]
ProposedOf(c) == [kind |-> "ContactProposedPath", of |-> c]
ProbeOf(p)    == [kind |-> "ProbePath", of |-> p]

Message == [kind : {"ProbeReq", "ProbeRsp"}, path : Path, link : {None}]
           \cup [kind : {"Error"}, path : Path, link : Link]

ProbingTypeOK ==
  /\ contact \in [Contact -> ContactRecord]
  /\ order \in Seq(Contact) /\ aged \subseteq Contact
  /\ inflight \in [Nonce -> Probe \cup {None}] /\ timers \subseteq Nonce
  /\ scheduled \subseteq Action /\ waiting \subseteq scheduled /\ sendTimer \in BOOLEAN
  /\ net \in [Nonce -> Message \cup {None}] /\ down \subseteq Link
  /\ uln \subseteq Neighbor
  /\ reports \in Nat /\ faults \in Nat /\ travelled \subseteq Path

ProbingInit ==
  /\ contact = [c \in Contact |-> Absent] /\ order = <<>> /\ aged = {}
  /\ inflight = [n \in Nonce |-> None] /\ timers = {}
  /\ scheduled = {} /\ waiting = {} /\ sendTimer = FALSE
  /\ net = [n \in Nonce |-> None] /\ uln = Neighbor /\ down = {}
  /\ reports = 0 /\ faults = 0 /\ travelled = {}

-------------------------------------------------------------------------------
(* Contacts                                                                *)

Better(p, q) == Rank[p] < Rank[q]
Broken(p) == LinksOf[p] \cap down # {}

(* Mutant: a path counts as soon as somebody has told about it.            *)
AssessUnchecked(k, r) ==
  IF k.state = "Valid" /\ ~Better(r.ids, k.active.ids) THEN k
  ELSE [state |-> "Valid", active |-> Revalidated(r), proposed |-> k.proposed]

(* Contact::assess_path_candidate_and_update, with set_proposed_to_active. *)
Assess(k, r) ==
  IF k.state = "Valid" /\ ~Better(r.ids, k.active.ids) THEN k
  ELSE IF r.state = "Valid"
       THEN IF k.proposed # None /\ k.proposed.ids = r.ids
            THEN [state |-> "Valid", active |-> Revalidated(k.proposed), proposed |-> None]
            ELSE [k EXCEPT !.state = "Valid", !.active = r]
       ELSE IF k.proposed = None \/ Better(r.ids, k.proposed.ids)
            THEN [k EXCEPT !.proposed = r] ELSE k

(* Contact::set_invalid                                                    *)
SetInvalid(k) == [k EXCEPT !.state = "Invalid", !.active = Faulty(@)]

Unordered(s, c) == SelectSeq(s, LAMBDA d : d # c)

(* The table after a path of contact c was assessed, which has become k.   *)
(* last_seen changes when a contact is new; a new path, and an answer over *)
(* the known one, leave it alone.                                          *)
Store(c, k) ==
  /\ contact' = [contact EXCEPT ![c] = k]
  /\ order' = IF contact[c] = Absent /\ k # Absent THEN Append(order, c) ELSE order
  /\ UNCHANGED aged

(* The probes of the contacts F are older than the last_validated of their *)
(* paths now.                                                              *)
Outdated(f, F) ==
  [n \in Nonce |-> IF f[n] # None /\ Dest[f[n].path] \in F
                   THEN [f[n] EXCEPT !.since = TRUE] ELSE f[n]]

Changed(c, k) == IF k.active # contact[c].active THEN {c} ELSE {}

Orders(F) == {t \in [1..Cardinality(F) -> F] : \A i, j \in DOMAIN t : t[i] = t[j] => i = j}

(* set_invalid for all of F, in any order: they are seen last.             *)
AllInvalid(F) == [c \in Contact |-> IF c \in F THEN SetInvalid(contact[c]) ELSE contact[c]]

SeenNow(F) ==
  /\ order' \in {SelectSeq(order, LAMBDA c : c \notin F) \o t : t \in Orders(F)}
  /\ aged' = aged \ F

Uses(r, l) == r # None /\ l \in LinksOf[r.ids]
Present == {c \in Contact : contact[c] # Absent}

-------------------------------------------------------------------------------
(* Scheduled probes                                                        *)

(* schedule_path_probe_req                                                 *)
Schedule(A) ==
  /\ scheduled' = scheduled \cup A
  /\ sendTimer' = (sendTimer \/ A # {})
  /\ waiting' = IF sendTimer THEN waiting ELSE scheduled \cup A

(* ContactEvent::Updated: only the first proposed path of a contact counts *)
NewlyProposed(c, k) ==
  IF contact[c].state # "Absent" /\ contact[c].proposed = None /\ k.proposed # None
  THEN {ProposedOf(c)} ELSE {}

Free == {n \in Nonce : inflight[n] = None /\ net[n] = None /\ n \notin timers}

(* The probes of the paths S with a nonce each, as many as are tracked at  *)
(* a time.  Which nonce a probe gets makes no difference.                  *)
Sending(S) ==
  CHOOSE g \in [Free -> S \cup {None}] :
     /\ \A m, n \in Free : g[m] = g[n] /\ g[m] # None => m = n
     /\ {g[n] : n \in Free} \ {None} = S \/ \A n \in Free : g[n] # None

Sent(f, g) ==
  [n \in Nonce |-> IF n \in Free /\ g[n] # None
                   THEN [path |-> g[n], since |-> FALSE, late |-> FALSE] ELSE f[n]]

(* A message without a neighbour to send it to is dropped.                 *)
Posted(g) ==
  [n \in Nonce |-> IF n \in Free /\ g[n] # None
                      /\ FirstHop[g[n]] \in uln
                   THEN [kind |-> "ProbeReq", path |-> g[n], link |-> None] ELSE net[n]]

(* The paths of the probes that are due (send_scheduled_probe_requests). A *)
(* contact may be gone, or have another proposed path, or none.            *)
PathsOf(A) ==
  {a.of : a \in {b \in A : b.kind = "ProbePath"}}
  \cup {contact[a.of].proposed.ids :
          a \in {b \in A : b.kind = "ContactProposedPath" /\ contact[b.of].proposed # None}}

(* Mutant: the rest waits for a timer that nobody starts.                  *)
SendScheduledOnce(A) ==
  /\ sendTimer /\ waiting \subseteq A /\ A \subseteq scheduled
  /\ LET g == Sending(PathsOf(A)) IN inflight' = Sent(inflight, g) /\ net' = Posted(g)
  /\ scheduled' = scheduled \ A /\ waiting' = {} /\ sendTimer' = FALSE
  /\ UNCHANGED <<tableVars, timers, envVars>>

(* The timer runs for at least half of scheduled_probe_delay: what was     *)
(* there when it started is due, what came later may be.                   *)
SendScheduled(A) ==
  /\ sendTimer /\ waiting \subseteq A /\ A \subseteq scheduled
  /\ LET g == Sending(PathsOf(A)) IN inflight' = Sent(inflight, g) /\ net' = Posted(g)
  /\ scheduled' = scheduled \ A /\ waiting' = scheduled' /\ sendTimer' = (scheduled' # {})
  /\ UNCHANGED <<tableVars, timers, envVars>>

-------------------------------------------------------------------------------
(* The periodic check and the timeout                                      *)

(* The contacts to probe: the last of those in question by last_seen.      *)
Obsolete == SelectSeq(order, LAMBDA c : c \in aged /\ contact[c].state = "Valid")
Chosen == {Obsolete[i] : i \in {j \in 1..Len(Obsolete) : j + ProbesPerBucket > Len(Obsolete)}}

(* garbage_collect_requests: the timeout timers stay.                      *)
Collected(f) == [n \in Nonce |-> IF f[n] # None /\ f[n].late THEN None ELSE f[n]]

(* Mutant: a contact is probed only until it has aged.                     *)
CheckTimerUnprobed ==
  /\ inflight' = Collected(inflight)
  /\ UNCHANGED <<tableVars, timers, scheduled, waiting, sendTimer, net, envVars>>

(* send_probe_reqs, then garbage_collect_requests.                         *)
CheckTimer ==
  /\ LET g == Sending({contact[c].active.ids : c \in Chosen})
     IN  /\ inflight' = Collected(Sent(inflight, g))
         /\ net' = Posted(g)
         /\ timers' = timers \cup {n \in Free : g[n] # None}
  /\ UNCHANGED <<tableVars, scheduled, waiting, sendTimer, envVars>>

(* invalidate_contact_for_timer: ts_probe_sent < last_validated            *)
TimeoutInvalidates(p) ==
  LET k == contact[Dest[p.path]]
  IN  k.active # None /\ k.active.ids = p.path /\ k.active.dated /\ p.since

ProbeTimeout(n) ==
  /\ n \in timers /\ (inflight[n] # None => inflight[n].late)
  /\ timers' = timers \ {n}
  /\ LET p == inflight[n]
         F == IF p # None /\ TimeoutInvalidates(p) THEN {Dest[p.path]} ELSE {}
     IN  /\ contact' = AllInvalid(F) /\ SeenNow(F)
         /\ inflight' = [Outdated(inflight, F) EXCEPT ![n] = None]
  /\ UNCHANGED <<scheduled, waiting, sendTimer, net, envVars, travelled>>

(* Time passes: a probe reaches request_timeout, a contact probe_age.      *)
BecomesLate(n) ==
  /\ inflight[n] # None /\ ~inflight[n].late
  /\ inflight' = [inflight EXCEPT ![n].late = TRUE]
  /\ UNCHANGED <<tableVars, timers, scheduled, waiting, sendTimer, net, envVars>>

BecomesAged(c) ==
  /\ contact[c].state # "Absent" /\ c \notin aged
  /\ aged' = aged \cup {c}
  /\ UNCHANGED <<contact, order, travelled, probeVars, net, envVars>>

-------------------------------------------------------------------------------
(* The network and the probed node                                         *)

Deliver(n, m) == net' = [net EXCEPT ![n] = m] /\ UNCHANGED <<tableVars, probeVars, uln, down, reports>>

(* send_probe_rsp over the reversed source route                           *)
Answer(n) ==
  /\ net[n] # None /\ net[n].kind = "ProbeReq" /\ ~Broken(net[n].path)
  /\ Deliver(n, [net[n] EXCEPT !.kind = "ProbeRsp"]) /\ UNCHANGED faults

(* The node before a failed link tells about it.                           *)
Refuse(n) ==
  /\ net[n] # None /\ net[n].kind = "ProbeReq"
  /\ \E l \in LinksOf[net[n].path] \cap down :
       Deliver(n, [kind |-> "Error", path |-> net[n].path, link |-> l])
  /\ UNCHANGED faults

Lose(n) ==
  /\ net[n] # None
  /\ IF Broken(net[n].path) /\ SilentFailures THEN UNCHANGED faults
     ELSE faults < MaxFaults /\ faults' = faults + 1
  /\ Deliver(n, None)

LinkFails(l) ==
  /\ l \notin down /\ faults < MaxFaults /\ faults' = faults + 1
  /\ down' = down \cup {l}
  /\ UNCHANGED <<tableVars, probeVars, net, uln, reports>>

-------------------------------------------------------------------------------
(* Messages.  ForwardProtocolMessage handles them before PathProbing does. *)

(* UNSStrategy::insert: a contact that is not known needs a validated path *)
(* (AddError::NeedsValidation, which raises ContactEvent::Proposed).       *)
Inserted(c, r) ==
  IF contact[c].state # "Absent" THEN Assess(contact[c], r)
  ELSE IF r.state = "Valid" THEN [Absent EXCEPT !.state = "Valid", !.active = r]
  ELSE Absent

(* A message of the contact itself over p.                                 *)
DirectMessage(p) ==
  LET c == Dest[p]
      k == Inserted(c, Validated(p))
  IN  /\ ~Broken(p) /\ FirstHop[p] \in uln /\ reports < MaxReports /\ reports' = reports + 1
      /\ Store(c, k)
      /\ inflight' = Outdated(inflight, Changed(c, k))
      /\ travelled' = travelled \cup {p}
      /\ UNCHANGED <<timers, scheduled, waiting, sendTimer, net, uln, down, faults>>

(* A contact list or a route update tells about p, which may have failed   *)
(* in the meantime.  What is older than the known contact is dropped.      *)
Report(p) ==
  LET c == Dest[p]
      k == Inserted(c, Reported(p))
  IN  /\ FirstHop[p] \in uln /\ reports < MaxReports /\ reports' = reports + 1
      /\ Store(c, k)
      /\ Schedule(NewlyProposed(c, k) \cup IF contact[c] = Absent THEN {ProbeOf(p)} ELSE {})
      /\ UNCHANGED <<inflight, timers, net, uln, down, faults, travelled>>

(* What PathProbing makes of a response over p: it compares whole paths.   *)
Confirmed(k, p) ==
  IF k.state # "Absent" /\ k.active = Undated(p)
  THEN [k EXCEPT !.active = Revalidated(@), !.proposed = IF @ = Undated(p) THEN None ELSE @]
  ELSE IF k.proposed = Undated(p) THEN [k EXCEPT !.proposed = Revalidated(@)] ELSE k

(* A response may come after its request was given up.                     *)
ProbeRsp(n) ==
  LET p == net[n].path
      c == Dest[p]
      i == Inserted(c, Validated(p))
      k == IF inflight[n] # None THEN Confirmed(i, p) ELSE i
  IN  /\ net[n] # None /\ net[n].kind = "ProbeRsp"
      /\ Store(c, k)
      /\ travelled' = travelled \cup {p}
      /\ inflight' = [Outdated(inflight, Changed(c, k)) EXCEPT ![n] = None]
      /\ timers' = IF inflight[n] # None THEN timers \ {n} ELSE timers
      /\ net' = [net EXCEPT ![n] = None]
      /\ UNCHANGED <<scheduled, waiting, sendTimer, envVars>>

(* extract_failed_contact invalidates every contact that uses the link.    *)
(* PathProbing does it again for the probed one, or drops its proposed     *)
(* path (invalidate_contact_for_message).                                  *)
ProbeError(n) ==
  LET l == net[n].link
      c == Dest[net[n].path]
      F == {d \in Present : Uses(contact[d].active, l)}
  IN  /\ net[n] # None /\ net[n].kind = "Error"
      /\ contact' = IF inflight[n] # None /\ c \in Present \ F /\ Uses(contact[c].proposed, l)
                    THEN [AllInvalid(F) EXCEPT ![c].proposed = None] ELSE AllInvalid(F)
      /\ SeenNow(F)
      /\ inflight' = [Outdated(inflight, F) EXCEPT ![n] = None]
      /\ timers' = IF inflight[n] # None THEN timers \ {n} ELSE timers
      /\ net' = [net EXCEPT ![n] = None]
      /\ UNCHANGED <<scheduled, waiting, sendTimer, envVars, travelled>>

(* The neighbours V are lost, with an interface or alone: vicinity         *)
(* discovery removes them and invalidates the contacts with a path that    *)
(* starts there; messages over them do not arrive any more.                *)
NeighborsLost(V) ==
  LET F == {c \in Present : FirstHop[contact[c].active.ids] \in V}
  IN  /\ V # {} /\ V \subseteq uln /\ faults < MaxFaults /\ faults' = faults + 1
      /\ uln' = uln \ V
      /\ contact' = AllInvalid(F) /\ SeenNow(F) /\ inflight' = Outdated(inflight, F)
      /\ net' = [n \in Nonce |-> IF net[n] # None /\ FirstHop[net[n].path] \in V
                                 THEN None ELSE net[n]]
      /\ UNCHANGED <<timers, scheduled, waiting, sendTimer, down, reports, travelled>>

NeighborFound(v) ==
  /\ v \notin uln /\ uln' = uln \cup {v}
  /\ UNCHANGED <<tableVars, probeVars, net, down, reports, faults>>

(* Failure handling gives an invalid contact up (ContactEvent::Removed).   *)
Removed(c) ==
  /\ contact[c].state = "Invalid"
  /\ contact' = [contact EXCEPT ![c] = Absent]
  /\ order' = Unordered(order, c) /\ aged' = aged \ {c}
  /\ scheduled' = scheduled \ {ProposedOf(c)} /\ waiting' = waiting \ {ProposedOf(c)}
  /\ UNCHANGED <<inflight, timers, sendTimer, net, envVars, travelled>>

-------------------------------------------------------------------------------
Carry(n) == Answer(n) \/ Refuse(n) \/ ProbeRsp(n) \/ ProbeError(n) \/ Lose(n)

Send == \E A \in SUBSET scheduled : SendScheduled(A)

ProbingNext ==
  \/ CheckTimer \/ Send
  \/ \E n \in Nonce : BecomesLate(n) \/ ProbeTimeout(n) \/ Carry(n)
  \/ \E c \in Contact : BecomesAged(c) \/ Removed(c)
  \/ \E p \in Path : DirectMessage(p) \/ Report(p)
  \/ \E l \in Link : LinkFails(l)

-------------------------------------------------------------------------------
(* Properties                                                              *)

(* Whatever others tell, and in whichever order probes, their answers and  *)
(* failures meet, a contact is only ever used over a path that a message   *)
(* of it has come over.                                                    *)
UsedPathsWereTravelled ==
  \A c \in Contact : contact[c].state = "Valid" => contact[c].active.ids \in travelled

(* Scheduled probes do not wait for ever: as long as there are any, the    *)
(* timer that sends them is running, whatever was removed or added while   *)
(* others were sent.                                                       *)
ScheduledIsDriven == scheduled # {} => sendTimer

InUseThough(c) == contact[c].state = "Valid" /\ Broken(contact[c].active.ids)

(* A contact whose active path has failed does not stay valid with it: the *)
(* periodic probe finds out, by an error or by its timeout.                *)
BrokenPathIsNoticed ==
  \A c \in Contact : InUseThough(c) ~> ~InUseThough(c)
================================================================================
