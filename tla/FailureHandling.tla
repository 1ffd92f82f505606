---------------------------- MODULE FailureHandling ----------------------------
(***************************************************************************)
(* Failed paths and the rediscovery of contacts at one node: the use case  *)
(* FailureHandling, the part of HandleContactUpdate and of message         *)
(* forwarding that changes the state of contacts, and the way R2Kad        *)
(* dispatches events.                                                      *)
(*                                                                         *)
(* A change of a contact is announced by an event that carries copies of   *)
(* the contact and is handled later: handle_timeout first runs every timer *)
(* that is due, then handles the events; handle_input handles one message  *)
(* and then the events.  What an event says may be outdated by then.       *)
(*                                                                         *)
(* Only events that some handler here acts on are queued.  The contacts a  *)
(* single sweep over the table changes form one entry, a set: the table    *)
(* iterates in no particular order.  A timer is known by the map it is in  *)
(* and by its contact, so the maps are counts; a timer whose entry is gone *)
(* does nothing.                                                           *)
(***************************************************************************)
EXTENDS ContactTable, Sequences

CONSTANTS Parallelism,     \* rediscovery_parallelism
          MaxRetryRounds,  \* max_retry_rounds
          MaxFailures,     \* bound: how often links and neighbours fail
          MaxDisturbances  \* bound: how often a contact restarts or its discovery does not complete

ASSUME RediscoveryAssumption ==
  /\ IsFiniteSet(Contact)
  /\ Parallelism \in Nat \ {0} /\ MaxRetryRounds \in Nat \ {0}
  /\ MaxFailures \in Nat /\ MaxDisturbances \in Nat

VARIABLES
  table,      \* the contacts and neighbours, see ContactTable
  scheduled,  \* [Contact -> Nat]: scheduled_rediscoveries
  inflight,   \* [Contact -> Nat]: inflight_rediscoveries
  rateLimit,  \* [Contact -> Nat]: rate_limit_rediscoveries
  queue,      \* event_queue
  draining,   \* the events are being handled: no timer and no input until all are
  panicked,   \* start_rediscovery did not find its contact
  starts,     \* history: how often the rediscovery of a contact was started
  failures,   \* failures so far
  disturbances \* disturbances so far

timers == <<scheduled, inflight, rateLimit>>
vars   == <<table, scheduled, inflight, rateLimit, queue, draining, panicked, starts,
            failures, disturbances>>

EventType == {"Invalidated",  \* Updated: was valid, is invalid
              "Interrupted",  \* Updated: was valid, is rediscovered (a neighbour)
              "Dead",         \* Updated: is dead
              "Removed"}      \* Removed

(* uln: which of the contacts had a path of one hop.                       *)
Event == [type : EventType, ids : SUBSET Contact, uln : SUBSET Contact]

TypeOK ==
  /\ table \in Table
  /\ scheduled \in [Contact -> Nat] /\ inflight \in [Contact -> Nat]
  /\ rateLimit \in [Contact -> Nat] /\ starts \in [Contact -> Nat]
  /\ queue \in Seq(Event)
  /\ draining \in BOOLEAN /\ panicked \in BOOLEAN
  /\ failures \in Nat /\ disturbances \in Nat

Init ==
  /\ table = EmptyTable
  /\ scheduled = [c \in Contact |-> 0] /\ inflight = scheduled /\ rateLimit = scheduled
  /\ starts = scheduled
  /\ queue = <<>> /\ draining = FALSE /\ panicked = FALSE
  /\ failures = 0 /\ disturbances = 0

Raise(type, ids, uln) ==
  IF ids = {} THEN <<>> ELSE <<[type |-> type, ids |-> ids, uln |-> ids \cap uln]>>

(* The write guards of ObservableRoutingTable, for set_invalid on S.       *)
Invalidated(t, S) == Raise("Invalidated", S \cap ValidOnes(t), {c \in Contact : t.hop[c] = c})

-------------------------------------------------------------------------------
(* Inputs.  All timers that are due were handled, and so were all events.  *)

Quiet == queue = <<>> /\ ~panicked

Fails(S) == /\ failures' = failures + (IF S = {} THEN 0 ELSE 1)
            /\ failures' <= MaxFailures

(* ForwardProtocolMessage: a message of y over a path that starts at h.    *)
(* Its not-via list invalidates paths (N), its source becomes a contact,   *)
(* and then it tells about contacts, or a failure it tells about           *)
(* invalidates paths (S).  Only paths of more than one hop contain a link, *)
(* and the path to y does not contain the link that y cannot use.          *)
Receive(y, h, N, S) ==
  LET t == SetInvalid(table, N)
  IN  /\ Quiet /\ table.uln # {} /\ h \in FirstHops(t) /\ (h = y => y \in table.uln)
      /\ N \subseteq InBucket(table) \cap ValidOnes(table)
      /\ \E i \in Insert(t, y, h) : \E r \in Reported(i) :
           /\ S = {} \/ r = i
           /\ S \subseteq InBucket(r) \ {y}
           /\ table' = SetInvalid(r, S)
           /\ queue' = Invalidated(table, N) \o Invalidated(r, S)
      /\ draining' = (queue' # <<>>)
      /\ Fails(N \cup S)
      /\ UNCHANGED <<panicked, starts, disturbances>>

(* A response to a rediscovery request ends it.                            *)
FindNodeRsp(y, h, N) ==
  /\ inflight[y] > 0
  /\ Receive(y, h, N, {})
  /\ inflight' = [inflight EXCEPT ![y] = @ - 1]
  /\ UNCHANGED <<scheduled, rateLimit>>

(* Mutant: the request is forgotten, nothing follows it.                   *)
ErrorRspForgotten(c, y, h, S) ==
  /\ inflight[c] > 0
  /\ Receive(y, h, {}, S)
  /\ inflight' = [inflight EXCEPT ![c] = @ - 1]
  /\ UNCHANGED <<scheduled, rateLimit>>

(* An error for a rediscovery of c: the next request has to wait.          *)
ErrorRsp(c, y, h, S) ==
  /\ inflight[c] > 0
  /\ Receive(y, h, {}, S)
  /\ inflight' = [inflight EXCEPT ![c] = @ - 1]
  /\ rateLimit' = [rateLimit EXCEPT ![c] = @ + 1]
  /\ UNCHANGED scheduled

(* Any other message: requests, answers and errors of other use cases, and *)
(* UpdateRouteReq, which may say that a contact is unreachable.            *)
OtherMessage(y, h, N, S) == Receive(y, h, N, S) /\ UNCHANGED timers

(* ULNDiscReq or ULNDiscRsp: the sender becomes a contact, and then a      *)
(* neighbour if its ULNHello has not made it one already.                  *)
Discovery(y) ==
  /\ Quiet
  /\ \E i \in Insert(table, y, y) : \E r \in Reported(i) :
       table' = [r EXCEPT !.uln = @ \cup {y}]
  /\ UNCHANGED <<timers, queue, draining, panicked, starts, failures, disturbances>>

Disturb == disturbances < MaxDisturbances /\ disturbances' = disturbances + 1

(* A ULNHello whose discovery is delayed or lost.                          *)
Hello(y) ==
  /\ Quiet /\ Disturb /\ y \notin table.uln
  /\ table' = [table EXCEPT !.uln = @ \cup {y}]
  /\ UNCHANGED <<timers, queue, draining, panicked, starts, failures>>

(* The interface it came from is down by now: vicinity discovery drops the *)
(* message, when its sender already is a contact.                          *)
LateDiscovery(y) ==
  /\ Quiet /\ Disturb
  /\ \E i \in Insert(table, y, y) : table' \in Reported(i)
  /\ UNCHANGED <<timers, queue, draining, panicked, starts, failures>>

(* Mutant: only the neighbour table is updated.                            *)
NeighborDownUnnoticed(u) ==
  /\ Quiet /\ u \in table.uln
  /\ table' = [table EXCEPT !.uln = @ \ {u}]
  /\ Fails({u})
  /\ UNCHANGED <<timers, queue, draining, panicked, starts, disturbances>>

(* invalidate_affected_contacts                                            *)
NeighborDown(u) ==
  /\ Quiet /\ u \in table.uln
  /\ table' = [SetInvalid(table, Via(table, u)) EXCEPT !.uln = @ \ {u}]
  /\ queue' = Invalidated(table, Via(table, u))
  /\ draining' = (queue' # <<>>)
  /\ Fails({u})
  /\ UNCHANGED <<timers, panicked, starts, disturbances>>

(* The node behind a contact restarts and counts its SSN from the start.   *)
Restart(c) ==
  /\ Quiet /\ Disturb /\ c \in Present(table) \ table.ahead
  /\ table' = [table EXCEPT !.ahead = @ \cup {c}]
  /\ UNCHANGED <<timers, queue, draining, panicked, starts, failures>>

-------------------------------------------------------------------------------
(* Timers.  Events may be waiting already.                                 *)

Running == ~draining /\ ~panicked

(* extract_eligible_via_contacts: walks the list until n of its contacts   *)
(* are found to be valid and drops what it has passed.  The order of the   *)
(* list (closeness) is left open.                                          *)
Extract(t, c, n) ==
  LET eligible == t.vias[c] \cap ValidOnes(t)
  IN  IF t.st[c] # "Rediscovering" THEN {[taken |-> {}, rest |-> {}]}
      ELSE IF Cardinality(eligible) < n THEN {[taken |-> eligible, rest |-> {}]}
      ELSE UNION {{[taken |-> E, rest |-> t.vias[c] \ (E \cup K)] :
                     K \in SUBSET (t.vias[c] \ eligible)} :
                     E \in {F \in SUBSET eligible : Cardinality(F) = n}}

(* Mutant: the entry of the timer stays in the map.                        *)
ScheduledTimerKept(c) ==
  /\ Running /\ scheduled[c] > 0
  /\ \E x \in Extract(table, c, Parallelism) :
       /\ table' = [table EXCEPT !.vias[c] = x.rest]
       /\ inflight' = [inflight EXCEPT ![c] = @ + Cardinality(x.taken)]
       /\ rateLimit' = [rateLimit EXCEPT ![c] = @ + IF x.taken = {} THEN 1 ELSE 0]
  /\ UNCHANGED <<scheduled, queue, draining, panicked, starts, failures, disturbances>>

(* send_rediscovery_for_contact: as many requests as there are eligible    *)
(* contacts, or a timer that leads to the next round.                      *)
ScheduledTimer(c) ==
  /\ Running /\ scheduled[c] > 0
  /\ scheduled' = [scheduled EXCEPT ![c] = @ - 1]
  /\ \E x \in Extract(table, c, Parallelism) :
       /\ table' = [table EXCEPT !.vias[c] = x.rest]
       /\ inflight' = [inflight EXCEPT ![c] = @ + Cardinality(x.taken)]
       /\ rateLimit' = [rateLimit EXCEPT ![c] = @ + IF x.taken = {} THEN 1 ELSE 0]
  /\ UNCHANGED <<queue, draining, panicked, starts, failures, disturbances>>

(* A request to the next eligible contact of the list.                     *)
SendNext(c, inf) ==
  \E x \in Extract(table, c, 1) :
    /\ x.taken # {}
    /\ table' = [table EXCEPT !.vias[c] = x.rest]
    /\ inflight' = [inf EXCEPT ![c] = @ + 1]
    /\ UNCHANGED <<scheduled, queue>>

Exhausted(c) == \A x \in Extract(table, c, 1) : x.taken = {}

(* Another request of this round may still be answered.                    *)
WaitForOthers(c, inf, rate) ==
  /\ Exhausted(c) /\ inf[c] + rate[c] > 0
  /\ table' = [table EXCEPT !.vias[c] = {}]
  /\ inflight' = inf
  /\ UNCHANGED <<scheduled, queue>>

(* Mutant: the round is not counted.                                       *)
NextRoundUncounted(c, inf, rate) ==
  /\ Exhausted(c) /\ inf[c] + rate[c] = 0 /\ table.retries[c] < MaxRetryRounds
  /\ table' = [table EXCEPT !.vias[c] = ValidOnes(table)]
  /\ scheduled' = [scheduled EXCEPT ![c] = @ + 1]
  /\ inflight' = inf
  /\ UNCHANGED queue

NextRound(c, inf, rate) ==
  /\ Exhausted(c) /\ inf[c] + rate[c] = 0 /\ table.retries[c] < MaxRetryRounds
  /\ table' = [table EXCEPT !.vias[c] = ValidOnes(table), !.retries[c] = @ + 1]
  /\ scheduled' = [scheduled EXCEPT ![c] = @ + 1]
  /\ inflight' = inf
  /\ UNCHANGED queue

GiveUp(c, inf, rate) ==
  /\ Exhausted(c) /\ inf[c] + rate[c] = 0 /\ table.retries[c] >= MaxRetryRounds
  /\ table' = SetState(table, c, "Dead")
  /\ queue' = queue \o Raise("Dead", {c}, {d \in Contact : table.hop[d] = d})
  /\ inflight' = inf
  /\ UNCHANGED scheduled

(* handle_rediscovery_failure, with the entry of the timer removed.        *)
HandleRediscoveryFailure(c, inf, rate) ==
  /\ rateLimit' = rate
  /\ IF table.st[c] = "Rediscovering"
     THEN SendNext(c, inf) \/ WaitForOthers(c, inf, rate)
          \/ NextRound(c, inf, rate) \/ GiveUp(c, inf, rate)
     ELSE inflight' = inf /\ UNCHANGED <<table, scheduled, queue>>
  /\ UNCHANGED <<draining, panicked, starts, failures, disturbances>>

RequestTimer(c) ==
  /\ Running /\ inflight[c] > 0
  /\ HandleRediscoveryFailure(c, [inflight EXCEPT ![c] = @ - 1], rateLimit)

RateLimitTimer(c) ==
  /\ Running /\ rateLimit[c] > 0
  /\ HandleRediscoveryFailure(c, inflight, [rateLimit EXCEPT ![c] = @ - 1])

(* invalidate_contact_for_timer of path probing.                           *)
ProbeTimer(c) ==
  /\ Running /\ c \in InBucket(table)
  /\ table' = SetInvalid(table, {c})
  /\ queue' = queue \o Invalidated(table, {c})
  /\ Fails({c})
  /\ UNCHANGED <<timers, draining, panicked, starts, disturbances>>

-------------------------------------------------------------------------------
(* Events, in the order they were raised.                                  *)

Handle(type, c) == queue # <<>> /\ ~panicked /\ Head(queue).type = type /\ c \in Head(queue).ids

WasULN(c) == c \in Head(queue).uln

(* Mutant: of all contacts of a sweep only one is handled.                 *)
RestTail(c) == Tail(queue)

Rest(c) == IF Head(queue).ids = {c} THEN Tail(queue)
           ELSE [queue EXCEPT ![1].ids = @ \ {c}]

(* invalidate_all_affected_contacts of HandleContactUpdate                 *)
Affected(c) == IF WasULN(c) THEN Via(table, c) ELSE {}

(* HandleContactUpdate first, then start_rediscovery.                      *)
StartRediscovery(c) ==
  LET t == SetInvalid(table, Affected(c))
  IN  /\ Handle("Invalidated", c)
      /\ IF t.st[c] = "Absent"
         THEN /\ panicked' = TRUE /\ table' = t
              /\ UNCHANGED <<scheduled, starts>>
         ELSE /\ table' = [t EXCEPT !.st[c] = "Rediscovering", !.vias[c] = ValidOnes(t),
                                    !.retries[c] = 0]
              /\ scheduled' = [scheduled EXCEPT ![c] = @ + 1]
              /\ starts' = [starts EXCEPT ![c] = @ + 1]
              /\ UNCHANGED panicked
      /\ queue' = Rest(c) \o Invalidated(table, Affected(c))
                  \o Raise("Interrupted", {c} \cap {d \in ValidOnes(t) : t.hop[d] = d}, {c})
      /\ draining' = (queue' # <<>>)
      /\ UNCHANGED <<inflight, rateLimit, failures, disturbances>>

(* A contact that was valid again when its rediscovery started.            *)
ContactInterrupted(c) ==
  /\ Handle("Interrupted", c)
  /\ table' = SetInvalid(table, Affected(c))
  /\ queue' = Rest(c) \o Invalidated(table, Affected(c))
  /\ draining' = (queue' # <<>>)
  /\ UNCHANGED <<timers, panicked, starts, failures, disturbances>>

RemoveDead(c) ==
  /\ Handle("Dead", c)
  /\ table' = RemoveContact(table, c)
  /\ queue' = Rest(c) \o Raise("Removed", {c} \cap Present(table),
                               {d \in Contact : table.hop[d] = d})
  /\ draining' = (queue' # <<>>)
  /\ UNCHANGED <<timers, panicked, starts, failures, disturbances>>

ContactRemoved(c) ==
  /\ Handle("Removed", c)
  /\ table' = [SetInvalid(table, Affected(c)) EXCEPT !.uln = @ \ {c}]
  /\ inflight' = [inflight EXCEPT ![c] = 0]
  /\ queue' = Rest(c) \o Invalidated(table, Affected(c))
  /\ draining' = (queue' # <<>>)
  /\ UNCHANGED <<scheduled, rateLimit, panicked, starts, failures, disturbances>>

Dispatch(c) == StartRediscovery(c) \/ ContactInterrupted(c) \/ RemoveDead(c) \/ ContactRemoved(c)

-------------------------------------------------------------------------------
Paths == SUBSET InBucket(table)  \* the paths of more than one hop that contain some link

Input ==
  \E y, h \in Contact :
    \/ \E N \in Paths : FindNodeRsp(y, h, N)
    \/ \E c \in Contact : \E S \in Paths : ErrorRsp(c, y, h, S)
    \/ \E N \in Paths : \E S \in Paths : OtherMessage(y, h, N, S)
    \/ Hello(y) \/ Discovery(y) \/ LateDiscovery(y) \/ NeighborDown(y) \/ Restart(y)

Timer(c) == ScheduledTimer(c) \/ RequestTimer(c) \/ RateLimitTimer(c)

Next == Input \/ \E c \in Contact : Timer(c) \/ ProbeTimer(c) \/ Dispatch(c)

Spec == Init /\ [][Next]_vars

(* The runtime runs every timer that is due and drains its event queue.    *)
FairSpec ==
  /\ Spec
  /\ \A c \in Contact : /\ WF_vars(ScheduledTimer(c)) /\ WF_vars(RequestTimer(c))
                        /\ WF_vars(RateLimitTimer(c))
  /\ WF_vars(\E c \in Contact : Dispatch(c))

-------------------------------------------------------------------------------
(* Properties                                                              *)

(* Whenever the node has handled all events, every contact is valid or     *)
(* being rediscovered: no failure went unnoticed and no dead contact was   *)
(* left behind, whatever order the events were handled in.                 *)
FailuresAreHandled ==
  Quiet => \A c \in Contact : table.st[c] \in {"Absent", "Valid", "Rediscovering"}

(* A contact that is being rediscovered has a timer that carries on with   *)
(* it, as long as its SSN is not behind the one stored for it ("we start a *)
(* timer to not get stuck forever in Rediscovering state").                *)
RediscoveryIsDriven ==
  \A c \in Contact : table.st[c] = "Rediscovering" /\ c \notin table.ahead
                     => scheduled[c] + inflight[c] + rateLimit[c] > 0

(* A contact whose rediscovery was started k times has at most k times     *)
(* rediscovery_parallelism requests under way: leftover timers of earlier  *)
(* failures, error answers and new rounds do not multiply them.            *)
RequestsBounded ==
  \A c \in Contact : inflight[c] + rateLimit[c] <= Parallelism * starts[c]

(* As long as every discovery completes and no contact restarts, every     *)
(* valid path starts at a node of the neighbour table when all events are  *)
(* handled: no message to a valid contact is dropped for an unknown next   *)
(* hop.                                                                    *)
FirstHopIsNeighbor ==
  Quiet /\ disturbances = 0 => \A c \in ValidOnes(table) : table.hop[c] \in table.uln

(* A rediscovery ends: the contact is found again, or it is removed.       *)
RediscoveryEnds ==
  \A c \in Contact : table.st[c] = "Rediscovering"
                     ~> table.st[c] # "Rediscovering" \/ c \in table.ahead \/ panicked

===============================================================================
