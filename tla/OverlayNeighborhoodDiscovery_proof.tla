----------------- MODULE OverlayNeighborhoodDiscovery_proof -----------------
(***************************************************************************)
(* Proofs for the overlay maintenance of a node: which paths are used, and *)
(* that neither scheduled probes, nor an isolated node, nor the join step  *)
(* are forgotten.                                                          *)
(*                                                                         *)
(* Nothing is assumed about the probes on their way: a path comes into use *)
(* together with its entry in travelled, whatever message brought it.      *)
(***************************************************************************)
EXTENDS OverlayNeighborhoodDiscovery, TLAPS, FiniteSetTheorems, WellFoundedInduction

(* Paths over the nodes P, with the states a path can have.                *)
Records(P) == [ids : P, state : {"Valid", "Faulty", "NotValidated"}, dated : BOOLEAN]

(* A contact whose active path is one of T, in use or not.  What was       *)
(* invalidated has been used before, so it is in T as well.                *)
ContactOK(k, T) ==
  /\ k \in [state : {"Absent", "Valid", "Invalid"},
            active : Records(T) \cup {None}, proposed : Records(Path \cup T) \cup {None}]
  /\ k.state = "Absent" => k = Absent
  /\ k.state # "Absent" => k.active \in Records(T)

(* Every contact is of that kind for the paths that were travelled.        *)
ContactsOK ==
  /\ DOMAIN contact = Contact /\ contact = [c \in Contact |-> contact[c]]
  /\ \A c \in Contact : ContactOK(contact[c], travelled)

-----------------------------------------------------------------------------
(* A contact stays sound when more paths have been travelled.              *)
LEMMA ContactGrows ==
  ASSUME NEW k, NEW T, NEW U, T \subseteq U, ContactOK(k, T)
  PROVE  ContactOK(k, U)
<1>1. Records(T) \subseteq Records(U) /\ Records(Path \cup T) \subseteq Records(Path \cup U)
  BY DEF Records
<1> QED
  BY <1>1 DEF ContactOK

LEMMA AbsentOK ==
  ASSUME NEW T
  PROVE  ContactOK(Absent, T)
  BY DEF ContactOK, Absent

(* set_invalid keeps the nodes of the active path.                         *)
LEMMA InvalidOK ==
  ASSUME NEW k, NEW T, ContactOK(k, T), k.state # "Absent"
  PROVE  ContactOK(SetInvalid(k), T)
<1>1. Faulty(k.active) \in Records(T)
  BY DEF ContactOK, Faulty, Records
<1> QED
  BY <1>1 DEF ContactOK, SetInvalid

(* assess_path_candidate_and_update: a candidate becomes the active path   *)
(* only if it counts as valid.                                             *)
LEMMA AssessOK ==
  ASSUME NEW k, NEW T, ContactOK(k, T), k.state # "Absent",
         NEW r \in Records(Path \cup T), r.state = "Valid" => r.ids \in T
  PROVE  ContactOK(Assess(k, r), T) /\ Assess(k, r).state # "Absent"
<1>1. CASE k.state = "Valid" /\ ~Better(r.ids, k.active.ids)
  BY <1>1 DEF Assess
<1>2. CASE ~(k.state = "Valid" /\ ~Better(r.ids, k.active.ids)) /\ r.state = "Valid"
  <2>1. r \in Records(T)
    BY <1>2 DEF Records
  <2>2. CASE k.proposed # None /\ k.proposed.ids = r.ids
    <3>1. k.proposed \in Records(Path \cup T)
      BY <2>2 DEF ContactOK
    <3>2. Revalidated(k.proposed) \in Records(T)
      BY <2>1, <2>2, <3>1 DEF Records, Revalidated
    <3>3. Assess(k, r) = [state |-> "Valid", active |-> Revalidated(k.proposed), proposed |-> None]
      BY <1>2, <2>2 DEF Assess
    <3> QED
      BY <3>2, <3>3 DEF ContactOK
  <2>3. CASE ~(k.proposed # None /\ k.proposed.ids = r.ids)
    <3>1. Assess(k, r) = [k EXCEPT !.state = "Valid", !.active = r]
      BY <1>2, <2>3 DEF Assess
    <3> QED
      BY <2>1, <3>1 DEF ContactOK
  <2> QED
    BY <2>2, <2>3
<1>3. CASE ~(k.state = "Valid" /\ ~Better(r.ids, k.active.ids)) /\ r.state # "Valid"
  <2>1. Assess(k, r) \in {k, [k EXCEPT !.proposed = r]}
    BY <1>3 DEF Assess
  <2>2. ContactOK([k EXCEPT !.proposed = r], T)
    BY DEF ContactOK
  <2>3. [k EXCEPT !.proposed = r].state # "Absent"
    BY DEF ContactOK
  <2> QED
    BY <2>1, <2>2, <2>3
<1> QED
  BY <1>1, <1>2, <1>3

(* UNSStrategy::insert of a path.                                          *)
LEMMA InsertedOK ==
  ASSUME ContactsOK, NEW c \in Contact, NEW T, travelled \subseteq T,
         NEW r \in Records(Path \cup T), r.state = "Valid" => r.ids \in T
  PROVE  ContactOK(Inserted(c, r), T) /\ (r.state = "Valid" => Inserted(c, r).state # "Absent")
<1>1. ContactOK(contact[c], T)
  BY ContactGrows DEF ContactsOK
<1>2. CASE contact[c].state # "Absent"
  BY <1>1, <1>2, AssessOK DEF Inserted
<1>3. CASE contact[c].state = "Absent" /\ r.state = "Valid"
  <2>1. r \in Records(T)
    BY <1>3 DEF Records
  <2>2. Inserted(c, r) = [state |-> "Valid", active |-> r, proposed |-> None]
    BY <1>3 DEF Inserted, Absent
  <2> QED
    BY <2>1, <2>2 DEF ContactOK
<1>4. CASE contact[c].state = "Absent" /\ r.state # "Valid"
  BY <1>4, AbsentOK DEF Inserted
<1> QED
  BY <1>2, <1>3, <1>4

(* A probe's answer changes no node of the paths of a contact.             *)
LEMMA ConfirmedOK ==
  ASSUME NEW k, NEW T, ContactOK(k, T), k.state # "Absent", NEW p \in T
  PROVE  ContactOK(Confirmed(k, p), T)
<1>1. CASE k.state # "Absent" /\ k.active = Undated(p)
  <2>1. Revalidated(k.active) \in Records(T)
    BY <1>1 DEF Revalidated, Records, ContactOK
  <2>2. Confirmed(k, p) = [k EXCEPT !.active = Revalidated(@),
                                    !.proposed = IF @ = Undated(p) THEN None ELSE @]
    BY <1>1 DEF Confirmed
  <2> QED
    BY <1>1, <2>1, <2>2 DEF ContactOK
<1>2. CASE ~(k.state # "Absent" /\ k.active = Undated(p)) /\ k.proposed = Undated(p)
  <2>1. k.proposed \in Records(Path \cup T)
    BY <1>2 DEF Undated, Records
  <2>2. Revalidated(k.proposed) \in Records(Path \cup T)
    BY <2>1 DEF Revalidated, Records
  <2>3. Confirmed(k, p) = [k EXCEPT !.proposed = Revalidated(@)]
    BY <1>2 DEF Confirmed
  <2> QED
    BY <2>2, <2>3 DEF ContactOK
<1>3. CASE ~(k.state # "Absent" /\ k.active = Undated(p)) /\ k.proposed # Undated(p)
  BY <1>3 DEF Confirmed
<1> QED
  BY <1>1, <1>2, <1>3

(* The table after one contact was stored, or several were invalidated.    *)
LEMMA StoreOK ==
  ASSUME ContactsOK, NEW c \in Contact, NEW k, travelled \subseteq travelled',
         ContactOK(k, travelled'), contact' = [contact EXCEPT ![c] = k]
  PROVE  ContactsOK'
<1>1. \A d \in Contact : contact'[d] = IF d = c THEN k ELSE contact[d]
  BY DEF ContactsOK
<1>2. \A d \in Contact : ContactOK(contact[d], travelled')
  BY ContactGrows DEF ContactsOK
<1>3. \A d \in Contact : ContactOK(contact'[d], travelled')
  BY <1>1, <1>2
<1>4. DOMAIN contact' = Contact /\ contact' = [d \in Contact |-> contact'[d]]
  BY DEF ContactsOK
<1> QED
  BY <1>3, <1>4 DEF ContactsOK

LEMMA AllInvalidOK ==
  ASSUME ContactsOK, NEW F, \A c \in F \cap Contact : contact[c].state # "Absent"
  PROVE  \A c \in Contact : ContactOK(AllInvalid(F)[c], travelled)
<1> SUFFICES ASSUME NEW c \in Contact
             PROVE  ContactOK(AllInvalid(F)[c], travelled)
  OBVIOUS
<1>1. ContactOK(contact[c], travelled)
  BY DEF ContactsOK
<1>2. CASE c \in F
  BY <1>1, <1>2, InvalidOK DEF AllInvalid
<1>3. CASE c \notin F
  BY <1>1, <1>3 DEF AllInvalid
<1> QED
  BY <1>2, <1>3

(* Contacts that are present have an active path.                          *)
LEMMA PresentOK ==
  ASSUME ContactsOK, NEW c \in Present
  PROVE  c \in Contact /\ contact[c].state # "Absent"
  BY DEF ContactsOK, ContactOK, Present

-----------------------------------------------------------------------------
(* A message of the contact itself.                                        *)
LEMMA DirectMessageOK ==
  ASSUME ContactsOK, NEW p \in Path, DirectMessage(p)
  PROVE  ContactsOK'
<1>1. Dest[p] \in Contact
  BY ProbingAssumption
<1>2. travelled' = travelled \cup {p}
  BY DEF DirectMessage
<1>3. Validated(p) \in Records(Path \cup travelled') /\ Validated(p).ids \in travelled'
  BY <1>2 DEF Validated, Records
<1>4. ContactOK(Inserted(Dest[p], Validated(p)), travelled')
  BY <1>1, <1>2, <1>3, InsertedOK
<1>5. contact' = [contact EXCEPT ![Dest[p]] = Inserted(Dest[p], Validated(p))]
  BY DEF DirectMessage, Store
<1> QED
  BY <1>1, <1>2, <1>4, <1>5, StoreOK

(* Somebody tells about a path.                                            *)
LEMMA ReportOK ==
  ASSUME ContactsOK, NEW p \in Path, Report(p)
  PROVE  ContactsOK'
<1>1. Dest[p] \in Contact
  BY ProbingAssumption
<1>2. travelled' = travelled
  BY DEF Report
<1>3. Reported(p) \in Records(Path \cup travelled') /\ Reported(p).state # "Valid"
  BY DEF Reported, Records
<1>4. ContactOK(Inserted(Dest[p], Reported(p)), travelled')
  BY <1>1, <1>2, <1>3, InsertedOK
<1>5. contact' = [contact EXCEPT ![Dest[p]] = Inserted(Dest[p], Reported(p))]
  BY DEF Report, Store
<1> QED
  BY <1>1, <1>2, <1>4, <1>5, StoreOK

(* An answer to a probe, of whatever path.                                 *)
LEMMA ProbeRspOK ==
  ASSUME ContactsOK, NEW n \in Nonce, ProbeRsp(n)
  PROVE  ContactsOK'
<1> DEFINE p == net[n].path
           c == Dest[p]
           i == Inserted(c, Validated(p))
           k == IF inflight[n] # None THEN Confirmed(i, p) ELSE i
<1>1. travelled' = travelled \cup {p} /\ contact' = [contact EXCEPT ![c] = k]
  BY DEF ProbeRsp, Store
<1>2. CASE c \in Contact
  <2>1. Validated(p) \in Records(Path \cup travelled') /\ Validated(p).ids \in travelled'
        /\ Validated(p).state = "Valid"
    BY <1>1 DEF Validated, Records
  <2>2. ContactOK(i, travelled') /\ i.state # "Absent"
    BY <1>1, <1>2, <2>1, InsertedOK
  <2>3. ContactOK(k, travelled')
    BY <1>1, <2>2, ConfirmedOK
  <2> QED
    BY <1>1, <1>2, <2>3, StoreOK
<1>3. CASE c \notin Contact
  <2>1. contact' = contact
    BY <1>1, <1>3 DEF ContactsOK
  <2>2. \A d \in Contact : ContactOK(contact[d], travelled')
    BY <1>1, ContactGrows DEF ContactsOK
  <2> QED
    BY <2>1, <2>2 DEF ContactsOK
<1> QED
  BY <1>2, <1>3

(* Contacts become invalid: by an error, a timeout or a lost neighbour.    *)
LEMMA InvalidatedOK ==
  ASSUME ContactsOK, NEW F, \A c \in F \cap Contact : contact[c].state # "Absent",
         contact' = AllInvalid(F), travelled' = travelled
  PROVE  ContactsOK'
<1>1. \A c \in Contact : ContactOK(contact'[c], travelled')
  BY AllInvalidOK
<1>2. DOMAIN contact' = Contact /\ contact' = [c \in Contact |-> contact'[c]]
  BY DEF AllInvalid
<1> QED
  BY <1>1, <1>2 DEF ContactsOK

LEMMA ProbeTimeoutOK ==
  ASSUME ContactsOK, NEW n \in Nonce, ProbeTimeout(n)
  PROVE  ContactsOK'
<1> DEFINE p == inflight[n]
           F == IF p # None /\ TimeoutInvalidates(p) THEN {Dest[p.path]} ELSE {}
<1>1. contact' = AllInvalid(F) /\ travelled' = travelled
  BY DEF ProbeTimeout
<1>2. \A c \in F \cap Contact : contact[c].active # None
  BY DEF TimeoutInvalidates
<1>3. \A c \in Contact : contact[c].active # None => contact[c].state # "Absent"
  BY DEF ContactsOK, ContactOK, Absent
<1> HIDE DEF F
<1> QED
  BY <1>1, <1>2, <1>3, InvalidatedOK

LEMMA ProbeErrorOK ==
  ASSUME ContactsOK, NEW n \in Nonce, ProbeError(n)
  PROVE  ContactsOK'
<1> DEFINE l == net[n].link
           c == Dest[net[n].path]
           F == {d \in Present : Uses(contact[d].active, l)}
<1>1. /\ travelled' = travelled
      /\ \/ contact' = AllInvalid(F)
         \/ c \in Present \ F /\ contact' = [AllInvalid(F) EXCEPT ![c].proposed = None]
  BY DEF ProbeError
<1>2. \A d \in F : d \in Contact /\ contact[d].state # "Absent"
  BY PresentOK
<1>3. F \subseteq Present
  OBVIOUS
<1> HIDE DEF F
<1>4. CASE contact' = AllInvalid(F)
  BY <1>1, <1>2, <1>4, InvalidatedOK
<1>5. CASE c \in Present \ F /\ contact' = [AllInvalid(F) EXCEPT ![c].proposed = None]
  <2>1. c \in Contact /\ contact[c].state # "Absent" /\ ContactOK(contact[c], travelled)
    BY <1>5, PresentOK DEF ContactsOK
  <2>2. AllInvalid(F)[c] = contact[c]
    BY <1>5, <2>1 DEF AllInvalid
  <2>3. ContactOK([contact[c] EXCEPT !.proposed = None], travelled)
    BY <2>1 DEF ContactOK
  <2>4. \A d \in Contact :
          contact'[d] = IF d = c THEN [contact[c] EXCEPT !.proposed = None] ELSE AllInvalid(F)[d]
    BY <1>5, <2>1, <2>2 DEF AllInvalid
  <2>5. \A d \in Contact : ContactOK(contact'[d], travelled')
    BY <1>1, <1>2, <2>3, <2>4, AllInvalidOK
  <2>6. DOMAIN contact' = Contact /\ contact' = [d \in Contact |-> contact'[d]]
    BY <1>5 DEF AllInvalid
  <2> QED
    BY <2>5, <2>6 DEF ContactsOK
<1> QED
  BY <1>1, <1>4, <1>5

LEMMA NeighborsLostOK ==
  ASSUME ContactsOK, NEW V, NeighborsLost(V)
  PROVE  ContactsOK'
<1> DEFINE F == {c \in Present : FirstHop[contact[c].active.ids] \in V}
<1>1. contact' = AllInvalid(F) /\ travelled' = travelled
  BY DEF NeighborsLost
<1>2. \A c \in F : contact[c].state # "Absent"
  BY PresentOK
<1> HIDE DEF F
<1> QED
  BY <1>1, <1>2, InvalidatedOK

LEMMA RemovedOK ==
  ASSUME ContactsOK, NEW c \in Contact, Removed(c)
  PROVE  ContactsOK'
<1>1. contact' = [contact EXCEPT ![c] = Absent] /\ travelled' = travelled
  BY DEF Removed
<1> QED
  BY <1>1, AbsentOK, StoreOK

(* All other steps leave contacts and history alone.                       *)
LEMMA OthersOK ==
  ASSUME ContactsOK, contact' = contact, travelled' = travelled
  PROVE  ContactsOK'
  BY DEF ContactsOK

LEMMA StepContactsOK ==
  ASSUME ContactsOK, [Next]_allVars
  PROVE  ContactsOK'
<1>1. ASSUME NEW n \in Nonce, BecomesLate(n) \/ ProbeTimeout(n) \/ Carry(n)
      PROVE  ContactsOK'
  <2>1. CASE BecomesLate(n)
    BY <2>1, OthersOK DEF BecomesLate, tableVars
  <2>2. CASE ProbeTimeout(n)
    BY <2>2, ProbeTimeoutOK
  <2>3. CASE Answer(n) \/ Refuse(n) \/ Lose(n)
    BY <2>3, OthersOK DEF Answer, Refuse, Lose, Deliver, tableVars
  <2>4. CASE ProbeRsp(n) \/ ProbeError(n)
    BY <2>4, ProbeRspOK, ProbeErrorOK
  <2> QED
    BY <1>1, <2>1, <2>2, <2>3, <2>4 DEF Carry
<1>2. ASSUME NEW c \in Contact, BecomesAged(c) \/ Removed(c)
      PROVE  ContactsOK'
  <2>1. CASE BecomesAged(c)
    BY <2>1, OthersOK DEF BecomesAged
  <2> QED
    BY <1>2, <2>1, RemovedOK
<1>3. ASSUME NEW p \in Path, DirectMessage(p) \/ Report(p)
      PROVE  ContactsOK'
  BY <1>3, DirectMessageOK, ReportOK
<1>4. ASSUME NEW l \in Link, LinkFails(l)
      PROVE  ContactsOK'
  BY <1>4, OthersOK DEF LinkFails, tableVars
<1>5. ASSUME CheckTimer \/ Send
      PROVE  ContactsOK'
  <2>1. tableVars' = tableVars
    BY <1>5 DEF CheckTimer, Send, SendScheduled
  <2> QED
    BY <2>1, OthersOK DEF tableVars
<1>6. CASE ProbingNext
  BY <1>1, <1>2, <1>3, <1>4, <1>5, <1>6 DEF ProbingNext
<1>7. CASE UNCHANGED vars
  BY <1>7, OthersOK DEF vars
<1>8. ASSUME NEW V \in SUBSET uln, Lost(V)
      PROVE  ContactsOK'
  BY <1>8, NeighborsLostOK DEF Lost
<1>9. ASSUME NEW v \in Neighbor, Found(v)
      PROVE  ContactsOK'
  BY <1>9, OthersOK DEF Found, NeighborFound, tableVars
<1>10. ASSUME NEW p \in Path, JoinRsp(p)
       PROVE  ContactsOK'
  BY <1>10, ReportOK DEF JoinRsp
<1>11. CASE Step
  BY <1>6, <1>7, <1>8, <1>9, <1>10, <1>11
     DEF Step, Probing, JoinTimer, ExplorationTimer, JoinRspEmpty, VicinityChanged
<1> QED
  BY <1>7, <1>11 DEF Next, allVars

LEMMA InitContactsOK == Init => ContactsOK
<1> SUFFICES ASSUME Init PROVE ContactsOK
  OBVIOUS
<1>1. contact = [c \in Contact |-> Absent]
  BY DEF Init, ProbingInit
<1> QED
  BY <1>1, AbsentOK DEF ContactsOK

(* A contact is only ever used over a path that a message of it has come   *)
(* over, for every network, and whatever others report.                    *)
THEOREM UsedPathsAlwaysTravelled == Spec => []UsedPathsWereTravelled
<1>1. ContactsOK => UsedPathsWereTravelled
  BY DEF ContactsOK, ContactOK, Records, UsedPathsWereTravelled
<1> QED
  BY <1>1, InitContactsOK, StepContactsOK, PTL DEF Spec

-----------------------------------------------------------------------------
(* The timer of scheduled probes is armed by every step that schedules one *)
(* and only given up by a step that leaves none.                           *)
THEOREM ScheduledAlwaysDriven == Spec => []ScheduledIsDriven
<1>1. Init => ScheduledIsDriven
  BY DEF Init, ProbingInit, ScheduledIsDriven
<1>2. ASSUME ScheduledIsDriven, [Next]_allVars
      PROVE  ScheduledIsDriven'
  <2>1. CASE UNCHANGED <<scheduled, sendTimer>>
    BY <1>2, <2>1 DEF ScheduledIsDriven
  <2>2. ASSUME NEW p \in Path, Report(p)
        PROVE  ScheduledIsDriven'
    BY <1>2, <2>2 DEF Report, Schedule, ScheduledIsDriven
  <2>3. ASSUME NEW c \in Contact, Removed(c)
        PROVE  ScheduledIsDriven'
    BY <1>2, <2>3 DEF Removed, envVars, ScheduledIsDriven
  <2>4. ASSUME NEW A, SendScheduled(A)
        PROVE  ScheduledIsDriven'
    BY <2>4 DEF SendScheduled, ScheduledIsDriven
  <2>5. CASE ProbingNext
    <3>1. ASSUME NEW n \in Nonce, BecomesLate(n) \/ ProbeTimeout(n) \/ Carry(n)
          PROVE  UNCHANGED <<scheduled, sendTimer>>
      BY <3>1 DEF BecomesLate, ProbeTimeout, Carry, Answer, Refuse, ProbeRsp, ProbeError, Lose,
                  Deliver, probeVars
    <3>2. ASSUME NEW c \in Contact, BecomesAged(c)
          PROVE  UNCHANGED <<scheduled, sendTimer>>
      BY <3>2 DEF BecomesAged, probeVars
    <3>3. ASSUME NEW p \in Path, DirectMessage(p)
          PROVE  UNCHANGED <<scheduled, sendTimer>>
      BY <3>3 DEF DirectMessage
    <3>4. ASSUME NEW l \in Link, LinkFails(l)
          PROVE  UNCHANGED <<scheduled, sendTimer>>
      BY <3>4 DEF LinkFails, probeVars
    <3>5. CASE CheckTimer
      BY <2>1, <3>5 DEF CheckTimer
    <3> QED
      BY <2>1, <2>2, <2>3, <2>4, <2>5, <3>1, <3>2, <3>3, <3>4, <3>5 DEF ProbingNext, Send
  <2>6. ASSUME NEW V, Lost(V)
        PROVE  UNCHANGED <<scheduled, sendTimer>>
    BY <2>6 DEF Lost, NeighborsLost
  <2>7. ASSUME NEW v, Found(v)
        PROVE  UNCHANGED <<scheduled, sendTimer>>
    BY <2>7 DEF Found, NeighborFound, probeVars
  <2>8. CASE UNCHANGED vars
    BY <2>1, <2>8 DEF vars
  <2>9. CASE Step
    BY <2>1, <2>2, <2>5, <2>6, <2>7, <2>8, <2>9
       DEF Step, Probing, JoinTimer, ExplorationTimer, JoinRspEmpty, VicinityChanged, JoinRsp
  <2> QED
    BY <1>2, <2>8, <2>9 DEF Next, allVars
<1> QED
  BY <1>1, <1>2, PTL DEF Spec

(* The state of the use case keeps its fields.                             *)
OndOK == ond = [state |-> ond.state, armed |-> ond.armed, backoff |-> ond.backoff,
                last |-> ond.last]

LEMMA StepOndOK ==
  ASSUME OndOK, [Next]_allVars
  PROVE  OndOK'
<1>1. CASE JoinTimer \/ ExplorationTimer \/ VicinityChanged
  <2> DEFINE sent == [ond EXCEPT !.backoff = NextBackoff(@), !.last = JoinTarget]
             kept == [ond EXCEPT !.backoff = NextBackoff(@), !.armed = FALSE]
  <2>1. ond' \in {Isolated, Started, ond, sent, kept}
    BY <1>1, Zenon DEF JoinTimer, ExplorationTimer, VicinityChanged
  <2>2. CASE ond' \in {Isolated, Started, ond}
    BY <2>2 DEF Isolated, Started, OndOK
  <2>3. CASE ond' = sent
    BY <2>3 DEF OndOK
  <2>4. CASE ond' = kept
    BY <2>4 DEF OndOK
  <2> QED
    BY <2>1, <2>2, <2>3, <2>4
<1>2. CASE JoinRspEmpty \/ \E p \in Path : JoinRsp(p)
  <2>1. ond' = [ond EXCEPT !.last = None]
    BY <1>2 DEF JoinRspEmpty, JoinRsp, Answered
  <2> QED
    BY <2>1 DEF OndOK
<1>3. CASE ond' = ond
  BY <1>3 DEF OndOK
<1>4. CASE Probing \/ (\E V \in SUBSET uln : Lost(V)) \/ (\E v \in Neighbor : Found(v))
  BY <1>3, <1>4 DEF Probing, Lost, Found, ondVars
<1> QED
  BY <1>1, <1>2, <1>3, <1>4 DEF Next, Step, allVars, ondVars

(* An isolated node has no neighbour, or is about to be told of one.       *)
THEOREM IsolationAlwaysEnds == Spec => []IsolationEnds
<1>1. Init => IsolationEnds /\ OndOK
  BY DEF Init, Started, IsolationEnds, OndOK
<1>2. ASSUME IsolationEnds, OndOK, [Next]_allVars
      PROVE  IsolationEnds'
  <2>1. ASSUME NEW n \in Nonce, BecomesLate(n) \/ ProbeTimeout(n) \/ Carry(n)
        PROVE  uln' = uln
    BY <2>1 DEF BecomesLate, ProbeTimeout, Carry, Answer, Refuse, ProbeRsp, ProbeError, Lose,
                Deliver, envVars
  <2>2. ASSUME NEW c \in Contact, BecomesAged(c) \/ Removed(c)
        PROVE  uln' = uln
    BY <2>2 DEF BecomesAged, Removed, envVars
  <2>3. ASSUME NEW p \in Path, DirectMessage(p) \/ Report(p)
        PROVE  uln' = uln
    BY <2>3 DEF DirectMessage, Report
  <2>4. ASSUME NEW l \in Link, LinkFails(l)
        PROVE  uln' = uln
    BY <2>4 DEF LinkFails
  <2>5. ASSUME CheckTimer \/ Send
        PROVE  uln' = uln
    BY <2>5 DEF CheckTimer, Send, SendScheduled, envVars
  <2>6. CASE Probing
    <3>1. uln' = uln
      BY <2>1, <2>2, <2>3, <2>4, <2>5, <2>6 DEF Probing, ProbingNext
    <3> QED
      BY <1>2, <2>6, <3>1 DEF Probing, ondVars, IsolationEnds
  <2>7. CASE JoinTimer \/ ExplorationTimer
    <3>1. uln' = uln /\ changed' = changed
      BY <2>7 DEF JoinTimer, ExplorationTimer, vars
    <3>2. ond'.state = "Isolated" => uln = {} \/ ond.state = "Isolated"
      BY <1>2, <2>7 DEF JoinTimer, ExplorationTimer, Isolated, OndOK
    <3> QED
      BY <1>2, <3>1, <3>2 DEF IsolationEnds
  <2>8. CASE JoinRspEmpty \/ \E p \in Path : JoinRsp(p)
    <3>1. uln' = uln /\ changed' = changed
      BY <2>8, <2>3 DEF JoinRspEmpty, JoinRsp, vars
    <3>2. ond'.state = ond.state
      BY <1>2, <2>8 DEF JoinRspEmpty, JoinRsp, Answered, OndOK
    <3> QED
      BY <1>2, <3>1, <3>2 DEF IsolationEnds
  <2>9. CASE VicinityChanged
    BY <2>9 DEF VicinityChanged, vars, Started, IsolationEnds
  <2>10. ASSUME NEW V, Lost(V)
         PROVE  IsolationEnds'
    BY <1>2, <2>10 DEF Lost, NeighborsLost, ondVars, IsolationEnds
  <2>11. ASSUME NEW v, Found(v)
         PROVE  IsolationEnds'
    BY <2>11 DEF Found, IsolationEnds
  <2>12. CASE UNCHANGED allVars
    BY <1>2, <2>12 DEF allVars, vars, ondVars, IsolationEnds
  <2> QED
    BY <1>2, <2>6, <2>7, <2>8, <2>9, <2>10, <2>11, <2>12 DEF Next, Step
<1> QED
  BY <1>1, <1>2, StepOndOK, PTL DEF Spec

-----------------------------------------------------------------------------
(* The paths in use start at a neighbour *)

(* If contact k is valid, its path starts at a node of U.                  *)
UpVia(k, U) == k.state = "Valid" => FirstHop[k.active.ids] \in U

(* A message on a path that starts at a node of U.                         *)
OnWayVia(m, U) ==
  /\ m = [kind |-> m.kind, path |-> m.path, link |-> m.link]
  /\ FirstHop[m.path] \in U

(* Every path in use starts at a neighbour, and so does every path a probe *)
(* or its answer is on: a neighbour that is lost takes both along.         *)
HopsUp ==
  /\ \A c \in Contact : UpVia(contact[c], uln)
  /\ DOMAIN net = Nonce /\ net = [n \in Nonce |-> net[n]]
  /\ \A n \in Nonce : net[n] # None => OnWayVia(net[n], uln)

(* assess_path_candidate_and_update takes a path into use only if it       *)
(* counts as valid.                                                        *)
LEMMA AssessUp ==
  ASSUME NEW k, NEW T, NEW U, ContactOK(k, T), k.state # "Absent", UpVia(k, U),
         NEW r \in Records(Path \cup T), r.state = "Valid" => FirstHop[r.ids] \in U
  PROVE  UpVia(Assess(k, r), U)
<1>1. CASE k.state = "Valid" /\ ~Better(r.ids, k.active.ids)
  BY <1>1 DEF Assess
<1>2. CASE ~(k.state = "Valid" /\ ~Better(r.ids, k.active.ids)) /\ r.state = "Valid"
  <2>1. CASE k.proposed # None /\ k.proposed.ids = r.ids
    <3>1. k.proposed \in Records(Path \cup T)
      BY <2>1 DEF ContactOK
    <3>2. Revalidated(k.proposed).ids = r.ids
      BY <2>1, <3>1 DEF Records, Revalidated
    <3>3. Assess(k, r) = [state |-> "Valid", active |-> Revalidated(k.proposed), proposed |-> None]
      BY <1>2, <2>1 DEF Assess
    <3> QED
      BY <1>2, <3>2, <3>3 DEF UpVia
  <2>2. CASE ~(k.proposed # None /\ k.proposed.ids = r.ids)
    <3>1. Assess(k, r) = [k EXCEPT !.state = "Valid", !.active = r]
      BY <1>2, <2>2 DEF Assess
    <3>2. Assess(k, r).active = r
      BY <3>1 DEF ContactOK
    <3> QED
      BY <1>2, <3>2 DEF UpVia
  <2> QED
    BY <2>1, <2>2
<1>3. CASE ~(k.state = "Valid" /\ ~Better(r.ids, k.active.ids)) /\ r.state # "Valid"
  <2>1. Assess(k, r) \in {k, [k EXCEPT !.proposed = r]}
    BY <1>3 DEF Assess
  <2>2. [k EXCEPT !.proposed = r].state = k.state /\ [k EXCEPT !.proposed = r].active = k.active
    BY DEF ContactOK
  <2>3. CASE Assess(k, r) = k
    BY <2>3
  <2>4. CASE Assess(k, r) = [k EXCEPT !.proposed = r]
    BY <2>2, <2>4 DEF UpVia
  <2> QED
    BY <2>1, <2>3, <2>4
<1> QED
  BY <1>1, <1>2, <1>3

(* So does UNSStrategy::insert.                                            *)
LEMMA InsertedUp ==
  ASSUME ContactsOK, HopsUp, NEW c \in Contact, NEW T, travelled \subseteq T,
         NEW r \in Records(Path \cup T), r.state = "Valid" => FirstHop[r.ids] \in uln
  PROVE  UpVia(Inserted(c, r), uln)
<1>1. ContactOK(contact[c], T) /\ UpVia(contact[c], uln)
  BY ContactGrows DEF ContactsOK, HopsUp
<1>2. CASE contact[c].state # "Absent"
  BY <1>1, <1>2, AssessUp DEF Inserted
<1>3. CASE contact[c].state = "Absent" /\ r.state = "Valid"
  <2>1. Inserted(c, r) = [state |-> "Valid", active |-> r, proposed |-> None]
    BY <1>3 DEF Inserted, Absent
  <2> QED
    BY <1>3, <2>1 DEF UpVia
<1>4. CASE contact[c].state = "Absent" /\ r.state # "Valid"
  BY <1>4 DEF Inserted, UpVia, Absent
<1> QED
  BY <1>2, <1>3, <1>4

(* A response changes no nodes of the active path.                         *)
LEMMA ConfirmedUp ==
  ASSUME NEW k, NEW T, NEW U, ContactOK(k, T), k.state # "Absent", NEW p \in T, UpVia(k, U)
  PROVE  UpVia(Confirmed(k, p), U)
<1>1. CASE k.active = Undated(p)
  <2>1. Confirmed(k, p) = [k EXCEPT !.active = Revalidated(@),
                                    !.proposed = IF @ = Undated(p) THEN None ELSE @]
    BY <1>1 DEF Confirmed
  <2>2. Confirmed(k, p).active = Revalidated(k.active) /\ Confirmed(k, p).state = k.state
    BY <2>1 DEF ContactOK
  <2>3. Revalidated(k.active).ids = k.active.ids
    BY <1>1 DEF Revalidated, Undated
  <2> QED
    BY <2>2, <2>3 DEF UpVia
<1>2. CASE k.active # Undated(p) /\ k.proposed = Undated(p)
  <2>1. Confirmed(k, p) = [k EXCEPT !.proposed = Revalidated(@)]
    BY <1>2 DEF Confirmed
  <2>2. Confirmed(k, p).active = k.active /\ Confirmed(k, p).state = k.state
    BY <2>1 DEF ContactOK
  <2> QED
    BY <2>2 DEF UpVia
<1>3. CASE k.active # Undated(p) /\ k.proposed # Undated(p)
  BY <1>3 DEF Confirmed
<1> QED
  BY <1>1, <1>2, <1>3

(* Contacts that become invalid are not in use.                            *)
LEMMA AllInvalidUp ==
  ASSUME ContactsOK, HopsUp, NEW F, \A c \in F \cap Contact : contact[c].state # "Absent"
  PROVE  \A c \in Contact : UpVia(AllInvalid(F)[c], uln)
                            /\ (c \in F => AllInvalid(F)[c].state = "Invalid")
<1> SUFFICES ASSUME NEW c \in Contact
             PROVE  UpVia(AllInvalid(F)[c], uln) /\ (c \in F => AllInvalid(F)[c].state = "Invalid")
  OBVIOUS
<1>1. CASE c \in F
  <2>1. AllInvalid(F)[c] = SetInvalid(contact[c])
    BY <1>1 DEF AllInvalid
  <2>2. SetInvalid(contact[c]).state = "Invalid"
    BY DEF SetInvalid, ContactsOK, ContactOK
  <2> QED
    BY <2>1, <2>2 DEF UpVia
<1>2. CASE c \notin F
  BY <1>2 DEF AllInvalid, HopsUp
<1> QED
  BY <1>1, <1>2

(* The messages on their way after one was delivered or lost.              *)
LEMMA NetUp ==
  ASSUME HopsUp, NEW n \in Nonce, NEW m, net' = [net EXCEPT ![n] = m], uln' = uln,
         m # None => OnWayVia(m, uln)
  PROVE  /\ DOMAIN net' = Nonce /\ net' = [j \in Nonce |-> net'[j]]
         /\ \A j \in Nonce : net'[j] # None => OnWayVia(net'[j], uln')
<1>1. \A j \in Nonce : net'[j] = IF j = n THEN m ELSE net[j]
  BY DEF HopsUp
<1>2. DOMAIN net' = Nonce /\ net' = [j \in Nonce |-> net'[j]]
  BY DEF HopsUp
<1> QED
  BY <1>1, <1>2 DEF HopsUp

(* One contact was stored and the messages stayed.                         *)
LEMMA StoreUp ==
  ASSUME ContactsOK, HopsUp, NEW c \in Contact, NEW k, UpVia(k, uln),
         contact' = [contact EXCEPT ![c] = k], uln' = uln
  PROVE  \A d \in Contact : UpVia(contact'[d], uln')
<1>1. \A d \in Contact : contact'[d] = IF d = c THEN k ELSE contact[d]
  BY DEF ContactsOK
<1> QED
  BY <1>1 DEF HopsUp

(* What HopsUp says of the messages.                                       *)
MessagesUp ==
  /\ DOMAIN net = Nonce /\ net = [n \in Nonce |-> net[n]]
  /\ \A n \in Nonce : net[n] # None => OnWayVia(net[n], uln)

LEMMA DirectMessageUp ==
  ASSUME ContactsOK, HopsUp, NEW p \in Path, DirectMessage(p)
  PROVE  HopsUp'
<1>1. Dest[p] \in Contact
  BY ProbingAssumption
<1>2. UNCHANGED <<net, uln>> /\ FirstHop[p] \in uln
  BY DEF DirectMessage
<1>3. /\ Validated(p) \in Records(Path \cup travelled)
      /\ Validated(p).state = "Valid" => FirstHop[Validated(p).ids] \in uln
  BY <1>2 DEF Validated, Records
<1>4. UpVia(Inserted(Dest[p], Validated(p)), uln)
  BY <1>1, <1>3, InsertedUp
<1>5. contact' = [contact EXCEPT ![Dest[p]] = Inserted(Dest[p], Validated(p))]
  BY DEF DirectMessage, Store
<1>6. \A d \in Contact : UpVia(contact'[d], uln')
  BY <1>1, <1>2, <1>4, <1>5, StoreUp
<1> QED
  BY <1>2, <1>6 DEF HopsUp

LEMMA ReportUp ==
  ASSUME ContactsOK, HopsUp, NEW p \in Path, Report(p)
  PROVE  HopsUp'
<1>1. Dest[p] \in Contact
  BY ProbingAssumption
<1>2. UNCHANGED <<net, uln>>
  BY DEF Report
<1>3. Reported(p) \in Records(Path \cup travelled) /\ Reported(p).state # "Valid"
  BY DEF Reported, Records
<1>4. UpVia(Inserted(Dest[p], Reported(p)), uln)
  BY <1>1, <1>3, InsertedUp
<1>5. contact' = [contact EXCEPT ![Dest[p]] = Inserted(Dest[p], Reported(p))]
  BY DEF Report, Store
<1>6. \A d \in Contact : UpVia(contact'[d], uln')
  BY <1>1, <1>2, <1>4, <1>5, StoreUp
<1> QED
  BY <1>2, <1>6 DEF HopsUp

(* The answer has come over a path whose first hop is still a neighbour.   *)
LEMMA ProbeRspUp ==
  ASSUME ContactsOK, HopsUp, NEW n \in Nonce, ProbeRsp(n)
  PROVE  HopsUp'
<1> DEFINE p == net[n].path
           c == Dest[p]
           i == Inserted(c, Validated(p))
           k == IF inflight[n] # None THEN Confirmed(i, p) ELSE i
           T == travelled \cup {p}
<1>1. /\ uln' = uln /\ contact' = [contact EXCEPT ![c] = k]
      /\ net' = [net EXCEPT ![n] = None] /\ FirstHop[p] \in uln
  BY DEF ProbeRsp, Store, envVars, HopsUp, OnWayVia
<1>2. MessagesUp'
  BY <1>1, NetUp DEF MessagesUp
<1>3. CASE c \in Contact
  <2>1. /\ Validated(p) \in Records(Path \cup T) /\ Validated(p).ids \in T
        /\ Validated(p).state = "Valid" /\ FirstHop[Validated(p).ids] \in uln
    BY <1>1 DEF Validated, Records
  <2>2. ContactOK(i, T) /\ i.state # "Absent" /\ UpVia(i, uln)
    BY <1>3, <2>1, InsertedOK, InsertedUp
  <2>3. UpVia(Confirmed(i, p), uln)
    BY <2>2, ConfirmedUp
  <2>4. UpVia(k, uln)
    BY <2>2, <2>3
  <2>5. \A d \in Contact : UpVia(contact'[d], uln')
    BY <1>1, <1>3, <2>4, StoreUp
  <2> QED
    BY <1>2, <2>5 DEF HopsUp, MessagesUp
<1>4. CASE c \notin Contact
  <2>1. contact' = contact
    BY <1>1, <1>4 DEF ContactsOK
  <2> QED
    BY <1>1, <1>2, <2>1 DEF HopsUp, MessagesUp
<1> QED
  BY <1>3, <1>4

LEMMA ProbeTimeoutUp ==
  ASSUME ContactsOK, HopsUp, NEW n \in Nonce, ProbeTimeout(n)
  PROVE  HopsUp'
<1> DEFINE p == inflight[n]
           F == IF p # None /\ TimeoutInvalidates(p) THEN {Dest[p.path]} ELSE {}
<1>1. contact' = AllInvalid(F) /\ UNCHANGED <<net, uln>>
  BY DEF ProbeTimeout, envVars
<1>2. \A c \in F \cap Contact : contact[c].active # None
  BY DEF TimeoutInvalidates
<1>3. \A c \in Contact : contact[c].active # None => contact[c].state # "Absent"
  BY DEF ContactsOK, ContactOK, Absent
<1> HIDE DEF F
<1>4. \A c \in Contact : UpVia(contact'[c], uln')
  BY <1>1, <1>2, <1>3, AllInvalidUp
<1> QED
  BY <1>1, <1>4 DEF HopsUp

LEMMA ProbeErrorUp ==
  ASSUME ContactsOK, HopsUp, NEW n \in Nonce, ProbeError(n)
  PROVE  HopsUp'
<1> DEFINE l == net[n].link
           c == Dest[net[n].path]
           F == {d \in Present : Uses(contact[d].active, l)}
<1>1. /\ uln' = uln /\ net' = [net EXCEPT ![n] = None]
      /\ \/ contact' = AllInvalid(F)
         \/ c \in Present \ F /\ contact' = [AllInvalid(F) EXCEPT ![c].proposed = None]
  BY DEF ProbeError, envVars
<1>2. \A d \in F : d \in Contact /\ contact[d].state # "Absent"
  BY PresentOK
<1> HIDE DEF F
<1>3. MessagesUp'
  BY <1>1, NetUp DEF MessagesUp
<1>4. \A d \in Contact : UpVia(AllInvalid(F)[d], uln)
  BY <1>2, AllInvalidUp
<1>5. CASE contact' = AllInvalid(F)
  BY <1>1, <1>3, <1>4, <1>5 DEF HopsUp, MessagesUp
<1>6. CASE c \in Present \ F /\ contact' = [AllInvalid(F) EXCEPT ![c].proposed = None]
  <2>1. c \in Contact /\ ContactOK(contact[c], travelled)
    BY <1>6, PresentOK DEF ContactsOK
  <2>2. AllInvalid(F)[c] = contact[c]
    BY <1>6, <2>1 DEF AllInvalid
  <2>3. UpVia([contact[c] EXCEPT !.proposed = None], uln)
    BY <2>1 DEF ContactOK, HopsUp, UpVia
  <2>4. \A d \in Contact :
          contact'[d] = IF d = c THEN [contact[c] EXCEPT !.proposed = None] ELSE AllInvalid(F)[d]
    BY <1>6, <2>1, <2>2 DEF AllInvalid
  <2>5. \A d \in Contact : UpVia(contact'[d], uln')
    BY <1>1, <1>4, <2>3, <2>4
  <2> QED
    BY <1>3, <2>5 DEF HopsUp, MessagesUp
<1> QED
  BY <1>1, <1>5, <1>6

(* The contacts and the messages that need one of V are gone with it.      *)
LEMMA NeighborsLostUp ==
  ASSUME ContactsOK, HopsUp, NEW V, NeighborsLost(V)
  PROVE  HopsUp'
<1> DEFINE F == {c \in Present : FirstHop[contact[c].active.ids] \in V}
<1>1. /\ contact' = AllInvalid(F) /\ uln' = uln \ V
      /\ net' = [n \in Nonce |-> IF net[n] # None /\ FirstHop[net[n].path] \in V
                                 THEN None ELSE net[n]]
  BY DEF NeighborsLost
<1>2. \A c \in F : contact[c].state # "Absent"
  BY PresentOK
<1>3. \A c \in Contact : contact[c].state = "Valid" => c \in Present
  BY DEF Present, Absent
<1>4. ASSUME NEW c \in Contact
      PROVE  UpVia(contact'[c], uln')
  <2>1. CASE c \in F
    <3>1. contact'[c].state = "Invalid"
      <4> HIDE DEF F
      <4> QED BY <1>1, <1>2, <1>4, <2>1, AllInvalidUp
    <3> QED
      BY <3>1 DEF UpVia
  <2>2. CASE c \notin F
    <3>1. contact'[c] = contact[c]
      BY <1>1, <2>2, <1>4 DEF AllInvalid
    <3>2. contact[c].state = "Valid" => FirstHop[contact[c].active.ids] \notin V
      BY <1>3, <1>4, <2>2
    <3> QED
      BY <1>1, <1>4, <3>1, <3>2 DEF UpVia, HopsUp
  <2> QED
    BY <2>1, <2>2
<1>5. \A n \in Nonce : net'[n] # None => OnWayVia(net'[n], uln')
  BY <1>1 DEF HopsUp, OnWayVia
<1>6. DOMAIN net' = Nonce /\ net' = [n \in Nonce |-> net'[n]]
  BY <1>1
<1> QED
  BY <1>4, <1>5, <1>6 DEF HopsUp

LEMMA RemovedUp ==
  ASSUME ContactsOK, HopsUp, NEW c \in Contact, Removed(c)
  PROVE  HopsUp'
<1>1. contact' = [contact EXCEPT ![c] = Absent] /\ UNCHANGED <<net, uln>>
  BY DEF Removed, envVars
<1>2. UpVia(Absent, uln)
  BY DEF UpVia, Absent
<1>3. \A d \in Contact : UpVia(contact'[d], uln')
  BY <1>1, <1>2, StoreUp
<1> QED
  BY <1>1, <1>3 DEF HopsUp

(* Probes are sent to neighbours only.                                     *)
LEMMA PostedUp ==
  ASSUME HopsUp, NEW g, net' = Posted(g), UNCHANGED <<contact, uln>>
  PROVE  HopsUp'
<1>1. DOMAIN net' = Nonce /\ net' = [n \in Nonce |-> net'[n]]
  BY DEF Posted
<1>2. ASSUME NEW n \in Nonce, net'[n] # None
      PROVE  OnWayVia(net'[n], uln')
  <2>1. CASE n \in Free /\ g[n] # None /\ FirstHop[g[n]] \in uln
    <3>1. net'[n] = [kind |-> "ProbeReq", path |-> g[n], link |-> None]
      BY <2>1 DEF Posted
    <3> QED
      BY <2>1, <3>1 DEF OnWayVia
  <2>2. CASE ~(n \in Free /\ g[n] # None /\ FirstHop[g[n]] \in uln)
    <3>1. net'[n] = net[n]
      BY <2>2 DEF Posted
    <3> QED
      BY <1>2, <3>1 DEF HopsUp
  <2> QED
    BY <2>1, <2>2
<1> QED
  BY <1>1, <1>2 DEF HopsUp

LEMMA CarryUp ==
  ASSUME ContactsOK, HopsUp, NEW n \in Nonce, Carry(n)
  PROVE  HopsUp'
<1>1. ASSUME NEW m, Deliver(n, m), m # None => OnWayVia(m, uln)
      PROVE  HopsUp'
  <2>1. MessagesUp' /\ UNCHANGED <<contact, uln>>
    BY <1>1, NetUp DEF Deliver, tableVars, MessagesUp
  <2> QED
    BY <2>1 DEF HopsUp, MessagesUp
<1>2. CASE Answer(n)
  <2>1. OnWayVia(net[n], uln)
    BY <1>2 DEF Answer, HopsUp
  <2>2. OnWayVia([net[n] EXCEPT !.kind = "ProbeRsp"], uln)
    BY <2>1 DEF OnWayVia
  <2> QED
    BY <1>1, <1>2, <2>2 DEF Answer
<1>3. CASE Refuse(n)
  <2>1. OnWayVia(net[n], uln)
    BY <1>3 DEF Refuse, HopsUp
  <2>2. PICK l : Deliver(n, [kind |-> "Error", path |-> net[n].path, link |-> l])
    BY <1>3 DEF Refuse
  <2>3. OnWayVia([kind |-> "Error", path |-> net[n].path, link |-> l], uln)
    BY <2>1 DEF OnWayVia
  <2> QED
    BY <1>1, <2>2, <2>3
<1>4. CASE Lose(n)
  BY <1>1, <1>4 DEF Lose
<1> QED
  BY <1>2, <1>3, <1>4, ProbeRspUp, ProbeErrorUp DEF Carry

LEMMA StepHopsUp ==
  ASSUME ContactsOK, HopsUp, [Next]_allVars
  PROVE  HopsUp'
<1>1. CASE UNCHANGED <<contact, net, uln>>
  BY <1>1 DEF HopsUp
<1>2. CASE UNCHANGED vars
  BY <1>1, <1>2 DEF vars
<1>3. ASSUME NEW n \in Nonce, BecomesLate(n) \/ ProbeTimeout(n) \/ Carry(n)
      PROVE  HopsUp'
  <2>1. CASE BecomesLate(n)
    BY <1>1, <2>1 DEF BecomesLate, tableVars, envVars
  <2> QED
    BY <1>3, <2>1, ProbeTimeoutUp, CarryUp
<1>4. ASSUME NEW c \in Contact, BecomesAged(c) \/ Removed(c)
      PROVE  HopsUp'
  <2>1. CASE BecomesAged(c)
    BY <1>1, <2>1 DEF BecomesAged, envVars
  <2> QED
    BY <1>4, <2>1, RemovedUp
<1>5. ASSUME NEW l \in Link, LinkFails(l)
      PROVE  HopsUp'
  BY <1>1, <1>5 DEF LinkFails, tableVars
<1>6. ASSUME CheckTimer \/ Send
      PROVE  HopsUp'
  <2>1. UNCHANGED <<contact, uln>>
    BY <1>6 DEF CheckTimer, Send, SendScheduled, tableVars, envVars
  <2>2. PICK g : net' = Posted(g)
    BY <1>6, Zenon DEF CheckTimer, Send, SendScheduled
  <2> QED
    BY <2>1, <2>2, PostedUp
<1>7. CASE ProbingNext
  BY <1>3, <1>4, <1>5, <1>6, <1>7, DirectMessageUp, ReportUp DEF ProbingNext
<1>8. ASSUME NEW v \in Neighbor, Found(v)
      PROVE  HopsUp'
  <2>1. UNCHANGED <<contact, net>> /\ uln \subseteq uln'
    BY <1>8 DEF Found, NeighborFound, tableVars
  <2> QED
    BY <2>1 DEF HopsUp, UpVia, OnWayVia
<1>9. CASE Step
  BY <1>2, <1>7, <1>8, <1>9, NeighborsLostUp, ReportUp
     DEF Step, Probing, JoinTimer, ExplorationTimer, JoinRspEmpty, VicinityChanged, JoinRsp, Lost
<1> QED
  BY <1>2, <1>9 DEF Next, allVars

-----------------------------------------------------------------------------
(* The contact that is asked next *)

LEMMA Lowest ==
  ASSUME NEW T \in SUBSET Nat, T # {}
  PROVE  \E m \in T : \A n \in T : m <= n
<1> DEFINE R == OpToRel(<, Nat)
<1>1. IsWellFoundedOn(R, Nat)
  BY NatLessThanWellFounded
<1>2. \A i, j \in Nat : i < j => <<i, j>> \in R
  BY DEF OpToRel
<1> HIDE DEF R
<1>3. PICK i \in T : \A j \in T : ~(<<j, i>> \in R)
  BY <1>1, WFMin
<1>4. ASSUME NEW j \in T PROVE i <= j
  <2>1. i \in Nat /\ j \in Nat
    OBVIOUS
  <2>2. ~(j < i)
    BY <1>2, <1>3, <2>1
  <2> QED
    BY <2>1, <2>2
<1> QED
  BY <1>4

(* Some contact is the nearest.                                            *)
LEMMA Nearest ==
  ASSUME NEW V \in SUBSET (Neighbor \cup Contact), V # {}
  PROVE  \E d \in V : \A e \in V : Distance[d] <= Distance[e]
<1> DEFINE T == {Distance[d] : d \in V}
<1>1. T \in SUBSET Nat /\ T # {}
  BY JoinAssumption
<1>2. PICK m \in T : \A n \in T : m <= n
  <2> HIDE DEF T
  <2> QED BY <1>1, Lowest
<1>3. PICK d \in V : m = Distance[d]
  OBVIOUS
<1> QED
  BY <1>2, <1>3

(* closest(root, n) with n of at least two has two contacts of two.        *)
LEMMA TwoClosest ==
  ASSUME NEW V \in SUBSET (Neighbor \cup Contact), IsFiniteSet(V), Cardinality(V) >= 2,
         NEW f, NEW n \in Nat, n >= 2
  PROVE  Closest(V, n) \ {f} # {}
<1>1. Cardinality({}) = 0 /\ Cardinality(V) \in Nat
  BY FS_EmptySet, FS_CardinalityType
<1>2. V # {}
  BY <1>1
<1>3. PICK d \in V : \A e \in V : Distance[d] <= Distance[e]
  BY <1>2, Nearest
<1>4. \A e \in V : Distance[e] \in Nat
  BY JoinAssumption
<1>5. {e \in V : Distance[e] < Distance[d]} = {}
  BY <1>3, <1>4
<1>6. d \in Closest(V, n)
  BY <1>1, <1>5 DEF Closest
<1>7. V \ {d} # {}
  <2>1. SUFFICES ASSUME V = {d} PROVE FALSE
    BY <1>3
  <2> QED
    BY <2>1, FS_Singleton
<1>8. PICK c \in V \ {d} : \A e \in V \ {d} : Distance[c] <= Distance[e]
  BY <1>7, Nearest
<1>9. {e \in V : Distance[e] < Distance[c]} \subseteq {d}
  BY <1>4, <1>8
<1>10. Cardinality({d}) = 1 /\ IsFiniteSet({d})
  BY FS_Singleton
<1>11. c \in Closest(V, n)
  <2> DEFINE W == {e \in V : Distance[e] < Distance[c]}
  <2>1. IsFiniteSet(W) /\ Cardinality(W) <= 1
    <3>1. W \in SUBSET {d}
      BY <1>9
    <3> HIDE DEF W
    <3> QED BY <1>10, <3>1, FS_Subset
  <2>2. Cardinality(W) \in Nat
    <3> HIDE DEF W
    <3> QED BY <2>1, FS_CardinalityType
  <2>3. Cardinality(W) < n
    <3> HIDE DEF W
    <3> QED BY <2>1, <2>2
  <2> QED
    BY <2>3 DEF Closest
<1> QED
  BY <1>6, <1>8, <1>11

(* There are two contacts to choose from as long as there have always been *)
ChoiceOK == choice => Cardinality(Usable) >= 2

(* With two contacts to choose from, the join step finds one that it can   *)
(* ask, even if the nearest has not answered.                              *)
LEMMA ChoiceSends ==
  ASSUME HopsUp, Cardinality(Usable) >= 2
  PROVE  Sends
<1>1. IsFiniteSet(Neighbor \cup Contact)
  BY ProbingAssumption, FS_Union
<1>2. /\ ValidContacts \in SUBSET (Neighbor \cup Contact)
      /\ Usable \in SUBSET (Neighbor \cup Contact) /\ Usable \in SUBSET ValidContacts
  BY DEF ValidContacts, Usable
<1>3. IsFiniteSet(ValidContacts) /\ IsFiniteSet(Usable)
  BY <1>1, <1>2, FS_Subset
<1>4. Cardinality(ValidContacts) \in Nat /\ Cardinality(Usable) \in Nat
      /\ Cardinality(Usable) <= Cardinality(ValidContacts)
  BY <1>2, <1>3, FS_Subset, FS_CardinalityType
<1>5. Cardinality(ValidContacts) >= 2
  BY <1>4
<1>6. JoinTargets # {}
  BY <1>2, <1>3, <1>5, JoinAssumption, TwoClosest DEF JoinTargets, ClosestOnes
<1>7. JoinTargets \in SUBSET ValidContacts
  BY DEF JoinTargets, ClosestOnes, Closest
<1>8. JoinTargets \in SUBSET (Neighbor \cup Contact)
  BY <1>2, <1>7
<1>9. \E d \in JoinTargets : \A e \in JoinTargets : Distance[d] <= Distance[e]
  BY <1>6, <1>8, Nearest
<1>10. JoinTarget \in ValidContacts
  BY <1>7, <1>9 DEF JoinTarget
<1>11. HopTo(JoinTarget) \in uln
  <2>1. CASE JoinTarget \in Neighbor
    BY <1>10, <2>1 DEF ValidContacts, ValidContact, HopTo
  <2>2. CASE JoinTarget \notin Neighbor
    <3>1. JoinTarget \in Contact /\ contact[JoinTarget].state = "Valid"
      BY <1>10, <2>2 DEF ValidContacts, ValidContact
    <3> QED
      BY <2>2, <3>1 DEF HopTo, HopsUp, UpVia
  <2> QED
    BY <2>1, <2>2
<1> QED
  BY <1>6, <1>11 DEF Sends

LEMMA StepJoin ==
  ASSUME OndOK, HopsUp, ChoiceOK, JoinGoesOn, [Next]_allVars
  PROVE  JoinGoesOn' /\ ChoiceOK'
<1>1. CASE UNCHANGED allVars
  <2>1. UNCHANGED <<contact, uln, ond, choice>>
    BY <1>1 DEF allVars, vars, ondVars
  <2>2. Usable' = Usable
    BY <2>1 DEF Usable, ValidContact, HopTo
  <2> QED
    BY <2>1, <2>2 DEF JoinGoesOn, ChoiceOK
<1>2. CASE Next
  <2>1. choice' = (choice /\ Cardinality(Usable') >= 2)
    BY <1>2 DEF Next, History
  <2>2. ChoiceOK'
    BY <2>1 DEF ChoiceOK
  <2>3. SUFFICES ASSUME choice PROVE ond'.state = "Running" /\ ond'.armed
    BY <2>1, <2>2 DEF JoinGoesOn
  <2>4. ond.state = "Running" /\ ond.armed /\ Sends
    BY <2>3, ChoiceSends DEF JoinGoesOn, ChoiceOK
  <2>5. CASE ond' = ond
    BY <2>4, <2>5
  <2>6. CASE JoinTimer
    <3>1. ond' = [ond EXCEPT !.backoff = NextBackoff(@), !.last = JoinTarget]
      BY <2>4, <2>6 DEF JoinTimer, Sends
    <3> QED
      BY <2>4, <3>1 DEF OndOK
  <2>7. CASE ExplorationTimer
    BY <2>4, <2>7 DEF ExplorationTimer, Sends
  <2>8. CASE VicinityChanged
    BY <2>4, <2>5, <2>8 DEF VicinityChanged
  <2>9. CASE Answered
    BY <2>4, <2>9 DEF Answered, OndOK
  <2> QED
    BY <1>2, <2>5, <2>6, <2>7, <2>8, <2>9
       DEF Next, Step, Probing, JoinRspEmpty, JoinRsp, Lost, Found, ondVars
<1> QED
  BY <1>1, <1>2

LEMMA InitJoin == Init => OndOK /\ HopsUp /\ ChoiceOK /\ JoinGoesOn
<1> SUFFICES ASSUME Init PROVE OndOK /\ HopsUp /\ ChoiceOK /\ JoinGoesOn
  OBVIOUS
<1>1. /\ ond = Started /\ choice = (Cardinality(Neighbor) >= 2) /\ uln = Neighbor
      /\ contact = [c \in Contact |-> Absent] /\ net = [n \in Nonce |-> None]
  BY DEF Init, ProbingInit
<1>2. OndOK /\ JoinGoesOn
  BY <1>1 DEF Started, OndOK, JoinGoesOn
<1>3. HopsUp
  BY <1>1 DEF HopsUp, UpVia, Absent
<1>4. Usable = Neighbor
  BY <1>1, JoinAssumption DEF Usable, ValidContact, HopTo, Absent
<1> QED
  BY <1>1, <1>2, <1>3, <1>4 DEF ChoiceOK

(* The join step goes on for every table of at least two usable contacts,  *)
(* whatever was lost: the contact that was asked last is avoided, one of   *)
(* the others is among the closest, and its path starts at a neighbour.    *)
THEOREM JoinAlwaysGoesOn == Spec => []JoinGoesOn
<1> DEFINE Inv == ContactsOK /\ OndOK /\ HopsUp /\ ChoiceOK /\ JoinGoesOn
<1>1. Init => Inv
  BY InitContactsOK, InitJoin
<1>2. Inv /\ [Next]_allVars => Inv'
  BY StepContactsOK, StepOndOK, StepHopsUp, StepJoin
<1>3. Inv => JoinGoesOn
  OBVIOUS
<1> QED
  BY <1>1, <1>2, <1>3, PTL DEF Spec
===============================================================================
