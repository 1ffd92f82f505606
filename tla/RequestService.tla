--------------------------- MODULE RequestService ---------------------------
(***************************************************************************)
(* What the users of the DHT API may rely on, whatever the network does: a *)
(* request is handed over once, gets one result at most, and gets one in   *)
(* the end unless its client has stopped waiting.  DHTInjector implements  *)
(* this specification.                                                     *)
(***************************************************************************)
EXTENDS Sequences

CONSTANT Request  \* the requests of the API's clients

VARIABLES phase,   \* [Request -> {"idle", "waiting", "gone"}]: the client's task
          results  \* [Request -> Seq(Result)]: what the client has received

serviceVars == <<phase, results>>

Result == {"Answered", "Timeout"}

ServiceInit ==
  /\ phase = [r \in Request |-> "idle"]
  /\ results = [r \in Request |-> <<>>]

Submit(r) ==
  /\ phase[r] = "idle"
  /\ phase' = [phase EXCEPT ![r] = "waiting"]
  /\ UNCHANGED results

Reply(r) ==
  /\ phase[r] = "waiting" /\ results[r] = <<>>
  /\ \E x \in Result : results' = [results EXCEPT ![r] = <<x>>]
  /\ UNCHANGED phase

(* The client's own timeout ends before a result is there.                 *)
Leave(r) ==
  /\ phase[r] = "waiting" /\ results[r] = <<>>
  /\ phase' = [phase EXCEPT ![r] = "gone"]
  /\ UNCHANGED results

ServiceNext == \E r \in Request : Submit(r) \/ Reply(r) \/ Leave(r)

ServiceSafety == ServiceInit /\ [][ServiceNext]_serviceVars
ServiceSpec == ServiceSafety /\ \A r \in Request : WF_serviceVars(Reply(r))
=============================================================================
