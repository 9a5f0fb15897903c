----------------------------- MODULE RequestReply -----------------------------
(***************************************************************************)
(* What a synchronous call of the SDK gives its caller, without the        *)
(* request ids, the list, the memory and the polling behind it: a caller   *)
(* is told of success or refusal only if the edge decided so on this       *)
(* request, or there was nothing to ask, and every caller gets control     *)
(* back.  The promise is not perfect: the decision on a request whose      *)
(* caller is gone may be mistaken for the decision on another one.         *)
(***************************************************************************)
CONSTANT Requests

VARIABLES
  phase,     \* phase[n]: "new", "open" (the caller waits) or "closed"
  decision,  \* decision[n]: what the edge decided on request n
  outcome,   \* outcome[n]: what the caller was told
  misled     \* <<m, n>>: the caller of n may be told the decision on m

vars == <<phase, decision, outcome, misled>>

Decisions == {"accept", "refuse"}
Outcomes == {"success", "refused", "failed"}

Init ==
  /\ phase = [n \in Requests |-> "new"]
  /\ decision = [n \in Requests |-> "none"]
  /\ outcome = [n \in Requests |-> "none"]
  /\ misled = {}

Invoke(n) ==
  /\ phase[n] = "new"
  /\ phase' = [phase EXCEPT ![n] = "open"]
  /\ UNCHANGED <<decision, outcome, misled>>

\* The call fails before anything is sent.
Reject(n) ==
  /\ phase[n] = "new"
  /\ phase' = [phase EXCEPT ![n] = "closed"]
  /\ outcome' = [outcome EXCEPT ![n] = "failed"]
  /\ UNCHANGED <<decision, misled>>

\* There is nothing to ask: the call succeeds and nothing is sent.
Skip(n) ==
  /\ phase[n] = "new"
  /\ phase' = [phase EXCEPT ![n] = "closed"]
  /\ outcome' = [outcome EXCEPT ![n] = "success"]
  /\ UNCHANGED <<decision, misled>>

\* The edge decides once, possibly after the caller has given up.
Decide(n, d) ==
  /\ phase[n] # "new"
  /\ decision[n] = "none"
  /\ decision' = [decision EXCEPT ![n] = d]
  /\ UNCHANGED <<phase, outcome, misled>>

\* The answer to m, whose caller is gone, ends up where n expects its own.
Mislead(m, n) ==
  /\ phase[m] = "closed"
  /\ phase[n] # "new"
  /\ m # n
  /\ decision[m] # "none"
  /\ misled' = misled \union {<<m, n>>}
  /\ UNCHANGED <<phase, decision, outcome>>

\* v is a decision the caller of n may be told.
MayHear(n, v) == \E m \in Requests : (m = n \/ <<m, n>> \in misled) /\ decision[m] = v

\* The caller may be told of a failure at any time, of a decision only if it
\* may hear it.
Return(n, r) ==
  /\ phase[n] = "open"
  /\ r = "success" => MayHear(n, "accept")
  /\ r = "refused" => MayHear(n, "refuse")
  /\ phase' = [phase EXCEPT ![n] = "closed"]
  /\ outcome' = [outcome EXCEPT ![n] = r]
  /\ UNCHANGED <<decision, misled>>

Next ==
  \E n \in Requests :
    \/ Invoke(n) \/ Reject(n) \/ Skip(n)
    \/ \E m \in Requests : Mislead(m, n)
    \/ \E d \in Decisions : Decide(n, d)
    \/ \E r \in Outcomes : Return(n, r)

SafeSpec == Init /\ [][Next]_vars

\* Whoever waits gets control back.
Fairness == \A n \in Requests : WF_vars(\E r \in Outcomes : Return(n, r))

Spec == SafeSpec /\ Fairness

=============================================================================
