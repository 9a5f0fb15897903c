---------------------------- MODULE SyncCallProofs ----------------------------
(***************************************************************************)
(* Proofs about SyncCall, for every number of threads, calls and polls.    *)
(***************************************************************************)
EXTENDS SyncCall, SequenceLemmas

-----------------------------------------------------------------------------
(* Type correctness.  TypeOK is not inductive: registering a call needs to *)
(* know that a busy thread has a call, and copying a reply that the        *)
(* handler holds a node and a reply.                                       *)

Holding == {"found", "copying", "copied"}

BusyHasCall == \A t \in AllThreads : pc[t] # "idle" => call[t] \in Calls

HandlerHasNode == bpc \in Holding => bnode \in Calls /\ brc \in Verdicts

TypeInv == TypeOK /\ BusyHasCall /\ HandlerHasNode

LEMMA TypeInit == Init => TypeInv
  BY SyncCallAssumption
  DEF Init, TypeInv, TypeOK, BusyHasCall, HandlerHasNode, Holding, Calls, NoCall,
      AllThreads, Statuses, Failures

LEMMA TypeStep == TypeInv /\ [Next]_vars => TypeInv'
<1> SUFFICES ASSUME TypeInv, [Next]_vars PROVE TypeInv'
  OBVIOUS
<1> USE DEF TypeInv, TypeOK, BusyHasCall, HandlerHasNode, Holding
<1>a. /\ RequestId \in [Calls -> Nat] /\ StrayIds \subseteq Nat
      /\ Invoked \subseteq Ops
      /\ NoCall \in 0 .. MaxCalls /\ Calls \subseteq 0 .. MaxCalls
      /\ 0 \in 0 .. MaxPolls
      /\ \A k \in 0 .. MaxPolls : k < MaxPolls => k + 1 \in 0 .. MaxPolls
      /\ \A k \in 0 .. MaxCalls : k < MaxCalls => k + 1 \in Calls
  BY SyncCallAssumption DEF Calls, NoCall
<1>b. /\ Failures \subseteq Statuses
      /\ {"NO_MEMORY", "PUBLISH", "INVALID_TIMEOUT", "ERR", "NULL"} \subseteq Statuses
      /\ \A o, v : StatusOf(o, v) \in Statuses
  BY DEF Statuses, Failures, StatusOf
<1>c. InCall = {"created", "registered", "published", "waiting", "answered", "removing"}
  BY DEF InCall
<1>1. ASSUME NEW t \in AllThreads, NEW o \in Invoked, Create(t, o)
      PROVE  TypeInv'
  <2>1. calls' \in Calls /\ calls' \in 0 .. MaxCalls
    BY <1>1, <1>a DEF Create
  <2>2. block' \in [Calls -> Calls]
    BY <1>1, <2>1 DEF Create, FreeBlocks
  <2>3. /\ op' \in [Calls -> Ops \union {"none"}]
        /\ mem' \in [Calls -> {"unused", "live", "freed"}]
    BY <1>1, <1>a, <2>1 DEF Create
  <2>4. /\ pc' \in [AllThreads -> {"idle"} \union InCall]
        /\ call' \in [AllThreads -> 0 .. MaxCalls]
        /\ BusyHasCall'
    BY <1>1, <1>c, <2>1 DEF Create, Goto
  <2> QED
    BY <1>1, <2>1, <2>2, <2>3, <2>4 DEF Create, edgeVars, bcastVars
<1>2. ASSUME NEW t \in AllThreads, NEW o \in Invoked, CreateNoMemory(t, o)
      PROVE  TypeInv'
  <2>1. calls' \in Calls /\ calls' \in 0 .. MaxCalls
    BY <1>2, <1>a DEF CreateNoMemory
  <2>2. op' \in [Calls -> Ops \union {"none"}]
    BY <1>2, <1>a DEF CreateNoMemory
  <2>3. mem' \in [Calls -> {"unused", "live", "freed"}]
    BY <1>2 DEF CreateNoMemory
  <2>4. ret' \in [Calls -> Statuses \union {"none"}]
    BY <1>2, <1>b DEF CreateNoMemory
  <2> QED
    BY <1>2, <2>1, <2>2, <2>3, <2>4 DEF CreateNoMemory, edgeVars, bcastVars
<1>23. ASSUME NEW t \in AllThreads, LogoutOffline(t) PROVE TypeInv'
  <2>1. calls' \in Calls /\ calls' \in 0 .. MaxCalls
    BY <1>23, <1>a DEF LogoutOffline
  <2>2. op' \in [Calls -> Ops \union {"none"}]
    BY <1>23, <2>1 DEF LogoutOffline, Ops
  <2>3. ret' \in [Calls -> Statuses \union {"none"}]
    BY <1>23, <2>1 DEF LogoutOffline, Statuses
  <2> QED
    BY <1>23, <2>1, <2>2, <2>3 DEF LogoutOffline, edgeVars, bcastVars, heapVars
<1>3. ASSUME NEW t \in AllThreads, Register(t) PROVE TypeInv'
  <2>1. requestid_list' \in Seq(Calls)
    <3>1. call[t] \in Calls /\ requestid_list \in Seq(Calls)
      BY <1>3 DEF Register
    <3>2. Append(requestid_list, call[t]) \in Seq(Calls)
      BY <3>1, AppendProperties
    <3> QED
      BY <1>3, <3>1, <3>2 DEF Register
  <2> QED
    BY <1>3, <1>c, <2>1 DEF Register, Goto, edgeVars, bcastVars
<1>4. ASSUME NEW t \in AllThreads, Publish(t) PROVE TypeInv'
  BY <1>4, <1>c DEF Publish, Goto, edgeVars, bcastVars, heapVars
<1>d. ASSUME NEW t \in AllThreads, pc[t] # "idle", NEW s \in Statuses \union {"none"},
             ReturnWith(t, s) \/ ToEnd(t, s)
      PROVE  /\ calls' = calls /\ op' = op
             /\ pc' \in [AllThreads -> {"idle"} \union InCall]
             /\ call' \in [AllThreads -> 0 .. MaxCalls]
             /\ loop' \in [AllThreads -> 0 .. MaxPolls]
             /\ status' \in [AllThreads -> Statuses \union {"none"}]
             /\ ret' \in [Calls -> Statuses \union {"none"}]
             /\ BusyHasCall'
  <2>1. CASE ReturnWith(t, s)
    BY <2>1, <1>a DEF ReturnWith, Goto
  <2>2. CASE ToEnd(t, s)
    BY <2>2, <1>d, <1>c DEF ToEnd, Goto
  <2> QED
    BY <1>d, <2>1, <2>2
<1>e. ASSUME NEW t \in AllThreads, pc[t] # "idle", NEW s \in Failures,
             Fail(t, s) \/ FailNoMemory(t)
      PROVE  \E r \in Statuses \union {"none"} : ReturnWith(t, r) \/ ToEnd(t, r)
  BY <1>e, <1>b DEF Fail, FailNoMemory
<1>f. {"NO_MEMORY", "PUBLISH", "INVALID_TIMEOUT", "ERR"} \subseteq Failures
  BY DEF Failures
<1>5. ASSUME NEW t \in AllThreads, PublishFails(t) PROVE TypeInv'
  <2>1. pc[t] # "idle" /\ Fail(t, "PUBLISH")
    BY <1>5 DEF PublishFails
  <2>2. published' \subseteq Calls
    BY <1>5 DEF PublishFails
  <2>3. PICK r \in Statuses \union {"none"} : ReturnWith(t, r) \/ ToEnd(t, r)
    BY <2>1, <1>e, <1>f
  <2> QED
    BY <1>5, <2>1, <2>2, <2>3, <1>d DEF PublishFails, bcastVars, heapVars
<1>6. ASSUME NEW t \in AllThreads, FormatNoMemory(t) PROVE TypeInv'
  <2>1. pc[t] # "idle" /\ FailNoMemory(t)
    BY <1>6 DEF FormatNoMemory
  <2>3. PICK r \in Statuses \union {"none"} : ReturnWith(t, r) \/ ToEnd(t, r)
    BY <2>1, <1>e, <1>f
  <2> QED
    BY <1>6, <2>1, <2>3, <1>d DEF FormatNoMemory, edgeVars, bcastVars, heapVars
<1>7. ASSUME NEW t \in AllThreads, UpdateConnList(t) PROVE TypeInv'
  BY <1>7, <1>c DEF UpdateConnList, Goto, edgeVars, bcastVars, heapVars
<1>g. ASSUME NEW t \in AllThreads, pc[t] # "idle", Access(call[t]) PROVE stale' \subseteq Calls
  BY <1>g DEF Access
<1>8. ASSUME NEW t \in AllThreads, Poll(t) PROVE TypeInv'
  <2>1. stale' \subseteq Calls
    BY <1>8, <1>g DEF Poll
  <2>2. loop' \in [AllThreads -> 0 .. MaxPolls]
    BY <1>8, <1>a DEF Poll
  <2> QED
    BY <1>8, <2>1, <2>2 DEF Poll, edgeVars, bcastVars
<1>9. ASSUME NEW t \in AllThreads, SeesPayload(t) PROVE TypeInv'
  <2>1. stale' \subseteq Calls
    BY <1>9, <1>g DEF SeesPayload
  <2> QED
    BY <1>9, <1>c, <2>1 DEF SeesPayload, Goto, edgeVars, bcastVars
<1>10. ASSUME NEW t \in AllThreads, TimesOut(t) PROVE TypeInv'
  <2>1. pc[t] # "idle" /\ Fail(t, "INVALID_TIMEOUT")
    BY <1>10 DEF TimesOut
  <2>2. stale' \subseteq Calls
    BY <1>10, <1>g DEF TimesOut
  <2>3. PICK r \in Statuses \union {"none"} : ReturnWith(t, r) \/ ToEnd(t, r)
    BY <2>1, <1>e, <1>f
  <2> QED
    BY <1>10, <2>1, <2>2, <2>3, <1>d DEF TimesOut, edgeVars, bcastVars
<1>11. ASSUME NEW t \in AllThreads, ParseReply(t) PROVE TypeInv'
  <2>1. pc[t] # "idle"
    BY <1>11 DEF ParseReply
  <2>2. stale' \subseteq Calls
    BY <1>11, <1>g DEF ParseReply
  <2>3. PICK r \in Statuses \union {"none"} : ReturnWith(t, r) \/ ToEnd(t, r)
    BY <1>11, <2>1, <1>b, <1>e, <1>f DEF ParseReply
  <2> QED
    BY <1>11, <2>1, <2>2, <2>3, <1>d DEF ParseReply, edgeVars, bcastVars
<1>12. ASSUME NEW t \in AllThreads, Unregister(t) PROVE TypeInv'
  <2>1. requestid_list' \in Seq(Calls) /\ mem' \in [Calls -> {"unused", "live", "freed"}]
    <3>1. CASE UNCHANGED <<requestid_list, mem>>
      BY <3>1
    <3>2. ASSUME NEW i \in 1 .. Len(requestid_list),
                 requestid_list' = RemoveAt(requestid_list, i),
                 mem' = [mem EXCEPT ![requestid_list[i]] = "freed"]
          PROVE  /\ requestid_list' \in Seq(Calls)
                 /\ mem' \in [Calls -> {"unused", "live", "freed"}]
      <4>1. requestid_list \in Seq(Calls)
        OBVIOUS
      <4>2. RemoveAt(requestid_list, i) \in Seq(Calls)
        BY <4>1, RemoveAtProperties
      <4> QED
        BY <3>2, <4>2
    <3> QED
      BY <1>12, <3>1, <3>2 DEF Unregister
  <2>2. pc[t] # "idle" /\ ReturnWith(t, status[t]) /\ status[t] \in Statuses \union {"none"}
    BY <1>12 DEF Unregister
  <2> QED
    BY <1>12, <2>1, <2>2, <1>d DEF Unregister, edgeVars, bcastVars
<1>13. ASSUME NEW m \in inbox, BcastDrops(m) PROVE TypeInv'
  BY <1>13 DEF BcastDrops, callVars, bcastVars, heapVars
<1>14. ASSUME NEW m \in inbox, NEW i \in 1 .. Len(requestid_list), BcastFinds(m, i)
       PROVE  TypeInv'
  <2>1. m.rc \in Verdicts /\ inbox' \subseteq inbox
    BY <1>14 DEF BcastFinds
  <2>2. requestid_list[i] \in Calls
    OBVIOUS
  <2> QED
    BY <1>14, <2>1, <2>2, <1>a DEF BcastFinds, callVars, heapVars
<1>h. \A n : Owners(n) \subseteq Calls
  BY DEF Owners
<1>15. CASE BcastCopies
  <2>1. bnode \in Calls /\ stale' \subseteq Calls
    BY <1>15 DEF BcastCopies, Access
  <2>2. payload' \in [Calls -> {"empty", "torn"} \union Verdicts]
    BY <1>15 DEF BcastCopies
  <2>3. misdelivered' \subseteq Calls \X Calls
    BY <1>15, <1>h, <2>1 DEF BcastCopies
  <2> QED
    BY <1>15, <2>1, <2>2, <2>3 DEF BcastCopies, callVars, edgeVars
<1>16. CASE BcastCopied
  <2>1. bnode \in Calls /\ brc \in Verdicts /\ stale' \subseteq Calls
    BY <1>16 DEF BcastCopied, Access
  <2>2. payload' \in [Calls -> {"empty", "torn"} \union Verdicts]
    BY <1>16, <2>1 DEF BcastCopied
  <2> QED
    BY <1>16, <2>1, <2>2 DEF BcastCopied, callVars, edgeVars
<1>17. CASE BcastTerminates
  BY <1>17, <1>a DEF BcastTerminates, Access, callVars, edgeVars
<1>18. CASE BcastNotifies
  BY <1>18 DEF BcastNotifies, callVars, edgeVars, heapVars
<1>19. CASE BcastCallbackReturns
  BY <1>19 DEF BcastCallbackReturns, callVars, edgeVars, heapVars
<1>20. ASSUME NEW n \in Calls, NEW v \in Verdicts, EdgeAnswers(n, v) PROVE TypeInv'
  <2>1. [id |-> RequestId[n], from |-> n, rc |-> v] \in [id : Nat, from : 0 .. MaxCalls, rc : Verdicts]
    BY <1>a
  <2>2. inbox' \subseteq [id : Nat, from : 0 .. MaxCalls, rc : Verdicts]
    BY <1>20, <2>1 DEF EdgeAnswers
  <2>3. verdict' \in [Calls -> Verdicts \union {"none"}]
    BY <1>20 DEF EdgeAnswers
  <2> QED
    BY <1>20, <2>2, <2>3 DEF EdgeAnswers, callVars, bcastVars, heapVars
<1>21. ASSUME NEW id \in StrayIds, NEW v \in Verdicts, StrayReply(id, v) PROVE TypeInv'
  <2>1. [id |-> id, from |-> NoCall, rc |-> v] \in [id : Nat, from : 0 .. MaxCalls, rc : Verdicts]
    BY <1>a
  <2>2. inbox' \subseteq [id : Nat, from : 0 .. MaxCalls, rc : Verdicts]
    BY <1>21, <2>1 DEF StrayReply
  <2> QED
    BY <1>21, <2>2 DEF StrayReply, callVars, bcastVars, heapVars
<1>22. CASE UNCHANGED vars
  BY <1>22 DEF vars, callVars, edgeVars, bcastVars, heapVars
<1> QED
  BY <1>1, <1>2, <1>3, <1>4, <1>5, <1>6, <1>7, <1>8, <1>9, <1>10, <1>11, <1>12,
     <1>13, <1>14, <1>15, <1>16, <1>17, <1>18, <1>19, <1>20, <1>21, <1>22, <1>23
  DEF Next, CallStep, BcastStep, EdgeStep

\* In every behaviour of the synchronous calls, every variable has its type:
\* the poll counter stays within its bound, the list holds calls only and the
\* buffers hold what the handler may copy.
THEOREM TypeCorrect == Spec => []TypeOK
<1>1. Spec => []TypeInv
  BY TypeInit, TypeStep, PTL DEF Spec
<1> QED
  BY <1>1, PTL DEF TypeInv

-----------------------------------------------------------------------------
(* Bookkeeping: the part of the invariant that holds whatever the ids are. *)

\* A busy thread works on a call of its own that has been drawn and has not
\* returned, and a call that has not been drawn yet left no trace.
Bookkeeping ==
  /\ \A t \in AllThreads : pc[t] # "idle" => call[t] <= calls /\ ret[call[t]] = "none"
  /\ \A t, u \in AllThreads :
       pc[t] # "idle" /\ pc[u] # "idle" /\ call[t] = call[u] => t = u
  /\ \A n \in Calls :
       n > calls => ret[n] = "none" /\ payload[n] = "empty" /\ mem[n] = "unused"
  /\ \A i \in 1 .. Len(requestid_list) : requestid_list[i] <= calls
  /\ \A n \in published : n <= calls
  /\ bpc \in Holding => bnode <= calls
  /\ \A t \in AllThreads : pc[t] = "removing" => status[t] \in Statuses

BookInv == TypeInv /\ Bookkeeping

LEMMA FailShape ==
  ASSUME TypeInv, NEW t \in AllThreads, NEW s \in Failures,
         Fail(t, s) \/ (FailNoMemory(t) /\ s = "NO_MEMORY")
  PROVE  \E r \in Failures : ReturnWith(t, r) \/ ToEnd(t, r)
  BY DEF Fail, FailNoMemory, Failures

\* The ways a step of a call can move its thread: it stays inside the call,
\* or goes to the end label, or returns.
Stays(t) ==
  /\ pc' = [pc EXCEPT ![t] = pc'[t]] /\ pc'[t] \notin {"idle", "created", "removing"}
  /\ UNCHANGED <<call, status, ret>>

LEMMA CallStepShape ==
  ASSUME TypeInv, NEW t \in AllThreads, CallStep(t)
  PROVE  /\ pc[t] # "idle"
         /\ calls' = calls /\ op' = op
         /\ UNCHANGED <<verdict, inbox, bcastVars, block, payload, misdelivered>>
         /\ published' \subseteq published \union {call[t]}
         /\ requestid_list' # requestid_list =>
              Register(t) \/ (pc[t] = "removing" /\ Unregister(t))
         /\ \/ Stays(t)
            \/ \E r \in Failures : ReturnWith(t, r) \/ ToEnd(t, r)
            \/ /\ pc[t] = "answered"
               /\ payload[call[t]] \in Verdicts
               /\ ToEnd(t, StatusOf(op[call[t]], payload[call[t]]))
            \/ pc[t] = "removing" /\ ReturnWith(t, status[t])
<1> USE DEF edgeVars, bcastVars, heapVars, Stays
<1>a. pc \in [AllThreads -> {"idle"} \union InCall] /\ call[t] \in 0 .. MaxCalls
  BY DEF TypeInv, TypeOK
<1>b. {"NO_MEMORY", "PUBLISH", "INVALID_TIMEOUT", "ERR"} \subseteq Failures
  BY DEF Failures
<1>1. CASE Register(t)
  BY <1>1, <1>a DEF Register, Goto
<1>2. CASE Publish(t)
  BY <1>2, <1>a DEF Publish, Goto
<1>3. CASE PublishFails(t)
  <2>1. \E r \in Failures : ReturnWith(t, r) \/ ToEnd(t, r)
    BY <1>3, <1>b, FailShape DEF PublishFails
  <2>2. calls' = calls /\ op' = op
    BY <2>1 DEF ReturnWith, ToEnd
  <2> QED
    BY <1>3, <2>1, <2>2 DEF PublishFails
<1>4. CASE FormatNoMemory(t)
  <2>1. \E r \in Failures : ReturnWith(t, r) \/ ToEnd(t, r)
    BY <1>4, <1>b, FailShape DEF FormatNoMemory
  <2>2. calls' = calls /\ op' = op
    BY <2>1 DEF ReturnWith, ToEnd
  <2> QED
    BY <1>4, <2>1, <2>2 DEF FormatNoMemory
<1>5. CASE UpdateConnList(t)
  BY <1>5, <1>a DEF UpdateConnList, Goto
<1>6. CASE Poll(t)
  BY <1>6, <1>a DEF Poll
<1>7. CASE SeesPayload(t)
  BY <1>7, <1>a DEF SeesPayload, Goto
<1>8. CASE TimesOut(t)
  <2>1. \E r \in Failures : ReturnWith(t, r) \/ ToEnd(t, r)
    BY <1>8, <1>b, FailShape DEF TimesOut
  <2>2. calls' = calls /\ op' = op
    BY <2>1 DEF ReturnWith, ToEnd
  <2> QED
    BY <1>8, <2>1, <2>2 DEF TimesOut
<1>9. CASE ParseReply(t)
  <2>1. CASE Fail(t, "ERR")
    <3>1. \E r \in Failures : ReturnWith(t, r) \/ ToEnd(t, r)
      BY <2>1, <1>b, FailShape
    <3>2. calls' = calls /\ op' = op
      BY <3>1 DEF ReturnWith, ToEnd
    <3> QED
      BY <1>9, <3>1, <3>2 DEF ParseReply
  <2>2. CASE /\ payload[call[t]] \in Verdicts
             /\ ToEnd(t, StatusOf(op[call[t]], payload[call[t]]))
    <3>1. calls' = calls /\ op' = op
      BY <2>2 DEF ToEnd
    <3> QED
      BY <1>9, <2>2, <3>1 DEF ParseReply
  <2> QED
    BY <1>9, <2>1, <2>2 DEF ParseReply
<1>10. CASE Unregister(t)
  <2>1. calls' = calls /\ op' = op /\ ReturnWith(t, status[t])
    BY <1>10 DEF Unregister, ReturnWith
  <2> QED
    BY <1>10, <2>1 DEF Unregister
<1> QED
  BY <1>1, <1>2, <1>3, <1>4, <1>5, <1>6, <1>7, <1>8, <1>9, <1>10 DEF CallStep

LEMMA BookInit == Init => BookInv
  BY TypeInit, SyncCallAssumption
  DEF Init, BookInv, Bookkeeping, Holding, AllThreads, Calls, NoCall

\* The steps of a call keep the books.
LEMMA BookCallStep ==
  ASSUME BookInv, TypeInv', NEW t \in AllThreads, CallStep(t)
  PROVE  Bookkeeping'
<1>a. /\ pc[t] # "idle" /\ call[t] \in Calls /\ call[t] <= calls /\ calls' = calls
      /\ ret[call[t]] = "none"
      /\ UNCHANGED <<bpc, bnode, payload>>
      /\ published' \subseteq published \union {call[t]}
      /\ pc \in [AllThreads -> {"idle"} \union InCall]
      /\ call \in [AllThreads -> 0 .. MaxCalls]
      /\ status \in [AllThreads -> Statuses \union {"none"}]
      /\ ret \in [Calls -> Statuses \union {"none"}]
      /\ requestid_list \in Seq(Calls)
  BY CallStepShape DEF BookInv, Bookkeeping, TypeInv, TypeOK, BusyHasCall, bcastVars
<1>n. calls \in Nat /\ Calls \subseteq Nat
  BY SyncCallAssumption DEF BookInv, TypeInv, TypeOK, Calls
<1>b. Failures \subseteq Statuses /\ \A o, v : StatusOf(o, v) \in Statuses
  BY DEF Statuses, Failures, StatusOf
<1>m. \A n \in Calls : n > calls' => mem'[n] = "unused"
  <2>1. \A n \in Calls : n > calls => mem[n] = "unused"
    BY DEF BookInv, Bookkeeping
  <2>2. CASE mem' = mem
    BY <1>a, <2>1, <2>2
  <2>3. CASE \E i \in 1 .. Len(requestid_list) : mem' = [mem EXCEPT ![requestid_list[i]] = "freed"]
    <3>1. PICK i \in 1 .. Len(requestid_list) : mem' = [mem EXCEPT ![requestid_list[i]] = "freed"]
      BY <2>3
    <3>2. requestid_list[i] \in Calls /\ requestid_list[i] <= calls
      BY <1>a DEF BookInv, Bookkeeping
    <3>3. ASSUME NEW n \in Calls, n > calls' PROVE mem'[n] = "unused"
      <4>1. n # requestid_list[i]
        BY <1>a, <1>n, <3>2, <3>3
      <4> QED
        BY <1>a, <2>1, <3>1, <3>3, <4>1 DEF BookInv, TypeInv, TypeOK
    <3> QED
      BY <3>3
  <2> QED
    BY <2>2, <2>3 DEF CallStep, Register, Publish, PublishFails, FormatNoMemory, UpdateConnList,
                      Poll, SeesPayload, TimesOut, ParseReply, Unregister, heapVars
<1>1. \A i \in 1 .. Len(requestid_list') : requestid_list'[i] <= calls'
  <2>1. CASE requestid_list' = requestid_list
    BY <2>1, <1>a DEF BookInv, Bookkeeping
  <2>2. CASE Register(t) /\ requestid_list' # requestid_list
    <3>1. requestid_list' = Append(requestid_list, call[t])
      BY <2>2 DEF Register
    <3>2. /\ Len(requestid_list') = Len(requestid_list) + 1
          /\ \A j \in 1 .. Len(requestid_list) : requestid_list'[j] = requestid_list[j]
          /\ requestid_list'[Len(requestid_list) + 1] = call[t]
      BY <3>1, <1>a, AppendProperties
    <3>3. /\ \A j \in 1 .. Len(requestid_list) : requestid_list[j] <= calls
          /\ Len(requestid_list) \in Nat
      BY <1>a DEF BookInv, Bookkeeping
    <3> QED
      BY <3>2, <3>3, <1>a
  <2>3. CASE Unregister(t) /\ requestid_list' # requestid_list
    <3>1. PICK i \in 1 .. Len(requestid_list) : requestid_list' = RemoveAt(requestid_list, i)
      BY <2>3 DEF Unregister
    <3>2. /\ Len(requestid_list') = Len(requestid_list) - 1
          /\ \A j \in 1 .. Len(requestid_list) - 1 :
               requestid_list'[j] = IF j < i THEN requestid_list[j] ELSE requestid_list[j + 1]
      <4>1. requestid_list \in Seq(Calls)
        BY <1>a
      <4> QED
        BY <3>1, <4>1, RemoveAtProperties
    <3>3. /\ \A j \in 1 .. Len(requestid_list) : requestid_list[j] <= calls
          /\ Len(requestid_list) \in Nat
      BY <1>a DEF BookInv, Bookkeeping
    <3> QED
      BY <3>2, <3>3, <1>a
  <2> QED
    BY <2>1, <2>2, <2>3, CallStepShape DEF BookInv
<1>2. CASE Stays(t)
  <2>1. /\ \A u \in AllThreads : u # t => pc'[u] = pc[u]
        /\ \A u \in AllThreads : pc'[u] # "idle" => pc[u] # "idle"
        /\ \A u \in AllThreads : pc'[u] = "removing" => pc[u] = "removing"
        /\ call' = call /\ status' = status /\ ret' = ret
    BY <1>2, <1>a DEF Stays
  <2>2. /\ \A u \in AllThreads : pc'[u] # "idle" => call'[u] <= calls' /\ ret'[call'[u]] = "none"
        /\ \A u, v \in AllThreads :
             pc'[u] # "idle" /\ pc'[v] # "idle" /\ call'[u] = call'[v] => u = v
    BY <2>1, <1>a DEF BookInv, Bookkeeping
  <2>3. /\ \A n \in Calls :
             n > calls' => ret'[n] = "none" /\ payload'[n] = "empty" /\ mem'[n] = "unused"
        /\ \A n \in published' : n <= calls'
        /\ bpc' \in Holding => bnode' <= calls'
        /\ \A u \in AllThreads : pc'[u] = "removing" => status'[u] \in Statuses
    BY <2>1, <1>a, <1>m DEF BookInv, Bookkeeping
  <2> QED
    BY <2>2, <2>3, <1>1 DEF Bookkeeping
<1>3. ASSUME NEW r \in Statuses, ToEnd(t, r) PROVE Bookkeeping'
  BY <1>3, <1>a, <1>m, <1>1 DEF ToEnd, Goto, BookInv, Bookkeeping
<1>4. ASSUME NEW r \in Statuses, ReturnWith(t, r) PROVE Bookkeeping'
  <2>1. /\ \A u \in AllThreads : pc'[u] # "idle" =>
              u # t /\ pc'[u] = pc[u] /\ call'[u] = call[u] /\ status'[u] = status[u]
        /\ \A n \in Calls : n # call[t] => ret'[n] = ret[n]
    BY <1>4, <1>a DEF ReturnWith, Goto
  <2>2. \A u \in AllThreads : pc'[u] # "idle" =>
          /\ call[u] \in Calls /\ call[u] # call[t]
          /\ call[u] <= calls /\ ret[call[u]] = "none"
    BY <2>1, <1>a DEF BookInv, Bookkeeping, TypeInv, BusyHasCall
  <2>3. \A n \in Calls :
          n > calls' => ret'[n] = "none" /\ payload'[n] = "empty" /\ mem'[n] = "unused"
    BY <2>1, <1>a, <1>n, <1>m DEF BookInv, Bookkeeping
  <2>4. /\ \A n \in published' : n <= calls'
        /\ bpc' \in Holding => bnode' <= calls'
        /\ \A u \in AllThreads : pc'[u] = "removing" => status'[u] \in Statuses
    BY <2>1, <1>a DEF BookInv, Bookkeeping
  <2>5. \A u, v \in AllThreads :
          pc'[u] # "idle" /\ pc'[v] # "idle" /\ call'[u] = call'[v] => u = v
    BY <2>1, <1>a DEF BookInv, Bookkeeping
  <2>6. \A u \in AllThreads : pc'[u] # "idle" => call'[u] <= calls' /\ ret'[call'[u]] = "none"
    BY <2>1, <2>2, <1>a
  <2> QED
    BY <2>3, <2>4, <2>5, <2>6, <1>1 DEF Bookkeeping
<1> QED
  <2>1. pc[t] = "removing" => status[t] \in Statuses
    BY DEF BookInv, Bookkeeping
  <2> QED
    BY <1>2, <1>3, <1>4, <1>b, <2>1, CallStepShape DEF BookInv

LEMMA BookStep == BookInv /\ [Next]_vars => BookInv'
<1> SUFFICES ASSUME BookInv, [Next]_vars PROVE Bookkeeping' /\ TypeInv'
  BY DEF BookInv
<1>0. TypeInv'
  BY TypeStep DEF BookInv
<1>a. /\ calls \in Nat /\ MaxCalls \in Nat
      /\ \A k \in Calls : k \in Nat
      /\ calls < MaxCalls => calls + 1 \in Calls
      /\ pc \in [AllThreads -> {"idle"} \union InCall]
      /\ call \in [AllThreads -> 0 .. MaxCalls]
      /\ ret \in [Calls -> Statuses \union {"none"}]
      /\ requestid_list \in Seq(Calls)
      /\ \A t \in AllThreads : pc[t] # "idle" => call[t] \in Calls
      /\ bpc \in Holding => bnode \in Calls
      /\ published \subseteq Calls
      /\ mem \in [Calls -> {"unused", "live", "freed"}]
      /\ payload \in [Calls -> {"empty", "torn"} \union Verdicts]
  <2>1. TypeInv
    BY DEF BookInv
  <2>2. TypeOK /\ BusyHasCall /\ HandlerHasNode
    BY <2>1 DEF TypeInv
  <2>3. /\ calls \in Nat /\ MaxCalls \in Nat
        /\ \A k \in Calls : k \in Nat
        /\ calls < MaxCalls => calls + 1 \in Calls
    BY <2>2, SyncCallAssumption DEF TypeOK, Calls
  <2> QED
    BY <2>2, <2>3 DEF TypeOK, BusyHasCall, HandlerHasNode
<1> USE DEF BookInv, Bookkeeping
<1>b. \A i \in 1 .. Len(requestid_list) : requestid_list[i] \in Calls
  BY <1>a
<1>1. ASSUME NEW t \in AllThreads, NEW o \in Invoked, Create(t, o) PROVE Bookkeeping'
  BY <1>1, <1>a, <1>b DEF Create, Goto, edgeVars, bcastVars
<1>2. ASSUME NEW t \in AllThreads, NEW o \in Invoked, CreateNoMemory(t, o)
      PROVE  Bookkeeping'
  BY <1>2, <1>a, <1>b DEF CreateNoMemory, edgeVars, bcastVars
<1>12. ASSUME NEW t \in AllThreads, LogoutOffline(t) PROVE Bookkeeping'
  BY <1>12, <1>a, <1>b DEF LogoutOffline, edgeVars, bcastVars, heapVars
<1>3. ASSUME NEW t \in AllThreads, CallStep(t) PROVE Bookkeeping'
  BY <1>0, <1>3, BookCallStep
<1>4. ASSUME NEW m \in inbox, BcastDrops(m) PROVE Bookkeeping'
  BY <1>4 DEF BcastDrops, callVars, bcastVars, heapVars
<1>5. ASSUME NEW m \in inbox, NEW i \in 1 .. Len(requestid_list), BcastFinds(m, i)
      PROVE  Bookkeeping'
  BY <1>5 DEF BcastFinds, callVars, heapVars
<1>c. ASSUME NEW n \in Calls, n > calls PROVE \A m : n \notin Owners(m)
  BY <1>c DEF Owners
<1>6. CASE BcastCopies
  <2>1. \A n \in Calls : n > calls => payload'[n] = payload[n]
    BY <1>6, <1>c DEF BcastCopies
  <2> QED
    BY <1>0, <1>6, <1>a, <2>1 DEF BcastCopies, callVars, edgeVars, Holding
<1>7. CASE BcastCopied
  <2>1. \A n \in Calls : n > calls => payload'[n] = payload[n]
    BY <1>7, <1>c DEF BcastCopied
  <2> QED
    BY <1>0, <1>7, <1>a, <2>1 DEF BcastCopied, callVars, edgeVars, Holding
<1>8. CASE BcastTerminates
  BY <1>0, <1>8 DEF BcastTerminates, callVars, edgeVars, Holding
<1>9. CASE BcastNotifies \/ BcastCallbackReturns
  BY <1>0, <1>9 DEF BcastNotifies, BcastCallbackReturns, callVars, edgeVars, heapVars, Holding
<1>10. CASE EdgeStep
  BY <1>0, <1>10 DEF EdgeStep, EdgeAnswers, StrayReply, callVars, bcastVars, heapVars
<1>11. CASE UNCHANGED vars
  BY <1>0, <1>11 DEF vars, callVars, edgeVars, bcastVars, heapVars
<1> QED
  BY <1>0, <1>1, <1>2, <1>3, <1>4, <1>5, <1>6, <1>7, <1>8, <1>9, <1>10, <1>11, <1>12
  DEF Next, BcastStep

-----------------------------------------------------------------------------
(* Memory and the list, when ids are unique.                               *)

\* No call is listed twice, a call is not listed before it is registered, and
\* what is listed or in use is allocated.
Memory ==
  /\ \A t \in AllThreads : pc[t] # "idle" => mem[call[t]] = "live"
  /\ \A i \in 1 .. Len(requestid_list) : mem[requestid_list[i]] = "live"
  /\ \A i, j \in 1 .. Len(requestid_list) :
       requestid_list[i] = requestid_list[j] => i = j
  /\ \A t \in AllThreads, i \in 1 .. Len(requestid_list) :
       pc[t] = "created" => requestid_list[i] # call[t]

LEMMA MemoryInit == Init => Memory
  BY DEF Init, Memory

LEMMA MemoryImplies ==
  ASSUME TypeInv, Memory
  PROVE  EntriesInUseAreLive
  BY DEF TypeInv, BusyHasCall, Memory, EntriesInUseAreLive, InProgress

\* A step that leaves entries and list alone, and lets no thread into a call,
\* keeps Memory.
LEMMA MemoryFrame ==
  ASSUME Memory, UNCHANGED <<mem, requestid_list>>,
         \A u \in AllThreads : pc'[u] # "idle" =>
           /\ pc[u] # "idle" /\ call'[u] = call[u]
           /\ pc'[u] = "created" => pc[u] = "created"
  PROVE  Memory'
  BY DEF Memory

LEMMA MemoryRegister ==
  ASSUME BookInv, Memory, NEW t \in AllThreads, Register(t)
  PROVE  Memory'
<1>1. /\ pc[t] = "created" /\ call[t] \in Calls
      /\ pc' = [pc EXCEPT ![t] = "registered"] /\ call' = call /\ mem' = mem
      /\ pc \in [AllThreads -> {"idle"} \union InCall]
      /\ requestid_list \in Seq(Calls) /\ Len(requestid_list) \in Nat
  BY DEF BookInv, TypeInv, TypeOK, BusyHasCall, Register, Goto
<1>2. \A u \in AllThreads : pc'[u] # "idle" =>
        /\ pc[u] # "idle" /\ call'[u] = call[u]
        /\ pc'[u] = "created" => u # t /\ pc[u] = "created"
  BY <1>1
<1>3. CASE requestid_list' = requestid_list
  BY <1>1, <1>2, <1>3, MemoryFrame
<1>4. CASE requestid_list' = Append(requestid_list, call[t])
  <2>1. /\ Len(requestid_list') = Len(requestid_list) + 1
        /\ \A j \in 1 .. Len(requestid_list) : requestid_list'[j] = requestid_list[j]
        /\ requestid_list'[Len(requestid_list) + 1] = call[t]
    BY <1>1, <1>4, AppendProperties
  <2>2. \A u \in AllThreads : pc'[u] = "created" => call[u] # call[t]
    BY <1>1, <1>2 DEF BookInv, Bookkeeping
  <2>3. \A j \in 1 .. Len(requestid_list) : requestid_list[j] # call[t]
    BY <1>1 DEF Memory
  <2>4. \A i \in 1 .. Len(requestid_list') :
          i \in 1 .. Len(requestid_list) \/ i = Len(requestid_list) + 1
    BY <1>1, <2>1
  <2>5. \A u \in AllThreads : pc'[u] # "idle" => mem'[call'[u]] = "live"
    BY <1>1, <1>2 DEF Memory
  <2>6. \A i \in 1 .. Len(requestid_list') : mem'[requestid_list'[i]] = "live"
    BY <1>1, <2>1, <2>4 DEF Memory
  <2>7. \A i, j \in 1 .. Len(requestid_list') :
          requestid_list'[i] = requestid_list'[j] => i = j
    BY <2>1, <2>3, <2>4 DEF Memory
  <2>8. \A u \in AllThreads, i \in 1 .. Len(requestid_list') :
          pc'[u] = "created" => requestid_list'[i] # call'[u]
    BY <1>1, <1>2, <2>1, <2>2, <2>4 DEF Memory
  <2> QED
    BY <2>5, <2>6, <2>7, <2>8 DEF Memory
<1> QED
  BY <1>3, <1>4 DEF Register

\* The entry that a call removes by its id is its own.
LEMMA MemoryUnregister ==
  ASSUME IdsUnique, BookInv, Memory, NEW t \in AllThreads, Unregister(t)
  PROVE  Memory'
<1>1. /\ pc[t] = "removing" /\ call[t] \in Calls
      /\ ReturnWith(t, status[t])
      /\ pc \in [AllThreads -> {"idle"} \union InCall]
      /\ call \in [AllThreads -> 0 .. MaxCalls]
      /\ mem \in [Calls -> {"unused", "live", "freed"}]
      /\ requestid_list \in Seq(Calls) /\ Len(requestid_list) \in Nat
  BY DEF BookInv, TypeInv, TypeOK, BusyHasCall, Unregister
<1>2. \A u \in AllThreads : pc'[u] # "idle" =>
        u # t /\ pc'[u] = pc[u] /\ call'[u] = call[u]
  BY <1>1 DEF ReturnWith, Goto
<1>3. CASE UNCHANGED <<requestid_list, mem>>
  BY <1>2, <1>3, MemoryFrame
<1>4. ASSUME NEW k \in 1 .. Len(requestid_list),
             Finds(k, RequestId[call[t]]),
             requestid_list' = RemoveAt(requestid_list, k),
             mem' = [mem EXCEPT ![requestid_list[k]] = "freed"]
      PROVE  Memory'
  <2>1. requestid_list[k] = call[t]
    BY <1>1, <1>4 DEF Finds, Matches, IdsUnique
  <2>2. /\ Len(requestid_list') = Len(requestid_list) - 1
        /\ \A j \in 1 .. Len(requestid_list) - 1 :
             requestid_list'[j] = IF j < k THEN requestid_list[j] ELSE requestid_list[j + 1]
    BY <1>1, <1>4, RemoveAtProperties
  <2>3. \A j \in 1 .. Len(requestid_list') :
          \E i \in 1 .. Len(requestid_list) :
            /\ i # k /\ requestid_list'[j] = requestid_list[i]
            /\ i = IF j < k THEN j ELSE j + 1
    BY <1>1, <2>2
  <2>4. \A u \in AllThreads : pc'[u] # "idle" => call[u] # call[t] /\ call[u] \in Calls
    BY <1>1, <1>2 DEF BookInv, Bookkeeping, TypeInv, BusyHasCall
  <2>5. \A n \in Calls : n # call[t] => mem'[n] = mem[n]
    BY <1>1, <1>4, <2>1
  <2>6. \A i \in 1 .. Len(requestid_list) : i # k => requestid_list[i] # call[t] /\ requestid_list[i] \in Calls
    BY <1>1, <2>1 DEF Memory
  <2>7. \A u \in AllThreads : pc'[u] # "idle" => mem'[call'[u]] = "live"
    BY <1>2, <2>4, <2>5 DEF Memory
  <2>8. \A j \in 1 .. Len(requestid_list') : mem'[requestid_list'[j]] = "live"
    BY <2>3, <2>5, <2>6 DEF Memory
  <2>9. \A i, j \in 1 .. Len(requestid_list') :
          requestid_list'[i] = requestid_list'[j] => i = j
    BY <1>1, <2>3, <2>2 DEF Memory
  <2>10. \A u \in AllThreads, j \in 1 .. Len(requestid_list') :
          pc'[u] = "created" => requestid_list'[j] # call'[u]
    BY <1>2, <2>3 DEF Memory
  <2> QED
    BY <2>7, <2>8, <2>9, <2>10 DEF Memory
<1> QED
  BY <1>3, <1>4 DEF Unregister

LEMMA MemoryStep ==
  ASSUME IdsUnique, BookInv, Memory, [Next]_vars
  PROVE  Memory'
<1>a. /\ calls \in Nat /\ Calls \subseteq Nat
      /\ calls < MaxCalls => calls + 1 \in Calls
  BY SyncCallAssumption DEF BookInv, TypeInv, TypeOK, Calls
<1>b. /\ pc \in [AllThreads -> {"idle"} \union InCall]
      /\ call \in [AllThreads -> 0 .. MaxCalls]
      /\ mem \in [Calls -> {"unused", "live", "freed"}]
      /\ \A u \in AllThreads : pc[u] # "idle" => call[u] \in Calls /\ call[u] <= calls
      /\ \A i \in 1 .. Len(requestid_list) :
           requestid_list[i] \in Calls /\ requestid_list[i] <= calls
  BY DEF BookInv, Bookkeeping, TypeInv, TypeOK, BusyHasCall
<1>1. ASSUME NEW t \in AllThreads, NEW o \in Invoked, Create(t, o) PROVE Memory'
  <2>1. /\ \A n \in Calls : n <= calls => mem'[n] = mem[n]
        /\ mem'[calls + 1] = "live" /\ requestid_list' = requestid_list
        /\ pc'[t] = "created" /\ call'[t] = calls + 1
        /\ \A u \in AllThreads : u # t => pc'[u] = pc[u] /\ call'[u] = call[u]
    BY <1>1, <1>a, <1>b DEF Create, Goto
  <2> QED
    <3>1. \A u \in AllThreads : pc'[u] # "idle" => mem'[call'[u]] = "live"
      BY <2>1, <1>b DEF Memory
    <3>2. \A i \in 1 .. Len(requestid_list') : mem'[requestid_list'[i]] = "live"
      BY <2>1, <1>b DEF Memory
    <3>3. \A u \in AllThreads, i \in 1 .. Len(requestid_list') :
            pc'[u] = "created" => requestid_list'[i] # call'[u]
      <4>1. \A i \in 1 .. Len(requestid_list) : requestid_list[i] # calls + 1
        BY <1>a, <1>b
      <4> QED
        BY <2>1, <4>1 DEF Memory
    <3> QED
      BY <2>1, <3>1, <3>2, <3>3 DEF Memory
<1>2. ASSUME NEW t \in AllThreads, NEW o \in Invoked, CreateNoMemory(t, o) PROVE Memory'
  <2>1. /\ \A n \in Calls : n <= calls => mem'[n] = mem[n]
        /\ requestid_list' = requestid_list /\ pc' = pc /\ call' = call
    BY <1>2, <1>a, <1>b DEF CreateNoMemory
  <2> QED
    BY <2>1, <1>a, <1>b DEF Memory
<1>5. ASSUME NEW t \in AllThreads, LogoutOffline(t) PROVE Memory'
  BY <1>5, MemoryFrame DEF LogoutOffline, heapVars
<1>3. ASSUME NEW t \in AllThreads, CallStep(t) PROVE Memory'
  <2>1. CASE Register(t)
    BY <2>1, MemoryRegister
  <2>2. CASE Unregister(t)
    BY <2>2, MemoryUnregister
  <2>3. CASE ~ Register(t) /\ ~ Unregister(t)
    <3>1. UNCHANGED <<mem, requestid_list>>
      BY <1>3, <2>3 DEF CallStep, Publish, PublishFails, FormatNoMemory, UpdateConnList,
                        Poll, SeesPayload, TimesOut, ParseReply, heapVars
    <3>2. \A u \in AllThreads : pc'[u] # "idle" =>
            /\ pc[u] # "idle" /\ call'[u] = call[u]
            /\ pc'[u] = "created" => pc[u] = "created"
      BY <1>3, <1>b, CallStepShape DEF BookInv, Stays, ReturnWith, ToEnd, Goto
    <3> QED
      BY <3>1, <3>2, MemoryFrame
  <2> QED
    BY <2>1, <2>2, <2>3
<1>4. ASSUME BcastStep \/ EdgeStep \/ UNCHANGED vars PROVE Memory'
  <2>1. UNCHANGED <<mem, requestid_list, pc, call>>
    BY <1>4
    DEF BcastStep, BcastDrops, BcastFinds, BcastCopies, BcastCopied, BcastTerminates,
        BcastNotifies, BcastCallbackReturns, EdgeStep, EdgeAnswers, StrayReply,
        vars, callVars, heapVars
  <2> QED
    BY <2>1, MemoryFrame
<1> QED
  BY <1>1, <1>2, <1>3, <1>4, <1>5 DEF Next

-----------------------------------------------------------------------------
(* Blocks of memory: which entries may share one.                          *)

\* Two entries in one block are an earlier one that was freed and a later one,
\* an entry is freed when its call returns, and so whoever gets a reply that
\* was not found for it was called after the reply's own call had returned.
Blocks ==
  /\ \A n \in Calls : block[n] <= n /\ (n > calls => block[n] = n)
  /\ \A m, n \in Calls :
       mem[n] = "live" /\ mem[m] # "unused" /\ block[m] = block[n] /\ m # n
         => mem[m] = "freed" /\ m < n
  /\ \A n \in Calls : mem[n] = "freed" => ret[n] # "none"
  /\ \A m, n \in Calls : <<m, n>> \in misdelivered => m < n /\ ret[m] # "none"
  /\ bpc \in Holding => mem[bnode] # "unused"

LEMMA BlocksInit == Init => Blocks
  BY SyncCallAssumption DEF Init, Blocks, Holding, Calls

\* What a step of a call does to the entries: its own may be freed, as it
\* returns.
LEMMA CallStepMemory ==
  ASSUME IdsUnique, BookInv, Memory, NEW t \in AllThreads, CallStep(t)
  PROVE  /\ call[t] \in Calls /\ mem[call[t]] = "live"
         /\ \/ mem' = mem
            \/ mem' = [mem EXCEPT ![call[t]] = "freed"] /\ ret'[call[t]] # "none"
         /\ \A n \in Calls : ret[n] # "none" => ret'[n] # "none"
<1>1. /\ pc[t] # "idle" /\ call[t] \in Calls /\ mem[call[t]] = "live"
      /\ ret \in [Calls -> Statuses \union {"none"}]
      /\ pc[t] = "removing" => status[t] \in Statuses
      /\ requestid_list \in Seq(Calls)
  BY CallStepShape DEF BookInv, Bookkeeping, TypeInv, TypeOK, BusyHasCall, Memory
<1>2. "none" \notin Statuses /\ Failures \subseteq Statuses
  BY DEF Statuses, Failures
<1>3. ASSUME NEW r \in Statuses, ReturnWith(t, r)
      PROVE  ret'[call[t]] # "none" /\ \A n \in Calls : ret[n] # "none" => ret'[n] # "none"
  BY <1>1, <1>2, <1>3 DEF ReturnWith
<1>4. \A n \in Calls : ret[n] # "none" => ret'[n] # "none"
  <2>1. (\E r \in Statuses : ReturnWith(t, r)) \/ ret' = ret
    BY <1>1, <1>2, CallStepShape DEF BookInv, Stays, ToEnd
  <2> QED
    BY <1>3, <2>1
<1>5. CASE Unregister(t)
  <2>1. pc[t] = "removing" /\ ReturnWith(t, status[t])
    BY <1>5 DEF Unregister
  <2>2. ret'[call[t]] # "none"
    BY <1>1, <1>3, <2>1
  <2>3. ASSUME NEW k \in 1 .. Len(requestid_list), Finds(k, RequestId[call[t]])
        PROVE  requestid_list[k] = call[t]
    BY <1>1, <2>3 DEF Finds, Matches, IdsUnique
  <2> QED
    BY <1>1, <1>4, <1>5, <2>2, <2>3 DEF Unregister
<1>6. CASE ~ Unregister(t)
  <2>1. mem' = mem
    BY <1>6 DEF CallStep, Register, Publish, PublishFails, FormatNoMemory, UpdateConnList,
                Poll, SeesPayload, TimesOut, ParseReply, heapVars
  <2> QED
    BY <1>1, <1>4, <2>1
<1> QED
  BY <1>5, <1>6

\* The new entry of call c is in block k, which no live entry has.
LEMMA BlocksCreate ==
  ASSUME BookInv, Blocks, NEW c \in Calls, c = calls + 1, calls' = c,
         NEW k, k \in FreeBlocks \union {c},
         NEW l \in {"unused", "live"},
         mem' = [mem EXCEPT ![c] = l], block' = [block EXCEPT ![c] = k],
         \A n \in Calls : n # c => ret'[n] = ret[n],
         UNCHANGED <<misdelivered, bpc, bnode>>
  PROVE  Blocks'
<1>1. /\ calls \in Nat /\ Calls \subseteq Nat
      /\ block \in [Calls -> Calls]
      /\ mem \in [Calls -> {"unused", "live", "freed"}]
      /\ bpc \in Holding => bnode \in Calls /\ bnode <= calls
      /\ \A n \in Calls : n > calls => mem[n] = "unused" /\ ret[n] = "none"
  <2>1. TypeOK /\ HandlerHasNode /\ Bookkeeping
    BY DEF BookInv, TypeInv
  <2>2. calls \in Nat /\ Calls \subseteq Nat
    BY <2>1, SyncCallAssumption DEF TypeOK, Calls
  <2> QED
    BY <2>1, <2>2 DEF TypeOK, HandlerHasNode, Bookkeeping
<1>2. \A n \in Calls : n # c => mem'[n] = mem[n] /\ block'[n] = block[n]
  BY <1>1
<1>3. mem'[c] = l /\ block'[c] = k
  BY <1>1
<1>4. /\ \A n \in Calls : mem[n] # "unused" => n <= calls /\ n < c /\ n # c
      /\ \A n \in Calls : mem[n] = "live" => block[n] # k
  <2>1. \A n \in Calls : mem[n] # "unused" => n <= calls /\ n < c /\ n # c
    BY <1>1
  <2>2. ASSUME NEW n \in Calls, mem[n] = "live" PROVE block[n] # k
    <3>1. CASE k = c
      <4>1. block[n] <= n /\ n < c /\ block[n] \in Nat
        BY <1>1, <2>1, <2>2 DEF Blocks
      <4> QED
        BY <1>1, <3>1, <4>1
    <3>2. CASE k \in FreeBlocks
      BY <2>2, <3>2 DEF FreeBlocks
    <3> QED
      BY <3>1, <3>2
  <2> QED
    BY <2>1, <2>2
<1>5. k <= c
  <2>1. CASE k \in FreeBlocks
    <3>1. PICK m \in Calls : mem[m] = "freed" /\ k = block[m]
      BY <2>1 DEF FreeBlocks
    <3>2. k <= m /\ m < c
      BY <1>4, <3>1 DEF Blocks
    <3> QED
      BY <1>1, <3>1, <3>2
  <2> QED
    BY <1>1, <2>1
<1>6. \A n \in Calls : block'[n] <= n /\ (n > calls' => block'[n] = n)
  BY <1>1, <1>2, <1>3, <1>5 DEF Blocks
<1>7. ASSUME NEW m \in Calls, NEW n \in Calls,
             mem'[n] = "live", mem'[m] # "unused", block'[m] = block'[n], m # n
      PROVE  mem'[m] = "freed" /\ m < n
  <2>1. CASE m # c /\ n # c
    BY <1>2, <1>7, <2>1 DEF Blocks
  <2>2. CASE n = c
    <3>1. mem[m] # "unused" /\ block[m] = k /\ mem'[m] = mem[m]
      BY <1>2, <1>3, <1>7, <2>2
    <3> QED
      BY <1>1, <1>4, <2>2, <3>1
  <2>3. CASE m = c
    <3>1. mem[n] = "live" /\ block[n] = k
      BY <1>2, <1>3, <1>7, <2>3
    <3> QED
      BY <1>4, <3>1
  <2> QED
    BY <2>1, <2>2, <2>3
<1>8. \A n \in Calls : mem'[n] = "freed" => ret'[n] # "none"
  BY <1>2, <1>3 DEF Blocks
<1>9. \A m, n \in Calls : <<m, n>> \in misdelivered' => m < n /\ ret'[m] # "none"
  BY <1>1 DEF Blocks
<1>10. bpc' \in Holding => mem'[bnode'] # "unused"
  BY <1>1, <1>2 DEF Blocks
<1> QED
  BY <1>6, <1>7, <1>8, <1>9, <1>10 DEF Blocks

\* A step that hands out no memory and delivers nothing.
LEMMA BlocksFrame ==
  ASSUME BookInv, Blocks, calls <= calls', calls' \in Nat,
         UNCHANGED <<block, misdelivered>>,
         \A n \in Calls :
           /\ mem'[n] = "live" => mem[n] = "live"
           /\ mem'[n] # mem[n] => mem[n] = "live" /\ mem'[n] = "freed" /\ ret'[n] # "none"
           /\ ret[n] # "none" => ret'[n] # "none",
         bpc' \in Holding => bnode' \in Calls /\ mem[bnode'] # "unused"
  PROVE  Blocks'
<1>1. calls \in Nat /\ Calls \subseteq Nat
  BY SyncCallAssumption DEF BookInv, TypeInv, TypeOK, Calls
<1>2. \A n \in Calls : block'[n] <= n /\ (n > calls' => block'[n] = n)
  BY <1>1 DEF Blocks
<1>3. ASSUME NEW m \in Calls, NEW n \in Calls,
             mem'[n] = "live", mem'[m] # "unused", block'[m] = block'[n], m # n
      PROVE  mem'[m] = "freed" /\ m < n
  <2>1. mem[n] = "live" /\ mem[m] # "unused" /\ block[m] = block[n]
    BY <1>3
  <2>2. mem[m] = "freed" /\ m < n
    BY <1>3, <2>1 DEF Blocks
  <2> QED
    BY <2>2
<1>4. \A n \in Calls : mem'[n] = "freed" => ret'[n] # "none"
  BY DEF Blocks
<1>5. \A m, n \in Calls : <<m, n>> \in misdelivered' => m < n /\ ret'[m] # "none"
  BY DEF Blocks
<1>6. bpc' \in Holding => mem'[bnode'] # "unused"
  OBVIOUS
<1> QED
  BY <1>2, <1>3, <1>4, <1>5, <1>6 DEF Blocks

LEMMA BlocksStep ==
  ASSUME IdsUnique, BookInv, Memory, Blocks, [Next]_vars
  PROVE  Blocks'
<1>a. /\ calls \in Nat /\ Calls \subseteq Nat
      /\ calls < MaxCalls => calls + 1 \in Calls
      /\ block \in [Calls -> Calls]
      /\ ret \in [Calls -> Statuses \union {"none"}]
      /\ mem \in [Calls -> {"unused", "live", "freed"}]
      /\ bpc \in Holding => bnode \in Calls /\ mem[bnode] # "unused"
  BY SyncCallAssumption DEF BookInv, TypeInv, TypeOK, HandlerHasNode, Blocks, Calls
<1>1. ASSUME NEW t \in AllThreads, NEW o \in Invoked, Create(t, o) PROVE Blocks'
  <2>1. PICK k \in FreeBlocks \union {calls'} : block' = [block EXCEPT ![calls'] = k]
    BY <1>1 DEF Create
  <2>2. /\ calls' = calls + 1 /\ calls' \in Calls
        /\ mem' = [mem EXCEPT ![calls'] = "live"]
        /\ UNCHANGED <<ret, misdelivered, bpc, bnode>>
    BY <1>1, <1>a DEF Create, bcastVars
  <2> QED
    BY <2>1, <2>2, BlocksCreate
<1>2. ASSUME NEW t \in AllThreads, NEW o \in Invoked, CreateNoMemory(t, o) PROVE Blocks'
  <2>1. PICK l \in {"unused", "live"} : mem' = [mem EXCEPT ![calls'] = l]
    BY <1>2 DEF CreateNoMemory
  <2>2. /\ calls' = calls + 1 /\ calls' \in Calls
        /\ UNCHANGED <<block, misdelivered, bpc, bnode>>
        /\ \A n \in Calls : n # calls' => ret'[n] = ret[n]
    BY <1>2, <1>a DEF CreateNoMemory, bcastVars
  <2>3. block[calls'] = calls'
    BY <1>a, <2>2 DEF Blocks
  <2>4. block' = [block EXCEPT ![calls'] = calls']
    BY <1>a, <2>2, <2>3
  <2> QED
    BY <2>1, <2>2, <2>4, BlocksCreate
<1>3. ASSUME NEW t \in AllThreads, LogoutOffline(t) PROVE Blocks'
  <2>1. /\ UNCHANGED <<mem, block, misdelivered, bpc, bnode>>
        /\ calls' = calls + 1
        /\ \A n \in Calls : ret[n] # "none" => ret'[n] # "none"
    BY <1>3, <1>a DEF LogoutOffline, heapVars, bcastVars
  <2> QED
    BY <1>a, <2>1, BlocksFrame
<1>4. ASSUME NEW t \in AllThreads, CallStep(t) PROVE Blocks'
  <2>1. calls' = calls /\ UNCHANGED <<block, misdelivered, bpc, bnode>>
    BY <1>4, CallStepShape DEF BookInv, bcastVars
  <2>2. \A n \in Calls :
          /\ mem'[n] = "live" => mem[n] = "live"
          /\ mem'[n] # mem[n] => mem[n] = "live" /\ mem'[n] = "freed" /\ ret'[n] # "none"
          /\ ret[n] # "none" => ret'[n] # "none"
    BY <1>4, <1>a, CallStepMemory
  <2> QED
    BY <1>a, <2>1, <2>2, BlocksFrame
<1>5. ASSUME NEW m \in inbox, NEW i \in 1 .. Len(requestid_list), BcastFinds(m, i) PROVE Blocks'
  <2>1. /\ UNCHANGED <<mem, block, misdelivered, calls, ret>>
        /\ bnode' = requestid_list[i]
    BY <1>5 DEF BcastFinds, callVars, heapVars
  <2>2. requestid_list[i] \in Calls /\ mem[requestid_list[i]] = "live"
    BY DEF BookInv, TypeInv, TypeOK, Memory
  <2> QED
    BY <1>a, <2>1, <2>2, BlocksFrame
<1>6. ASSUME BcastCopies PROVE Blocks'
  <2>1. /\ UNCHANGED <<mem, block, calls, ret, bnode>> /\ bpc = "found"
        /\ misdelivered' = misdelivered \union {<<bnode, n>> : n \in Owners(bnode) \ {bnode}}
    BY <1>6 DEF BcastCopies, callVars
  <2>2. bnode \in Calls /\ mem[bnode] # "unused"
    BY <1>a, <2>1 DEF Holding
  <2>3. \A n \in Owners(bnode) \ {bnode} : bnode < n /\ ret[bnode] # "none"
    BY <2>2 DEF Owners, Blocks
  <2>4. \A m, n \in Calls : <<m, n>> \in misdelivered' => m < n /\ ret'[m] # "none"
    BY <2>1, <2>3 DEF Blocks
  <2> QED
    BY <2>1, <2>2, <2>4 DEF Blocks
<1>7. ASSUME \/ \E m \in inbox : BcastDrops(m)
             \/ BcastCopied \/ BcastTerminates \/ BcastNotifies \/ BcastCallbackReturns
             \/ EdgeStep \/ UNCHANGED vars
      PROVE  Blocks'
  <2>1. UNCHANGED <<mem, block, misdelivered, calls, ret>>
    BY <1>7 DEF BcastDrops, BcastCopied, BcastTerminates, BcastNotifies, BcastCallbackReturns,
                EdgeStep, EdgeAnswers, StrayReply, vars, callVars, heapVars
  <2>2. bpc' \in Holding => bpc \in Holding /\ bnode' = bnode
    BY <1>7 DEF BcastDrops, BcastCopied, BcastTerminates, BcastNotifies, BcastCallbackReturns,
                EdgeStep, EdgeAnswers, StrayReply, vars, bcastVars, Holding
  <2> QED
    BY <1>a, <2>1, <2>2, BlocksFrame
<1> QED
  BY <1>1, <1>2, <1>3, <1>4, <1>5, <1>6, <1>7 DEF Next, BcastStep

-----------------------------------------------------------------------------
(* Replies, when ids are unique.                                           *)

\* The decisions each call may be told.
Credits == {c \in Calls \X Verdicts : Told(c[1], c[2])}

\* What is told of call n is one of those decisions.
Explains(s, n, credits) ==
  /\ s \in {"OK", "DATA"} => <<n, "accept">> \in credits
  /\ s = "PROTOCOL_ERROR" => <<n, "refuse">> \in credits

LEMMA ExplainsMore ==
  ASSUME NEW s, NEW n, NEW C, NEW D, C \subseteq D, Explains(s, n, C)
  PROVE  Explains(s, n, D)
  BY DEF Explains

LEMMA FailuresExplained ==
  ASSUME NEW s, s \in Failures \union {"none", "NULL", "NO_MEMORY"}, NEW n, NEW C
  PROVE  Explains(s, n, C)
  BY DEF Explains, Failures

\* Every trace of a reply tells what the edge decided on the call it is in, or
\* on the call whose reply was written there.
RepliesTrue ==
  /\ \A m \in inbox :
       \/ m.from = NoCall /\ m.id \in StrayIds
       \/ m.from \in Calls /\ m.id = RequestId[m.from] /\ verdict[m.from] = m.rc
  /\ bpc \in Holding => verdict[bnode] = brc

CopyKnown ==
  bpc = "copying" =>
    \A n \in Owners(bnode) :
      payload[n] = "torn" => n = bnode \/ <<bnode, n>> \in misdelivered

BuffersTrue == \A n \in Calls : payload[n] \in Verdicts => <<n, payload[n]>> \in Credits

StatusTrue ==
  \A t \in AllThreads : pc[t] = "removing" => Explains(status[t], call[t], Credits)

ReturnsTrue ==
  \A n \in Calls : Explains(ret[n], n, Credits) \/ (ret[n] = "OK" /\ Needless(n))

Authentic == RepliesTrue /\ CopyKnown /\ BuffersTrue /\ StatusTrue /\ ReturnsTrue

LEMMA AuthenticInit == Init => Authentic
<1> SUFFICES ASSUME Init PROVE Authentic
  OBVIOUS
<1>1. RepliesTrue /\ CopyKnown /\ BuffersTrue
  BY DEF Init, RepliesTrue, CopyKnown, BuffersTrue, Verdicts, Holding
<1>2. StatusTrue
  BY DEF Init, StatusTrue, AllThreads
<1>3. ReturnsTrue
  BY FailuresExplained DEF Init, ReturnsTrue
<1> QED
  BY <1>1, <1>2, <1>3 DEF Authentic

LEMMA AuthenticImplies == Authentic => OkMeansAccepted
<1> SUFFICES ASSUME Authentic, NEW n \in Calls
             PROVE  /\ ret[n] \in {"OK", "DATA"} => Told(n, "accept") \/ Needless(n)
                    /\ ret[n] = "PROTOCOL_ERROR" => Told(n, "refuse")
  BY DEF OkMeansAccepted
<1>1. Explains(ret[n], n, Credits) \/ (ret[n] = "OK" /\ Needless(n))
  BY DEF Authentic, ReturnsTrue
<1>2. \A v : <<n, v>> \in Credits => Told(n, v)
  BY DEF Credits
<1> QED
  BY <1>1, <1>2 DEF Explains

\* Decisions, returns and deliveries are never undone.
LEMMA CreditsGrow ==
  ASSUME misdelivered \subseteq misdelivered',
         \A n \in Calls : verdict[n] # "none" => verdict'[n] = verdict[n],
         \A n \in Calls : ret[n] # "none" => ret'[n] # "none"
  PROVE  Credits \subseteq Credits'
<1>1. SUFFICES ASSUME NEW n \in Calls, NEW v \in Verdicts, Told(n, v)
               PROVE  Told(n, v)'
  BY DEF Credits
<1>2. v # "none"
  BY DEF Verdicts
<1>3. \A m \in Calls : verdict[m] = v => verdict'[m] = v
  BY <1>2
<1> QED
  BY <1>1, <1>3 DEF Told

\* A step that adds no trace of a reply and leaves the decisions alone.
LEMMA AuthenticFrame ==
  ASSUME Authentic, Credits \subseteq Credits', verdict' = verdict,
         inbox' \subseteq inbox, misdelivered \subseteq misdelivered',
         bpc' \in Holding => bpc \in Holding /\ bnode' = bnode /\ brc' = brc,
         bpc' = "copying" =>
           /\ bpc = "copying" /\ bnode' = bnode
           /\ \A n \in Owners(bnode)' :
                payload'[n] = "torn" => n \in Owners(bnode) /\ payload[n] = "torn",
         \A n \in Calls : payload'[n] \in Verdicts => payload'[n] = payload[n],
         \A u \in AllThreads : pc'[u] = "removing" =>
           Explains(status'[u], call'[u], Credits'),
         \A n \in Calls :
           \/ ret'[n] = ret[n] /\ (ret[n] = "OK" /\ Needless(n) => Needless(n)')
           \/ Explains(ret'[n], n, Credits')
           \/ ret'[n] = "OK" /\ Needless(n)'
  PROVE  Authentic'
<1>1. RepliesTrue'
  BY DEF Authentic, RepliesTrue
<1>2. CopyKnown'
  <2>1. SUFFICES ASSUME bpc' = "copying", NEW n \in Owners(bnode)', payload'[n] = "torn"
                 PROVE  n = bnode' \/ <<bnode', n>> \in misdelivered'
    BY DEF CopyKnown
  <2>2. bpc = "copying" /\ bnode' = bnode /\ n \in Owners(bnode) /\ payload[n] = "torn"
    BY <2>1
  <2> QED
    BY <2>2 DEF Authentic, CopyKnown
<1>3. BuffersTrue'
  BY DEF Authentic, BuffersTrue
<1>4. StatusTrue'
  BY DEF StatusTrue
<1>5. ReturnsTrue'
  <2>1. SUFFICES ASSUME NEW n \in Calls
                 PROVE  Explains(ret'[n], n, Credits') \/ (ret'[n] = "OK" /\ Needless(n)')
    BY DEF ReturnsTrue
  <2>2. Explains(ret[n], n, Credits) \/ (ret[n] = "OK" /\ Needless(n))
    BY DEF Authentic, ReturnsTrue
  <2> QED
    BY <2>2, ExplainsMore
<1> QED
  BY <1>1, <1>2, <1>3, <1>4, <1>5 DEF Authentic

LEMMA AuthenticCallStep ==
  ASSUME IdsUnique, BookInv, Memory, Authentic, NEW t \in AllThreads, CallStep(t)
  PROVE  Authentic'
<1>1. /\ UNCHANGED <<verdict, inbox, bpc, bnode, brc, block, payload, misdelivered, op>>
      /\ call[t] \in Calls
      /\ pc \in [AllThreads -> {"idle"} \union InCall]
      /\ call \in [AllThreads -> 0 .. MaxCalls]
      /\ status \in [AllThreads -> Statuses \union {"none"}]
      /\ ret \in [Calls -> Statuses \union {"none"}]
      /\ mem \in [Calls -> {"unused", "live", "freed"}]
  BY CallStepShape DEF BookInv, TypeInv, TypeOK, BusyHasCall, bcastVars
<1>2. /\ \A n \in Calls : mem'[n] = "live" => mem[n] = "live"
      /\ \A n \in Calls : mem[n] = "unused" => mem'[n] = "unused"
      /\ \A n \in Calls : ret[n] # "none" => ret'[n] # "none"
  BY <1>1, CallStepMemory
<1>3. Credits \subseteq Credits'
  BY <1>1, <1>2, CreditsGrow
<1>4. \A n \in Owners(bnode)' : n \in Owners(bnode)
  BY <1>1, <1>2 DEF Owners
<1>5. \A n \in Calls : Needless(n) => Needless(n)'
  BY <1>1, <1>2 DEF Needless
<1>6. \A u \in AllThreads : pc[u] = "removing" => Explains(status[u], call[u], Credits')
  BY <1>3, ExplainsMore DEF Authentic, StatusTrue
<1>b. \A o, v : v \in Verdicts /\ <<call[t], v>> \in Credits' =>
                  Explains(StatusOf(o, v), call[t], Credits')
  BY DEF StatusOf, Explains, Verdicts
<1>7. ASSUME \A u \in AllThreads : pc'[u] = "removing" => Explains(status'[u], call'[u], Credits'),
             \A n \in Calls : ret'[n] = ret[n] \/ Explains(ret'[n], n, Credits')
      PROVE  Authentic'
  BY <1>1, <1>3, <1>4, <1>5, <1>7, AuthenticFrame
<1>8. ASSUME NEW r, ReturnWith(t, r), Explains(r, call[t], Credits') PROVE Authentic'
  <2>1. \A u \in AllThreads : pc'[u] = "removing" => Explains(status'[u], call'[u], Credits')
    <3>1. ASSUME NEW u \in AllThreads, pc'[u] = "removing"
          PROVE  pc[u] = "removing" /\ status'[u] = status[u] /\ call'[u] = call[u]
      BY <1>1, <1>8, <3>1 DEF ReturnWith, Goto
    <3> QED
      BY <1>6, <3>1
  <2>2. \A n \in Calls : ret'[n] = ret[n] \/ Explains(ret'[n], n, Credits')
    <3>1. \A n \in Calls : ret'[n] = ret[n] \/ (n = call[t] /\ ret'[n] = r)
      BY <1>1, <1>8 DEF ReturnWith
    <3> QED
      BY <1>8, <3>1
  <2> QED
    BY <1>7, <2>1, <2>2
<1>9. ASSUME NEW r, ToEnd(t, r), Explains(r, call[t], Credits') PROVE Authentic'
  <2>1. \A u \in AllThreads : pc'[u] = "removing" => Explains(status'[u], call'[u], Credits')
    <3>1. ASSUME NEW u \in AllThreads, pc'[u] = "removing"
          PROVE  \/ pc[u] = "removing" /\ status'[u] = status[u] /\ call'[u] = call[u]
                 \/ u = t /\ status'[u] = r /\ call'[u] = call[t]
      BY <1>1, <1>9, <3>1 DEF ToEnd, Goto
    <3> QED
      BY <1>6, <1>9, <3>1
  <2>2. ret' = ret
    BY <1>9 DEF ToEnd
  <2> QED
    BY <1>7, <2>1, <2>2
<1>10. CASE Stays(t)
  <2>1. /\ call' = call /\ status' = status /\ ret' = ret
        /\ \A u \in AllThreads : pc'[u] = "removing" => pc[u] = "removing"
    BY <1>1, <1>10 DEF Stays
  <2>2. \A u \in AllThreads : pc'[u] = "removing" => Explains(status'[u], call'[u], Credits')
    BY <1>6, <2>1
  <2> QED
    BY <1>7, <2>1, <2>2
<1>11. CASE \E r \in Failures : ReturnWith(t, r) \/ ToEnd(t, r)
  BY <1>8, <1>9, <1>11, FailuresExplained
<1>12. CASE /\ payload[call[t]] \in Verdicts
            /\ ToEnd(t, StatusOf(op[call[t]], payload[call[t]]))
  <2>1. <<call[t], payload[call[t]]>> \in Credits'
    BY <1>1, <1>3, <1>12 DEF Authentic, BuffersTrue
  <2> QED
    BY <1>b, <1>9, <1>12, <2>1
<1>13. CASE pc[t] = "removing" /\ ReturnWith(t, status[t])
  BY <1>6, <1>8, <1>13
<1> QED
  BY <1>10, <1>11, <1>12, <1>13, CallStepShape DEF BookInv

\* A reply that is found belongs to the call whose entry is found.
LEMMA AuthenticFinds ==
  ASSUME IdsUnique, BookInv, Authentic,
         NEW m \in inbox, NEW i \in 1 .. Len(requestid_list), BcastFinds(m, i)
  PROVE  Authentic'
<1>1. /\ requestid_list[i] \in Calls /\ RequestId[requestid_list[i]] = m.id
      /\ bnode' = requestid_list[i] /\ brc' = m.rc /\ bpc' = "found"
      /\ inbox' \subseteq inbox
      /\ UNCHANGED <<verdict, payload, mem, op, misdelivered, pc, call, status, ret>>
  BY DEF BookInv, TypeInv, TypeOK, BcastFinds, Finds, Matches, callVars, heapVars
<1>2. m.from = requestid_list[i] /\ verdict[m.from] = m.rc
  BY <1>1 DEF Authentic, RepliesTrue, IdsUnique
<1>3. Credits' = Credits
  BY <1>1 DEF Credits, Told
<1>4. RepliesTrue'
  BY <1>1, <1>2 DEF Authentic, RepliesTrue
<1>5. CopyKnown'
  BY <1>1 DEF CopyKnown
<1>6. BuffersTrue' /\ StatusTrue'
  BY <1>1, <1>3 DEF Authentic, BuffersTrue, StatusTrue
<1>7. ReturnsTrue'
  BY <1>1, <1>3 DEF Authentic, ReturnsTrue, Needless
<1> QED
  BY <1>4, <1>5, <1>6, <1>7 DEF Authentic

\* A new call has no reply yet.
LEMMA AuthenticNew ==
  ASSUME BookInv, Authentic, NEW c \in Calls, c = calls + 1,
         UNCHANGED <<verdict, inbox, bpc, bnode, brc, payload, misdelivered>>,
         \A n \in Calls : n # c =>
           op'[n] = op[n] /\ mem'[n] = mem[n] /\ block'[n] = block[n] /\ ret'[n] = ret[n],
         \A u \in AllThreads : pc'[u] = "removing" =>
           pc[u] = "removing" /\ call'[u] = call[u] /\ status'[u] = status[u],
         \/ ret'[c] \in {"none", "NULL", "NO_MEMORY"}
         \/ ret'[c] = "OK" /\ Needless(c)'
  PROVE  Authentic'
<1>1. /\ calls \in Nat /\ Calls \subseteq Nat
      /\ ret[c] = "none" /\ payload[c] = "empty"
      /\ bpc \in Holding => bnode \in Calls /\ bnode <= calls
  <2>1. TypeOK /\ HandlerHasNode /\ Bookkeeping
    BY DEF BookInv, TypeInv
  <2>2. calls \in Nat /\ Calls \subseteq Nat
    BY <2>1, SyncCallAssumption DEF TypeOK, Calls
  <2> QED
    BY <2>1, <2>2 DEF HandlerHasNode, Bookkeeping
<1>2. Credits \subseteq Credits'
  BY <1>1, CreditsGrow
<1>3. bpc' = "copying" =>
        \A n \in Owners(bnode)' : payload'[n] = "torn" => n \in Owners(bnode) /\ payload[n] = "torn"
  <2>1. SUFFICES ASSUME bpc = "copying", NEW n \in Owners(bnode)', payload'[n] = "torn"
                 PROVE  n \in Owners(bnode) /\ payload[n] = "torn"
    OBVIOUS
  <2>2. n \in Calls /\ n # c
    BY <1>1, <2>1 DEF Owners
  <2>3. bnode \in Calls /\ bnode # c
    BY <1>1, <2>1 DEF Holding
  <2> QED
    BY <2>1, <2>2, <2>3 DEF Owners
<1>4. \A u \in AllThreads : pc'[u] = "removing" => Explains(status'[u], call'[u], Credits')
  BY <1>2, ExplainsMore DEF Authentic, StatusTrue
<1>5. \A n \in Calls :
        \/ ret'[n] = ret[n] /\ (ret[n] = "OK" /\ Needless(n) => Needless(n)')
        \/ Explains(ret'[n], n, Credits')
        \/ ret'[n] = "OK" /\ Needless(n)'
  <2>1. ASSUME NEW n \in Calls, n # c
        PROVE  ret'[n] = ret[n] /\ (Needless(n) => Needless(n)')
    BY <2>1 DEF Needless
  <2>2. ret'[c] \in {"none", "NULL", "NO_MEMORY"}
          => Explains(ret'[c], c, Credits')
    BY FailuresExplained
  <2> QED
    BY <2>1, <2>2
<1>6. /\ \A n \in Calls : payload'[n] \in Verdicts => payload'[n] = payload[n]
      /\ bpc' \in Holding => bpc \in Holding /\ bnode' = bnode /\ brc' = brc
      /\ bpc' = "copying" => bpc = "copying" /\ bnode' = bnode
      /\ inbox' \subseteq inbox /\ misdelivered \subseteq misdelivered'
  OBVIOUS
<1> QED
  BY <1>2, <1>3, <1>4, <1>5, <1>6, AuthenticFrame

\* The copy puts the reply at hand where it may be told.
LEMMA AuthenticCopies ==
  ASSUME BookInv, Authentic, BcastCopies
  PROVE  Authentic'
<1>1. /\ UNCHANGED <<verdict, inbox, bnode, brc, mem, block, op, pc, call, status, ret>>
      /\ bpc = "found" /\ bpc' = "copying"
      /\ payload' = [n \in Calls |-> IF n \in Owners(bnode) THEN "torn" ELSE payload[n]]
      /\ misdelivered' = misdelivered \union {<<bnode, n>> : n \in Owners(bnode) \ {bnode}}
  BY DEF BcastCopies, callVars, edgeVars
<1>2. Credits \subseteq Credits'
  <2>1. misdelivered \subseteq misdelivered'
    BY <1>1
  <2> QED
    BY <1>1, <2>1, CreditsGrow
<1>3. RepliesTrue'
  BY <1>1 DEF Authentic, RepliesTrue, Holding
<1>4. CopyKnown'
  <2>1. Owners(bnode)' = Owners(bnode)
    BY <1>1 DEF Owners
  <2> QED
    BY <1>1, <2>1 DEF CopyKnown
<1>5. BuffersTrue'
  <2>1. \A n \in Calls : payload'[n] \in Verdicts => payload'[n] = payload[n]
    BY <1>1 DEF Verdicts
  <2> QED
    BY <1>2, <2>1 DEF Authentic, BuffersTrue
<1>6. StatusTrue'
  BY <1>1, <1>2, ExplainsMore DEF Authentic, StatusTrue
<1>7. ReturnsTrue'
  BY <1>1, <1>2, ExplainsMore DEF Authentic, ReturnsTrue, Needless
<1> QED
  BY <1>3, <1>4, <1>5, <1>6, <1>7 DEF Authentic

LEMMA AuthenticCopied ==
  ASSUME BookInv, Blocks, Authentic, BcastCopied
  PROVE  Authentic'
<1>1. /\ UNCHANGED <<verdict, inbox, bnode, brc, mem, op, pc, call, status, ret, misdelivered>>
      /\ bpc = "copying" /\ bpc' = "copied"
      /\ payload' = [n \in Calls |->
                      IF n \in Owners(bnode) /\ payload[n] = "torn" THEN brc ELSE payload[n]]
  BY DEF BcastCopied, callVars, edgeVars
<1>2. Credits' = Credits
  BY <1>1 DEF Credits, Told
<1>3. RepliesTrue'
  BY <1>1 DEF Authentic, RepliesTrue, Holding
<1>4. CopyKnown'
  BY <1>1 DEF CopyKnown
<1>5. BuffersTrue'
  <2>1. bnode \in Calls /\ brc \in Verdicts /\ verdict[bnode] = brc
    BY <1>1 DEF Holding, BookInv, TypeInv, HandlerHasNode, Authentic, RepliesTrue
  <2>2. ASSUME NEW n \in Owners(bnode), payload[n] = "torn"
        PROVE  <<n, brc>> \in Credits
    <3>1. n \in Calls
      BY DEF Owners
    <3>2. n = bnode \/ <<bnode, n>> \in misdelivered
      BY <1>1, <2>2 DEF Authentic, CopyKnown
    <3>3. <<bnode, n>> \in misdelivered => bnode < n /\ ret[bnode] # "none"
      BY <2>1, <3>1 DEF Blocks
    <3>4. Told(n, brc)
      BY <2>1, <3>2, <3>3 DEF Told
    <3> QED
      BY <2>1, <3>1, <3>4 DEF Credits
  <2>3. SUFFICES ASSUME NEW n \in Calls, payload'[n] \in Verdicts
                 PROVE  <<n, payload'[n]>> \in Credits
    BY <1>2 DEF BuffersTrue
  <2>4. CASE n \in Owners(bnode) /\ payload[n] = "torn"
    BY <1>1, <2>2, <2>4
  <2>5. CASE ~ (n \in Owners(bnode) /\ payload[n] = "torn")
    BY <1>1, <2>3, <2>5 DEF Authentic, BuffersTrue
  <2> QED
    BY <2>4, <2>5
<1>6. StatusTrue'
  BY <1>1, <1>2 DEF Authentic, StatusTrue
<1>7. ReturnsTrue'
  BY <1>1, <1>2 DEF Authentic, ReturnsTrue, Needless
<1> QED
  BY <1>3, <1>4, <1>5, <1>6, <1>7 DEF Authentic

LEMMA AuthenticStep ==
  ASSUME IdsUnique, BookInv, Memory, Blocks, Authentic, [Next]_vars
  PROVE  Authentic'
<1>a. /\ pc \in [AllThreads -> {"idle"} \union InCall]
      /\ payload \in [Calls -> {"empty", "torn"} \union Verdicts]
      /\ verdict \in [Calls -> Verdicts \union {"none"}]
      /\ ret \in [Calls -> Statuses \union {"none"}]
      /\ \A u \in AllThreads : pc[u] # "idle" => call[u] \in Calls
      /\ bpc \in Holding => bnode \in Calls /\ brc \in Verdicts
      /\ calls < MaxCalls => calls + 1 \in Calls
  <2>1. TypeOK /\ BusyHasCall /\ HandlerHasNode
    BY DEF BookInv, TypeInv
  <2>2. calls < MaxCalls => calls + 1 \in Calls
    BY <2>1, SyncCallAssumption DEF TypeOK, Calls
  <2> QED
    BY <2>1, <2>2 DEF TypeOK, BusyHasCall, HandlerHasNode
<1>c. op \in [Calls -> Ops \union {"none"}] /\ mem \in [Calls -> {"unused", "live", "freed"}]
  BY DEF BookInv, TypeInv, TypeOK
<1>d. call \in [AllThreads -> 0 .. MaxCalls]
  BY DEF BookInv, TypeInv, TypeOK
<1>n. calls + 1 \in Calls => ret[calls + 1] = "none" /\ mem[calls + 1] = "unused"
  <2>1. calls \in Nat
    BY SyncCallAssumption DEF BookInv, TypeInv, TypeOK
  <2> QED
    BY <2>1 DEF BookInv, Bookkeeping
<1>1. ASSUME NEW t \in AllThreads, NEW o \in Invoked, Create(t, o) PROVE Authentic'
  <2>1. /\ calls + 1 \in Calls
        /\ UNCHANGED <<verdict, inbox, bpc, bnode, brc, payload, misdelivered, ret>>
    BY <1>1, <1>a DEF Create, edgeVars, bcastVars
  <2>2. \A n \in Calls : n # calls + 1 =>
          op'[n] = op[n] /\ mem'[n] = mem[n] /\ block'[n] = block[n]
    <3>1. PICK k : block' = [block EXCEPT ![calls'] = k]
      BY <1>1 DEF Create
    <3> QED
      BY <1>1, <1>c, <3>1 DEF Create, BookInv, TypeInv, TypeOK
  <2>3. \A u \in AllThreads : pc'[u] = "removing" =>
          pc[u] = "removing" /\ call'[u] = call[u] /\ status'[u] = status[u]
    BY <1>1, <1>a, <1>d DEF Create, Goto
  <2> QED
    BY <1>n, <2>1, <2>2, <2>3, AuthenticNew
<1>2. ASSUME NEW t \in AllThreads, NEW o \in Invoked, CreateNoMemory(t, o) PROVE Authentic'
  <2>1. /\ calls + 1 \in Calls
        /\ UNCHANGED <<verdict, inbox, bpc, bnode, brc, payload, misdelivered, pc, call, status, block>>
    BY <1>2, <1>a DEF CreateNoMemory, edgeVars, bcastVars
  <2>2. \A n \in Calls : n # calls + 1 =>
          op'[n] = op[n] /\ mem'[n] = mem[n] /\ ret'[n] = ret[n]
    BY <1>2, <1>a, <1>c DEF CreateNoMemory
  <2>3. ret'[calls + 1] \in {"NULL", "NO_MEMORY"}
    BY <1>2, <1>a, <2>1 DEF CreateNoMemory
  <2> QED
    BY <2>1, <2>2, <2>3, AuthenticNew
<1>12. ASSUME NEW t \in AllThreads, LogoutOffline(t) PROVE Authentic'
  <2>1. /\ calls + 1 \in Calls
        /\ UNCHANGED <<verdict, inbox, bpc, bnode, brc, payload, misdelivered, pc, call, status,
                       block, mem>>
    BY <1>12, <1>a DEF LogoutOffline, edgeVars, bcastVars, heapVars
  <2>2. \A n \in Calls : n # calls + 1 => op'[n] = op[n] /\ ret'[n] = ret[n]
    BY <1>12, <1>a, <1>c DEF LogoutOffline
  <2>3. ret'[calls + 1] = "OK" /\ op'[calls + 1] = "logout" /\ mem'[calls + 1] = "unused"
    BY <1>12, <1>a, <1>c, <1>n, <2>1 DEF LogoutOffline
  <2>4. ASSUME NEW c \in Calls, c = calls + 1 PROVE Authentic'
    <3>1. Needless(c)' /\ ret'[c] = "OK"
      BY <2>3, <2>4 DEF Needless
    <3> QED
      BY <2>1, <2>2, <2>4, <3>1, AuthenticNew
  <2> QED
    BY <2>1, <2>4
<1>3. ASSUME NEW t \in AllThreads, CallStep(t) PROVE Authentic'
  BY <1>3, AuthenticCallStep
<1>5. ASSUME NEW m \in inbox, NEW i \in 1 .. Len(requestid_list), BcastFinds(m, i)
      PROVE  Authentic'
  BY <1>5, AuthenticFinds
<1>6. ASSUME BcastCopies PROVE Authentic'
  BY <1>6, AuthenticCopies
<1>7. ASSUME BcastCopied PROVE Authentic'
  BY <1>7, AuthenticCopied
<1>8. ASSUME \/ \E m \in inbox : BcastDrops(m)
             \/ BcastTerminates \/ BcastNotifies \/ BcastCallbackReturns \/ UNCHANGED vars
      PROVE  Authentic'
  <2>1. /\ UNCHANGED <<verdict, payload, pc, call, status, ret, op, mem, block, misdelivered>>
        /\ inbox' \subseteq inbox
    BY <1>8 DEF BcastDrops, BcastTerminates, BcastNotifies, BcastCallbackReturns, callVars,
                edgeVars, heapVars, vars
  <2>2. bpc' \in Holding => bpc \in Holding /\ UNCHANGED <<bpc, bnode, brc>>
    BY <1>8 DEF BcastDrops, BcastTerminates, BcastNotifies, BcastCallbackReturns, bcastVars,
                vars, Holding
  <2>3. Credits' = Credits /\ \A n \in Calls : Needless(n)' <=> Needless(n)
    BY <2>1 DEF Credits, Told, Needless
  <2>4. RepliesTrue' /\ BuffersTrue' /\ StatusTrue' /\ ReturnsTrue'
    BY <2>1, <2>2, <2>3 DEF Authentic, RepliesTrue, BuffersTrue, StatusTrue, ReturnsTrue
  <2>5. CopyKnown'
    BY <2>1, <2>2 DEF Authentic, CopyKnown, Holding, Owners
  <2> QED
    BY <2>4, <2>5 DEF Authentic
<1>9. ASSUME NEW n \in Calls, NEW v \in Verdicts, EdgeAnswers(n, v) PROVE Authentic'
  <2>1. /\ UNCHANGED <<bpc, bnode, brc, payload, pc, call, status, ret, op, mem, block, misdelivered>>
        /\ verdict[n] = "none" /\ verdict'[n] = v
        /\ \A k \in Calls : k # n => verdict'[k] = verdict[k]
        /\ inbox' = inbox \union {[id |-> RequestId[n], from |-> n, rc |-> v]}
    BY <1>9, <1>a DEF EdgeAnswers, callVars, bcastVars, heapVars
  <2>2. \A k \in Calls : verdict[k] # "none" => verdict'[k] = verdict[k]
    BY <2>1
  <2>3. Credits \subseteq Credits'
    BY <2>1, <2>2, CreditsGrow
  <2>4. "none" \notin Verdicts
    BY DEF Verdicts
  <2>5. \A m \in inbox :
          m.rc \in Verdicts /\ (m.from \in Calls /\ verdict[m.from] = m.rc => verdict'[m.from] = m.rc)
    BY <2>2, <2>4 DEF BookInv, TypeInv, TypeOK
  <2>6. \A m \in inbox' :
          \/ m.from = NoCall /\ m.id \in StrayIds
          \/ m.from \in Calls /\ m.id = RequestId[m.from] /\ verdict'[m.from] = m.rc
    BY <2>1, <2>5 DEF Authentic, RepliesTrue
  <2>7. bpc' \in Holding => verdict'[bnode'] = brc'
    BY <1>a, <2>1, <2>2, <2>4 DEF Authentic, RepliesTrue
  <2>8. CopyKnown' /\ BuffersTrue'
    BY <2>1, <2>3 DEF Authentic, CopyKnown, BuffersTrue, Owners
  <2>9. StatusTrue'
    BY <2>1, <2>3, ExplainsMore DEF Authentic, StatusTrue
  <2>10. ReturnsTrue'
    BY <2>1, <2>3, ExplainsMore DEF Authentic, ReturnsTrue, Needless
  <2> QED
    BY <2>6, <2>7, <2>8, <2>9, <2>10 DEF Authentic, RepliesTrue
<1>10. ASSUME NEW id \in StrayIds, NEW v \in Verdicts, StrayReply(id, v) PROVE Authentic'
  <2>1. /\ UNCHANGED <<bpc, bnode, brc, payload, pc, call, status, ret, op, mem, block, misdelivered, verdict>>
        /\ inbox' = inbox \union {[id |-> id, from |-> NoCall, rc |-> v]}
    BY <1>10 DEF StrayReply, callVars, bcastVars, heapVars
  <2>2. Credits' = Credits /\ \A n \in Calls : Needless(n)' <=> Needless(n)
    BY <2>1 DEF Credits, Told, Needless
  <2>3. RepliesTrue'
    BY <2>1 DEF Authentic, RepliesTrue
  <2>4. CopyKnown' /\ BuffersTrue' /\ StatusTrue' /\ ReturnsTrue'
    BY <2>1, <2>2 DEF Authentic, CopyKnown, BuffersTrue, StatusTrue, ReturnsTrue, Owners
  <2> QED
    BY <2>3, <2>4 DEF Authentic
<1> QED
  BY <1>1, <1>2, <1>3, <1>5, <1>6, <1>7, <1>8, <1>9, <1>10, <1>12
  DEF Next, BcastStep, EdgeStep

-----------------------------------------------------------------------------
(* Calls made from a broadcast callback.                                   *)

\* A call made by the broadcast thread runs inside a callback, and nothing is
\* delivered to it.
InCallback ==
  pc[Bcast] # "idle" =>
    bpc = "callback" /\ payload[call[Bcast]] = "empty" /\ pc[Bcast] # "answered"

LEMMA InCallbackInit == Init => InCallback
  BY DEF Init, InCallback, AllThreads

LEMMA InCallbackStep ==
  ASSUME BookInv, InCallback, [Next]_vars
  PROVE  InCallback'
<1>a. /\ Bcast \in AllThreads
      /\ pc \in [AllThreads -> {"idle"} \union InCall]
      /\ call \in [AllThreads -> 0 .. MaxCalls]
      /\ calls < MaxCalls => calls + 1 \in Calls /\ calls + 1 > calls
  BY SyncCallAssumption DEF BookInv, TypeInv, TypeOK, Calls, AllThreads
<1>b. "empty" \notin Verdicts /\ "callback" \notin Holding
  BY DEF Verdicts, Holding
<1>1. ASSUME NEW t \in AllThreads, NEW o \in Invoked, Create(t, o) PROVE InCallback'
  <2>1. /\ UNCHANGED <<bpc, payload>>
        /\ t # Bcast => pc'[Bcast] = pc[Bcast] /\ call'[Bcast] = call[Bcast]
        /\ t = Bcast => pc'[Bcast] = "created" /\ call'[Bcast] = calls + 1 /\ bpc = "callback"
        /\ calls < MaxCalls
    BY <1>1, <1>a DEF Create, Goto, bcastVars
  <2>2. payload[calls + 1] = "empty"
    BY <1>a, <2>1 DEF BookInv, Bookkeeping
  <2> QED
    BY <2>1, <2>2 DEF InCallback
<1>2. ASSUME NEW t \in AllThreads, NEW o \in Invoked, CreateNoMemory(t, o) PROVE InCallback'
  BY <1>2 DEF CreateNoMemory, bcastVars, InCallback
<1>6. ASSUME NEW t \in AllThreads, LogoutOffline(t) PROVE InCallback'
  BY <1>6 DEF LogoutOffline, bcastVars, heapVars, InCallback
<1>3. ASSUME NEW t \in AllThreads, CallStep(t) PROVE InCallback'
  <2>1. UNCHANGED <<bpc, payload>> /\ pc[t] # "idle"
    BY <1>3, CallStepShape DEF BookInv, bcastVars
  <2>2. t # Bcast => pc'[Bcast] = pc[Bcast] /\ call'[Bcast] = call[Bcast]
    BY <1>3, <1>a, CallStepShape DEF BookInv, Stays, ReturnWith, ToEnd, Goto
  <2>3. t = Bcast /\ pc'[Bcast] # "idle" => call'[Bcast] = call[Bcast]
    BY <1>3, <1>a, CallStepShape DEF BookInv, Stays, ReturnWith, ToEnd, Goto
  <2>4. t = Bcast => pc'[Bcast] # "answered"
    <3>1. SUFFICES ASSUME t = Bcast, pc'[t] = "answered" PROVE FALSE
      OBVIOUS
    <3>2. SeesPayload(t)
      <4>1. ~ (\E r : ReturnWith(t, r) \/ ToEnd(t, r))
        BY <1>a, <3>1 DEF ReturnWith, ToEnd, Goto
      <4> QED
        BY <1>3, <1>a, <2>1, <3>1, <4>1
        DEF CallStep, Register, Publish, PublishFails, FormatNoMemory, UpdateConnList, Poll,
            TimesOut, ParseReply, Unregister, Fail, FailNoMemory, Goto, InCallback
    <3>3. payload[call[Bcast]] # "empty"
      BY <3>1, <3>2 DEF SeesPayload
    <3> QED
      BY <2>1, <3>1, <3>3 DEF InCallback
  <2> QED
    BY <2>1, <2>2, <2>3, <2>4 DEF InCallback
<1>4. ASSUME BcastStep PROVE InCallback'
  <2>1. UNCHANGED <<pc, call>>
    BY <1>4 DEF BcastStep, BcastDrops, BcastFinds, BcastCopies, BcastCopied, BcastTerminates,
                BcastNotifies, BcastCallbackReturns, callVars
  <2>2. CASE pc[Bcast] = "idle"
    BY <2>1, <2>2 DEF InCallback
  <2>3. CASE pc[Bcast] # "idle"
    <3>1. bpc = "callback"
      BY <2>3 DEF InCallback
    <3>2. UNCHANGED <<bpc, payload>>
      BY <1>4, <2>3, <3>1
      DEF BcastStep, BcastDrops, BcastFinds, BcastCopies, BcastCopied, BcastTerminates,
          BcastNotifies, BcastCallbackReturns, bcastVars, heapVars
    <3> QED
      BY <2>1, <3>2 DEF InCallback
  <2> QED
    BY <2>2, <2>3
<1>5. ASSUME EdgeStep \/ UNCHANGED vars PROVE InCallback'
  BY <1>5 DEF EdgeStep, EdgeAnswers, StrayReply, vars, callVars, bcastVars, heapVars, InCallback
<1> QED
  BY <1>1, <1>2, <1>3, <1>4, <1>5, <1>6 DEF Next

-----------------------------------------------------------------------------
(* Entries left in the list.                                               *)

Excused(n) == InProgress(n) \/ MallocFails \/ (op[n] = "get" /\ ret[n] = "NULL")

\* A returning step of a call either takes the call's entry out of the list,
\* or is a failed edge_get_topo, or ran out of memory.
LEMMA ReturnIsExcused ==
  ASSUME IdsUnique, BookInv, Memory, ~ MallocFails,
         NEW t \in AllThreads, CallStep(t), pc'[t] = "idle",
         NEW i \in 1 .. Len(requestid_list'), requestid_list'[i] = call[t]
  PROVE  op'[call[t]] = "get" /\ ret'[call[t]] = "NULL"
<1>1. /\ pc[t] # "idle" /\ op' = op /\ call[t] \in Calls
      /\ pc \in [AllThreads -> {"idle"} \union InCall]
      /\ ret \in [Calls -> Statuses \union {"none"}]
      /\ requestid_list \in Seq(Calls) /\ Len(requestid_list) \in Nat
  BY CallStepShape, SMTT(20) DEF BookInv, TypeInv, TypeOK, BusyHasCall
<1>2. ASSUME NEW s, Fail(t, s) PROVE op'[call[t]] = "get" /\ ret'[call[t]] = "NULL"
  BY <1>1, <1>2 DEF Fail, ReturnWith, ToEnd, Goto
<1>3. ~ FormatNoMemory(t)
  BY DEF FormatNoMemory
<1>4. ~ Unregister(t)
  <2>1. SUFFICES ASSUME Unregister(t) PROVE FALSE
    OBVIOUS
  <2>2. CASE FindsNothing(RequestId[call[t]]) /\ UNCHANGED requestid_list
    BY <1>1, <2>2 DEF FindsNothing, Matches
  <2>3. ASSUME NEW k \in 1 .. Len(requestid_list),
               Finds(k, RequestId[call[t]]),
               requestid_list' = RemoveAt(requestid_list, k)
        PROVE  FALSE
    <3>1. requestid_list[k] = call[t]
      BY <1>1, <2>3 DEF Finds, Matches, IdsUnique
    <3>2. /\ Len(requestid_list') = Len(requestid_list) - 1
          /\ \A j \in 1 .. Len(requestid_list) - 1 :
               requestid_list'[j] = IF j < k THEN requestid_list[j] ELSE requestid_list[j + 1]
      BY <1>1, <2>3, RemoveAtProperties
    <3>3. \E j \in 1 .. Len(requestid_list) : j # k /\ requestid_list[j] = call[t]
      BY <1>1, <3>2
    <3> QED
      BY <3>1, <3>3 DEF Memory
  <2> QED
    BY <2>1, <2>2, <2>3 DEF Unregister
<1>5. PublishFails(t) \/ TimesOut(t) \/ ParseReply(t)
  BY <1>1, <1>3, <1>4 DEF CallStep, Register, Publish, UpdateConnList, Poll, SeesPayload, Goto
<1>6. ASSUME NEW s, ToEnd(t, s) PROVE FALSE
  BY <1>1, <1>6 DEF ToEnd, Goto
<1> QED
  BY <1>2, <1>5, <1>6 DEF PublishFails, TimesOut, ParseReply

LEMMA LeakCallStep ==
  ASSUME IdsUnique, BookInv, Memory, OnlyFailedGetsLeak, ~ MallocFails,
         NEW t \in AllThreads, CallStep(t)
  PROVE  OnlyFailedGetsLeak'
<1>1. /\ pc[t] # "idle" /\ op' = op /\ call[t] \in Calls
      /\ pc \in [AllThreads -> {"idle"} \union InCall]
      /\ call \in [AllThreads -> 0 .. MaxCalls]
      /\ ret \in [Calls -> Statuses \union {"none"}]
      /\ requestid_list \in Seq(Calls) /\ Len(requestid_list) \in Nat
  BY CallStepShape DEF BookInv, TypeInv, TypeOK, BusyHasCall
<1>2. /\ \A u \in AllThreads : u # t => pc'[u] = pc[u] /\ call'[u] = call[u]
      /\ pc'[t] # "idle" => call'[t] = call[t]
      /\ \A n \in Calls : n # call[t] => ret'[n] = ret[n]
  BY <1>1, CallStepShape DEF BookInv, Stays, ReturnWith, ToEnd, Goto
<1>3. \A i \in 1 .. Len(requestid_list') :
        \/ requestid_list'[i] = call[t]
        \/ \E j \in 1 .. Len(requestid_list) : requestid_list'[i] = requestid_list[j]
  <2>1. CASE requestid_list' = requestid_list
    BY <2>1
  <2>2. CASE Register(t) /\ requestid_list' # requestid_list
    <3>1. requestid_list' = Append(requestid_list, call[t])
      BY <2>2 DEF Register
    <3>2. /\ Len(requestid_list') = Len(requestid_list) + 1
          /\ \A j \in 1 .. Len(requestid_list) : requestid_list'[j] = requestid_list[j]
          /\ requestid_list'[Len(requestid_list) + 1] = call[t]
      BY <1>1, <3>1, AppendProperties
    <3> QED
      BY <1>1, <3>2
  <2>3. CASE Unregister(t) /\ requestid_list' # requestid_list
    <3>1. PICK k \in 1 .. Len(requestid_list) : requestid_list' = RemoveAt(requestid_list, k)
      BY <2>3 DEF Unregister
    <3>2. /\ Len(requestid_list') = Len(requestid_list) - 1
          /\ \A j \in 1 .. Len(requestid_list) - 1 :
               requestid_list'[j] = IF j < k THEN requestid_list[j] ELSE requestid_list[j + 1]
      BY <1>1, <3>1, RemoveAtProperties
    <3>3. ASSUME NEW i \in 1 .. Len(requestid_list')
          PROVE  \E j \in 1 .. Len(requestid_list) : requestid_list'[i] = requestid_list[j]
      <4>1. i \in 1 .. Len(requestid_list) /\ i + 1 \in 1 .. Len(requestid_list)
        BY <1>1, <3>2
      <4>2. requestid_list'[i] = requestid_list[i] \/ requestid_list'[i] = requestid_list[i + 1]
        BY <1>1, <3>2
      <4> QED
        BY <4>1, <4>2
    <3> QED
      BY <3>3
  <2> QED
    BY <2>1, <2>2, <2>3, CallStepShape DEF BookInv
<1>4. ASSUME NEW n \in Calls, n # call[t], Excused(n) PROVE Excused(n)'
  <2>1. CASE InProgress(n)
    <3>1. PICK u \in AllThreads : pc[u] # "idle" /\ call[u] = n
      BY <2>1 DEF InProgress
    <3>2. u # t
      BY <1>4, <3>1
    <3>3. pc'[u] # "idle" /\ call'[u] = n
      BY <1>2, <3>1, <3>2
    <3>4. InProgress(n)'
      BY <3>3 DEF InProgress
    <3> QED
      BY <3>4 DEF Excused
  <2>2. CASE op[n] = "get" /\ ret[n] = "NULL"
    BY <1>1, <1>2, <1>4, <2>2 DEF Excused
  <2> QED
    BY <1>4, <2>1, <2>2 DEF Excused
<1>5. ASSUME NEW n \in Calls, n = call[t],
             NEW i \in 1 .. Len(requestid_list'), requestid_list'[i] = n
      PROVE  Excused(n)'
  <2>1. CASE pc'[t] = "idle"
    <3>1. op'[n] = "get" /\ ret'[n] = "NULL"
      BY <1>5, <2>1, ReturnIsExcused
    <3> QED
      BY <3>1 DEF Excused
  <2>2. CASE pc'[t] # "idle"
    <3>1. call'[t] = n
      BY <1>2, <1>5, <2>2
    <3>2. InProgress(n)'
      BY <2>2, <3>1 DEF InProgress
    <3> QED
      BY <3>2 DEF Excused
  <2> QED
    BY <2>1, <2>2
<1>6. ASSUME NEW i \in 1 .. Len(requestid_list'), NEW n, n = requestid_list'[i]
      PROVE  Excused(n)'
  <2>1. CASE n = call[t]
    BY <1>1, <1>5, <1>6, <2>1
  <2>2. CASE n # call[t]
    <3>1. PICK j \in 1 .. Len(requestid_list) : n = requestid_list[j]
      BY <1>3, <1>6, <2>2
    <3>2. Excused(n) /\ n \in Calls
      BY <1>1, <3>1 DEF OnlyFailedGetsLeak, Excused
    <3> QED
      BY <1>4, <2>2, <3>2
  <2> QED
    BY <2>1, <2>2
<1> QED
  BY <1>6 DEF OnlyFailedGetsLeak, Excused

LEMMA LeakStep ==
  ASSUME IdsUnique, BookInv, Memory, OnlyFailedGetsLeak, [Next]_vars
  PROVE  OnlyFailedGetsLeak'
<1>1. CASE MallocFails
  BY <1>1 DEF OnlyFailedGetsLeak
<1>2. CASE ~ MallocFails
  <2>1. ASSUME NEW t \in AllThreads, NEW o \in Invoked, Create(t, o)
        PROVE  OnlyFailedGetsLeak'
    <3>4. TypeOK
      BY DEF BookInv, TypeInv
    <3>5. calls \in Nat /\ Calls \subseteq Nat
      BY <3>4, SyncCallAssumption DEF TypeOK, Calls
    <3>1. /\ pc[t] = "idle" /\ ret' = ret /\ requestid_list' = requestid_list
          /\ \A u \in AllThreads : u # t => pc'[u] = pc[u] /\ call'[u] = call[u]
          /\ op' = [op EXCEPT ![calls + 1] = o]
          /\ op \in [Calls -> Ops \union {"none"}] /\ calls \in Nat /\ Calls \subseteq Nat
      BY <2>1, <3>4, <3>5 DEF Create, Goto, TypeOK
    <3>2. ASSUME NEW n \in Calls, n <= calls, Excused(n) PROVE Excused(n)'
      <4>1. op'[n] = op[n]
        BY <3>1, <3>2
      <4>2. InProgress(n) => InProgress(n)'
        BY <3>1 DEF InProgress
      <4> QED
        BY <3>1, <3>2, <4>1, <4>2 DEF Excused
    <3>3. \A i \in 1 .. Len(requestid_list) :
            requestid_list[i] \in Calls /\ requestid_list[i] <= calls
      BY DEF BookInv, Bookkeeping, TypeInv, TypeOK
    <3> QED
      BY <3>1, <3>2, <3>3 DEF OnlyFailedGetsLeak, Excused
  <2>2. ~ \E t \in AllThreads, o \in Invoked : CreateNoMemory(t, o)
    BY <1>2 DEF CreateNoMemory
  <2>5. ASSUME NEW t \in AllThreads, LogoutOffline(t) PROVE OnlyFailedGetsLeak'
    <3>1. /\ UNCHANGED <<requestid_list, pc, call>>
          /\ op' = [op EXCEPT ![calls + 1] = "logout"]
          /\ ret' = [ret EXCEPT ![calls + 1] = "OK"]
      BY <2>5 DEF LogoutOffline, heapVars
    <3>2. ASSUME NEW i \in 1 .. Len(requestid_list)
          PROVE  LET n == requestid_list[i] IN op'[n] = op[n] /\ ret'[n] = ret[n]
      <4>1. requestid_list[i] <= calls /\ requestid_list[i] \in Calls
        BY DEF BookInv, Bookkeeping, TypeInv, TypeOK
      <4>2. calls \in Nat /\ Calls \subseteq Nat
        BY SyncCallAssumption DEF BookInv, TypeInv, TypeOK, Calls
      <4>3. requestid_list[i] # calls + 1
        BY <4>1, <4>2
      <4> QED
        BY <3>1, <4>1, <4>3 DEF BookInv, TypeInv, TypeOK
    <3> QED
      BY <3>1, <3>2 DEF OnlyFailedGetsLeak, InProgress
  <2>3. ASSUME NEW t \in AllThreads, CallStep(t) PROVE OnlyFailedGetsLeak'
    BY <1>2, <2>3, LeakCallStep
  <2>4. ASSUME BcastStep \/ EdgeStep \/ UNCHANGED vars PROVE OnlyFailedGetsLeak'
    <3>1. UNCHANGED <<requestid_list, pc, call, op, ret>>
      BY <2>4
      DEF BcastStep, BcastDrops, BcastFinds, BcastCopies, BcastCopied, BcastTerminates,
          BcastNotifies, BcastCallbackReturns, EdgeStep, EdgeAnswers, StrayReply,
          vars, callVars, heapVars
    <3> QED
      BY <3>1 DEF OnlyFailedGetsLeak, InProgress
  <2> QED
    BY <2>1, <2>2, <2>3, <2>4, <2>5 DEF Next
<1> QED
  BY <1>1, <1>2

-----------------------------------------------------------------------------
(* Accesses to freed entries.                                              *)

LEMMA FreedStep ==
  ASSUME BookInv, Memory, [Next]_vars,
         NEW n \in Calls, mem[n] = "freed", bnode # n
  PROVE  bnode' # n /\ (n \in stale' <=> n \in stale)
<1>1. ASSUME NEW t \in AllThreads, CallStep(t)
      PROVE  bnode' # n /\ (n \in stale' <=> n \in stale)
  <2>1. bnode' = bnode /\ pc[t] # "idle"
    BY <1>1, CallStepShape DEF BookInv, bcastVars
  <2>2. mem[call[t]] = "live"
    BY <2>1 DEF Memory
  <2>3. stale' = stale \/ Access(call[t])
    BY <1>1 DEF CallStep, Register, Publish, PublishFails, FormatNoMemory, UpdateConnList, Poll,
                SeesPayload, TimesOut, ParseReply, Unregister, heapVars
  <2> QED
    BY <2>1, <2>2, <2>3 DEF Access
<1>2. ASSUME NEW m \in inbox, NEW i \in 1 .. Len(requestid_list), BcastFinds(m, i)
      PROVE  bnode' # n /\ (n \in stale' <=> n \in stale)
  <2>1. bnode' = requestid_list[i] /\ stale' = stale
    BY <1>2 DEF BcastFinds, heapVars
  <2>2. mem[requestid_list[i]] = "live"
    BY DEF Memory
  <2> QED
    BY <2>1, <2>2
<1>3. ASSUME BcastCopies \/ BcastCopied \/ BcastTerminates
      PROVE  bnode' # n /\ (n \in stale' <=> n \in stale)
  <2>1. n # NoCall
    BY SyncCallAssumption DEF Calls, NoCall
  <2>2. bnode' \in {bnode, NoCall} /\ Access(bnode)
    BY <1>3 DEF BcastCopies, BcastCopied, BcastTerminates
  <2> QED
    BY <2>1, <2>2 DEF Access
<1>4. ASSUME UNCHANGED <<bnode, stale>>
      PROVE  bnode' # n /\ (n \in stale' <=> n \in stale)
  BY <1>4
<1>5. ASSUME NEW t \in AllThreads, NEW o \in Invoked, Create(t, o) \/ CreateNoMemory(t, o)
      PROVE  UNCHANGED <<bnode, stale>>
  BY <1>5 DEF Create, CreateNoMemory, bcastVars
<1>7. ASSUME NEW t \in AllThreads, LogoutOffline(t) PROVE UNCHANGED <<bnode, stale>>
  BY <1>7 DEF LogoutOffline, bcastVars, heapVars
<1>6. ASSUME \/ \E m \in inbox : BcastDrops(m)
             \/ BcastNotifies \/ BcastCallbackReturns \/ EdgeStep \/ UNCHANGED vars
      PROVE  UNCHANGED <<bnode, stale>>
  BY <1>6 DEF BcastDrops, BcastNotifies, BcastCallbackReturns, EdgeStep, EdgeAnswers,
              StrayReply, vars, bcastVars, heapVars
<1> QED
  BY <1>1, <1>2, <1>3, <1>4, <1>5, <1>6, <1>7 DEF Next, BcastStep

-----------------------------------------------------------------------------
(* The promise of RequestReply.                                            *)

LEMMA PromiseInit == Init => Promise!Init
<1>1. \A n \in Calls : n > 0
  BY SyncCallAssumption DEF Calls
<1> QED
  BY <1>1 DEF Init, Promise!Init, PhaseOf, OutcomeOf

\* A step that changes none of what the promise speaks of.
LEMMA PromiseStutter ==
  ASSUME UNCHANGED <<calls, ret, verdict, misdelivered>>
  PROVE  UNCHANGED Promise!vars
  BY DEF Promise!vars, PhaseOf, OutcomeOf

LEMMA PromiseReturn ==
  ASSUME BookInv, Authentic', NEW t \in AllThreads, NEW r \in Statuses,
         pc[t] # "idle", ReturnWith(t, r), UNCHANGED <<verdict, misdelivered>>,
         mem'[call[t]] # "unused"
  PROVE  Promise!Return(call[t], OutcomeOf(r)) /\ OutcomeOf(r) \in Promise!Outcomes
<1>1. /\ call[t] \in Calls /\ call[t] <= calls /\ ret[call[t]] = "none"
      /\ ret \in [Calls -> Statuses \union {"none"}]
      /\ calls \in Nat /\ Calls \subseteq Nat
  <2>1. TypeOK /\ BusyHasCall /\ Bookkeeping
    BY DEF BookInv, TypeInv
  <2>2. calls \in Nat /\ Calls \subseteq Nat
    BY <2>1, SyncCallAssumption DEF TypeOK, Calls
  <2> QED
    BY <2>1, <2>2 DEF TypeOK, BusyHasCall, Bookkeeping
<1>2. r # "none" /\ calls' = calls /\ ret' = [ret EXCEPT ![call[t]] = r]
  BY DEF ReturnWith, Statuses, Failures
<1>3. PhaseOf(call[t]) = "open"
  <2>1. ~ (call[t] > calls)
    <3>1. call[t] \in Nat
      BY <1>1
    <3> QED
      BY <1>1, <3>1
  <2> QED
    BY <1>1, <2>1 DEF PhaseOf
<1>4. [n \in Calls |-> PhaseOf(n)'] = [[n \in Calls |-> PhaseOf(n)] EXCEPT ![call[t]] = "closed"]
  <2>1. ASSUME NEW n \in Calls
        PROVE  PhaseOf(n)' = IF n = call[t] THEN "closed" ELSE PhaseOf(n)
    <3>1. n \in Nat
      BY <1>1
    <3> QED
      BY <1>1, <1>2, <3>1 DEF PhaseOf
  <2> QED
    BY <2>1
<1>5. [n \in Calls |-> OutcomeOf(ret'[n])] =
      [[n \in Calls |-> OutcomeOf(ret[n])] EXCEPT ![call[t]] = OutcomeOf(r)]
  BY <1>1, <1>2
<1>6. Explains(r, call[t], Credits')
  <2>1. ret'[call[t]] = r
    BY <1>1, <1>2
  <2>2. Explains(r, call[t], Credits') \/ (r = "OK" /\ mem'[call[t]] = "unused")
    BY <1>1, <2>1 DEF Authentic, ReturnsTrue, Needless
  <2> QED
    BY <2>2
<1>7. ASSUME NEW v, <<call[t], v>> \in Credits' PROVE Promise!MayHear(call[t], v)
  <2>1. \/ verdict[call[t]] = v
        \/ \E m \in Calls : <<m, call[t]>> \in misdelivered /\ verdict[m] = v
    BY <1>7 DEF Credits, Told
  <2> QED
    BY <1>1, <2>1 DEF Promise!MayHear
<1>8. /\ OutcomeOf(r) = "success" => Promise!MayHear(call[t], "accept")
      /\ OutcomeOf(r) = "refused" => Promise!MayHear(call[t], "refuse")
      /\ OutcomeOf(r) \in {"success", "refused", "failed"}
  BY <1>2, <1>6, <1>7 DEF OutcomeOf, Explains
<1> QED
  BY <1>1, <1>3, <1>4, <1>5, <1>8 DEF Promise!Return, Promise!Outcomes

LEMMA PromiseCreate ==
  ASSUME BookInv, NEW t \in AllThreads, NEW o \in Invoked, Create(t, o)
  PROVE  calls + 1 \in Calls /\ Promise!Invoke(calls + 1)
<1>1. /\ calls + 1 \in Calls /\ calls' = calls + 1 /\ calls \in Nat /\ Calls \subseteq Nat
      /\ UNCHANGED <<ret, verdict, misdelivered>>
  BY SyncCallAssumption DEF BookInv, TypeInv, TypeOK, Calls, Create, edgeVars
<1>2. ret[calls + 1] = "none"
  BY <1>1 DEF BookInv, Bookkeeping
<1>3. PhaseOf(calls + 1) = "new"
  BY <1>1 DEF PhaseOf
<1>4. [n \in Calls |-> PhaseOf(n)'] = [[n \in Calls |-> PhaseOf(n)] EXCEPT ![calls + 1] = "open"]
  <2>1. ASSUME NEW n \in Calls
        PROVE  PhaseOf(n)' = IF n = calls + 1 THEN "open" ELSE PhaseOf(n)
    <3>1. n \in Nat
      BY <1>1
    <3> QED
      BY <1>1, <1>2, <3>1 DEF PhaseOf
  <2> QED
    BY <2>1
<1> QED
  BY <1>1, <1>3, <1>4 DEF Promise!Invoke, OutcomeOf

LEMMA PromiseCreateNoMemory ==
  ASSUME BookInv, NEW t \in AllThreads, NEW o \in Invoked, CreateNoMemory(t, o)
  PROVE  calls + 1 \in Calls /\ Promise!Reject(calls + 1)
<1>1. /\ calls + 1 \in Calls /\ calls' = calls + 1 /\ calls \in Nat /\ Calls \subseteq Nat
      /\ ret \in [Calls -> Statuses \union {"none"}]
      /\ UNCHANGED <<verdict, misdelivered>>
  <2>1. TypeOK
    BY DEF BookInv, TypeInv
  <2>2. calls \in Nat /\ Calls \subseteq Nat /\ (calls < MaxCalls => calls + 1 \in Calls)
    BY <2>1, SyncCallAssumption DEF TypeOK, Calls
  <2> QED
    BY <2>1, <2>2 DEF TypeOK, CreateNoMemory, edgeVars
<1>2. PICK s \in {"NULL", "NO_MEMORY"} : ret' = [ret EXCEPT ![calls + 1] = s]
  BY <1>1 DEF CreateNoMemory
<1>3. PhaseOf(calls + 1) = "new"
  BY <1>1 DEF PhaseOf
<1>4. [n \in Calls |-> PhaseOf(n)'] = [[n \in Calls |-> PhaseOf(n)] EXCEPT ![calls + 1] = "closed"]
  <2>1. ASSUME NEW n \in Calls
        PROVE  PhaseOf(n)' = IF n = calls + 1 THEN "closed" ELSE PhaseOf(n)
    <3>1. n \in Nat
      BY <1>1
    <3> QED
      BY <1>1, <1>2, <3>1 DEF PhaseOf
  <2> QED
    BY <2>1
<1>5. [n \in Calls |-> OutcomeOf(ret'[n])] =
      [[n \in Calls |-> OutcomeOf(ret[n])] EXCEPT ![calls + 1] = "failed"]
  BY <1>1, <1>2 DEF OutcomeOf
<1> QED
  BY <1>1, <1>3, <1>4, <1>5 DEF Promise!Reject

LEMMA PromiseOffline ==
  ASSUME BookInv, NEW t \in AllThreads, LogoutOffline(t)
  PROVE  calls + 1 \in Calls /\ Promise!Skip(calls + 1)
<1>1. /\ calls + 1 \in Calls /\ calls' = calls + 1 /\ calls \in Nat /\ Calls \subseteq Nat
      /\ ret \in [Calls -> Statuses \union {"none"}]
      /\ ret' = [ret EXCEPT ![calls + 1] = "OK"]
      /\ UNCHANGED <<verdict, misdelivered>>
  <2>1. TypeOK
    BY DEF BookInv, TypeInv
  <2>2. calls \in Nat /\ Calls \subseteq Nat /\ (calls < MaxCalls => calls + 1 \in Calls)
    BY <2>1, SyncCallAssumption DEF TypeOK, Calls
  <2> QED
    BY <2>1, <2>2 DEF TypeOK, LogoutOffline, edgeVars, heapVars
<1>2. PhaseOf(calls + 1) = "new"
  BY <1>1 DEF PhaseOf
<1>3. [n \in Calls |-> PhaseOf(n)'] = [[n \in Calls |-> PhaseOf(n)] EXCEPT ![calls + 1] = "closed"]
  <2>1. ASSUME NEW n \in Calls
        PROVE  PhaseOf(n)' = IF n = calls + 1 THEN "closed" ELSE PhaseOf(n)
    <3>1. n \in Nat
      BY <1>1
    <3> QED
      BY <1>1, <3>1 DEF PhaseOf
  <2> QED
    BY <2>1
<1>4. [n \in Calls |-> OutcomeOf(ret'[n])] =
      [[n \in Calls |-> OutcomeOf(ret[n])] EXCEPT ![calls + 1] = "success"]
  BY <1>1 DEF OutcomeOf
<1> QED
  BY <1>1, <1>2, <1>3, <1>4 DEF Promise!Skip

\* A copy through a freed node misleads at most one other caller.
LEMMA PromiseCopies ==
  ASSUME BookInv, Blocks, Authentic, BcastCopies
  PROVE  Promise!Next \/ UNCHANGED Promise!vars
<1>1. /\ UNCHANGED <<calls, ret, verdict>> /\ bpc = "found"
      /\ misdelivered' = misdelivered \union {<<bnode, n>> : n \in Owners(bnode) \ {bnode}}
  BY DEF BcastCopies, callVars, edgeVars
<1>2. /\ bnode \in Calls /\ bnode <= calls /\ mem[bnode] # "unused"
      /\ verdict[bnode] \in Verdicts
      /\ calls \in Nat /\ Calls \subseteq Nat
  <2>1. TypeOK /\ HandlerHasNode /\ Bookkeeping
    BY DEF BookInv, TypeInv
  <2>2. bpc \in Holding
    BY <1>1 DEF Holding
  <2>3. calls \in Nat /\ Calls \subseteq Nat
    BY <2>1, SyncCallAssumption DEF TypeOK, Calls
  <2> QED
    BY <2>1, <2>2, <2>3 DEF HandlerHasNode, Bookkeeping, Blocks, Authentic, RepliesTrue
<1>3. CASE Owners(bnode) \subseteq {bnode}
  <2>1. {<<bnode, n>> : n \in Owners(bnode) \ {bnode}} = {}
    BY <1>3
  <2> QED
    BY <1>1, <2>1, PromiseStutter
<1>4. ASSUME NEW k \in Owners(bnode), k # bnode PROVE Promise!Next
  <2>1. k \in Calls /\ mem[k] = "live" /\ block[k] = block[bnode]
    BY DEF Owners
  <2>2. mem[bnode] = "freed"
    BY <1>2, <1>4, <2>1 DEF Blocks
  <2>3. \A n \in Owners(bnode) \ {bnode} : n = k
    <3>1. ASSUME NEW n \in Owners(bnode) \ {bnode}, n # k PROVE FALSE
      <4>1. n \in Calls /\ mem[n] = "live" /\ block[n] = block[k]
        BY <2>1 DEF Owners
      <4>2. mem[n] = "freed"
        BY <2>1, <3>1, <4>1 DEF Blocks
      <4> QED
        BY <4>1, <4>2
    <3> QED
      BY <3>1
  <2>4. misdelivered' = misdelivered \union {<<bnode, k>>}
    BY <1>1, <1>4, <2>3
  <2>5. PhaseOf(bnode) = "closed"
    <3>1. ret[bnode] # "none" /\ ~ (bnode > calls)
      BY <1>2, <2>2 DEF Blocks
    <3> QED
      BY <3>1 DEF PhaseOf
  <2>6. PhaseOf(k) # "new"
    <3>1. ~ (k > calls)
      BY <2>1 DEF BookInv, Bookkeeping
    <3> QED
      BY <3>1 DEF PhaseOf
  <2>7. verdict[bnode] # "none"
    BY <1>2 DEF Verdicts
  <2>8. Promise!Mislead(bnode, k)
    BY <1>1, <1>2, <1>4, <2>1, <2>4, <2>5, <2>6, <2>7 DEF Promise!Mislead, PhaseOf, OutcomeOf
  <2> QED
    BY <1>2, <2>1, <2>8 DEF Promise!Next
<1> QED
  BY <1>3, <1>4

LEMMA PromiseStep ==
  ASSUME IdsUnique, BookInv, BookInv', Memory, Blocks, Authentic, Authentic', [Next]_vars
  PROVE  [Promise!Next]_(Promise!vars)
<1>1. ASSUME NEW t \in AllThreads, NEW o \in Invoked, Create(t, o)
      PROVE  Promise!Next
  BY <1>1, PromiseCreate DEF Promise!Next
<1>2. ASSUME NEW t \in AllThreads, NEW o \in Invoked, CreateNoMemory(t, o)
      PROVE  Promise!Next
  BY <1>2, PromiseCreateNoMemory DEF Promise!Next
<1>6. ASSUME NEW t \in AllThreads, LogoutOffline(t) PROVE Promise!Next
  BY <1>6, PromiseOffline DEF Promise!Next
<1>3. ASSUME NEW t \in AllThreads, CallStep(t)
      PROVE  [Promise!Next]_(Promise!vars)
  <2>1. /\ pc[t] # "idle" /\ calls' = calls /\ UNCHANGED <<verdict, misdelivered>>
        /\ call[t] \in Calls
        /\ pc[t] = "removing" => status[t] \in Statuses
    BY <1>3, CallStepShape DEF BookInv, Bookkeeping, TypeInv, BusyHasCall
  <2>5. mem'[call[t]] # "unused"
    BY <1>3, <2>1, CallStepMemory DEF BookInv, TypeInv, TypeOK
  <2>2. ASSUME NEW r \in Statuses, ReturnWith(t, r) PROVE Promise!Next
    BY <2>1, <2>2, <2>5, PromiseReturn DEF Promise!Next
  <2>3. Failures \subseteq Statuses
    BY DEF Statuses
  <2>4. (\E r \in Statuses : ReturnWith(t, r)) \/ ret' = ret
    BY <1>3, <2>1, <2>3, CallStepShape DEF BookInv, Stays, ToEnd
  <2> QED
    BY <2>1, <2>2, <2>4, PromiseStutter
<1>4. ASSUME NEW n \in Calls, NEW v \in Verdicts, EdgeAnswers(n, v)
      PROVE  Promise!Next
  <2>1. /\ n <= calls /\ verdict[n] = "none" /\ verdict' = [verdict EXCEPT ![n] = v]
        /\ UNCHANGED <<calls, ret, misdelivered>>
    BY <1>4 DEF EdgeAnswers, callVars, heapVars, BookInv, Bookkeeping
  <2>2. PhaseOf(n) # "new"
    <3>1. calls \in Nat /\ n \in Nat
      BY SyncCallAssumption DEF BookInv, TypeInv, TypeOK, Calls
    <3> QED
      BY <2>1, <3>1 DEF PhaseOf
  <2>3. Promise!Decide(n, v)
    BY <2>1, <2>2 DEF Promise!Decide, PhaseOf, OutcomeOf
  <2> QED
    BY <2>3 DEF Promise!Next, Promise!Decisions, Verdicts
<1>7. ASSUME BcastCopies PROVE [Promise!Next]_(Promise!vars)
  BY <1>7, PromiseCopies
<1>5. ASSUME \/ \E m \in inbox : BcastDrops(m)
             \/ \E m \in inbox, i \in 1 .. Len(requestid_list) : BcastFinds(m, i)
             \/ BcastCopied \/ BcastTerminates \/ BcastNotifies \/ BcastCallbackReturns
             \/ UNCHANGED vars
             \/ \E id \in StrayIds, v \in Verdicts : StrayReply(id, v)
      PROVE  UNCHANGED Promise!vars
  <2>1. UNCHANGED <<calls, ret, verdict, misdelivered>>
    BY <1>5
    DEF BcastDrops, BcastFinds, BcastCopied, BcastTerminates,
        BcastNotifies, BcastCallbackReturns, StrayReply, vars, callVars, edgeVars, heapVars
  <2> QED
    BY <2>1, PromiseStutter
<1> QED
  BY <1>1, <1>2, <1>3, <1>4, <1>5, <1>6, <1>7 DEF Next, BcastStep, EdgeStep

-----------------------------------------------------------------------------
(* The theorems.                                                           *)

LEMMA BookInvariant == Spec => []BookInv
<1>1. BookInv /\ [Next]_vars => BookInv'
  BY BookStep
<1> QED
  BY BookInit, <1>1, PTL DEF Spec

LEMMA MemoryInvariant ==
  ASSUME IdsUnique
  PROVE  Spec => []Memory
<1>1. BookInv /\ Memory /\ [Next]_vars => Memory'
  BY IdsUnique, MemoryStep
<1> QED
  BY MemoryInit, BookInvariant, <1>1, PTL DEF Spec

\* If request ids are unique, an entry that a call polls or that the list
\* holds is never freed memory, for any number of threads, calls and polls.
THEOREM EntriesLive ==
  ASSUME IdsUnique
  PROVE  Spec => []EntriesInUseAreLive
<1>1. BookInv /\ Memory => EntriesInUseAreLive
  BY MemoryImplies DEF BookInv
<1> QED
  BY IdsUnique, BookInvariant, MemoryInvariant, <1>1, PTL

LEMMA BlocksInvariant ==
  ASSUME IdsUnique
  PROVE  Spec => []Blocks
<1>1. BookInv /\ Memory /\ Blocks /\ [Next]_vars => Blocks'
  BY IdsUnique, BlocksStep
<1> QED
  BY IdsUnique, BlocksInit, BookInvariant, MemoryInvariant, <1>1, PTL DEF Spec

LEMMA AuthenticInvariant ==
  ASSUME IdsUnique
  PROVE  Spec => []Authentic
<1>1. BookInv /\ Memory /\ Blocks /\ Authentic /\ [Next]_vars => Authentic'
  BY IdsUnique, AuthenticStep
<1> QED
  BY IdsUnique, AuthenticInit, BookInvariant, MemoryInvariant, BlocksInvariant, <1>1, PTL DEF Spec

\* If request ids are unique and memory does not run out, the only entries left
\* behind in requestid_list are those of edge_get_topo calls that returned NULL.
THEOREM NoOtherLeak ==
  ASSUME IdsUnique
  PROVE  Spec => []OnlyFailedGetsLeak
<1>1. Init => OnlyFailedGetsLeak
  BY DEF Init, OnlyFailedGetsLeak
<1>2. BookInv /\ Memory /\ OnlyFailedGetsLeak /\ [Next]_vars => OnlyFailedGetsLeak'
  BY IdsUnique, LeakStep
<1> QED
  BY IdsUnique, BookInvariant, MemoryInvariant, <1>1, <1>2, PTL DEF Spec

\* If request ids are unique, a freed entry that the broadcast handler does
\* not already hold is never accessed again.
THEOREM FreedStaysUnreachable ==
  ASSUME IdsUnique
  PROVE  Spec => FreedIsUnreachable
<1>1. BookInv /\ Memory /\ [Next]_vars =>
        [\A n \in Calls : (mem[n] = "freed" /\ bnode # n)
                         => (bnode' # n /\ (n \in stale' <=> n \in stale))]_vars
  BY FreedStep
<1> QED
  BY IdsUnique, BookInvariant, MemoryInvariant, <1>1, PTL DEF Spec, FreedIsUnreachable

\* If request ids are unique, a call reports success only for a request that
\* the edge accepted and a protocol error only for one that it refused, except
\* where a reply to an earlier, returned call was written through its freed
\* node into the block the call was given; a logout with nothing to do succeeds.
THEOREM OkIsAccepted ==
  ASSUME IdsUnique
  PROVE  Spec => []OkMeansAccepted
  BY IdsUnique, AuthenticInvariant, AuthenticImplies, PTL

\* If request ids are unique, every behaviour of the synchronous calls is one
\* that RequestReply allows (the fairness part of KeepsPromise stays with TLC).
\* The decision on another request is told only as Mislead allows: that of a
\* request whose caller had returned.
THEOREM ImplementsPromise ==
  ASSUME IdsUnique
  PROVE  Spec => Promise!SafeSpec
<1>1. BookInv /\ BookInv' /\ Memory /\ Blocks /\ Authentic /\ Authentic' /\ [Next]_vars
        => [Promise!Next]_(Promise!vars)
  BY IdsUnique, PromiseStep
<1> QED
  BY IdsUnique, PromiseInit, BookInvariant, MemoryInvariant, BlocksInvariant, AuthenticInvariant,
     <1>1, PTL
  DEF Spec, Promise!SafeSpec

\* Whatever the ids, a call made inside a broadcast callback never reaches
\* the point where it has an answer.
THEOREM CallbackStarves == Spec => []CallbackCallsUnanswered
<1>1. BookInv /\ InCallback /\ [Next]_vars => InCallback'
  BY InCallbackStep
<1>2. InCallback => CallbackCallsUnanswered
  BY DEF InCallback, CallbackCallsUnanswered
<1> QED
  BY InCallbackInit, BookInvariant, <1>1, <1>2, PTL DEF Spec

=============================================================================
