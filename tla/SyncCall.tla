------------------------------- MODULE SyncCall -------------------------------
(***************************************************************************)
(* The synchronous calls of the SDK: edge_get_topo, edge_add_topo,         *)
(* edge_delete_topo, edge_subdev_dynamic_auth, edge_subdev_login_sync and  *)
(* edge_subdev_logout_sync.  Each draws a request id, allocates a          *)
(* msg_parse entry, pushes it on requestid_list, publishes a request to    *)
(* the edge and polls the entry's payload until the thread of the          *)
(* broadcast subscription has copied the reply into it, or until the time  *)
(* is up.                                                                  *)
(*                                                                         *)
(* The n-th call of the process is named n, and RequestId[n] is the id it  *)
(* draws: rand() is never seeded, so a run that makes the same calls draws *)
(* the same ids.  The name also stands for the call's entry, its reply     *)
(* buffer and its list node, which are allocated and freed together;       *)
(* block[n] is the memory they occupy, and malloc may give the block of a  *)
(* freed entry to a later call.  Other uses of a freed block (by the SDK's *)
(* other buffers, or by the allocator itself) are not modelled, so what    *)
(* the model lets a write to freed memory do the program can do, and more. *)
(* A call with a NULL argument returns before it does anything.            *)
(***************************************************************************)
EXTENDS Naturals, Sequences, SequencesExt

CONSTANTS
  Threads,      \* application threads that make synchronous calls
  Bcast,        \* the thread of the edge.local.broadcast subscription
  Invoked,      \* the API functions the application calls
  MaxCalls,     \* bound: synchronous calls made in one run of the process
  MaxPolls,     \* polls before a call gives up (10 in the code)
  RequestId,    \* RequestId[n]: the id _gen_requestid returns the n-th time
  StrayIds,     \* ids of requests other processes made on the same broadcast
  MallocFails   \* whether malloc may return NULL

Calls == 1 .. MaxCalls
NoCall == 0
AllThreads == Threads \union {Bcast}

TopoOps == {"get", "add", "delete"}
Ops == TopoOps \union {"auth", "login", "logout"}

ASSUME SyncCallAssumption ==
  /\ Invoked \subseteq Ops
  /\ MaxCalls \in Nat /\ MaxPolls \in Nat
  /\ RequestId \in [Calls -> Nat]
  /\ StrayIds \subseteq Nat
  /\ MallocFails \in BOOLEAN
  /\ Bcast \notin Threads

Verdicts == {"accept", "refuse"}          \* RetCode 0, or another RetCode
Failures == {"NO_MEMORY", "PUBLISH", "INVALID_TIMEOUT", "ERR", "NULL"}
Statuses == {"OK", "DATA", "PROTOCOL_ERROR"} \union Failures
InCall == {"created", "registered", "published", "waiting", "answered", "removing"}

VARIABLES
  calls,           \* number of ids drawn so far
  op,              \* op[n]: the API function call n is an invocation of
  mem,             \* mem[n]: life of the msg_parse of call n
  block,           \* block[n]: where it is, by the name of the first call there
  payload,         \* payload[n]: what the reply buffer of call n holds
  requestid_list,  \* the registered calls, in list order
  pc, call,        \* per thread: position in the call, and the call's name
  loop,            \* per thread: poll counter of _wait_payload_is_timeout
  status,          \* per thread: the local variable status
  ret,             \* ret[n]: what call n returned
  published,       \* requests that reached the message bus
  verdict,         \* verdict[n]: what the edge decided on request n
  inbox,           \* replies on their way to the broadcast subscription
  bpc, bnode, brc, \* broadcast thread: position, node found, reply at hand
  stale,           \* calls whose entry was accessed after it was freed
  misdelivered     \* <<m, n>>: the reply found for m was written to n's buffer

callVars == <<calls, op, pc, call, loop, status, ret>>
edgeVars == <<published, verdict, inbox>>
bcastVars == <<bpc, bnode, brc>>
heapVars == <<mem, block, payload, requestid_list, stale, misdelivered>>
vars == <<callVars, edgeVars, bcastVars, heapVars>>

TypeOK ==
  /\ calls \in 0 .. MaxCalls
  /\ op \in [Calls -> Ops \union {"none"}]
  /\ mem \in [Calls -> {"unused", "live", "freed"}]
  /\ block \in [Calls -> Calls]
  /\ payload \in [Calls -> {"empty", "torn"} \union Verdicts]
  /\ requestid_list \in Seq(Calls)
  /\ pc \in [AllThreads -> {"idle"} \union InCall]
  /\ call \in [AllThreads -> 0 .. MaxCalls]
  /\ loop \in [AllThreads -> 0 .. MaxPolls]
  /\ status \in [AllThreads -> Statuses \union {"none"}]
  /\ ret \in [Calls -> Statuses \union {"none"}]
  /\ published \subseteq Calls
  /\ verdict \in [Calls -> Verdicts \union {"none"}]
  /\ inbox \subseteq [id : Nat, from : 0 .. MaxCalls, rc : Verdicts]
  /\ bpc \in {"idle", "found", "copying", "copied", "callback"}
  /\ bnode \in 0 .. MaxCalls
  /\ brc \in Verdicts \union {"none"}
  /\ stale \subseteq Calls
  /\ misdelivered \subseteq Calls \X Calls

Init ==
  /\ calls = 0
  /\ op = [n \in Calls |-> "none"]
  /\ mem = [n \in Calls |-> "unused"]
  /\ block = [n \in Calls |-> n]
  /\ payload = [n \in Calls |-> "empty"]
  /\ requestid_list = <<>>
  /\ pc = [t \in AllThreads |-> "idle"]
  /\ call = [t \in AllThreads |-> NoCall]
  /\ loop = [t \in AllThreads |-> 0]
  /\ status = [t \in AllThreads |-> "none"]
  /\ ret = [n \in Calls |-> "none"]
  /\ published = {}
  /\ verdict = [n \in Calls |-> "none"]
  /\ inbox = {}
  /\ bpc = "idle" /\ bnode = NoCall /\ brc = "none"
  /\ stale = {}
  /\ misdelivered = {}

-----------------------------------------------------------------------------
(* Helpers: the list, the entry and the ways out of a call.                *)

\* Mutant: the match function answers true for every entry.
MatchesAnyId(n, id) == n \in Calls /\ id \in Nat

\* _msg_parse_match: entries are compared by request id only.
Matches(n, id) == RequestId[n] = id

\* _list_find on requestid_list, run under requestid_list_mutex: position i
\* holds the first entry that matches id.
Finds(i, id) ==
  /\ i \in 1 .. Len(requestid_list)
  /\ Matches(requestid_list[i], id)
  /\ \A j \in 1 .. i - 1 : ~ Matches(requestid_list[j], id)

\* _list_find returns NULL: nothing matches, or its iterator got no memory.
FindsNothing(id) ==
  \/ MallocFails
  \/ \A i \in 1 .. Len(requestid_list) : ~ Matches(requestid_list[i], id)

\* Every access to an entry; accesses to a freed one are remembered.
Access(n) == stale' = IF mem[n] = "freed" THEN stale \union {n} ELSE stale

\* Blocks of freed entries that no entry has taken over.
FreeBlocks ==
  {block[m] : m \in {k \in Calls : mem[k] = "freed"}}
    \ {block[m] : m \in {k \in Calls : mem[k] = "live"}}

\* Whose buffer a write through the node of call n reaches.
Owners(n) == {m \in Calls : mem[m] = "live" /\ block[m] = block[n]}

Goto(t, label) == pc' = [pc EXCEPT ![t] = label]

\* The call returns s to the application.
ReturnWith(t, s) ==
  /\ Goto(t, "idle")
  /\ call' = [call EXCEPT ![t] = NoCall]
  /\ loop' = [loop EXCEPT ![t] = 0]
  /\ status' = [status EXCEPT ![t] = "none"]
  /\ ret' = [ret EXCEPT ![call[t]] = s]
  /\ UNCHANGED <<calls, op>>

\* goto end: the entry is removed from the list before the call returns s.
ToEnd(t, s) ==
  /\ Goto(t, "removing")
  /\ status' = [status EXCEPT ![t] = s]
  /\ UNCHANGED <<calls, op, call, loop, ret>>

\* Mutant: every error exit returns at once, as those of edge_get_topo do.
FailReturnsAtOnce(t, s) == ReturnWith(t, s)

\* Error exits.  edge_get_topo returns NULL from each of them and leaves its
\* entry in the list; the other calls go to their end label.
Fail(t, s) ==
  IF op[call[t]] = "get" THEN ReturnWith(t, "NULL") ELSE ToEnd(t, s)

\* Out of memory while the request is formatted: edge_subdev_dynamic_auth
\* too returns without removing its entry.
FailNoMemory(t) ==
  IF op[call[t]] = "auth" THEN ReturnWith(t, "NO_MEMORY") ELSE Fail(t, "NO_MEMORY")

\* Mutant: RetCode is not looked at.
StatusOfAnyReply(o, rc) == IF o = "get" THEN "DATA" ELSE "OK"

\* The status for a reply whose RetCode is 0, and for any other reply
\* (edge_get_topo looks for Data instead, which a refusal does not carry).
StatusOf(o, rc) ==
  IF rc = "accept"
  THEN IF o = "get" THEN "DATA" ELSE "OK"
  ELSE IF o = "get" THEN "NULL" ELSE IF o = "auth" THEN "ERR" ELSE "PROTOCOL_ERROR"

-----------------------------------------------------------------------------
(* The steps of a call.                                                    *)

\* _gen_requestid and _msg_parse_str_init, which zeroes the buffer.  The entry
\* is in memory never used so far or where a freed entry was.  The callback of
\* a broadcast message may make a call too; it runs on the broadcast thread.
Create(t, o) ==
  /\ pc[t] = "idle"
  /\ t = Bcast => bpc = "callback"
  /\ calls < MaxCalls
  /\ calls' = calls + 1
  /\ op' = [op EXCEPT ![calls'] = o]
  /\ mem' = [mem EXCEPT ![calls'] = "live"]
  /\ \E k \in FreeBlocks \union {calls'} : block' = [block EXCEPT ![calls'] = k]
  /\ Goto(t, "created")
  /\ call' = [call EXCEPT ![t] = calls']
  /\ UNCHANGED <<loop, status, ret, payload, requestid_list, stale, misdelivered>>
  /\ UNCHANGED <<edgeVars, bcastVars>>

\* One of the two allocations of _msg_parse_str_init fails; when it is the
\* second, the msg_parse already allocated is not freed.
CreateNoMemory(t, o) ==
  /\ MallocFails
  /\ pc[t] = "idle"
  /\ t = Bcast => bpc = "callback"
  /\ calls < MaxCalls
  /\ calls' = calls + 1
  /\ op' = [op EXCEPT ![calls'] = o]
  /\ \E m \in {"unused", "live"} : mem' = [mem EXCEPT ![calls'] = m]
  /\ ret' = [ret EXCEPT ![calls'] = IF o = "get" THEN "NULL" ELSE "NO_MEMORY"]
  /\ UNCHANGED <<pc, call, loop, status, block, payload, requestid_list, stale, misdelivered>>
  /\ UNCHANGED <<edgeVars, bcastVars>>

\* edge_subdev_logout_sync of a device that is not online: EDGE_OK at once, no
\* id is drawn and nothing is allocated or sent.
LogoutOffline(t) ==
  /\ "logout" \in Invoked
  /\ pc[t] = "idle"
  /\ t = Bcast => bpc = "callback"
  /\ calls < MaxCalls
  /\ calls' = calls + 1
  /\ op' = [op EXCEPT ![calls'] = "logout"]
  /\ ret' = [ret EXCEPT ![calls'] = "OK"]
  /\ UNCHANGED <<pc, call, loop, status, heapVars, edgeVars, bcastVars>>

\* _add_to_list.  Its NATS_ERR (no memory for the node) is ignored by every
\* caller: the call goes on without being registered.
Register(t) ==
  /\ pc[t] = "created"
  /\ Goto(t, "registered")
  /\ \/ requestid_list' = Append(requestid_list, call[t])
     \/ MallocFails /\ UNCHANGED requestid_list
  /\ UNCHANGED <<calls, op, call, loop, status, ret, mem, block, payload, stale, misdelivered>>
  /\ UNCHANGED <<edgeVars, bcastVars>>

\* The request is formatted and handed to _publish_string, which publishes
\* and flushes.  Login and logout go on to conn_device_list, the others wait.
Publish(t) ==
  /\ pc[t] = "registered"
  /\ published' = published \union {call[t]}
  /\ Goto(t, IF op[call[t]] \in {"login", "logout"} THEN "published" ELSE "waiting")
  /\ UNCHANGED <<calls, op, call, loop, status, ret, verdict, inbox>>
  /\ UNCHANGED <<bcastVars, heapVars>>

\* PublishString or Flush reports an error.  When only the flush failed the
\* request may have left all the same.
PublishFails(t) ==
  /\ pc[t] = "registered"
  /\ \E sent \in {{}, {call[t]}} : published' = published \union sent
  /\ Fail(t, "PUBLISH")
  /\ UNCHANGED <<verdict, inbox, bcastVars, heapVars>>

FormatNoMemory(t) ==
  /\ MallocFails
  /\ pc[t] = "registered"
  /\ FailNoMemory(t)
  /\ UNCHANGED <<edgeVars, bcastVars, heapVars>>

\* edge_subdev_login_sync adds its client to conn_device_list before it waits
\* for the reply, edge_subdev_logout_sync removes it; the effect of that on the
\* session is the subject of SubdevSession.
UpdateConnList(t) ==
  /\ pc[t] = "published"
  /\ Goto(t, "waiting")
  /\ UNCHANGED <<calls, op, call, loop, status, ret>>
  /\ UNCHANGED <<edgeVars, bcastVars, heapVars>>

\* Mutant: the loop tests loop <= 10.
PollOneTooMany(t) ==
  /\ pc[t] = "waiting"
  /\ loop[t] <= MaxPolls
  /\ payload[call[t]] = "empty"
  /\ loop' = [loop EXCEPT ![t] = @ + 1]
  /\ Access(call[t])
  /\ UNCHANGED <<calls, op, pc, call, status, ret, edgeVars, bcastVars>>
  /\ UNCHANGED <<mem, block, payload, requestid_list, misdelivered>>

\* Mutant: the loop forgets to count.
PollWithoutCounting(t) ==
  /\ pc[t] = "waiting"
  /\ loop[t] < MaxPolls
  /\ payload[call[t]] = "empty"
  /\ Access(call[t])
  /\ UNCHANGED <<callVars, mem, block, payload, requestid_list, misdelivered, edgeVars, bcastVars>>

\* _wait_payload_is_timeout: one turn of the loop, with the buffer empty.
Poll(t) ==
  /\ pc[t] = "waiting"
  /\ loop[t] < MaxPolls
  /\ payload[call[t]] = "empty"
  /\ loop' = [loop EXCEPT ![t] = @ + 1]
  /\ Access(call[t])
  /\ UNCHANGED <<calls, op, pc, call, status, ret, edgeVars, bcastVars>>
  /\ UNCHANGED <<mem, block, payload, requestid_list, misdelivered>>

\* The loop, or the test after it, finds the buffer not empty.
SeesPayload(t) ==
  /\ pc[t] = "waiting"
  /\ payload[call[t]] # "empty"
  /\ Goto(t, "answered")
  /\ Access(call[t])
  /\ UNCHANGED <<calls, op, call, loop, status, ret, edgeVars, bcastVars>>
  /\ UNCHANGED <<mem, block, payload, requestid_list, misdelivered>>

TimesOut(t) ==
  /\ pc[t] = "waiting"
  /\ loop[t] = MaxPolls
  /\ payload[call[t]] = "empty"
  /\ Fail(t, "INVALID_TIMEOUT")
  /\ Access(call[t])
  /\ UNCHANGED <<mem, block, payload, requestid_list, misdelivered, edgeVars, bcastVars>>

\* cJSON_Parse of the buffer and the test of RetCode (of Data, in
\* edge_get_topo).  A reply that is still being copied does not parse, nor
\* does any text when there is no memory for the parsed object.
ParseReply(t) ==
  /\ pc[t] = "answered"
  /\ \/ /\ payload[call[t]] \in Verdicts
        /\ ToEnd(t, StatusOf(op[call[t]], payload[call[t]]))
     \/ /\ payload[call[t]] = "torn" \/ MallocFails
        /\ Fail(t, "ERR")
  /\ Access(call[t])
  /\ UNCHANGED <<mem, block, payload, requestid_list, misdelivered, edgeVars, bcastVars>>

\* Mutant: the entry is freed, its node stays in the list.
UnregisterKeepsNode(t) ==
  /\ pc[t] = "removing"
  /\ mem' = [mem EXCEPT ![call[t]] = "freed"]
  /\ ReturnWith(t, status[t])
  /\ UNCHANGED <<block, payload, requestid_list, stale, misdelivered, edgeVars, bcastVars>>

\* _remove_from_list: the first entry with the call's id is unlinked and
\* freed, payload included; then the call returns.
Unregister(t) ==
  /\ pc[t] = "removing"
  /\ \/ \E i \in 1 .. Len(requestid_list) :
          /\ Finds(i, RequestId[call[t]])
          /\ requestid_list' = RemoveAt(requestid_list, i)
          /\ mem' = [mem EXCEPT ![requestid_list[i]] = "freed"]
     \/ FindsNothing(RequestId[call[t]]) /\ UNCHANGED <<requestid_list, mem>>
  /\ ReturnWith(t, status[t])
  /\ UNCHANGED <<block, payload, stale, misdelivered, edgeVars, bcastVars>>

-----------------------------------------------------------------------------
(* _on_broadcast_message, which one thread runs for one message after the  *)
(* other.                                                                  *)

\* Mutant: replies are delivered while a callback runs.
BcastFindsDuringCallback(m, i) ==
  /\ bpc \in {"idle", "callback"}
  /\ m \in inbox
  /\ Finds(i, m.id)
  /\ inbox' = inbox \ {m}
  /\ bpc' = "found"
  /\ bnode' = requestid_list[i]
  /\ brc' = m.rc
  /\ UNCHANGED <<published, verdict, callVars, heapVars>>

\* The reply's id is looked up; the node found is used after the unlock.
BcastFinds(m, i) ==
  /\ bpc = "idle"
  /\ m \in inbox
  /\ Finds(i, m.id)
  /\ inbox' = inbox \ {m}
  /\ bpc' = "found"
  /\ bnode' = requestid_list[i]
  /\ brc' = m.rc
  /\ UNCHANGED <<published, verdict, callVars, heapVars>>

\* No call has this id, or there is no memory for the copy or the iterator.
BcastDrops(m) ==
  /\ bpc = "idle"
  /\ m \in inbox
  /\ FindsNothing(m.id)
  /\ inbox' = inbox \ {m}
  /\ UNCHANGED <<published, verdict, callVars, bcastVars, heapVars>>

\* strncpy into the buffer, seen half-way by a concurrent reader.  (A reader
\* that sees all of the old text, or all of the new, reads in the state before
\* this step or after the next.)  Through a node that was freed meanwhile the
\* text reaches whichever call has the block now, or nobody.
BcastCopies ==
  /\ bpc = "found"
  /\ bpc' = "copying"
  /\ Access(bnode)
  /\ payload' = [n \in Calls |-> IF n \in Owners(bnode) THEN "torn" ELSE payload[n]]
  /\ misdelivered' = misdelivered \union {<<bnode, n>> : n \in Owners(bnode) \ {bnode}}
  /\ UNCHANGED <<bnode, brc, mem, block, requestid_list, callVars, edgeVars>>

\* The copy is complete: the buffer was zeroed, so the text already ends.  In
\* a buffer zeroed since the copy began, the text still begins with a NUL.
BcastCopied ==
  /\ bpc = "copying"
  /\ bpc' = "copied"
  /\ Access(bnode)
  /\ payload' = [n \in Calls |->
                   IF n \in Owners(bnode) /\ payload[n] = "torn" THEN brc ELSE payload[n]]
  /\ UNCHANGED <<bnode, brc, mem, block, requestid_list, misdelivered, callVars, edgeVars>>

\* The handler writes the terminator, logs the buffer and returns.
BcastTerminates ==
  /\ bpc = "copied"
  /\ bpc' = "idle"
  /\ bnode' = NoCall
  /\ brc' = "none"
  /\ Access(bnode)
  /\ UNCHANGED <<mem, block, payload, requestid_list, misdelivered, callVars, edgeVars>>

\* A topology or enable/disable notification: the application's callback
\* runs on the broadcast thread, and the handler goes on when it returns.
BcastNotifies ==
  /\ bpc = "idle"
  /\ bpc' = "callback"
  /\ UNCHANGED <<bnode, brc, callVars, edgeVars, heapVars>>

BcastCallbackReturns ==
  /\ bpc = "callback"
  /\ pc[Bcast] = "idle"
  /\ bpc' = "idle"
  /\ UNCHANGED <<bnode, brc, callVars, edgeVars, heapVars>>

-----------------------------------------------------------------------------
(* The edge, and the other processes on the message bus.  A request or     *)
(* reply that is lost is one that is never handled.                        *)

EdgeAnswers(n, v) ==
  /\ n \in published
  /\ verdict[n] = "none"
  /\ verdict' = [verdict EXCEPT ![n] = v]
  /\ inbox' = inbox \union {[id |-> RequestId[n], from |-> n, rc |-> v]}
  /\ UNCHANGED <<published, callVars, bcastVars, heapVars>>

\* Every driver hears the replies to every driver, and a restarted driver
\* those to its predecessor.
StrayReply(id, v) ==
  /\ inbox' = inbox \union {[id |-> id, from |-> NoCall, rc |-> v]}
  /\ UNCHANGED <<published, verdict, callVars, bcastVars, heapVars>>

CallStep(t) ==
  \/ Register(t) \/ Publish(t) \/ PublishFails(t) \/ FormatNoMemory(t)
  \/ UpdateConnList(t) \/ Poll(t) \/ SeesPayload(t) \/ TimesOut(t) \/ ParseReply(t) \/ Unregister(t)

BcastStep ==
  \/ \E m \in inbox : BcastDrops(m)
  \/ \E m \in inbox, i \in 1 .. Len(requestid_list) : BcastFinds(m, i)
  \/ BcastCopies \/ BcastCopied \/ BcastTerminates
  \/ BcastNotifies \/ BcastCallbackReturns

EdgeStep ==
  \/ \E n \in Calls, v \in Verdicts : EdgeAnswers(n, v)
  \/ \E id \in StrayIds, v \in Verdicts : StrayReply(id, v)

Next ==
  \/ \E t \in AllThreads, o \in Invoked : Create(t, o) \/ CreateNoMemory(t, o)
  \/ \E t \in AllThreads : LogoutOffline(t) \/ CallStep(t)
  \/ BcastStep
  \/ EdgeStep

\* A thread inside a call is scheduled until the call returns: nats_Sleep ends,
\* and the mutexes a call takes are released by whoever holds them (of
\* conn_device_list_mutex that is true while malloc succeeds: SubdevSession).
Fairness == \A t \in AllThreads : WF_vars(CallStep(t))

Spec == Init /\ [][Next]_vars /\ Fairness

-----------------------------------------------------------------------------
(* Properties.                                                             *)

InProgress(n) == \E t \in AllThreads : pc[t] # "idle" /\ call[t] = n

\* What the application relies on, and rand() does not guarantee: the ids
\* drawn by this process differ from each other and from those of the other
\* processes whose replies it hears.
IdsUnique ==
  /\ \A m, n \in Calls : RequestId[m] = RequestId[n] => m = n
  /\ \A n \in Calls : RequestId[n] \notin StrayIds

\* A logout that had nothing to do.
Needless(n) == op[n] = "logout" /\ mem[n] = "unused"

\* v is what the edge decided on call n, or on an earlier call that had given
\* up and been freed before n was given the same memory, whose late reply was
\* then written there.
Told(n, v) ==
  \/ verdict[n] = v
  \/ \E m \in Calls :
       <<m, n>> \in misdelivered /\ m < n /\ ret[m] # "none" /\ verdict[m] = v

\* A call reports success only if the edge accepted this very request, and a
\* protocol error only if the edge refused it, whatever the order of replies,
\* timeouts and later calls.  The one way to be told of another's reply is the
\* handler's write through a node freed after its lookup; the one call that
\* succeeds without asking is the logout of a device that is not online.
OkMeansAccepted ==
  \A n \in Calls :
    /\ ret[n] \in {"OK", "DATA"} => Told(n, "accept") \/ Needless(n)
    /\ ret[n] = "PROTOCOL_ERROR" => Told(n, "refuse")

\* Removal by id never frees the entry of a call that is still polling it,
\* and what the list holds is never freed memory: the entry found by
\* _on_broadcast_message is allocated at the moment it is found.
EntriesInUseAreLive ==
  /\ \A n \in Calls : InProgress(n) => mem[n] = "live"
  /\ \A i \in 1 .. Len(requestid_list) : mem[requestid_list[i]] = "live"

\* Unless memory runs out, the only entries that stay in requestid_list after
\* their call has returned are those of edge_get_topo calls that returned NULL
\* (its error exits skip _remove_from_list).
OnlyFailedGetsLeak ==
  \A i \in 1 .. Len(requestid_list) :
    LET n == requestid_list[i] IN
      InProgress(n) \/ MallocFails \/ (op[n] = "get" /\ ret[n] = "NULL")

\* Once an entry is freed and _on_broadcast_message does not already hold its
\* node, nobody reaches it again: the accesses to freed memory are confined to
\* the handler's window between the lookup and its last use of the node.
FreedIsUnreachable ==
  [][\A n \in Calls : (mem[n] = "freed" /\ bnode # n)
                       => (bnode' # n /\ (n \in stale' <=> n \in stale))]_vars

\* A synchronous call made from a broadcast callback never gets its answer:
\* the thread that would deliver it is the one that waits.
CallbackCallsUnanswered == pc[Bcast] # "answered"

\* Every synchronous call returns, answered or not.
EveryCallReturns == \A t \in AllThreads : pc[t] # "idle" ~> pc[t] = "idle"

\* The comment on the synchronous calls in README.md: they wait for the
\* response and return EDGE_OK when the operation succeeded.  A call that has
\* its answer therefore does not report EDGE_ERR for an accepted request.
AcceptedIsNotAnError == \A n \in Calls : ~ (verdict[n] = "accept" /\ ret[n] = "ERR")

-----------------------------------------------------------------------------
(* The calls implement the promise of RequestReply.                        *)

PhaseOf(n) ==
  IF n > calls THEN "new" ELSE IF ret[n] = "none" THEN "open" ELSE "closed"

OutcomeOf(s) ==
  IF s = "none" THEN "none"
  ELSE IF s \in {"OK", "DATA"} THEN "success"
  ELSE IF s = "PROTOCOL_ERROR" THEN "refused" ELSE "failed"

Promise == INSTANCE RequestReply WITH
  Requests <- Calls,
  phase <- [n \in Calls |-> PhaseOf(n)],
  decision <- verdict,
  outcome <- [n \in Calls |-> OutcomeOf(ret[n])],
  misled <- misdelivered

\* Whatever the interleaving of the calls, the broadcast thread and the edge,
\* the synchronous calls behave as RequestReply allows: one answer per call,
\* the right one or that of a request whose caller had gone, and control always
\* comes back.
KeepsPromise == Promise!Spec

=============================================================================
