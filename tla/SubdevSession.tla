----------------------------- MODULE SubdevSession -----------------------------
(***************************************************************************)
(* The sessions of the sub-devices: the handles edge_subdev_construct      *)
(* returns, their flag nats_online, and conn_device_list with its mutex,   *)
(* shared by the calls that log sub-devices in and out, the handler that   *)
(* delivers messages to sub-devices and the timer that reports the list to *)
(* the edge.                                                               *)
(*                                                                         *)
(* How a synchronous call gets its reply is the subject of SyncCall; here  *)
(* its wait ends with any of the results RequestReply allows.              *)
(*                                                                         *)
(* A device is named by the handle made for it.                            *)
(***************************************************************************)
EXTENDS Naturals, Sequences, SequencesExt

CONSTANTS
  Clients,       \* the handles, one for each sub-device
  Threads,       \* application threads that make session calls
  Local,         \* the thread of the edge.local.<driver> subscription
  PrefixOf,      \* <<c, d>>: the serial number of c is a prefix of that of d
  RetriesLogin,  \* whether the application repeats a login that failed
  MaxListed,     \* bound: length of conn_device_list
  MallocFails    \* whether malloc may return NULL

NoClient == "no_client"
AllThreads == Threads \union {Local}

ASSUME SubdevSessionAssumption ==
  /\ NoClient \notin Clients
  /\ PrefixOf \subseteq Clients \X Clients
  /\ \A c \in Clients : <<c, c>> \in PrefixOf
  /\ RetriesLogin \in BOOLEAN
  /\ MaxListed \in Nat
  /\ MallocFails \in BOOLEAN

Logins == {"login_sync", "login_async"}
Logouts == {"logout_sync", "logout_async"}
Ops == Logins \union Logouts \union {"auth"}
Early == {"NO_MEMORY", "PUBLISH"}     \* the call fails before it lists or unlists
Results == {"OK", "PROTOCOL_ERROR", "ERR", "INVALID_TIMEOUT"} \union Early

VARIABLES
  cmem,             \* cmem[c]: life of the subdev_client c
  nats_online,      \* the field of each subdev_client
  conn_device_list, \* the listed handles, in list order
  stuck,            \* conn_device_list_mutex is left locked by a thread that ended
  pc, cl, op,       \* per thread: position in a session call, its handle, which call
  use,              \* use[c]: what the application has done with the handle
  result,           \* result[c]: what the last login or logout of c returned
  lpc, lnode, lmsg, \* local handler: position, handle found, device addressed
  spc, snapshot,    \* status timer: position, devices in its last report
  heard,            \* heard[c]: the last session request for c on the message bus
  stale             \* handles accessed after they were freed

handleVars == <<cmem, nats_online>>
listVars == <<conn_device_list, stuck>>
callVars == <<pc, cl, op, use, result>>
localVars == <<lpc, lnode, lmsg>>
timerVars == <<spc, snapshot>>
vars == <<handleVars, listVars, callVars, localVars, timerVars, heard, stale>>

Listed == ToSet(conn_device_list)
InCall(c) == \E t \in AllThreads : cl[t] = c

TypeOK ==
  /\ cmem \in [Clients -> {"unused", "live", "freed"}]
  /\ nats_online \in [Clients -> BOOLEAN]
  /\ conn_device_list \in Seq(Clients) /\ Len(conn_device_list) <= MaxListed
  /\ stuck \in BOOLEAN /\ (stuck => MallocFails)
  /\ pc \in [AllThreads -> {"idle", "sent", "waiting"}]
  /\ cl \in [AllThreads -> Clients \union {NoClient}]
  /\ op \in [AllThreads -> Ops \union {"none"}]
  /\ \A t \in AllThreads : pc[t] = "idle" <=> cl[t] = NoClient
  /\ use \in [Clients -> {"new", "logged_in", "done"}]
  /\ result \in [Clients -> Results \union {"none"}]
  /\ lpc \in {"idle", "found", "callback"}
  /\ lnode \in Clients \union {NoClient} /\ lmsg \in Clients \union {NoClient}
  /\ spc \in {"idle", "publishing"}
  /\ snapshot \subseteq Clients
  /\ heard \in [Clients -> {"none", "login", "logout"}]
  /\ stale \subseteq Clients

Init ==
  /\ cmem = [c \in Clients |-> "unused"]
  /\ nats_online = [c \in Clients |-> FALSE]
  /\ conn_device_list = <<>> /\ stuck = FALSE
  /\ pc = [t \in AllThreads |-> "idle"]
  /\ cl = [t \in AllThreads |-> NoClient]
  /\ op = [t \in AllThreads |-> "none"]
  /\ use = [c \in Clients |-> "new"]
  /\ result = [c \in Clients |-> "none"]
  /\ lpc = "idle" /\ lnode = NoClient /\ lmsg = NoClient
  /\ spc = "idle" /\ snapshot = {}
  /\ heard = [c \in Clients |-> "none"]
  /\ stale = {}

-----------------------------------------------------------------------------
(* Helpers.                                                                *)

\* Mutant: the serial number looked for is not compared.
MatchesAnyClient(c, d) == {c, d} \subseteq Clients

\* _subdev_client_match(c, d): strncmp of as many characters as c's serial
\* number has.
Matches(c, d) == <<c, d>> \in PrefixOf

\* _list_find on conn_device_list, run under its mutex: position i holds the
\* first handle that matches c.
Finds(i, c) ==
  /\ i \in 1 .. Len(conn_device_list)
  /\ Matches(c, conn_device_list[i])
  /\ \A j \in 1 .. i - 1 : ~ Matches(c, conn_device_list[j])

\* _list_find returns NULL: nothing matches, or its iterator got no memory.
FindsNothing(c) ==
  \/ MallocFails
  \/ \A i \in 1 .. Len(conn_device_list) : ~ Matches(c, conn_device_list[i])

\* The handles _list_find looks at: those up to the first that matches.
Scanned(c) ==
  {conn_device_list[i] : i \in {k \in 1 .. Len(conn_device_list) :
                                 \A j \in 1 .. k - 1 : ~ Matches(c, conn_device_list[j])}}

\* Accesses to a set of handles; those to freed ones are remembered.
Access(S) == stale' = stale \union {c \in S : cmem[c] = "freed"}

\* A call on c that went past its request has used the handle: after a logout
\* the application must not touch it again.
UseAfter(o, s, old) ==
  IF s \in Early \/ o = "auth" THEN old
  ELSE IF o \in Logins THEN "logged_in" ELSE "done"

\* Thread t's call o on c returns s.
Return(t, c, o, s) ==
  /\ pc' = [pc EXCEPT ![t] = "idle"]
  /\ cl' = [cl EXCEPT ![t] = NoClient]
  /\ op' = [op EXCEPT ![t] = "none"]
  /\ use' = [use EXCEPT ![c] = UseAfter(o, s, @)]
  /\ result' = IF o = "auth" THEN result ELSE [result EXCEPT ![c] = s]

\* What the application may do: it uses a handle from one thread at a time,
\* logs it in once (or again after a failure, if RetriesLogin) and does not
\* touch it after a logout.  The callbacks of the local handler are part of
\* the application.
MayCall(t, c, o) ==
  /\ pc[t] = "idle"
  /\ t = Local => lpc = "callback"
  /\ cmem[c] # "unused"
  /\ ~ InCall(c)
  /\ use[c] # "done"
  /\ o \in Logins => use[c] = "new" \/ (RetriesLogin /\ result[c] # "OK")

-----------------------------------------------------------------------------
(* The session calls.                                                      *)

\* edge_subdev_construct.
Construct(c) ==
  /\ cmem[c] = "unused"
  /\ cmem' = [cmem EXCEPT ![c] = "live"]
  /\ UNCHANGED <<nats_online, listVars, callVars, localVars, timerVars, heard, stale>>

\* A logout of a handle that is not online returns EDGE_OK at once.
LogoutOffline(t, c, o) ==
  /\ o \in Logouts
  /\ MayCall(t, c, o)
  /\ ~ nats_online[c]
  /\ Return(t, c, o, "OK")
  /\ Access({c})
  /\ UNCHANGED <<handleVars, listVars, localVars, timerVars, heard>>

\* What the edge has heard once the request of call o on c is on the bus.
Heard(c, o) ==
  IF o \in Logins THEN [heard EXCEPT ![c] = "login"]
  ELSE IF o \in Logouts THEN [heard EXCEPT ![c] = "logout"] ELSE heard

\* _log_in_out, or its like in edge_subdev_dynamic_auth, publishes the request.
Send(t, c, o) ==
  /\ MayCall(t, c, o)
  /\ o \in Logouts => nats_online[c]
  /\ heard' = Heard(c, o)
  /\ pc' = [pc EXCEPT ![t] = IF o = "auth" THEN "waiting" ELSE "sent"]
  /\ cl' = [cl EXCEPT ![t] = c]
  /\ op' = [op EXCEPT ![t] = o]
  /\ Access({c})
  /\ UNCHANGED <<use, result, handleVars, listVars, localVars, timerVars>>

\* Mutant: the handle is listed before the request is published.
SendFailsListed(t, c, o) ==
  /\ MayCall(t, c, o)
  /\ o \in Logouts => nats_online[c]
  /\ Return(t, c, o, "PUBLISH")
  /\ IF o \in Logins /\ Len(conn_device_list) < MaxListed
     THEN conn_device_list' = Append(conn_device_list, c)
     ELSE UNCHANGED conn_device_list
  /\ UNCHANGED <<stuck, handleVars, localVars, timerVars, heard, stale>>

\* The call fails before its request is sent, or the request leaves and only
\* the flush reports an error: in both cases nothing else is done.
SendFails(t, c, o) ==
  /\ MayCall(t, c, o)
  /\ o \in Logouts => nats_online[c]
  /\ \/ MallocFails /\ Return(t, c, o, "NO_MEMORY") /\ UNCHANGED heard
     \/ Return(t, c, o, "PUBLISH") /\ heard' \in {heard, Heard(c, o)}
  /\ Access({c})
  /\ UNCHANGED <<handleVars, listVars, localVars, timerVars>>

\* A login goes on to _add_to_list, which fails for want of a node only.
\* edge_subdev_login_sync ignores the outcome and waits for its reply;
\* edge_subdev_login_async has set nats_online just before (nobody else reads
\* it meanwhile) and returns the outcome.
List(t) ==
  /\ pc[t] = "sent" /\ op[t] \in Logins
  /\ ~ stuck
  /\ Len(conn_device_list) < MaxListed
  /\ \E listed \in {TRUE, ~ MallocFails} :
       /\ conn_device_list' =
            IF listed THEN Append(conn_device_list, cl[t]) ELSE conn_device_list
       /\ IF op[t] = "login_sync"
          THEN /\ pc' = [pc EXCEPT ![t] = "waiting"]
               /\ UNCHANGED <<cl, op, use, result, nats_online, stale>>
          ELSE /\ nats_online' = [nats_online EXCEPT ![cl[t]] = TRUE]
               /\ Access({cl[t]})
               /\ Return(t, cl[t], op[t], IF listed THEN "OK" ELSE "ERR")
  /\ UNCHANGED <<cmem, stuck, localVars, timerVars, heard>>

\* What a logout does after _remove_from_list, which had the given outcome:
\* the synchronous one ignores it and waits for its reply.
AfterUnlist(t, outcome) ==
  IF op[t] = "logout_sync"
  THEN /\ pc' = [pc EXCEPT ![t] = "waiting"]
       /\ UNCHANGED <<cl, op, use, result, nats_online>>
  ELSE /\ nats_online' = [nats_online EXCEPT ![cl[t]] = FALSE]
       /\ Return(t, cl[t], op[t], outcome)

\* Mutant: the handle is freed, its node stays in the list.
UnlistKeepsNode(t) ==
  /\ pc[t] = "sent" /\ op[t] \in Logouts
  /\ ~ stuck
  /\ \E i \in 1 .. Len(conn_device_list) :
       /\ Finds(i, cl[t])
       /\ cmem' = [cmem EXCEPT ![conn_device_list[i]] = "freed"]
  /\ AfterUnlist(t, "OK")
  /\ UNCHANGED <<listVars, stale, localVars, timerVars, heard>>

\* Mutant: a handle that is not listed is looked for again and again.
UnlistRetries(t) ==
  /\ pc[t] = "sent" /\ op[t] \in Logouts
  /\ ~ stuck
  /\ \E i \in 1 .. Len(conn_device_list) :
       /\ Finds(i, cl[t])
       /\ conn_device_list' = RemoveAt(conn_device_list, i)
       /\ cmem' = [cmem EXCEPT ![conn_device_list[i]] = "freed"]
  /\ AfterUnlist(t, "OK")
  /\ UNCHANGED <<stuck, stale, localVars, timerVars, heard>>

\* _remove_from_list unlinks the first handle that matches and frees it.  (In
\* edge_subdev_logout_async nats_online has been reset just before.)
Unlist(t) ==
  /\ pc[t] = "sent" /\ op[t] \in Logouts
  /\ ~ stuck
  /\ \/ \E i \in 1 .. Len(conn_device_list) :
          /\ Finds(i, cl[t])
          /\ conn_device_list' = RemoveAt(conn_device_list, i)
          /\ cmem' = [cmem EXCEPT ![conn_device_list[i]] = "freed"]
          /\ AfterUnlist(t, "OK")
     \/ /\ FindsNothing(cl[t])
        /\ UNCHANGED <<conn_device_list, cmem>>
        /\ AfterUnlist(t, "ERR")
  /\ Access({cl[t]} \union Scanned(cl[t]))
  /\ UNCHANGED <<stuck, localVars, timerVars, heard>>

\* The wait of a synchronous call ends.  On success nats_online is written,
\* by edge_subdev_logout_sync too, whose handle Unlist has freed.
WaitEnds(t, s) ==
  /\ pc[t] = "waiting"
  /\ s = "PROTOCOL_ERROR" => op[t] # "auth"
  /\ nats_online' = IF s = "OK"
                    THEN [nats_online EXCEPT ![cl[t]] = op[t] # "logout_sync"]
                    ELSE nats_online
  /\ Return(t, cl[t], op[t], s)
  /\ Access(IF s \in {"OK", "PROTOCOL_ERROR"} THEN {cl[t]} ELSE {})
  /\ UNCHANGED <<cmem, listVars, localVars, timerVars, heard>>

-----------------------------------------------------------------------------
(* _on_local_message, which one thread runs for one message after the      *)
(* other.                                                                  *)

\* A message addressed to device c arrives and a handle is found for it; the
\* handle is used after the unlock.  (A message for which none is found is
\* dropped.)
LocalFinds(c, i) ==
  /\ lpc = "idle"
  /\ ~ stuck
  /\ Finds(i, c)
  /\ lpc' = "found" /\ lnode' = conn_device_list[i] /\ lmsg' = c
  /\ Access(Scanned(c))
  /\ UNCHANGED <<handleVars, listVars, callVars, timerVars, heard>>

\* rrpc_msg_handle or normal_msg_handle of the handle found is read and called.
LocalCallsBack ==
  /\ lpc = "found"
  /\ lpc' = "callback"
  /\ Access({lnode})
  /\ UNCHANGED <<lnode, lmsg, handleVars, listVars, callVars, timerVars, heard>>

LocalCallbackReturns ==
  /\ lpc = "callback"
  /\ pc[Local] = "idle"
  /\ lpc' = "idle" /\ lnode' = NoClient /\ lmsg' = NoClient
  /\ UNCHANGED <<handleVars, listVars, callVars, timerVars, heard, stale>>

-----------------------------------------------------------------------------
(* _handle_status_sync, which the timer runs every 15 s (one run is over   *)
(* when the next begins).                                                  *)

\* Mutant: the early return with the mutex held is taken for an empty list too.
SyncReadsReturnsLocked ==
  /\ spc = "idle"
  /\ ~ stuck
  /\ IF conn_device_list = <<>>
     THEN stuck' = TRUE /\ UNCHANGED <<spc, snapshot>>
     ELSE spc' = "publishing" /\ snapshot' = Listed /\ UNCHANGED stuck
  /\ Access(Listed)
  /\ UNCHANGED <<conn_device_list, handleVars, callVars, localVars, heard>>

\* The devices in the list are written into the report, under the mutex.
SyncReads ==
  /\ spc = "idle"
  /\ ~ stuck
  /\ spc' = "publishing" /\ snapshot' = Listed
  /\ Access(Listed)
  /\ UNCHANGED <<handleVars, listVars, callVars, localVars, heard>>

\* No memory for the iterator: the thread ends with the mutex locked.
SyncReturnsLocked ==
  /\ MallocFails
  /\ spc = "idle"
  /\ ~ stuck
  /\ conn_device_list # <<>>
  /\ stuck' = TRUE
  /\ UNCHANGED <<conn_device_list, handleVars, callVars, localVars, timerVars, heard, stale>>

\* The report, snapshot, is published after the unlock; an error ends the run
\* all the same.
SyncPublishes ==
  /\ spc = "publishing"
  /\ spc' = "idle"
  /\ UNCHANGED <<snapshot, handleVars, listVars, callVars, localVars, heard, stale>>

CallStep(t) == List(t) \/ Unlist(t) \/ \E s \in Results \ Early : WaitEnds(t, s)

Next ==
  \/ \E c \in Clients : Construct(c)
  \/ \E t \in AllThreads, c \in Clients, o \in Ops :
       LogoutOffline(t, c, o) \/ Send(t, c, o) \/ SendFails(t, c, o)
  \/ \E t \in AllThreads : CallStep(t)
  \/ \E c \in Clients, i \in 1 .. Len(conn_device_list) : LocalFinds(c, i)
  \/ LocalCallsBack \/ LocalCallbackReturns
  \/ SyncReads \/ SyncReturnsLocked \/ SyncPublishes

\* A thread inside a call is scheduled, its wait is bounded by its time-out
\* (EveryCallReturns of SyncCall), and the timer fires every period.
Fairness ==
  /\ \A t \in AllThreads : WF_vars(CallStep(t))
  /\ WF_vars(SyncReads) /\ WF_vars(SyncPublishes)

Spec == Init /\ [][Next]_vars /\ Fairness

-----------------------------------------------------------------------------
(* Properties.                                                             *)

\* What the application relies on, and neither strncmp nor the SDK checks: no
\* serial number in use is a prefix of another.
PrefixFree == \A c, d \in Clients : <<c, d>> \in PrefixOf => c = d

\* conn_device_list never holds a freed handle, whatever logins, logouts,
\* callbacks and timer runs are interleaved: the report and the next lookup
\* may follow every node.
ListedClientsAreLive == \A c \in Listed : cmem[c] = "live"

\* A login that returned EDGE_OK has made the handle online and listed, and no
\* call on another handle undoes that; until its own logout begins the device
\* gets its messages and is in every report.
LoginOkMeansListed ==
  \A c \in Clients :
    (use[c] = "logged_in" /\ result[c] = "OK" /\ ~ InCall(c))
      => (nats_online[c] /\ c \in Listed)

\* The driver lists a device, and thus reports it as connected, only if it has
\* sent the edge a login for it, and lists it after a logout was sent only while
\* that logout is going on or if it failed.
ListedWasAnnounced ==
  \A c \in Listed :
    \/ heard[c] = "login"
    \/ heard[c] = "logout" /\ (InCall(c) \/ result[c] \in Early)

\* A freed handle is touched by nobody but the logout that freed it, until it
\* returns, and the local handler, if it had found the handle before.
FreedClientIsLeftAlone ==
  [][\A c \in Clients :
       (cmem[c] = "freed" /\ ~ InCall(c) /\ ~ (lpc = "found" /\ lnode = c))
         => (c \in stale' <=> c \in stale)]_vars

\* Every call that logs a device in or out returns.
SessionCallsReturn == \A t \in AllThreads : pc[t] # "idle" ~> pc[t] = "idle"

\* A device that was logged out disappears from the reports after at most one
\* stale report, the one that was being written.
ReportsForgetLoggedOut ==
  \A c \in Clients : cmem[c] = "freed" ~> [](c \notin snapshot)

\* The comment on edge_subdev_logout_sync in README.md: the device leaves, and
\* the call returns EDGE_OK when it succeeded.  (A login that failed may have
\* listed the device all the same; its logout finds nats_online FALSE.)
LogoutOkMeansLoggedOut ==
  \A c \in Clients : (use[c] = "done" /\ result[c] = "OK") => c \notin Listed

\* A message reaches the handler of the device it is addressed to, and of no
\* device the edge has not been told of, whoever logs in or out meanwhile, if no
\* serial number is a prefix of another.
RightDevice ==
  PrefixFree /\ lpc # "idle" => lnode = lmsg /\ heard[lnode] # "none"

=============================================================================
