------------------------------- MODULE Driver -------------------------------
(***************************************************************************)
(* The life of the driver from the first call of edge_common_init: what    *)
(* the call creates and in which order, every way in which it fails, a     *)
(* second call after a failure, the handlers of the subscriptions it has   *)
(* made by then, and the notifications they pass on to the application.    *)
(*                                                                         *)
(* The g-th call of edge_common_init creates generation g of the lists,    *)
(* the mutexes and the connection; generation 0 is NULL.  What the         *)
(* handlers do with the lists is the subject of SyncCall and               *)
(* SubdevSession.                                                          *)
(***************************************************************************)
EXTENDS DriverConfig, Sequences, FiniteSets

CONSTANTS
  MaxInits,   \* bound: calls of edge_common_init
  MaxLookups, \* bound: handlers that look something up at the same time
  Others      \* the application's threads besides the one that initialises

Inits == 1 .. MaxInits
Subjects == {"local", "broadcast", "state"}
\* <<g, s>>: the subscription to s by the g-th call, or the timer it starts
Subs == Inits \X (Subjects \union {"timer"})
App == <<0, "application">>     \* the thread that calls edge_common_init
Callbacks == Inits \X {"broadcast"}

ASSUME DriverAssumption ==
  /\ MaxInits \in Nat /\ MaxLookups \in Nat
  /\ Readers = {App} \union Others \union Callbacks
  /\ Others \intersect ({App} \union Callbacks) = {}

Lists == {"requestid_list", "conn_device_list"}
Mutexes == {"requestid_list_mutex", "conn_device_list_mutex"}
Globals == Lists \union Mutexes \union {"conn"}
Identifiers == {"driverID", "driverName"}

\* Mutant: the broadcast subject is subscribed to before the list of connected
\* devices and the configuration exist.
StepsSubscribeEarly ==
  <<"requestid_list", "requestid_list_mutex", "conn", "broadcast",
    "conn_device_list", "conn_device_list_mutex", "driverID", "driverName",
    "local", "state", "timer">>

\* What edge_common_init does, in its order.
Steps ==
  <<"requestid_list", "requestid_list_mutex", "conn_device_list",
    "conn_device_list_mutex", "conn", "driverID", "driverName",
    "local", "broadcast", "state", "timer">>

Results == {"OK", "NO_MEMORY", "PROTOCOL_ERROR", "ERR"}

VARIABLES
  inits, ipc, result,     \* calls of edge_common_init, position in it, what it returned
  glob,                   \* the generation of each global variable
  identified,             \* which of driver_id and driver_name are set
  subs,                   \* subscriptions that deliver messages, the timer if it runs
  subscribeFailed,        \* whether a call of _edge_subscribe ever failed
  hpc, using,             \* per subscription: position of its handler, <<list, mutex>> it uses
  topo_handle,            \* whether the application has set its callbacks
  notice,                 \* a notification: not sent yet, sent, or sent when it is due
  pending, calls,         \* subscriptions that hold it, calls of the callback for it
  lost                    \* whether one of them destroyed it unread

initVars == <<inits, ipc, result, glob, identified, subs, subscribeFailed>>
noticeVars == <<topo_handle, notice, pending, calls, lost>>
handlerVars == <<hpc, using>>
vars == <<configVars, initVars, handlerVars, noticeVars>>

Idle == <<0, 0>>

TypeOK ==
  /\ ConfigTypeOK
  /\ inits \in 0 .. MaxInits /\ ipc \in 0 .. Len(Steps)
  /\ result \in Results \union {"none"}
  /\ glob \in [Globals -> 0 .. MaxInits]
  /\ identified \subseteq Identifiers
  /\ subs \subseteq Subs
  /\ subscribeFailed \in BOOLEAN
  /\ hpc \in [Subs -> {"idle", "in_list", "callback"}]
  /\ using \in [Subs -> (0 .. MaxInits) \X (0 .. MaxInits)]
  /\ \A s \in Subs : hpc[s] \in {"idle", "callback"} => using[s] = Idle
  /\ topo_handle \in BOOLEAN
  /\ notice \in {"not_sent", "sent", "due"}
  /\ pending \subseteq subs /\ calls \in 0 .. MaxInits /\ lost \in BOOLEAN

Init ==
  /\ ConfigInit
  /\ inits = 0 /\ ipc = 0 /\ result = "none"
  /\ glob = [v \in Globals |-> 0]
  /\ identified = {}
  /\ subs = {} /\ subscribeFailed = FALSE
  /\ hpc = [s \in Subs |-> "idle"] /\ using = [s \in Subs |-> Idle]
  /\ topo_handle = FALSE /\ notice = "not_sent" /\ pending = {} /\ calls = 0
  /\ lost = FALSE

-----------------------------------------------------------------------------
(* edge_common_init, called again after a failure.                         *)

CallInit ==
  /\ ipc = 0 /\ gpc[App] = "idle"
  /\ inits < MaxInits /\ result # "OK"
  /\ inits' = inits + 1 /\ ipc' = 1 /\ result' = "none"
  /\ UNCHANGED <<glob, identified, subs, subscribeFailed,
                 configVars, handlerVars, noticeVars>>

At(step) == ipc # 0 /\ Steps[ipc] = step

Proceed ==
  IF ipc = Len(Steps) THEN ipc' = 0 /\ result' = "OK"
                      ELSE ipc' = ipc + 1 /\ UNCHANGED result

Fail(r) == ipc' = 0 /\ result' = r

\* _list_new: the global is assigned before it is tested.
CreateList(v) ==
  /\ v \in Lists /\ At(v)
  /\ \/ glob' = [glob EXCEPT ![v] = inits] /\ Proceed
     \/ glob' = [glob EXCEPT ![v] = 0] /\ Fail("NO_MEMORY")
  /\ UNCHANGED <<inits, identified, subs, subscribeFailed,
                 configVars, handlerVars, noticeVars>>

\* Mutant: the result of natsMutex_Create is not looked at.
CreateMutexUnchecked(v) ==
  /\ v \in Mutexes /\ At(v)
  /\ glob' \in {glob, [glob EXCEPT ![v] = inits]}
  /\ Proceed
  /\ UNCHANGED <<inits, identified, subs, subscribeFailed,
                 configVars, handlerVars, noticeVars>>

\* natsMutex_Create: on failure the global keeps its value.
CreateMutex(v) ==
  /\ v \in Mutexes /\ At(v)
  /\ \/ glob' = [glob EXCEPT ![v] = inits] /\ Proceed
     \/ Fail("NO_MEMORY") /\ UNCHANGED glob
  /\ UNCHANGED <<inits, identified, subs, subscribeFailed,
                 configVars, handlerVars, noticeVars>>

\* natsConnection_ConnectTo.  A connection made by an earlier call stays open.
Connect ==
  /\ At("conn")
  /\ \/ glob' = [glob EXCEPT !["conn"] = inits] /\ Proceed
     \/ Fail("PROTOCOL_ERROR") /\ UNCHANGED glob
  /\ UNCHANGED <<inits, identified, subs, subscribeFailed,
                 configVars, handlerVars, noticeVars>>

\* Mutant: a driver_id found by an earlier call is taken for both values.
ConfigKnownByEither ==
  /\ At("driverID") /\ gpc[App] = "idle"
  /\ IF identified # {}
     THEN ipc' = ipc + 2 /\ UNCHANGED gpc
     ELSE Goto(App, "asked") /\ UNCHANGED ipc
  /\ UNCHANGED <<inits, result, glob, identified, subs, subscribeFailed,
                 driver_config_json, driver_info, handlerVars, noticeVars>>

\* _parse_driver_cfg begins: is there anything to parse?
ConfigKnown ==
  /\ At("driverID") /\ gpc[App] = "idle"
  /\ IF identified = Identifiers
     THEN ipc' = ipc + 2 /\ UNCHANGED gpc
     ELSE Goto(App, "asked") /\ UNCHANGED ipc
  /\ UNCHANGED <<inits, result, glob, identified, subs, subscribeFailed,
                 driver_config_json, driver_info, handlerVars, noticeVars>>

\* _parse_driver_cfg looks a key up: the value of driverID is kept even if
\* driverName, for which _get_driver_cfg is called again, is missing.
ConfigParsed(k) ==
  /\ k \in Identifiers /\ At(k)
  /\ \/ /\ Finds(App, k)
        /\ identified' = identified \union {k} /\ Proceed
        /\ Goto(App, IF k = "driverID" THEN "lookup" ELSE "idle")
     \/ /\ FindsNot(App, k)
        /\ Fail("ERR") /\ Goto(App, "idle")
        /\ UNCHANGED identified
  /\ UNCHANGED <<inits, glob, subs, subscribeFailed, driver_config_json,
                 driver_info, handlerVars, noticeVars>>

\* Mutant: the status of _edge_subscribe is not looked at.
SubscribeUnchecked(s) ==
  /\ s \in Subjects /\ At(s)
  /\ \E failed \in BOOLEAN :
       /\ subs' \in IF failed THEN {subs, subs \union {<<inits, s>>}}
                              ELSE {subs \union {<<inits, s>>}}
       /\ subscribeFailed' = (subscribeFailed \/ failed)
       /\ Proceed
  /\ UNCHANGED <<inits, glob, identified,
                 configVars, handlerVars, noticeVars>>

\* _edge_subscribe: natsConnection_Subscribe, then natsConnection_Flush.  If only
\* the flush fails, edge_common_init fails and the subscription is there.
Subscribe(s) ==
  /\ s \in Subjects /\ At(s)
  /\ \/ /\ subs' = subs \union {<<inits, s>>}
        /\ Proceed
        /\ UNCHANGED subscribeFailed
     \/ /\ subs' \in {subs, subs \union {<<inits, s>>}}
        /\ subscribeFailed' = TRUE
        /\ Fail("PROTOCOL_ERROR")
  /\ UNCHANGED <<inits, glob, identified,
                 configVars, handlerVars, noticeVars>>

\* _fetch_online_status: without a timer edge_common_init goes on all the same.
StartTimer ==
  /\ At("timer")
  /\ subs' \in {subs, subs \union {<<inits, "timer">>}}
  /\ Proceed
  /\ UNCHANGED <<inits, glob, identified, subscribeFailed,
                 configVars, handlerVars, noticeVars>>

-----------------------------------------------------------------------------
(* The handlers: one thread for each subscription, one message at a time.  *)

\* The list and the mutex with which the handler of s works.
Uses(s) ==
  IF s[2] = "broadcast"
  THEN <<glob["requestid_list"], glob["requestid_list_mutex"]>>
  ELSE <<glob["conn_device_list"], glob["conn_device_list_mutex"]>>

\* A device message reaches _on_local_message, or a reply _on_broadcast_message,
\* or _handle_status_sync runs: they work on the list and lock the mutex that the
\* globals name at this moment.
FindsInList(s) ==
  /\ s \in subs /\ s[2] # "state"
  /\ hpc[s] = "idle" /\ Cardinality({u \in Subs : hpc[u] = "in_list"}) < MaxLookups
  /\ hpc' = [hpc EXCEPT ![s] = "in_list"] /\ using' = [using EXCEPT ![s] = Uses(s)]
  /\ UNCHANGED <<configVars, initVars, noticeVars>>

\* The lookup is over.
FoundInList(s) ==
  /\ hpc[s] = "in_list"
  /\ hpc' = [hpc EXCEPT ![s] = "idle"] /\ using' = [using EXCEPT ![s] = Idle]
  /\ UNCHANGED <<configVars, initVars, noticeVars>>

-----------------------------------------------------------------------------
(* Notifications.  edge_set_topo_notify_handle stands for the three        *)
(* setters, and one notification for all.                                  *)

SetHandle ==
  /\ topo_handle' = TRUE
  /\ UNCHANGED <<notice, pending, calls, lost, configVars, initVars, handlerVars>>

\* The edge publishes the notification: each subscription that exists gets it.
\* It is due if the driver is ready for it.
NoticeSent ==
  /\ notice = "not_sent"
  /\ notice' = IF result = "OK" /\ topo_handle THEN "due" ELSE "sent"
  /\ pending' = {s \in subs : s[2] = "broadcast"}
  /\ UNCHANGED <<topo_handle, calls, lost, configVars, initVars, handlerVars>>

\* Mutant: the message is not taken out of the queue.
HandlesNoticeTwice(s) ==
  /\ s \in pending /\ hpc[s] = "idle"
  /\ topo_handle
  /\ calls' = calls + 1
  /\ hpc' = [hpc EXCEPT ![s] = "callback"]
  /\ UNCHANGED <<pending, using, topo_handle, notice, lost, configVars, initVars>>

\* _on_broadcast_message: a notification goes to the callback if there is one.
HandlesNotice(s) ==
  /\ s \in pending /\ hpc[s] = "idle"
  /\ pending' = pending \ {s}
  /\ IF topo_handle
     THEN calls' = calls + 1 /\ hpc' = [hpc EXCEPT ![s] = "callback"]
     ELSE UNCHANGED <<calls, hpc>>
  /\ UNCHANGED <<using, topo_handle, notice, lost, configVars, initVars>>

\* No memory to parse the notification or to decode it: it is destroyed, and the
\* callback is not called.
DropsNotice(s) ==
  /\ s \in pending /\ hpc[s] = "idle"
  /\ pending' = pending \ {s} /\ lost' = TRUE
  /\ UNCHANGED <<topo_handle, notice, calls, handlerVars, configVars, initVars>>

CallbackReturns(s) ==
  /\ hpc[s] = "callback" /\ (s \in Readers => gpc[s] = "idle")
  /\ hpc' = [hpc EXCEPT ![s] = "idle"]
  /\ UNCHANGED <<using, configVars, initVars, noticeVars>>

-----------------------------------------------------------------------------
\* The application calls a getter, from any of its threads and from its callback.
\* (The thread that initialises is like the others when it does not.)
CallsGetter(t) ==
  /\ t # App
  /\ t \in Callbacks => hpc[t] = "callback"
  /\ GetterCalled(t)
  /\ UNCHANGED <<initVars, handlerVars, noticeVars>>

\* A thread goes on in a getter; edge_common_init ends it by ConfigParsed.
GetterStep(t) ==
  /\ ConfigStep(t) \/ (t # App /\ GetterReturns(t))
  /\ UNCHANGED <<initVars, handlerVars, noticeVars>>

InitStep ==
  \/ \E v \in Lists : CreateList(v)
  \/ \E v \in Mutexes : CreateMutex(v)
  \/ Connect \/ ConfigKnown
  \/ \E k \in Identifiers : ConfigParsed(k)
  \/ \E s \in Subjects : Subscribe(s)
  \/ StartTimer

HandlerStep(s) ==
  FoundInList(s) \/ HandlesNotice(s) \/ DropsNotice(s) \/ CallbackReturns(s)

Next ==
  \/ CallInit \/ InitStep
  \/ \E t \in Readers : CallsGetter(t) \/ GetterStep(t)
  \/ \E s \in Subs : FindsInList(s) \/ HandlerStep(s)
  \/ SetHandle \/ NoticeSent

\* The handlers of broadcast messages are scheduled, and so is a getter that one
\* calls back into.  Of the messages that wait for a handler only finitely many
\* come before the notification, which is then handled, or dropped: nothing says
\* that there is memory.
Fairness ==
  \A s \in Callbacks :
    /\ WF_vars(FoundInList(s)) /\ WF_vars(CallbackReturns(s)) /\ WF_vars(GetterStep(s))
    /\ SF_vars(HandlesNotice(s) \/ DropsNotice(s))

Spec == Init /\ [][Next]_vars /\ Fairness

-----------------------------------------------------------------------------
(* Properties.                                                             *)

\* Whatever failed before in edge_common_init, and however often it was called
\* again, a handler that looks something up holds a list and a mutex that exist
\* and belong together, unless a subscription has failed and was left behind.
HandlersFindTheirLists ==
  ~ subscribeFailed =>
    \A s \in Subs : hpc[s] = "in_list" => using[s] = <<s[1], s[1]>>

\* edge_common_init returns EDGE_OK only if everything is there: lists, mutexes
\* and connection of this call and none of an earlier one, both identifiers, and
\* the three subscriptions on this connection.
OkMeansReady ==
  result = "OK" =>
    /\ \A v \in Globals : glob[v] = inits
    /\ identified = Identifiers
    /\ \A s \in Subjects : <<inits, s>> \in subs

\* A driver that calls edge_common_init again until it succeeds hears every
\* notification once at most, unless a subscription has failed.
NoticeHandledOnce == ~ subscribeFailed => calls <= 1

\* edge_common_init, getters on other threads and callbacks share
\* driver_config_json without a lock.  Those that found NULL before the first
\* assignment all parse the file and assign; once the last of them is done, and
\* left a configuration, that one stays and nobody parses the file again.
ConfigIsKept ==
  [][Settled => Settled' /\ UNCHANGED driver_config_json]_vars

\* A configuration without the driver's name was parsed, nobody is parsing any
\* more, and the name was not found in an earlier one.
Incomplete ==
  /\ Settled /\ "driverName" \notin driver_config_json
  /\ "driverName" \notin identified

\* Then every call of edge_common_init fails, also after the file was completed,
\* and whatever the getters of other threads do.
IncompleteForEver == [][Incomplete => Incomplete' /\ result' # "OK"]_vars

\* A notification published once the driver is initialised and its callback is
\* set reaches the callback, unless memory lacked for it.
DueNoticeArrives == notice = "due" ~> (calls > 0 \/ lost)

=============================================================================
