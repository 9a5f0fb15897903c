# The IoT Edge driver SDK in TLA+

This directory models the C SDK of `src/` with which a device driver talks to
the edge process over NATS, checks the models with TLC on small instances and
proves the central theorems with TLAPS for every instance.

## 1. The system

A driver process calls `edge_common_init`, creates a handle (`subdev_client`)
for each sub-device, binds it to the gateway (`edge_add_topo`), logs it in, and
publishes and receives messages. Everything it sends goes to the subject
`edge.router.<driver>`; the edge answers on `edge.local.broadcast`, which every
driver hears, and delivers device messages on `edge.local.<driver>`.

The threads of the process:

| Thread | What it runs |
| --- | --- |
| application threads | the API: synchronous calls poll for their reply |
| broadcast subscription | `_on_broadcast_message`: replies to requests; topology and enable/disable notifications, for which the application's callback runs on this thread |
| local subscription | `_on_local_message`: messages for a sub-device; its callback runs on this thread |
| state subscription | `_on_edge_state_message`: sets `edge_state` |
| one timer thread every 15 s | `_handle_status_sync`: reports the listed devices to the edge |

(The NATS client gives each asynchronous subscription a thread of its own,
which handles one message after the other.)

### Inventory

| Component | State | Operations | Interacts with | What makes it correct |
| --- | --- | --- | --- | --- |
| Synchronous calls (`edge.c:697-930`, `client.c:104-401`) | `requestid_list` and its mutex, a heap entry (`msg_parse`) per call with the reply buffer | the six synchronous API functions: draw an id, register, publish, poll, time out, parse, unregister; a logout of a device that is offline does nothing | the edge by messages; the broadcast thread through the entry | a reply is credited to its own call only, unless it comes through a freed entry; entries in use are never freed; every call returns; nothing is left behind |
| Reply delivery (`edge.c:303-392`) | none of its own | find the entry, copy the reply into it | the list, under its mutex; the entry, without it | finds no freed entry, and touches one only if it was freed since; callbacks do not stop replies |
| Sub-device sessions (`client.c:7-28`, `142-452`) | the handles, `nats_online`, `conn_device_list` and its mutex | construct, dynamic authentication, login and logout in a synchronous and an asynchronous form | the two threads below through the list | the list holds live handles only and agrees with what the edge was told |
| Message delivery (`edge.c:222-301`) | none of its own | find the handle for a serial number, call its handler | the list, under its mutex; the handle, without it | the message reaches the handler of its own device |
| Status reports (`edge.c:493-606`) | none of its own | every 15 s, copy the list under the mutex, publish | the list | always releases the mutex; a device that was logged out leaves the reports |
| Linked list (`utils_list.c`) | head, tail, len, nodes with prev/next | push, pop, find, at, remove, iterate | both lists above | the chain in both directions and `len` agree |
| Initialisation and configuration (`edge.c:32-220`, `609-695`) | connection, subscriptions, cached configuration, callbacks | `edge_common_init`, getters, setters | creates what the others use | all or nothing, but for the timer; the cache, once it is filled, stays |
| Gateway state (`edge.c:394-453`) | `edge_state` | set on a reply, read | the status reports provoke the replies | tells whether the gateway is online |
| Codec (`common.c:67-188`, `client.c:454-490`) | none | base64, string replacement | every message | decoding undoes encoding; buffers are large enough |
| Publishing, logging (`client.c:30-102`, `492-578`) | none | format, publish, free | the connection | |

Hard here: a heap entry shared by a poller and a handler without a lock (a race
on the reply buffer, use after free, a block that malloc hands on while a handler
still holds it), replies that come late, out of order, or
for somebody else, ids that repeat after a restart, calls made from callbacks,
requests that leave although an error is reported, a handle that is freed while
listed or found, a mutex left locked on an error path, ignored failures of
`_add_to_list`, an initialisation that fails half-way and is tried again while its
first subscriptions already deliver, a configuration that several threads fill
without a lock, texts that grow in buffers of fixed length. `PROJECT.json` lists each with its line and its properties.

## 2. The modules

| Module | What it is |
| --- | --- |
| `RequestReply` | what a synchronous call promises its caller: the abstract specification |
| `SyncCall` | the synchronous calls, the reply handler, the edge; implements `RequestReply` |
| `MCSyncCall` | instances of `SyncCall` for TLC |
| `SyncCallProofs` | theorems about `SyncCall` |
| `SubdevSession` | handles, `conn_device_list`, logins and logouts, message delivery, status timer |
| `MCSubdevSession` | instances of `SubdevSession` for TLC |
| `SubdevSessionProofs` | theorems about `SubdevSession` |
| `NodeSequence` | a sequence of nodes: what the list promises its users |
| `LinkedList` | `utils_list.c`, pointer by pointer; implements `NodeSequence` |
| `MCLinkedList` | instances of `LinkedList` for TLC |
| `LinkedListProofs` | theorems about `LinkedList`, and that it implements `NodeSequence` |
| `SequenceLemmas` | what taking an entry out of a sequence and appending one do to it |
| `DriverConfig` | the configuration, read when it is first needed, and the getters |
| `Driver` | extends it with `edge_common_init`, the handlers that run meanwhile, notifications |
| `MCDriver` | instances of `Driver` for TLC |
| `DriverProofs` | theorems about `Driver` |
| `Codec` | Base64 in both directions and `_replace_str`, each next to what it is compared with |
| `Messaging` | the calls that publish and the handlers of what the edge sends, with their buffers |
| `GatewayState` | status reports, the replies to them, `edge_state` |
| `MCMessaging` | instances of `Messaging` and `GatewayState`, side by side, for TLC |
| `FoldLemmas` | induction over numbers, and what it says of the loops that `FoldLeft` stands for |
| `CodecProofs` | theorems about `Codec`, for texts of every length |
| `MessagingProofs` | theorems about `Messaging` |

Definitions named "Mutant" in a comment are faulty variants of the operator
that follows; nothing uses them but mutation runs, which replace the operator by
its variant to see that the property fails.

### SyncCall

A call is named by its number n, which also names its heap entry and its list
node: they are created and freed together. `block[n]` is the memory they are in:
that of a freed entry may be given to a later call, and what the broadcast handler
then writes through the old node reaches the new entry (`Owners`); `misdelivered`
remembers it. `RequestId[n]` is what
`_gen_requestid` returns the n-th time, a constant because `rand()` is never
seeded. `pc[t]` is where thread t is in its call:

| `pc` | the code has just done | next action |
| --- | --- | --- |
| `idle` | not in a call; `LogoutOffline` begins and ends one | `Create` |
| `created` | `_gen_requestid`, `_msg_parse_str_init` | `Register`: `_add_to_list` |
| `registered` | | `Publish`, `PublishFails`, `FormatNoMemory` |
| `published` | (login, logout) `_log_in_out` | `UpdateConnList` |
| `waiting` | the request is sent | `Poll`, `SeesPayload`, `TimesOut` |
| `answered` | left the poll loop with a reply | `ParseReply` |
| `removing` | `goto end` | `Unregister`: `_remove_from_list`, return |

The broadcast thread's lookup (`BcastFinds`) and its use of the node found
(`BcastCopies`, `BcastCopied`, `BcastTerminates`) are separate actions, because
the mutex is held for the lookup only; the copy has a state in which the reply
is half there. Locked sections are one action each, which is exact since the
code never waits inside one. A reply or a request is lost when its action is
never taken. `stale` remembers every access to a freed entry.

`RequestReply` promises no more than the code keeps. `Skip` is the logout
that has nothing to ask. `Mislead(m, n)` says that the decision on m, whose caller
is gone, may be taken for the decision on n: a login that fails or times out after the
handler has found its entry frees the entry, the next login is given the block, the
old reply is copied there, and the login returns `EDGE_OK` for a request the edge has
not answered. This needs no repeated ids. `OkMeansAccepted` makes the same
exception and no other; without it TLC finds that trace with one thread
and two logins.

The application's part is small: any thread may make any of the calls of
`Invoked` at any time. `EdgeAnswers` and `StrayReply` model the edge and other
processes, from the replies the code expects.

### SubdevSession

One handle per device. A call publishes (`Send`, `SendFails`), then changes the
list (`List`, `Unlist`), then, if synchronous, waits (`WaitEnds`, which may end
with any result; `SyncCall` says which). The local handler and the timer are
modelled like the broadcast handler: lookup or copy under the mutex, use after.
`stuck` is the mutex left locked by a timer thread that has ended; all who need
it wait. `use[c]` is the application's own record and `MayCall` its discipline:
a handle is used by one thread at a time, is logged in once and is not touched
after a logout. The SDK documents no such rule; without it the list holds freed
handles (run `session_retry`), so it is the least the SDK requires. `PrefixOf`
says which serial numbers are prefixes of others, since `_subdev_client_match`
compares no further; `RightDevice` holds under `PrefixFree` only: with the serial
numbers dev1 and dev10 a message for dev1 goes to dev10 if that one is listed
first.

`nats_online` is written by the asynchronous calls just before they lock the
list; the two are one action, since by the discipline nobody reads it between.

### LinkedList

`head`, `tail`, `len` and, per node, `prev`, `next`, `val` are the fields of the
structures; `mem[n]` says who owns node n. Pushes, pops and `Remove` are one
action each: the list has no lock of its own, its users hold a mutex round every
operation. `_list_find`, `_list_at` and `_list_destroy` take a step per node
(`pc`, and `it`, the iterator's `next`), so that what they follow is the pointers
and not the sequence. `count` is what is left of `index` or of `len`. `last` is
the last pop or lookup with its argument and its result: without the argument
`NodeSequence` could not tell the wrong node from the answer to another question.
Equality of values stands for `match`. A lookup that gets no memory for its
iterator returns NULL (`NoIterator`); it is this case that `SyncCall` and
`SubdevSession` call `FindsNothing`. Those two modules use their lists as
sequences, as `NodeSequence` allows: push at the right, find the first match,
take it away.

### DriverConfig and Driver

`driver_config_json` is the set of keys of the parsed file, or `NoConfig`. The file
itself is no variable: each time it is read it may hold anything of `Contents`, be
missing, or not parse, since whoever deploys the driver may write it at any
time. A getter calls `_get_driver_cfg` twice, for the test and for the lookup; each
call looks whether the file was parsed, and if not reads it and assigns what it
has parsed, in steps of their own (`ChecksConfig`, `ReadsFile`), because nothing is
locked. Any number of threads may be at it: `App` initialises, `Others` are the threads
that call getters, `Callbacks` those of the broadcast subscriptions. `Settled` is where the race
ends: the file was parsed, and none of them is still parsing. (While `App` does not
initialise, it is one of the others.)
`edge_get_driver_info` stands for the four getters, which differ in their key only.

`edge_common_init` is the sequence `Steps`; `ipc` is the position in it. Each step
succeeds or fails in the ways of the code: `_list_new` assigns its global before
it is tested, `natsMutex_Create` and the connection leave theirs alone, a
subscription may be there although the flush failed, the timer may be missing
and `EDGE_OK` is returned all the same. The g-th call creates generation g of
the globals (`glob`); `using` is the list and the mutex that a handler works with,
so a handler of the first call may be seen with a list of the second. `notice` is
one notification; `pending` are the subscriptions that hold a copy of it, which
is handled or, without memory to parse or decode it, dropped (`lost`).

What the handlers do with the lists is left to `SyncCall` and `SubdevSession`,
which begin where `edge_common_init` has returned `EDGE_OK`: `OkMeansReady` is
what they assume. The states of the two products would be too many for TLC.

### Codec and Messaging

`base64_encode` and `base64_decode` are translated with their tables and their
treatment of the last group; `Base64Of` is the definition of RFC 4648 they are
compared with. `Char` is the conversion of a byte to `char`: where that is signed,
bytes of 128 and more become negative before they are shifted and used as an
index, and what is read then (`BeforeTable`) is up to the build. `Encodable` are the
messages to which this does not happen.

In `Messaging` a message is a sequence of bytes, a topic one of pieces, a text in a
buffer counts its characters. `Begins` names the message under way in `op`; the
call then goes through its buffers (`AllocPayload`, `AllocFrame`, `Publish`), each of
which may be refused, and returns; the handler of what arrives parses
(`OnEdgeMessage`, `OnStateMessage`), decodes (`DecodePayload`, `OnNatsMessage`), calls
back (`got`) and cleans up (`EndMessage`, `EndNats`, `EndState`). `held` is what is
allocated and not freed: buffers, cJSON documents and texts, and messages. It counts
those of `_on_local_message`, `_on_broadcast_message`, `_on_nats_message`,
`_on_edge_state_message`, `log_write` and `_handle_status_sync` as well as those of the calls;
what the synchronous calls allocate is in `SyncCall`. `NotJSON` is a frame that `snprintf` cut. A write past
the end of a buffer ends the model (`pc = "overrun"`): `OverrunNeedsLength` says
when that cannot happen. Log lines of the SDK itself count here, because
`log_write` escapes a line of at most 2047 characters into 2048: the line that
quotes a frame with its twelve quotes is too long before the frame is.
`WriteReport` is the report of `_handle_status_sync` as far as its buffers go: an
entry is cut to `tmp_msg`, entries are strung together without a bound, and the
three buffers are never freed. (Which devices it names, and its mutex, are in
`SubdevSession`.) One message is under way at a time, since calls and handlers share no state.

In `GatewayState`, `Reports` and `EdgeReplies` are the exchange that the 15 s timer starts,
`HandlesState` the handler that sets `edge_state`. `mute` is a driver that never
reports: its timer could not be made, which `edge_common_init` does not tell, or is
stuck, since a report that had no memory for its iterator has left the mutex of the
list locked (`ReportSticks`). What the state handler allocates is in `Messaging`
(`OnStateMessage`, `EndState`).

## 3. The runs

| Run | Shows |
| --- | --- |
| `sync_call` | two threads and the broadcast callbacks, two calls in all, two polls, strange replies on the bus, blocks that are used again, logouts with nothing to do: `OkMeansAccepted`, `EntriesInUseAreLive`, `OnlyFailedGetsLeak`, `FreedIsUnreachable`, `CallbackCallsUnanswered` |
| `sync_call_live` | authentications and logouts, and any allocation may fail: `KeepsPromise` (refinement of `RequestReply` with its fairness; `auth` answers a refusal with `EDGE_ERR`, `logout` with a protocol error), `EveryCallReturns`, and the two main invariants again |
| `sync_call_torn_reply` | violated: a half-copied reply makes an accepted login return `EDGE_ERR` |
| `session` | two devices, a thread and message callbacks, the timer: `ListedClientsAreLive`, `LoginOkMeansListed`, `ListedWasAnnounced`, `FreedClientIsLeftAlone`, `SessionCallsReturn`, `ReportsForgetLoggedOut` |
| `session_no_memory` | a second application thread, any allocation may fail: the list never holds freed handles, freed handles are left alone, messages reach the right device |
| `session_stuck` | violated: the timer leaves the mutex locked, calls never return |
| `session_logout` | violated: the login is sent and the device listed, the edge refuses it or does not answer in time, and `logout_sync` returns `EDGE_OK` without a request; the device stays listed |
| `session_retry` | violated: a login repeated after a failure leaves a freed handle in the list |
| `linked_list` | `TwoWayChain`, `IteratorIsLive`, and `IsSequence`: every operation does to the pointers what `NodeSequence` says |
| `driver` | two calls of `edge_common_init` with every failure: `HandlersFindTheirLists`, `OkMeansReady`, `NoticeHandledOnce`, `DueNoticeArrives`; and another thread and the callbacks, which call getters meanwhile: `ConfigIsKept`, `IncompleteForEver` |
| `messaging` | some thirty messages and log lines, three topics, lists of up to six devices, every call and handler, each allocation failing or not: `OverrunNeedsLength`, `SentIsTheMessage`, `GotIsSent`, `LogReadsBack`, `OnlyKnownLeaks`, `OkMeansSent`; and `GatewayState` beside it: `EdgeStateFollows` |
| `messaging_binary` | violated: `edge_publish` of a byte of 128 or more |

Bounds. The properties of calls relate at most two calls (who is credited with
whose reply, who frees whose entry), so two calls by two threads plus the
broadcast thread reach every case; one thread making both calls, where the
second follows a timed-out first, is included. One poll separates "before" and
"after" the reply, two add "between"; the code's 10 adds nothing. `sync_call` makes
every kind of call but `add`, which is step by step `delete`, and `auth`, the one
call that fails half-way when memory runs out, which `sync_call_live` makes. Two
calls are also what it takes to reuse a block, and one application thread is enough for
`sync_call_live`, because the callbacks are a second caller.
For sessions, two devices are
what a wrong removal or a wrong delivery needs, and `MaxListed` is exact unless
logins are repeated. Three nodes give a list with a first, a middle and a last
node, every neighbourhood a pointer operation distinguishes, and positions from
beyond one end to beyond the other; the proofs cover the invariants for any
number. In `session` the callbacks of the local thread are the second caller; in
`session_no_memory` there are three. Application threads are interchangeable, and
so are nodes and values, hence the symmetry in the runs without liveness.

`driver` makes two calls of `edge_common_init`: what a failed call leaves behind
meets what the next one creates; the files are complete or lack the name that is
looked up second. One other thread races with the one that initialises, and with
the callbacks; a third would parse a third time (the theorem is about any number). `MaxLookups`
bounds the handlers that look something up at once to one: a lookup reads the globals
and changes none of them. The lengths of `messaging` are scaled down: a message buffer of 32
characters instead of 2048, a topic buffer of 18 instead of 128, a frame of 4
characters of which 2 are quotes. What matters is kept: messages end before, at
and behind each limit, in groups of three with zero, one and two bytes left
over, with bytes at the limits of the shifts; one topic has two segments to
replace. The code treats the groups of a message one by one, so a few of each
kind stand for all. One reply may wait in `GatewayState`, the edge sends one for each report
and keeps their order. Nothing is modelled after an overrun.

Fairness. A thread inside a call is scheduled (`CallStep`), and the timer fires
(`SyncReads`, `SyncPublishes`). Nothing is assumed of the edge, of the bus, of
the application's callbacks or of the broadcast thread: calls end by their
time-out alone. In `Driver` the broadcast handler is scheduled, its callbacks
return (through the getters they call) and a notification is not overtaken for
ever by other messages, because a subscription hands them out in order. Nothing is
assumed about memory there: the notification is handled or dropped. In `GatewayState` a
timer that is there and not stuck fires and makes its report, an edge that is up
answers, and the handler gets memory for a reply again and again; a driver that is
`mute` is excepted by the property. Deadlock checking is off for sessions where memory may run out,
since the locked mutex then stops the driver for good, and for the list, which
ends when it is destroyed.

## 4. The proofs

Every invariant, every action property and every refinement that a passing run
checks is proved for all values of the constants, but for the properties of
liveness. The hypotheses are the assumptions on the constants, each next to
them, and those named below. None of the properties is inductive; of each module the
invariant that is, and why, follows.

### SyncCallProofs

For any threads, numbers of calls and polls, and ids.

* `TypeCorrect`: `TypeOK`.
* `EntriesLive`, `NoOtherLeak`, `FreedStaysUnreachable`, `OkIsAccepted`: the
  safety properties of run `sync_call`, under `IdsUnique`: the ids this process
  draws differ from each other and from those other processes use. The
  hypothesis is needed and not guaranteed by `rand()`, which is never seeded: a
  restarted driver repeats the ids of its predecessor, and a late reply to that
  one makes a login return `EDGE_OK` that the edge has not answered.
* `CallbackStarves`: `CallbackCallsUnanswered`, without that hypothesis.
* `ImplementsPromise`: every behaviour satisfies `RequestReply!SafeSpec` under
  the mapping of `KeepsPromise`.

Freed blocks are reused in all of these, and `IdsUnique` does not rule that out.

The invariants:

* `Bookkeeping` ties the variables together: a thread is in a call exactly if
  `call` names one, no two threads are in the same call, a call has returned or
  is in progress or has not begun.
* `Memory`: with unique ids, the list has no duplicates and its entries are
  live; the entry of a call in progress is live, and it is in the list unless
  allocation failed. So the entry `_remove_from_list` finds by id is the
  caller's own, and freeing it frees nobody else's.
* `Blocks`: two entries in one block are an earlier one that was freed and a later
  one, and an entry is freed when its call returns. So whoever is given a reply that
  was not found for it was called after the reply's own call had returned.
* `Authentic`: each reply in `inbox` says what the edge decided on the request
  with its id, and what the handler is copying what it decided on the request of the
  node it found. Every payload, status and result is one of the `Credits`: it says
  what was decided on the call itself or on one whose reply was misdelivered to it.
  (`Credits` only grow, which lets a step that leaves a call alone keep its part.)
* `InCallback`: while the broadcast thread is in a call, its handler is inside
  the callback, so the payload of that call is empty.

### SubdevSessionProofs

For any handles, threads and list length. `SessionTypes` and `SessionRightDevice`
need no hypothesis (`RightDevice` itself speaks of `PrefixFree`). The others need that
a login that failed is not repeated (`~ RetriesLogin`; run `session_retry` shows a
freed handle in the list if it is), and all but `SessionListedAreLive` that no serial
number is a prefix of another (`PrefixFree`; else a logout removes another device).
`SessionLoginIsListed` and `SessionListedWasAnnounced` are also about a driver that
has memory (`~ MallocFails`): a login that cannot be added to the list succeeds all
the same. The invariants build on each other:

* `TypeInv`: each call has its thread and its handle, and no two threads are in calls
  on the same handle (`CallsApart`).
* `HeardFirst`: the edge has been sent a login for every listed handle.
* `ListedOnce`: a handle is listed once, because before its login gets to the list it
  is neither listed nor freed; so the logout that frees it leaves nothing behind.
* `FreedByOwner`: a freed handle was freed by its own logout, and no call is made on
  it any more.
* `StatesAgree`: for each handle, how far its call is, whether it is listed, its
  `nats_online` and what the edge was last sent agree. A step of a call on one
  handle leaves the others alone (`CallOf`), which is one lemma for all actions.

### LinkedListProofs

For any nodes and values, by the invariant `IInv`: some
function s from `1 .. len` to the nodes is the chain (`IsChain`), and an operation
that is running stands on it with as many nodes ahead as it will visit
(`OnChain`); a destruction has freed exactly the front of s. `TwoWayChain` alone
is preserved by pushes and removals but says nothing of `count`, which
`_list_at` and `_list_destroy` trust. Each operation has a lemma that gives the
new chain: `RPushChain` and `LPushChain` extend s; `RPopChain`, `LPopChain` and
`RemoveChain` show that they unlink a node (`Unlinks`), and `UnlinkChain` that
what is left is a chain. `ListTypes`, `ListIsTwoWayChain` and `IteratorsAreLive`
follow.

`ListIsSequence` is the refinement `IsSequence`. `AlongChain` shows that whoever
follows `next` from `head` meets s, so s is what `NodeSequence` sees; `AppendedIs`,
`PrependedIs` and `UnlinkedIs` turn the new chains of the lemmas above into `Append`,
concatenation, `Front`, `Tail` and `RemoveAt`. A lookup needs an invariant of its own,
`LookupsOnTheirWay`: `_list_find` has met no node with the value so far, and the node
that `_list_at` is on and `count` add up to the position asked for, from
whichever end.

### DriverProofs

For any number of calls of `edge_common_init`, any number of application threads and any
configuration files.
`DriverInv` has, besides the types,

* `InitKeepsOrder`: what the steps of the running call before the current one have
  done is there, of this generation (gives `OkMeansReady`);
* `OneGeneration`: unless a subscription failed, nothing is subscribed to before
  the lists, mutexes and connection are there, and these are not made again after
  that (gives `HandlersFindTheirLists`; on a state with a subscription and a call
  that is back at its first step the property holds and the next step breaks it);
* `NoticeCounted`: a notice is with the subscriptions there were when it was
  published, each of which passes it on once or drops it (gives `NoticeHandledOnce`).

`ConfigIsKept` needs the types alone: no step takes a thread that is not parsing into
`_get_driver_cfg`'s reading part once `driver_config_json` is there (`SettledStep`).
`IncompleteForEver` follows from it, `NameStep` (the driver's name is only ever taken from the
configuration) and `OkMeansReady`.

### FoldLemmas, CodecProofs

The loops of the code that go through a text are folds. `UpTo` is induction over
the numbers up to n, stated for a set (the library's induction theorems take an
operator, which the provers cannot instantiate); it rests on `LeastNat`, a least
counterexample, from the well-foundedness of finite sets. With it `FoldExists` and
`FoldUnique` show that `FoldLeft` is the last of the values that the loop goes
through, and properties of texts of every length can be proved:

* `EncodeIsBase64`: `base64_encode` is `Base64Of` on every encodable message;
* `DecodeIsInverse`, `DecodeRefuses`: `base64_decode` of the Base64 of any message that
  is not empty is that message and its length; of an empty text, or with a line
  end behind it, it is negative;
* `EscapedReadsBack`: a text without backslashes and control characters reads back
  after its quotes were escaped.

### MessagingProofs

For any messages, topics, reports and lengths of buffers. `MessagingInv` says for each
call and handler, at each position, what it holds, what may be on the bus and with a callback
(`OpOK`, `BusOK`, `GotOK`, `PcOK`): the call's own message, encoded, framed and escaped, and
nothing of it while the call is still filling its buffers. `OnlyKnownLeaks` and `OverrunNeedsLength` are part of
it. The latter rests on how long the texts are that the code writes: Base64 needs
`4 * ((n + 2) \div 3)` characters (`EncodedLength`), escaping one more for each quote
(`EscapedLength`), a response topic at most 8/7 of its request's (`ResponseLength`), a
decoded text no more than three bytes for four characters. `MessagesAreSent`,
`OkIsSent`, `GotWhatWasSent` and `LogLinesReadBack` follow from it with the theorems of
`CodecProofs`. `ShortReport` asks that every entry is strictly shorter than `tmp_msg`:
the terminating NUL needs its place, and without it the last character is cut off.

### Model-checked only

Liveness stays with TLC: `EveryCallReturns`, the fairness half of `KeepsPromise`,
`SessionCallsReturn`, `ReportsForgetLoggedOut`, `DueNoticeArrives` and `EdgeStateFollows`
hold by fairness, and the prover treats neither fairness nor `ENABLED`. So do the
violations, which are counterexamples.

## 5. Not modelled

* Where memory goes. The block of a freed entry may be given to the entry of a later
  synchronous call, because there the old reply does the most harm. That it is given
  to another buffer of the SDK or of the application, or that the write damages the
  allocator, is not modelled; nor are freed handles that are allocated again
  (`SubdevSession` says when a freed handle is still accessed).
* NULL dereferences and other undefined behaviour: on malformed messages of the
  edge, on a NULL string given to `edge_publishString` or `edge_rrpc_response`, when
  `cJSON_Print` has no memory (`edge.c:414`), in log lines that print a message of
  `edge_publish` as a string although it need not end in NUL, after an overrun, after
  `timer_create` failed. Neither is a `driverID` that is no string (`edge.c:91` takes
  its `valuestring`, NULL, and initialisation succeeds).
* Two threads in `edge_common_init` at once. Other threads may call getters meanwhile.
* Leaks other than those of entries (`SyncCall`) and of the calls and handlers in
  `Messaging`: a synchronous call that is refused keeps the document it parsed
  (`client.c:225,336,396`, `edge.c:808`), and `_get_driver_cfg` its buffer when the file
  cannot be opened (`edge.c:55-59`). Of the leaks that `Messaging` has,
  `OnlyKnownLeaks` names four, the worst of them in `_on_edge_state_message`, which loses the
  document of every reply to a status report and the text it prints of it.
* A gateway that is gone: `edge_state` keeps its last value. So it does in a driver
  without a timer, which `edge_common_init` reports as initialised.
* A subject to which `nats_subscribe` was called twice, and the old connection after
  a second `edge_common_init`, beyond what `NoticeHandledOnce` says of it.
* The digits of request ids: `atol` where `long` has 32 bits loses the reply.
* `samples/` (an example), `lite-list.h` (macros nothing includes) and
  `n-unix.h` (platform declarations).

## 6. Plan

Done: all modules of section 2 with their runs and, but for liveness, the proofs of
their properties. Left, in this order:

1. `Driver` with fewer hypotheses: what still holds of `HandlersFindTheirLists` after a
   subscription failed.
2. `SubdevSession`: what remains true of `LoginOkMeansListed` when memory runs out, and
   freed handles whose memory a later handle is given.
3. `SyncCall`: the result of a call whose reply was half copied (`sync_call_torn_reply`
   shows the single case), and the documents of refused calls.

`SyncCall` and `SubdevSession` are not composed: `SubdevSession` lets a wait end with
any result that `SyncCall` allows, so every behaviour of the composition is one of
its behaviours, and its properties hold for the composition as well.
