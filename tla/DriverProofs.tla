----------------------------- MODULE DriverProofs -----------------------------
(***************************************************************************)
(* Proofs about Driver, for any number of calls of edge_common_init, any   *)
(* number of application threads and any configuration files.              *)
(***************************************************************************)
EXTENDS Driver, FiniteSets, FiniteSetTheorems, TLAPS

\* What the steps of edge_common_init before the k-th have done is there.
Done(k) ==
  \A j \in 1 .. k - 1 :
    /\ Steps[j] \in Globals => glob[Steps[j]] = inits
    /\ Steps[j] \in Identifiers => Steps[j] \in identified
    /\ Steps[j] \in Subjects => <<inits, Steps[j]>> \in subs

InitKeepsOrder ==
  /\ ipc # 0 => inits # 0 /\ result = "none" /\ Done(ipc)
  /\ result = "OK" => Done(Len(Steps) + 1)

\* The steps that nothing but a failing subscription can interrupt.
Subscribing == ipc # 0 /\ Steps[ipc] \in Subjects \union {"timer"}

\* Subscriptions are made once lists, mutexes and connection are, and these are
\* not made again, unless a subscription fails.
OneGeneration ==
  ~ subscribeFailed =>
    /\ subs # {} => result = "OK" \/ Subscribing
    /\ \A s \in subs : s[1] = inits
    /\ \A s \in Subs : hpc[s] = "in_list" => using[s] = <<s[1], s[1]>>

\* A notification is with the subscriptions to broadcast messages that existed
\* when it was published, each of which passes it on once.
NoticeCounted ==
  /\ notice = "not_sent" => pending = {} /\ calls = 0
  /\ pending \subseteq Callbacks
  /\ calls + Cardinality(pending) <= MaxInits
  /\ ~ subscribeFailed => calls = 0 \/ (calls = 1 /\ pending = {})

DriverInv ==
  TypeOK /\ InitKeepsOrder /\ OneGeneration /\ NoticeCounted

-----------------------------------------------------------------------------
(* The order of the steps, and what one step adds.                         *)

\* The steps by number.
LEMMA StepAt ==
  /\ Len(Steps) = 11
  /\ Steps[1] = "requestid_list" /\ Steps[2] = "requestid_list_mutex"
  /\ Steps[3] = "conn_device_list" /\ Steps[4] = "conn_device_list_mutex"
  /\ Steps[5] = "conn" /\ Steps[6] = "driverID" /\ Steps[7] = "driverName"
  /\ Steps[8] = "local" /\ Steps[9] = "broadcast" /\ Steps[10] = "state"
  /\ Steps[11] = "timer"
  BY DEF Steps

\* Everything else precedes the subscriptions, and the timer comes last.
LEMMA StepOrder ==
  ASSUME NEW i \in 1 .. 11
  PROVE  /\ Steps[i] \in Subjects \union {"timer"} =>
              \A v \in Globals \union Identifiers : \E j \in 1 .. i - 1 : Steps[j] = v
         /\ Steps[i] \in Subjects => i < 11 /\ Steps[i + 1] \in Subjects \union {"timer"}
         /\ Steps[i] = "driverID" => i = 6
         /\ Steps[i] \in Identifiers => i < 11
         /\ Steps[i] = "timer" <=> i = 11
         /\ Steps[i] \in Globals \union Identifiers => Steps[i] \notin Subjects \union {"timer"}
<1> USE DEF Subjects, Globals, Lists, Mutexes, Identifiers
<1>1. CASE i \in 1 .. 7
  <2>1. Steps[i] \in {"requestid_list", "requestid_list_mutex", "conn_device_list",
                      "conn_device_list_mutex", "conn", "driverID", "driverName"}
    BY <1>1, StepAt
  <2>2. Steps[i] = "driverID" => i = 6
    BY <1>1, StepAt
  <2> QED
    BY <1>1, <2>1, <2>2, StepAt
<1>2. CASE i \in 8 .. 11
  <2>1. \A j \in 1 .. 7 : j \in 1 .. i - 1
    BY <1>2
  <2>2. \A v \in Globals \union Identifiers : \E j \in 1 .. 7 : Steps[j] = v
    BY StepAt
  <2>3. i = 8 \/ i = 9 \/ i = 10 \/ i = 11
    BY <1>2
  <2> QED
    BY <2>1, <2>2, <2>3, StepAt
<1> QED
  BY <1>1, <1>2

\* Every global, the identifiers and every subject has its step.
LEMMA AllSteps ==
  \A v \in Globals \union Subjects \union Identifiers : \E j \in 1 .. 11 : Steps[j] = v
  BY StepAt DEF Subjects, Globals, Lists, Mutexes, Identifiers

\* The three kinds of steps.
LEMMA KindsOfSteps ==
  /\ Globals \intersect Identifiers = {} /\ Globals \intersect Subjects = {}
  /\ Identifiers \intersect Subjects = {}
  /\ "timer" \notin Globals \union Identifiers \union Subjects
  BY DEF Subjects, Globals, Lists, Mutexes, Identifiers

\* A step that does its part of edge_common_init and undoes none.
LEMMA DoneStep ==
  ASSUME NEW k \in 1 .. 11, Done(k), inits' = inits,
         \A v \in Globals : glob[v] = inits => glob'[v] = inits,
         identified \subseteq identified', subs \subseteq subs',
         Steps[k] \in Globals => glob'[Steps[k]] = inits,
         Steps[k] \in Identifiers => Steps[k] \in identified',
         Steps[k] \in Subjects => <<inits, Steps[k]>> \in subs'
  PROVE  Done(k + 1)'
<1> SUFFICES ASSUME NEW j \in 1 .. (k + 1) - 1
             PROVE  /\ Steps[j] \in Globals => glob'[Steps[j]] = inits
                    /\ Steps[j] \in Identifiers => Steps[j] \in identified'
                    /\ Steps[j] \in Subjects => <<inits, Steps[j]>> \in subs'
  BY DEF Done
<1>1. j = k \/ j \in 1 .. k - 1
  OBVIOUS
<1> QED
  BY <1>1 DEF Done

-----------------------------------------------------------------------------
(* The initial state, and types.                                           *)

LEMMA CallbacksAre ==
  /\ Callbacks = {s \in Subs : s[2] = "broadcast"}
  /\ App \in Readers /\ App \notin Callbacks /\ Callbacks \subseteq Readers
  BY DriverAssumption DEF Callbacks, Subs, Subjects, Inits, App

LEMMA FiniteCallbacks ==
  IsFiniteSet(Callbacks) /\ Cardinality(Callbacks) <= MaxInits
<1>1. IsFiniteSet(Inits) /\ Cardinality(Inits) = MaxInits
  BY DriverAssumption, FS_Interval DEF Inits
<1> DEFINE f == [g \in Inits |-> <<g, "broadcast">>]
<1>2. f \in [Inits -> Callbacks] /\ \A s \in Callbacks : \E g \in Inits : f[g] = s
  BY DEF Callbacks
<1>3. f \in Surjection(Inits, Callbacks)
  BY <1>2, Zenon DEF Surjection
<1> QED
  BY <1>1, <1>3, FS_Surjection

LEMMA InvInit == Init => DriverInv
<1> SUFFICES ASSUME Init PROVE DriverInv
  OBVIOUS
<1>1. TypeOK
  <2>1. Idle \in (0 .. MaxInits) \X (0 .. MaxInits) /\ 0 \in 0 .. MaxInits
    BY DriverAssumption DEF Idle
  <2>2. 0 \in 0 .. Len(Steps)
    BY StepAt
  <2>3. ConfigTypeOK
    BY DEF Init, ConfigInit, ConfigTypeOK
  <2> QED
    BY <2>1, <2>2, <2>3 DEF Init, TypeOK
<1>2. InitKeepsOrder /\ OneGeneration
  BY DEF Init, InitKeepsOrder, OneGeneration
<1>3. NoticeCounted
  BY DriverAssumption, FS_EmptySet DEF Init, NoticeCounted
<1> QED
  BY <1>1, <1>2, <1>3 DEF DriverInv

-----------------------------------------------------------------------------
(* Steps of edge_common_init.                                              *)

\* edge_common_init returns before its end.
Fails == ipc' = 0 /\ result' \in Results \ {"OK"}

\* What a step of edge_common_init adds to the lists, mutexes, connection,
\* identifiers and subscriptions there are.
InitEffect ==
  /\ \/ Proceed /\ \E k \in 1 .. 11 : k = ipc /\ Done(k + 1)'
     \/ /\ ipc' \in 1 .. 11 /\ UNCHANGED result /\ Done(ipc)'
        /\ ~ Subscribing
     \/ Fails /\ (Subscribing => subscribeFailed')
  /\ subs' = subs \/ (subs' = subs \union {<<inits, Steps[ipc]>>} /\ Subscribing)
  /\ subscribeFailed => subscribeFailed'
  /\ \E K \in SUBSET (Identifiers \intersect driver_config_json) : identified' = identified \union K
  /\ \A v \in Globals : glob'[v] # glob[v] => ~ Subscribing

LEMMA InitFrame ==
  ASSUME DriverInv, InitStep
  PROVE  /\ ipc \in 1 .. 11 /\ result = "none" /\ inits' = inits /\ Done(ipc)
         /\ UNCHANGED <<driver_config_json, driver_info, handlerVars, noticeVars>>
<1>1. /\ ipc # 0 /\ inits' = inits
      /\ UNCHANGED <<driver_config_json, driver_info, handlerVars, noticeVars>>
  BY DEF InitStep, CreateList, CreateMutex, Connect, ConfigKnown, ConfigParsed,
     Subscribe, StartTimer, At, configVars
<1>2. ipc \in 1 .. 11
  BY <1>1, StepAt DEF DriverInv, TypeOK
<1> QED
  BY <1>1, <1>2 DEF DriverInv, InitKeepsOrder

\* A step that creates a list, a mutex or the connection.
LEMMA MakesGlobal ==
  ASSUME DriverInv, InitStep, NEW v \in Globals, At(v),
         \/ glob' = [glob EXCEPT ![v] = inits] /\ Proceed
         \/ glob' \in {glob, [glob EXCEPT ![v] = 0]} /\ Fails,
         UNCHANGED <<identified, subs, subscribeFailed>>
  PROVE  InitEffect
<1>1. ipc \in 1 .. 11 /\ Done(ipc) /\ inits' = inits /\ Steps[ipc] = v
  BY InitFrame DEF At
<1>2. v \notin Identifiers /\ v \notin Subjects
  BY KindsOfSteps
<1>k. \E K \in SUBSET (Identifiers \intersect driver_config_json) : identified' = identified \union K
  <2>1. {} \in SUBSET (Identifiers \intersect driver_config_json)
    OBVIOUS
  <2>2. identified' = identified \union {}
    OBVIOUS
  <2> QED
    BY <2>1, <2>2
<1>3. ~ Subscribing
  BY <1>1, StepOrder DEF Subscribing
<1>4. CASE glob' = [glob EXCEPT ![v] = inits] /\ Proceed
  <2>1. glob'[v] = inits /\ \A w \in Globals : glob[w] = inits => glob'[w] = inits
    BY <1>4 DEF DriverInv, TypeOK
  <2>2. \E k \in 1 .. 11 : k = ipc /\ Done(k + 1)'
    <3>1. Steps[ipc] \in Globals => glob'[Steps[ipc]] = inits
      BY <1>1, <2>1
    <3>2. Steps[ipc] \notin Identifiers /\ Steps[ipc] \notin Subjects
      BY <1>1, <1>2
    <3> QED
      BY <1>1, <2>1, <3>1, <3>2, DoneStep
  <2> QED
    BY <1>3, <1>4, <1>k, <2>2 DEF InitEffect
<1>5. CASE Fails
  BY <1>3, <1>5, <1>k DEF InitEffect
<1> QED
  BY <1>4, <1>5

LEMMA InitStepEffect ==
  ASSUME DriverInv, InitStep
  PROVE  InitEffect
<1>1. ASSUME NEW v \in Lists, CreateList(v) PROVE InitEffect
  <2>1. v \in Globals /\ At(v) /\ UNCHANGED <<identified, subs, subscribeFailed>>
    BY <1>1 DEF CreateList, Globals
  <2>2. \/ glob' = [glob EXCEPT ![v] = inits] /\ Proceed
        \/ glob' \in {glob, [glob EXCEPT ![v] = 0]} /\ Fails
    BY <1>1 DEF CreateList, Fail, Fails, Results
  <2> QED
    BY <2>1, <2>2, MakesGlobal
<1>2. ASSUME NEW v \in Mutexes, CreateMutex(v) PROVE InitEffect
  <2>1. v \in Globals /\ At(v) /\ UNCHANGED <<identified, subs, subscribeFailed>>
    BY <1>2 DEF CreateMutex, Globals
  <2>2. \/ glob' = [glob EXCEPT ![v] = inits] /\ Proceed
        \/ glob' \in {glob, [glob EXCEPT ![v] = 0]} /\ Fails
    BY <1>2 DEF CreateMutex, Fail, Fails, Results
  <2> QED
    BY <2>1, <2>2, MakesGlobal
<1>3. CASE Connect
  <2>1. /\ "conn" \in Globals /\ At("conn")
        /\ UNCHANGED <<identified, subs, subscribeFailed>>
    BY <1>3 DEF Connect, Globals
  <2>2. \/ glob' = [glob EXCEPT !["conn"] = inits] /\ Proceed
        \/ glob' \in {glob, [glob EXCEPT !["conn"] = 0]} /\ Fails
    BY <1>3 DEF Connect, Fail, Fails, Results
  <2> QED
    BY <2>1, <2>2, MakesGlobal
<1>f. ipc \in 1 .. 11 /\ Done(ipc) /\ inits' = inits
  BY InitFrame
<1>k. ASSUME UNCHANGED identified
      PROVE  \E K \in SUBSET (Identifiers \intersect driver_config_json) :
               identified' = identified \union K
  <2>1. {} \in SUBSET (Identifiers \intersect driver_config_json)
    OBVIOUS
  <2>2. identified' = identified \union {}
    BY <1>k
  <2> QED
    BY <2>1, <2>2
<1>4. CASE ConfigKnown
  <2>1. /\ Steps[ipc] = "driverID" /\ ~ Subscribing /\ ipc = 6
        /\ UNCHANGED <<result, glob, identified, subs, subscribeFailed>>
    BY <1>4, <1>f, StepAt, StepOrder DEF ConfigKnown, At, Subscribing, Identifiers
  <2>2. CASE identified = Identifiers
    <3>1. ipc' = 8
      BY <1>4, <2>1, <2>2 DEF ConfigKnown
    <3>2. Done(6)
      BY <1>f, <2>1
    <3>3. Done(7)' /\ Done(8)'
      <4>1. Steps[6] \in Identifiers /\ Steps[7] \in Identifiers
        BY StepAt DEF Identifiers
      <4>2. \A j \in 1 .. 7 : j = 6 \/ j = 7 \/ j \in 1 .. 5
        OBVIOUS
      <4> QED
        BY <1>f, <2>1, <2>2, <3>2, <4>1, <4>2, KindsOfSteps DEF Done
    <3>4. Done(ipc)'
      BY <3>1, <3>3 DEF Done
    <3> QED
      BY <1>k, <2>1, <3>1, <3>4 DEF InitEffect
  <2>3. CASE identified # Identifiers
    <3>1. UNCHANGED <<ipc, result>>
      BY <1>4, <2>1, <2>3 DEF ConfigKnown
    <3>2. Done(ipc)'
      BY <1>f, <2>1, <3>1 DEF Done
    <3> QED
      BY <1>k, <1>f, <2>1, <3>1, <3>2 DEF InitEffect
  <2> QED
    BY <2>2, <2>3
<1>5. ASSUME NEW k \in Identifiers, ConfigParsed(k) PROVE InitEffect
  <2>1. /\ Steps[ipc] = k /\ ~ Subscribing
        /\ UNCHANGED <<glob, subs, subscribeFailed>>
    BY <1>5, <1>f, StepOrder DEF ConfigParsed, At, Subscribing
  <2>2. CASE Finds(App, k) /\ identified' = identified \union {k} /\ Proceed
    <3>1. \E j \in 1 .. 11 : j = ipc /\ Done(j + 1)'
      BY <1>f, <2>1, <2>2, KindsOfSteps, DoneStep
    <3>2. {k} \in SUBSET (Identifiers \intersect driver_config_json)
      BY <1>5, <2>2 DEF Finds
    <3> QED
      BY <2>1, <2>2, <3>1, <3>2 DEF InitEffect
  <2>3. CASE FindsNot(App, k) /\ Fail("ERR") /\ UNCHANGED identified
    <3>1. Fails
      BY <2>3 DEF Fail, Fails, Results
    <3> QED
      BY <1>k, <2>1, <2>3, <3>1 DEF InitEffect
  <2> QED
    BY <1>5, <2>2, <2>3 DEF ConfigParsed
<1>6. ASSUME NEW s \in Subjects, Subscribe(s) PROVE InitEffect
  <2>1. /\ Steps[ipc] = s /\ Subscribing
        /\ UNCHANGED <<glob, identified>>
    BY <1>6, <1>f DEF Subscribe, At, Subscribing
  <2>2. s \notin Globals /\ s \notin Identifiers
    BY KindsOfSteps
  <2>3. CASE subs' = subs \union {<<inits, s>>} /\ Proceed /\ UNCHANGED subscribeFailed
    <3>1. \E k \in 1 .. 11 : k = ipc /\ Done(k + 1)'
      BY <1>f, <2>1, <2>2, <2>3, DoneStep
    <3> QED
      BY <1>k, <2>1, <2>3, <3>1 DEF InitEffect
  <2>4. CASE /\ subs' \in {subs, subs \union {<<inits, s>>}}
             /\ subscribeFailed' = TRUE /\ Fail("PROTOCOL_ERROR")
    BY <1>k, <2>1, <2>4 DEF InitEffect, Fail, Fails, Results
  <2> QED
    BY <1>6, <2>3, <2>4 DEF Subscribe
<1>7. CASE StartTimer
  <2>1. /\ Steps[ipc] = "timer" /\ Subscribing /\ Proceed
        /\ subs' \in {subs, subs \union {<<inits, "timer">>}}
        /\ UNCHANGED <<glob, identified, subscribeFailed>>
    BY <1>7, <1>f DEF StartTimer, At, Subscribing
  <2>2. "timer" \notin Globals /\ "timer" \notin Identifiers /\ "timer" \notin Subjects
    BY KindsOfSteps
  <2>3. \E k \in 1 .. 11 : k = ipc /\ Done(k + 1)'
    BY <1>f, <2>1, <2>2, DoneStep
  <2> QED
    BY <1>k, <2>1, <2>3 DEF InitEffect
<1> QED
  BY <1>1, <1>2, <1>3, <1>4, <1>5, <1>6, <1>7 DEF InitStep

-----------------------------------------------------------------------------
(* The invariant is kept: the order of the steps, one generation.          *)

\* The threads that are in a getter, and the handlers, leave what
\* edge_common_init has done alone.
OtherStep ==
  \/ \E t \in Readers : CallsGetter(t) \/ GetterStep(t)
  \/ \E s \in Subs : FindsInList(s) \/ HandlerStep(s)
  \/ SetHandle \/ NoticeSent

LEMMA OtherFrame == OtherStep => UNCHANGED initVars
  BY DEF OtherStep, CallsGetter, GetterStep, FindsInList, HandlerStep, FoundInList,
     HandlesNotice, DropsNotice, CallbackReturns, SetHandle, NoticeSent

LEMMA Cases == [Next]_vars => CallInit \/ InitStep \/ OtherStep \/ UNCHANGED vars
  BY DEF Next, OtherStep

LEMMA OrderStep == DriverInv /\ [Next]_vars => InitKeepsOrder'
<1> SUFFICES ASSUME DriverInv, [Next]_vars PROVE InitKeepsOrder'
  OBVIOUS
<1>1. CASE CallInit
  <2>1. inits' # 0
    BY <1>1, DriverAssumption DEF CallInit, DriverInv, TypeOK
  <2> QED
    BY <1>1, <2>1 DEF CallInit, InitKeepsOrder, Done
<1>2. CASE InitStep
  <2>1. /\ ipc \in 1 .. 11 /\ result = "none" /\ inits' # 0
        /\ InitEffect
    BY <1>2, InitFrame, InitStepEffect DEF DriverInv, InitKeepsOrder
  <2>2. ASSUME NEW k \in 1 .. 11, k = ipc, Proceed, Done(k + 1)'
        PROVE  InitKeepsOrder'
    <3>1. CASE k = 11
      <4>1. ipc' = 0 /\ result' = "OK" /\ Len(Steps) + 1 = k + 1
        BY <2>2, <3>1, StepAt DEF Proceed
      <4> QED
        BY <2>2, <4>1 DEF InitKeepsOrder
    <3>2. CASE k # 11
      <4>1. ipc' = k + 1 /\ result' = "none"
        BY <2>1, <2>2, <3>2, StepAt DEF Proceed
      <4> QED
        BY <2>1, <2>2, <4>1 DEF InitKeepsOrder
    <3> QED
      BY <3>1, <3>2
  <2>3. CASE ipc' \in 1 .. 11 /\ UNCHANGED result /\ Done(ipc)'
    BY <2>1, <2>3 DEF InitKeepsOrder
  <2>4. CASE Fails
    BY <2>4 DEF Fails, InitKeepsOrder
  <2> QED
    BY <2>1, <2>2, <2>3, <2>4 DEF InitEffect
<1>3. CASE OtherStep \/ UNCHANGED vars
  <2>1. UNCHANGED initVars
    BY <1>3, OtherFrame DEF vars
  <2> QED
    BY <2>1 DEF DriverInv, InitKeepsOrder, Done, initVars
<1> QED
  BY <1>1, <1>2, <1>3, Cases

\* What exists when a subscription does.
LEMMA SubscribedIsReady ==
  ASSUME DriverInv, ~ subscribeFailed, NEW s \in subs
  PROVE  \A v \in Globals : glob[v] = s[1]
<1>1. s[1] = inits /\ (result = "OK" \/ Subscribing)
  BY DEF DriverInv, OneGeneration
<1>2. CASE result = "OK"
  <2>1. \A j \in 1 .. 11 : Steps[j] \in Globals => glob[Steps[j]] = inits
    BY <1>2, StepAt DEF DriverInv, InitKeepsOrder, Done
  <2> QED
    BY <1>1, <2>1, AllSteps
<1>3. CASE Subscribing
  <2>1. ipc \in 1 .. 11
    BY <1>3, StepAt DEF DriverInv, TypeOK, Subscribing
  <2>2. \A j \in 1 .. ipc - 1 : Steps[j] \in Globals => glob[Steps[j]] = inits
    BY <1>3 DEF DriverInv, InitKeepsOrder, Done, Subscribing
  <2>3. \A v \in Globals : \E j \in 1 .. ipc - 1 : Steps[j] = v
    BY <1>3, <2>1, StepOrder DEF Subscribing
  <2> QED
    BY <1>1, <2>2, <2>3
<1> QED
  BY <1>1, <1>2, <1>3

LEMMA GenerationStep == DriverInv /\ [Next]_vars => OneGeneration'
<1> SUFFICES ASSUME DriverInv, [Next]_vars, ~ subscribeFailed'
             PROVE  /\ subs' # {} => result' = "OK" \/ Subscribing'
                    /\ \A s \in subs' : s[1] = inits'
                    /\ \A s \in Subs : hpc'[s] = "in_list" => using'[s] = <<s[1], s[1]>>
  BY DEF OneGeneration
<1>1. CASE CallInit
  <2>1. UNCHANGED <<subs, subscribeFailed, handlerVars>> /\ ~ subscribeFailed
    BY <1>1 DEF CallInit
  <2>2. subs = {}
    BY <1>1, <2>1 DEF CallInit, DriverInv, OneGeneration, Subscribing
  <2> QED
    BY <2>1, <2>2 DEF DriverInv, OneGeneration, handlerVars
<1>2. CASE InitStep
  <2>1. /\ ipc \in 1 .. 11 /\ result = "none" /\ inits' = inits
        /\ UNCHANGED handlerVars /\ InitEffect /\ ~ subscribeFailed
    BY <1>2, InitFrame, InitStepEffect DEF InitEffect
  <2>2. \A s \in subs' : s[1] = inits'
    BY <2>1 DEF InitEffect, DriverInv, OneGeneration
  <2>3. subs' # {} => Subscribing
    BY <2>1 DEF InitEffect, DriverInv, OneGeneration
  <2>4. ASSUME Subscribing PROVE result' = "OK" \/ Subscribing'
    <3>1. CASE Proceed
      <4>1. CASE ipc = 11
        BY <3>1, <4>1, StepAt DEF Proceed
      <4>2. CASE ipc # 11
        <5>1. ipc' = ipc + 1
          BY <3>1, <4>2, StepAt DEF Proceed
        <5>2. Steps[ipc + 1] \in Subjects \union {"timer"}
          BY <2>1, <2>4, <4>2, StepOrder DEF Subscribing
        <5> QED
          BY <2>1, <5>1, <5>2 DEF Subscribing
      <4> QED
        BY <4>1, <4>2
    <3> QED
      BY <2>1, <2>4, <3>1 DEF InitEffect
  <2> QED
    BY <2>1, <2>2, <2>3, <2>4 DEF DriverInv, OneGeneration, handlerVars
<1>3. CASE OtherStep \/ UNCHANGED vars
  <2>1. UNCHANGED initVars
    BY <1>3, OtherFrame DEF vars
  <2>2. ~ subscribeFailed
    BY <2>1 DEF initVars
  <2>3. /\ subs' # {} => result' = "OK" \/ Subscribing'
        /\ \A s \in subs' : s[1] = inits'
    BY <2>1, <2>2 DEF DriverInv, OneGeneration, Subscribing, initVars
  <2>4. \A s \in Subs : hpc'[s] = "in_list" => using'[s] = <<s[1], s[1]>>
    <3>o. \A s \in Subs : hpc[s] = "in_list" => using[s] = <<s[1], s[1]>>
      BY <2>2 DEF DriverInv, OneGeneration
    <3>t. hpc \in [Subs -> {"idle", "in_list", "callback"}] /\ DOMAIN using = Subs
      BY DEF DriverInv, TypeOK
    <3>1. ASSUME NEW s \in Subs, FindsInList(s)
          PROVE  \A r \in Subs : hpc'[r] = "in_list" => using'[r] = <<r[1], r[1]>>
      <4>1. Uses(s) = <<s[1], s[1]>>
        BY <2>2, <3>1, SubscribedIsReady DEF FindsInList, Uses, Globals, Lists, Mutexes
      <4> QED
        BY <3>o, <3>t, <3>1, <4>1 DEF FindsInList
    <3>2. ASSUME NEW s \in Subs, HandlerStep(s)
          PROVE  \A r \in Subs : hpc'[r] = "in_list" => using'[r] = <<r[1], r[1]>>
      BY <3>o, <3>t, <3>2 DEF HandlerStep, FoundInList, HandlesNotice, DropsNotice,
                              CallbackReturns, handlerVars
    <3>3. CASE UNCHANGED handlerVars
      BY <3>o, <3>3 DEF handlerVars
    <3> QED
      BY <1>3, <3>1, <3>2, <3>3
      DEF OtherStep, CallsGetter, GetterStep, SetHandle, NoticeSent, vars
  <2> QED
    BY <2>3, <2>4
<1> QED
  BY <1>1, <1>2, <1>3, Cases

-----------------------------------------------------------------------------
(* The invariant is kept: notifications.                                   *)

\* Who has the notification is counted down as the callback is counted up.
LEMMA CountDown ==
  ASSUME NEW S \in SUBSET Callbacks, NEW s \in S
  PROVE  /\ Cardinality(S) \in Nat
         /\ Cardinality(S \ {s}) = Cardinality(S) - 1
<1>1. IsFiniteSet(S)
  BY FiniteCallbacks, FS_Subset
<1> QED
  BY <1>1, FS_CardinalityType, FS_RemoveElement

LEMMA NoticeStep == DriverInv /\ [Next]_vars => NoticeCounted'
<1> SUFFICES ASSUME DriverInv, [Next]_vars PROVE NoticeCounted'
  OBVIOUS
<1>t. calls \in 0 .. MaxInits /\ hpc \in [Subs -> {"idle", "in_list", "callback"}]
  BY DEF DriverInv, TypeOK
<1>1. CASE NoticeSent
  <2>1. /\ notice = "not_sent" /\ notice' # "not_sent" /\ calls = 0
        /\ pending' = {s \in subs : s[2] = "broadcast"}
        /\ UNCHANGED <<calls, subs, subscribeFailed>>
    BY <1>1 DEF NoticeSent, DriverInv, NoticeCounted, initVars
  <2>2. pending' \subseteq Callbacks
    BY <2>1, CallbacksAre DEF DriverInv, TypeOK
  <2>3. Cardinality(pending') <= MaxInits /\ Cardinality(pending') \in Nat
    <3>1. IsFiniteSet(pending') /\ Cardinality(pending') <= Cardinality(Callbacks)
      BY <2>2, FiniteCallbacks, FS_Subset
    <3>2. Cardinality(pending') \in Nat /\ Cardinality(Callbacks) \in Nat
      BY <3>1, FiniteCallbacks, FS_CardinalityType
    <3> QED
      BY <3>1, <3>2, FiniteCallbacks, DriverAssumption
  <2> QED
    BY <2>1, <2>2, <2>3 DEF NoticeCounted
<1>2. ASSUME NEW s \in Subs, HandlesNotice(s) \/ DropsNotice(s) PROVE NoticeCounted'
  <2>1. /\ s \in pending /\ pending' = pending \ {s}
        /\ calls' \in {calls, calls + 1}
        /\ UNCHANGED <<notice, subs, subscribeFailed, inits>>
    BY <1>2 DEF HandlesNotice, DropsNotice, initVars
  <2>2. pending \subseteq Callbacks /\ pending \subseteq subs
    BY DEF DriverInv, TypeOK, NoticeCounted
  <2>3. calls' + Cardinality(pending') <= MaxInits
    <3>1. /\ Cardinality(pending) \in Nat
          /\ Cardinality(pending') = Cardinality(pending) - 1
      BY <2>1, <2>2, CountDown
    <3> QED
      BY <1>t, <2>1, <3>1, DriverAssumption DEF DriverInv, NoticeCounted
  <2>4. ~ subscribeFailed => pending' = {} /\ calls = 0
    <3>1. ~ subscribeFailed => \A r \in pending : r = <<inits, "broadcast">>
      BY <2>2, CallbacksAre DEF DriverInv, OneGeneration, Callbacks
    <3> QED
      BY <2>1, <3>1 DEF DriverInv, NoticeCounted
  <2>5. notice' # "not_sent"
    BY <2>1 DEF DriverInv, NoticeCounted
  <2> QED
    BY <1>t, <2>1, <2>2, <2>3, <2>4, <2>5 DEF NoticeCounted
<1>3. CASE UNCHANGED <<notice, pending, calls>> /\ (subscribeFailed => subscribeFailed')
  BY <1>3 DEF DriverInv, NoticeCounted
<1>4. CASE CallInit \/ InitStep
  <2>1. UNCHANGED noticeVars /\ (subscribeFailed => subscribeFailed')
    BY <1>4, InitFrame, InitStepEffect DEF CallInit, InitEffect
  <2> QED
    BY <1>3, <2>1 DEF noticeVars
<1>5. ASSUME NEW t \in Readers, CallsGetter(t) \/ GetterStep(t) PROVE NoticeCounted'
  BY <1>3, <1>5 DEF CallsGetter, GetterStep, noticeVars, initVars
<1>6. ASSUME NEW s \in Subs, FindsInList(s) \/ FoundInList(s) \/ CallbackReturns(s)
      PROVE  NoticeCounted'
  BY <1>3, <1>6 DEF FindsInList, FoundInList, CallbackReturns, noticeVars, initVars
<1>7. CASE SetHandle
  BY <1>3, <1>7 DEF SetHandle, initVars
<1>8. CASE UNCHANGED vars
  BY <1>3, <1>8 DEF vars, noticeVars, initVars
<1> QED
  BY <1>1, <1>2, <1>4, <1>5, <1>6, <1>7, <1>8, Cases DEF OtherStep, HandlerStep

-----------------------------------------------------------------------------
(* The invariant is kept: the configuration.                               *)

\* A thread in a getter leaves a configuration alone that everybody has seen.
LEMMA GetterEffect ==
  ASSUME DriverInv, NEW t \in Readers, CallsGetter(t) \/ GetterStep(t)
  PROVE  /\ ConfigTypeOK'
         /\ Settled => Settled' /\ UNCHANGED driver_config_json
         /\ UNCHANGED <<initVars, handlerVars, noticeVars>>
<1>0. UNCHANGED <<initVars, handlerVars, noticeVars>>
  BY DEF CallsGetter, GetterStep
<1>t. ConfigTypeOK
  BY DEF DriverInv, TypeOK
<1>1. CASE CallsGetter(t)
  <2>1. /\ gpc' = [gpc EXCEPT ![t] = "asked"]
        /\ UNCHANGED <<driver_config_json, driver_info>>
    BY <1>1 DEF CallsGetter, GetterCalled, Goto
  <2> QED
    BY <1>0, <1>t, <2>1 DEF ConfigTypeOK, Settled, Parsing
<1>2. CASE ChecksConfig(t)
  <2>1. /\ UNCHANGED <<driver_config_json, driver_info>>
        /\ \E l \in {"reading", "loaded", "rereading", "reloaded"} :
             /\ gpc' = [gpc EXCEPT ![t] = l]
             /\ driver_config_json # NoConfig => l \in {"loaded", "reloaded"}
    BY <1>2 DEF ChecksConfig, Goto
  <2> QED
    BY <1>0, <1>t, <2>1 DEF ConfigTypeOK, Settled, Parsing
<1>3. CASE ReadsFile(t)
  <2>1. /\ Parsing(t) /\ UNCHANGED driver_info
        /\ driver_config_json' \in {NoConfig, driver_config_json} \union Contents
        /\ \E l \in {"failed", "loaded", "reloaded"} : gpc' = [gpc EXCEPT ![t] = l]
    BY <1>3 DEF ReadsFile, Goto
  <2>2. ~ Settled
    BY <2>1 DEF Settled
  <2> QED
    BY <1>0, <1>t, <2>1, <2>2 DEF ConfigTypeOK
<1>4. CASE TestsConfig(t)
  <2>1. /\ UNCHANGED <<driver_config_json, driver_info>>
        /\ \E l \in {"failed", "lookup"} : gpc' = [gpc EXCEPT ![t] = l]
    BY <1>4 DEF TestsConfig, Goto
  <2> QED
    BY <1>0, <1>t, <2>1 DEF ConfigTypeOK, Settled, Parsing
<1>5. CASE GetterReturns(t)
  <2>1. /\ UNCHANGED driver_config_json /\ driver_info' \in BOOLEAN
        /\ gpc' = [gpc EXCEPT ![t] = "idle"]
    BY <1>5, <1>t DEF GetterReturns, Goto, ConfigTypeOK
  <2> QED
    BY <1>0, <1>t, <2>1 DEF ConfigTypeOK, Settled, Parsing
<1> QED
  BY <1>1, <1>2, <1>3, <1>4, <1>5 DEF GetterStep, ConfigStep

\* The threads in a getter while edge_common_init goes on.
LEMMA InitGetters ==
  ASSUME DriverInv, InitStep
  PROVE  ConfigTypeOK' /\ (Settled => Settled')
<1>1. \E l \in {"asked", "lookup", "idle"} : gpc' \in {gpc, [gpc EXCEPT ![App] = l]}
  BY DEF InitStep, CreateList, CreateMutex, Connect, ConfigKnown, ConfigParsed,
     Subscribe, StartTimer, Goto, configVars
<1> QED
  BY <1>1, InitFrame, CallbacksAre DEF DriverInv, TypeOK, ConfigTypeOK, Settled, Parsing

\* Only a getter or edge_common_init, which leaves it alone, comes near the
\* configuration.
LEMMA SettledStep ==
  DriverInv /\ [Next]_vars => (Settled => Settled' /\ UNCHANGED driver_config_json)
<1> SUFFICES ASSUME DriverInv, [Next]_vars, Settled
             PROVE  Settled' /\ UNCHANGED driver_config_json
  OBVIOUS
<1>1. CASE InitStep
  BY <1>1, InitFrame, InitGetters
<1>2. ASSUME NEW t \in Readers, CallsGetter(t) \/ GetterStep(t)
      PROVE  Settled' /\ UNCHANGED driver_config_json
  BY <1>2, GetterEffect
<1>3. CASE UNCHANGED configVars
  BY <1>3 DEF configVars, Settled, Parsing
<1> QED
  BY <1>1, <1>2, <1>3, Cases
  DEF CallInit, OtherStep, FindsInList, HandlerStep, FoundInList, HandlesNotice,
      DropsNotice, CallbackReturns, SetHandle, NoticeSent, vars

\* edge_common_init finds the driver's name in the configuration there is.
LEMMA NameStep ==
  ASSUME DriverInv, [Next]_vars, "driverName" \in identified'
  PROVE  "driverName" \in identified \union driver_config_json
<1>1. CASE InitStep
  BY <1>1, InitStepEffect DEF InitEffect
<1>2. CASE UNCHANGED identified
  BY <1>2
<1> QED
  BY <1>1, <1>2, OtherFrame, Cases DEF CallInit, vars, initVars

-----------------------------------------------------------------------------
(* The invariant is kept: types.                                           *)

LEMMA InitTypes ==
  ASSUME DriverInv, CallInit \/ InitStep
  PROVE  /\ inits' \in 0 .. MaxInits /\ ipc' \in 0 .. Len(Steps)
         /\ result' \in Results \union {"none"}
         /\ glob' \in [Globals -> 0 .. MaxInits]
         /\ identified' \subseteq Identifiers
         /\ subs \subseteq subs' /\ subs' \subseteq Subs
         /\ subscribeFailed' \in BOOLEAN
         /\ UNCHANGED <<handlerVars, noticeVars>>
<1>t. TypeOK
  BY DEF DriverInv
<1>1. CASE CallInit
  <2>1. inits' \in 0 .. MaxInits
    BY <1>1, <1>t, DriverAssumption DEF CallInit, TypeOK
  <2>2. /\ ipc' = 1 /\ result' = "none"
        /\ UNCHANGED <<glob, identified, subs, subscribeFailed, handlerVars, noticeVars>>
    BY <1>1 DEF CallInit
  <2> QED
    BY <1>t, <2>1, <2>2, StepAt DEF TypeOK
<1>2. CASE InitStep
  <2>1. /\ ipc \in 1 .. 11 /\ result = "none" /\ inits' = inits
        /\ UNCHANGED <<handlerVars, noticeVars>>
        /\ InitEffect
    BY <1>2, InitFrame, InitStepEffect
  <2>2. inits \in 0 .. MaxInits /\ inits \in Inits /\ 0 \in 0 .. MaxInits
    <3>1. inits # 0
      BY <2>1 DEF DriverInv, InitKeepsOrder
    <3> QED
      BY <1>t, <3>1, DriverAssumption DEF TypeOK, Inits
  <2>3. ipc' \in 0 .. Len(Steps) /\ result' \in Results \union {"none"}
    <3>1. CASE Proceed
      BY <2>1, <3>1, StepAt DEF Proceed, Results
    <3>2. CASE (ipc' \in 1 .. 11 /\ UNCHANGED result) \/ Fails
      BY <2>1, <3>2, StepAt DEF Fails
    <3> QED
      BY <2>1, <3>1, <3>2 DEF InitEffect
  <2>4. subs \subseteq subs' /\ subs' \subseteq Subs
    <3>1. Subscribing => <<inits, Steps[ipc]>> \in Subs
      BY <2>2 DEF Subscribing, Subs
    <3> QED
      BY <1>t, <2>1, <3>1 DEF InitEffect, TypeOK
  <2>5. glob' \in [Globals -> 0 .. MaxInits]
    BY <1>2, <1>t, <2>2
    DEF InitStep, CreateList, CreateMutex, Connect, ConfigKnown, ConfigParsed,
        Subscribe, StartTimer, TypeOK
  <2>6. identified' \subseteq Identifiers
    BY <1>t, <2>1 DEF InitEffect, TypeOK
  <2>7. subscribeFailed' \in BOOLEAN
    BY <1>2, <1>t
    DEF InitStep, CreateList, CreateMutex, Connect, ConfigKnown, ConfigParsed,
        Subscribe, StartTimer, TypeOK
  <2> QED
    BY <2>1, <2>2, <2>3, <2>4, <2>5, <2>6, <2>7
<1> QED
  BY <1>1, <1>2

LEMMA DriverTypeStep == DriverInv /\ [Next]_vars => TypeOK'
<1> SUFFICES ASSUME DriverInv, [Next]_vars PROVE TypeOK'
  OBVIOUS
<1>t. TypeOK
  BY DEF DriverInv
<1>c. calls' \in Nat => calls' \in 0 .. MaxInits
  <2>1. NoticeCounted'
    BY NoticeStep
  <2>2. Cardinality(pending') \in Nat
    BY <2>1, FiniteCallbacks, FS_Subset, FS_CardinalityType DEF NoticeCounted
  <2> QED
    BY <2>1, <2>2, DriverAssumption DEF NoticeCounted
<1>1. CASE CallInit \/ InitStep
  <2>1. ConfigTypeOK'
    BY <1>1, <1>t, InitGetters DEF CallInit, TypeOK, ConfigTypeOK, configVars
  <2> QED
    BY <1>1, <1>t, <2>1, InitTypes DEF TypeOK, handlerVars, noticeVars
<1>2. ASSUME NEW t \in Readers, CallsGetter(t) \/ GetterStep(t) PROVE TypeOK'
  <2>1. ConfigTypeOK' /\ UNCHANGED <<initVars, handlerVars, noticeVars>>
    BY <1>2, GetterEffect
  <2> QED
    BY <1>t, <2>1 DEF TypeOK, initVars, handlerVars, noticeVars
<1>3. ASSUME NEW s \in Subs, FindsInList(s) \/ HandlerStep(s) PROVE TypeOK'
  <2>0. UNCHANGED <<configVars, initVars, topo_handle, notice>>
    BY <1>3 DEF FindsInList, HandlerStep, FoundInList, HandlesNotice, DropsNotice,
                CallbackReturns, noticeVars
  <2>1. /\ hpc' \in [Subs -> {"idle", "in_list", "callback"}]
        /\ using' \in [Subs -> (0 .. MaxInits) \X (0 .. MaxInits)]
    <3>1. Idle \in (0 .. MaxInits) \X (0 .. MaxInits)
      BY DriverAssumption DEF Idle
    <3>2. Uses(s) \in (0 .. MaxInits) \X (0 .. MaxInits)
      BY <1>t DEF Uses, TypeOK, Globals, Lists, Mutexes
    <3>3. CASE FindsInList(s)
      BY <1>t, <3>2, <3>3 DEF FindsInList, TypeOK
    <3>4. CASE FoundInList(s)
      BY <1>t, <3>1, <3>4 DEF FoundInList, TypeOK
    <3>5. CASE HandlesNotice(s) \/ DropsNotice(s) \/ CallbackReturns(s)
      BY <1>t, <3>5 DEF HandlesNotice, DropsNotice, CallbackReturns, TypeOK, handlerVars
    <3> QED
      BY <1>3, <3>3, <3>4, <3>5 DEF HandlerStep
  <2>2. \A r \in Subs : hpc'[r] \in {"idle", "callback"} => using'[r] = Idle
    BY <1>3, <1>t DEF FindsInList, HandlerStep, FoundInList, HandlesNotice,
                      DropsNotice, CallbackReturns, TypeOK, handlerVars
  <2>3. pending' \subseteq subs /\ calls' \in Nat /\ lost' \in BOOLEAN
    <3>1. /\ pending' \in {pending, pending \ {s}} /\ calls' \in {calls, calls + 1}
          /\ lost' = lost \/ lost' = TRUE
      BY <1>3
      DEF FindsInList, HandlerStep, FoundInList, HandlesNotice, DropsNotice,
          CallbackReturns, noticeVars
    <3> QED
      <4>1. calls \in Nat /\ pending \subseteq subs /\ lost \in BOOLEAN
        BY <1>t DEF TypeOK
      <4>2. calls' \in Nat
        BY <3>1, <4>1
      <4>3. pending' \subseteq subs
        BY <3>1, <4>1
      <4>4. lost' \in BOOLEAN
        BY <3>1, <4>1, Zenon
      <4> QED
        BY <4>2, <4>3, <4>4
  <2>4. ConfigTypeOK'
    BY <1>t, <2>0 DEF TypeOK, ConfigTypeOK, configVars
  <2> QED
    BY <1>t, <1>c, <2>0, <2>1, <2>2, <2>3, <2>4 DEF TypeOK, initVars
<1>4. CASE SetHandle \/ NoticeSent \/ UNCHANGED vars
  <2>1. /\ UNCHANGED <<configVars, initVars, handlerVars, calls, lost>>
        /\ topo_handle' \in BOOLEAN /\ notice' \in {"not_sent", "sent", "due"}
        /\ pending' \subseteq subs
    BY <1>4, <1>t DEF SetHandle, NoticeSent, vars, noticeVars, TypeOK
  <2>2. ConfigTypeOK'
    BY <1>t, <2>1 DEF TypeOK, ConfigTypeOK, configVars
  <2> QED
    BY <1>t, <2>1, <2>2 DEF TypeOK, initVars, handlerVars
<1> QED
  BY <1>1, <1>2, <1>3, <1>4, Cases DEF OtherStep

-----------------------------------------------------------------------------
(* The theorems.                                                           *)

LEMMA DriverInvariant == Spec => []DriverInv
<1>1. DriverInv /\ [Next]_vars => DriverInv'
  BY DriverTypeStep, OrderStep, GenerationStep, NoticeStep DEF DriverInv
<1> QED
  BY <1>1, InvInit, PTL DEF Spec

\* The variables of edge_common_init, of the getters and of the handlers keep
\* their types: no global is of a call yet to come, and the callback is not
\* called more often than there are subscriptions.
THEOREM DriverTypes == Spec => []TypeOK
<1>1. DriverInv => TypeOK
  BY DEF DriverInv
<1> QED
  BY <1>1, DriverInvariant, PTL

\* However often edge_common_init failed before and wherever, a handler that looks
\* something up holds a list and a mutex that exist and that one call created,
\* unless a subscription failed.
THEOREM DriverHandlersFind == Spec => []HandlersFindTheirLists
<1>1. DriverInv => HandlersFindTheirLists
  BY DEF DriverInv, OneGeneration, HandlersFindTheirLists
<1> QED
  BY <1>1, DriverInvariant, PTL

\* edge_common_init returns EDGE_OK only when all its lists, mutexes, connection,
\* identifiers and subscriptions are there, each of this call.
THEOREM DriverOkIsReady == Spec => []OkMeansReady
<1>1. DriverInv => OkMeansReady
  <2> SUFFICES ASSUME DriverInv, result = "OK"
               PROVE  /\ \A v \in Globals : glob[v] = inits
                      /\ identified = Identifiers
                      /\ \A s \in Subjects : <<inits, s>> \in subs
    BY DEF OkMeansReady
  <2>1. \A j \in 1 .. 11 :
          /\ Steps[j] \in Globals => glob[Steps[j]] = inits
          /\ Steps[j] \in Identifiers => Steps[j] \in identified
          /\ Steps[j] \in Subjects => <<inits, Steps[j]>> \in subs
    BY StepAt DEF DriverInv, InitKeepsOrder, Done
  <2>2. \A v \in Globals : glob[v] = inits
    BY <2>1, AllSteps
  <2>3. identified = Identifiers
    <3>1. \A k \in Identifiers : \E j \in 1 .. 11 : Steps[j] = k
      BY AllSteps
    <3>2. \A k \in Identifiers : k \in identified
      BY <2>1, <3>1
    <3>3. identified \subseteq Identifiers
      BY DEF DriverInv, TypeOK
    <3> QED
      BY <3>2, <3>3
  <2>4. \A s \in Subjects : <<inits, s>> \in subs
    BY <2>1, AllSteps
  <2> QED
    BY <2>2, <2>3, <2>4
<1> QED
  BY <1>1, DriverInvariant, PTL

\* Whatever failed before edge_common_init succeeded, a notification is passed to
\* the callback once at most, unless a subscription failed.
THEOREM DriverNoticeOnce == Spec => []NoticeHandledOnce
<1>1. DriverInv => NoticeHandledOnce
  BY DEF DriverInv, NoticeCounted, NoticeHandledOnce
<1> QED
  BY <1>1, DriverInvariant, PTL

\* driver_config_json, which nothing locks, is never assigned again once it is set
\* and the threads that had found it NULL are done, whichever threads call getters.
THEOREM DriverConfigKept == Spec => ConfigIsKept
<1>1. DriverInv /\ [Next]_vars =>
        [Settled => Settled' /\ UNCHANGED driver_config_json]_vars
  BY SettledStep
<1> QED
  BY <1>1, DriverInvariant, PTL DEF Spec, ConfigIsKept

\* After a configuration without the driver's name has been parsed and has
\* settled, no call of edge_common_init ever succeeds.
THEOREM DriverIncompleteForEver == Spec => IncompleteForEver
<1>1. DriverInv /\ DriverInv' /\ [Next]_vars =>
        [Incomplete => Incomplete' /\ result' # "OK"]_vars
  <2> SUFFICES ASSUME DriverInv, DriverInv', [Next]_vars, Incomplete
               PROVE  Incomplete' /\ result' # "OK"
    OBVIOUS
  <2>1. Settled' /\ UNCHANGED driver_config_json
    BY SettledStep DEF Incomplete
  <2>2. "driverName" \notin identified'
    BY NameStep DEF Incomplete
  <2>3. result' # "OK"
    <3>1. result' = "OK" => \A j \in 1 .. 11 : Steps[j] \in Identifiers => Steps[j] \in identified'
      BY StepAt DEF DriverInv, InitKeepsOrder, Done
    <3>2. Steps[7] = "driverName" /\ "driverName" \in Identifiers
      BY StepAt DEF Identifiers
    <3> QED
      BY <2>2, <3>1, <3>2
  <2> QED
    BY <2>1, <2>2, <2>3 DEF Incomplete
<1>2. DriverInv /\ [Next]_vars => DriverInv'
  BY DriverTypeStep, OrderStep, GenerationStep, NoticeStep DEF DriverInv
<1> QED
  BY <1>1, <1>2, DriverInvariant, PTL DEF Spec, IncompleteForEver

=============================================================================
