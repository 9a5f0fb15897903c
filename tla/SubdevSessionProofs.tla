------------------------- MODULE SubdevSessionProofs -------------------------
(***************************************************************************)
(* Proofs about SubdevSession, for any handles, threads and list lengths.  *)
(***************************************************************************)
EXTENDS SubdevSession, SequenceLemmas

\* A thread that sends has begun a login or a logout, one that waits a
\* synchronous call, and no two threads are in calls on the same handle.
CallsApart ==
  /\ \A t \in AllThreads :
       /\ pc[t] = "idle" <=> op[t] = "none"
       /\ pc[t] = "sent" => op[t] \in Logins \union Logouts
       /\ pc[t] = "waiting" => op[t] \in {"login_sync", "logout_sync", "auth"}
       /\ pc[t] # "idle" => cmem[cl[t]] # "unused"
  /\ \A t, u \in AllThreads : cl[t] = cl[u] /\ cl[t] # NoClient => t = u

LocalHasHandle == lpc # "idle" => lnode \in Clients /\ lmsg \in Clients

TypeInv == TypeOK /\ CallsApart /\ LocalHasHandle

\* The edge has heard of every listed handle, and of the login under way.
HeardFirst ==
  /\ \A t \in AllThreads : op[t] \in Logins => heard[cl[t]] = "login"
  /\ \A c \in Listed : heard[c] # "none"
  /\ lpc # "idle" => heard[lnode] # "none" /\ <<lmsg, lnode>> \in PrefixOf

\* A login of c that has gone past the list.
InLogin(c) ==
  \E t \in AllThreads : cl[t] = c /\ pc[t] = "waiting" /\ op[t] = "login_sync"

\* A logout of c that has, and one that has not.
InLogout(c) ==
  \E t \in AllThreads : cl[t] = c /\ pc[t] = "waiting" /\ op[t] = "logout_sync"
BeginsLogout(c) ==
  \E t \in AllThreads : cl[t] = c /\ pc[t] = "sent" /\ op[t] \in Logouts

\* A handle is listed once: when its login gets to the list it is neither listed
\* nor freed, since only listed handles are freed.
ListedOnce ==
  /\ NoRepeats(conn_device_list)
  /\ \A c \in Listed : cmem[c] = "live"
  /\ \A t \in AllThreads : pc[t] = "sent" /\ op[t] \in Logins => use[cl[t]] = "new"
  /\ \A c \in Clients :
       use[c] = "new" /\ ~ InLogin(c) => c \notin Listed /\ cmem[c] # "freed"

\* A handle is freed by its own logout only, and no call is made on it then.
FreedByOwner ==
  /\ \A c \in Clients : cmem[c] = "freed" => use[c] = "done" \/ InLogout(c)
  /\ \A t \in AllThreads : pc[t] # "idle" => use[cl[t]] # "done"

\* How far a handle has got shows in the list, in nats_online and in what the
\* edge has heard.
Agrees(c) ==
  /\ c \in Listed =>
       \/ heard[c] = "login"
       \/ /\ heard[c] = "logout" /\ nats_online[c]
          /\ result[c] \in Early \/ BeginsLogout(c)
  /\ InLogin(c) => c \in Listed
  /\ InLogout(c) => c \notin Listed
  /\ use[c] = "logged_in" /\ result[c] = "OK" =>
       (nats_online[c] /\ c \in Listed) \/ InLogout(c)

StatesAgree == \A c \in Clients : Agrees(c)

\* A step of a call of t on c leaves other threads and handles alone.
CallOf(t, c) ==
  /\ \A u \in AllThreads : u # t =>
       /\ pc'[u] = pc[u] /\ cl'[u] = cl[u] /\ op'[u] = op[u]
       /\ cl[u] # c
  /\ cl[t] \in {c, NoClient} /\ cl'[t] \in {c, NoClient}
  /\ \A d \in Clients \ {c} :
       /\ use'[d] = use[d] /\ result'[d] = result[d]
       /\ nats_online'[d] = nats_online[d] /\ heard'[d] = heard[d]

-----------------------------------------------------------------------------
(* Type correctness, and that calls are apart.                             *)

LEMMA TypeInit == Init => TypeInv
<1> SUFFICES ASSUME Init PROVE TypeInv
  OBVIOUS
<1>1. Len(<<>>) = 0 /\ <<>> \in Seq(Clients) /\ 0 <= MaxListed
  BY SubdevSessionAssumption
<1>2. TypeOK
  BY <1>1 DEF Init, TypeOK
<1>3. CallsApart /\ LocalHasHandle
  BY DEF Init, CallsApart, LocalHasHandle
<1> QED
  BY <1>2, <1>3 DEF TypeInv

LEMMA TypeStep == TypeInv /\ [Next]_vars => TypeInv'
<1> SUFFICES ASSUME TypeInv, [Next]_vars PROVE TypeInv'
  OBVIOUS
<1> USE DEF TypeInv, TypeOK, CallsApart, LocalHasHandle
<1>r. ASSUME NEW t \in AllThreads, NEW c \in Clients, NEW o \in Ops,
             NEW s \in Results, Return(t, c, o, s),
             \A d \in Clients : cmem[d] # "unused" => cmem'[d] # "unused"
      PROVE  /\ pc' \in [AllThreads -> {"idle", "sent", "waiting"}]
             /\ cl' \in [AllThreads -> Clients \union {NoClient}]
             /\ op' \in [AllThreads -> Ops \union {"none"}]
             /\ use' \in [Clients -> {"new", "logged_in", "done"}]
             /\ result' \in [Clients -> Results \union {"none"}]
             /\ \A u \in AllThreads : pc'[u] = "idle" <=> cl'[u] = NoClient
             /\ CallsApart'
  <2>1. UseAfter(o, s, use[c]) \in {"new", "logged_in", "done"}
    BY DEF UseAfter
  <2>2. /\ pc' \in [AllThreads -> {"idle", "sent", "waiting"}]
        /\ cl' \in [AllThreads -> Clients \union {NoClient}]
        /\ op' \in [AllThreads -> Ops \union {"none"}]
        /\ use' \in [Clients -> {"new", "logged_in", "done"}]
        /\ result' \in [Clients -> Results \union {"none"}]
        /\ pc'[t] = "idle" /\ cl'[t] = NoClient /\ op'[t] = "none"
        /\ \A u \in AllThreads : u # t =>
             pc'[u] = pc[u] /\ cl'[u] = cl[u] /\ op'[u] = op[u]
    BY <1>r, <2>1 DEF Return
  <2>3. \A u \in AllThreads : pc'[u] = "idle" <=> cl'[u] = NoClient
    BY <2>2
  <2>4. \A u \in AllThreads : pc'[u] # "idle" => u # t /\ cl[u] \in Clients
    BY <2>2, SubdevSessionAssumption
  <2>5. \A u \in AllThreads :
          /\ pc'[u] = "idle" <=> op'[u] = "none"
          /\ pc'[u] = "sent" => op'[u] \in Logins \union Logouts
          /\ pc'[u] = "waiting" => op'[u] \in {"login_sync", "logout_sync", "auth"}
          /\ pc'[u] # "idle" => cmem'[cl'[u]] # "unused"
    BY <1>r, <2>2, <2>4
  <2>6. \A u, v \in AllThreads : cl'[u] = cl'[v] /\ cl'[u] # NoClient => u = v
    BY <2>2
  <2> QED
    BY <2>2, <2>3, <2>5, <2>6
<1>1. ASSUME NEW c \in Clients, Construct(c) PROVE TypeInv'
  BY <1>1, SubdevSessionAssumption DEF Construct, listVars, callVars, localVars, timerVars
<1>2. ASSUME NEW t \in AllThreads, NEW c \in Clients, NEW o \in Ops, LogoutOffline(t, c, o)
      PROVE  TypeInv'
  <2>1. Return(t, c, o, "OK") /\ "OK" \in Results /\ stale' \subseteq Clients
    BY <1>2 DEF Access, LogoutOffline, Results
  <2> QED
    BY <1>2, SubdevSessionAssumption, <2>1, <1>r
    DEF LogoutOffline, handleVars, listVars, localVars, timerVars
<1>c. ASSUME NEW c \in Clients, NEW o \in Ops
      PROVE  Heard(c, o) \in [Clients -> {"none", "login", "logout"}]
  BY DEF Heard
<1>3. ASSUME NEW t \in AllThreads, NEW c \in Clients, NEW o \in Ops, Send(t, c, o)
      PROVE  TypeInv'
  <2>1. /\ heard' \in [Clients -> {"none", "login", "logout"}]
        /\ stale' \subseteq Clients
    BY <1>3, <1>c DEF Access, Send
  <2>2. /\ pc' = [pc EXCEPT ![t] = IF o = "auth" THEN "waiting" ELSE "sent"]
        /\ cl' = [cl EXCEPT ![t] = c]
        /\ op' = [op EXCEPT ![t] = o]
        /\ cmem[c] # "unused" /\ ~ InCall(c) /\ pc[t] = "idle"
        /\ UNCHANGED cmem
    BY <1>3 DEF Send, MayCall, handleVars
  <2>3. CallsApart'
    BY SubdevSessionAssumption, <2>2 DEF InCall, Ops, Logins, Logouts
  <2> QED
    BY <1>3, SubdevSessionAssumption, <2>1, <2>2, <2>3
    DEF Send, handleVars, listVars, localVars, timerVars
<1>4. ASSUME NEW t \in AllThreads, NEW c \in Clients, NEW o \in Ops, SendFails(t, c, o)
      PROVE  TypeInv'
  <2>1. PICK s \in {"NO_MEMORY", "PUBLISH"} : Return(t, c, o, s)
    BY <1>4 DEF SendFails
  <2>2. s \in Results /\ stale' \subseteq Clients
    BY <1>4, <2>1 DEF Access, SendFails, Results, Early
  <2>3. heard' \in [Clients -> {"none", "login", "logout"}]
    BY <1>4, <1>c DEF SendFails
  <2> QED
    BY <1>4, SubdevSessionAssumption, <2>1, <2>2, <2>3, <1>r
    DEF SendFails, handleVars, listVars, localVars, timerVars
<1>d. ASSUME NEW t \in AllThreads, pc[t] # "idle"
      PROVE  cl[t] \in Clients /\ op[t] \in Ops
  BY <1>d, SubdevSessionAssumption
<1>5. ASSUME NEW t \in AllThreads, List(t) PROVE TypeInv'
  <2>1. cl[t] \in Clients /\ op[t] \in Logins /\ op[t] \in Ops /\ pc[t] = "sent"
    BY <1>5, <1>d DEF List
  <2>2. conn_device_list' \in Seq(Clients) /\ Len(conn_device_list') <= MaxListed
    <3>1. conn_device_list' \in {conn_device_list, Append(conn_device_list, cl[t])}
      BY <1>5 DEF List
    <3>2. /\ Append(conn_device_list, cl[t]) \in Seq(Clients)
          /\ Len(Append(conn_device_list, cl[t])) = Len(conn_device_list) + 1
      BY <2>1, AppendProperties
    <3> QED
      BY <1>5, <3>1, <3>2, SubdevSessionAssumption DEF List
  <2>3. CASE op[t] = "login_sync"
    BY <1>5, SubdevSessionAssumption, <2>1, <2>2, <2>3 DEF List, localVars, timerVars
  <2>4. CASE op[t] # "login_sync"
    <3>1. PICK s \in {"OK", "ERR"} : Return(t, cl[t], op[t], s)
      BY <1>5, <2>4 DEF List
    <3>2. s \in Results /\ stale' \subseteq Clients
      BY <1>5, <2>1, <2>4 DEF Access, List, Results
    <3>3 nats_online' \in [Clients -> BOOLEAN]
      <4>1. nats_online' = [nats_online EXCEPT ![cl[t]] = TRUE]
        BY <1>5, <2>4, Zenon DEF List
      <4> QED
        BY <4>1, Zenon DEF TypeInv, TypeOK
    <3> QED
      BY <1>5, SubdevSessionAssumption, <2>1, <2>2, <3>1, <3>2, <3>3, <1>r
      DEF List, localVars, timerVars
  <2> QED
    BY <2>3, <2>4
<1>6. ASSUME NEW t \in AllThreads, Unlist(t) PROVE TypeInv'
  <2>1. cl[t] \in Clients /\ op[t] \in Logouts /\ op[t] \in Ops /\ pc[t] = "sent"
    BY <1>6, <1>d DEF Unlist
  <2>2. /\ conn_device_list' \in Seq(Clients) /\ Len(conn_device_list') <= MaxListed
        /\ cmem' \in [Clients -> {"unused", "live", "freed"}]
        /\ \A c \in Clients : cmem[c] # "unused" => cmem'[c] # "unused"
    <3>1. CASE UNCHANGED <<conn_device_list, cmem>>
      BY <3>1
    <3>2. ASSUME NEW i \in 1 .. Len(conn_device_list),
                 conn_device_list' = RemoveAt(conn_device_list, i),
                 cmem' = [cmem EXCEPT ![conn_device_list[i]] = "freed"]
          PROVE  /\ conn_device_list' \in Seq(Clients) /\ Len(conn_device_list') <= MaxListed
                 /\ cmem' \in [Clients -> {"unused", "live", "freed"}]
                 /\ \A c \in Clients : cmem[c] # "unused" => cmem'[c] # "unused"
      <4>1. /\ RemoveAt(conn_device_list, i) \in Seq(Clients)
            /\ Len(RemoveAt(conn_device_list, i)) = Len(conn_device_list) - 1
        BY RemoveAtProperties
      <4> QED
        BY <3>2, <4>1, SubdevSessionAssumption
    <3> QED
      BY <1>6, <3>1, <3>2 DEF Unlist
  <2>3. stale' \subseteq Clients
    <3>1. {cl[t]} \union Scanned(cl[t]) \subseteq Clients
      BY <2>1 DEF Scanned
    <3> QED
      BY <1>6, <3>1 DEF Access, Unlist
  <2>4. PICK s \in {"OK", "ERR"} : AfterUnlist(t, s)
    BY <1>6 DEF Unlist
  <2>5. CASE op[t] = "logout_sync"
    BY <1>6, SubdevSessionAssumption, <2>1, <2>2, <2>3, <2>4, <2>5 DEF AfterUnlist, Unlist, localVars, timerVars
  <2>6. CASE op[t] # "logout_sync"
    <3>1. Return(t, cl[t], op[t], s) /\ s \in Results
      BY <2>4, <2>6 DEF AfterUnlist, Results
    <3>2 nats_online' \in [Clients -> BOOLEAN]
      <4>1. nats_online' = [nats_online EXCEPT ![cl[t]] = FALSE]
        BY <2>4, <2>6, Zenon DEF AfterUnlist
      <4> QED
        BY <4>1, Zenon DEF TypeInv, TypeOK
    <3> QED
      BY <1>6, SubdevSessionAssumption, <2>1, <2>2, <2>3, <3>1, <3>2, <1>r
      DEF Unlist, localVars, timerVars
  <2> QED
    BY <2>5, <2>6
<1>7. ASSUME NEW t \in AllThreads, NEW s \in Results \ Early, WaitEnds(t, s)
      PROVE  TypeInv'
  <2>1. cl[t] \in Clients /\ op[t] \in Ops /\ Return(t, cl[t], op[t], s)
    BY <1>7, <1>d DEF WaitEnds
  <2>2. stale' \subseteq Clients
    BY <1>7, <2>1 DEF Access, WaitEnds
  <2>3. nats_online' \in [Clients -> BOOLEAN]
    BY <1>7 DEF WaitEnds
  <2> QED
    BY <1>7, SubdevSessionAssumption, <2>1, <2>2, <2>3, <1>r
    DEF WaitEnds, listVars, localVars, timerVars
<1>8. ASSUME NEW c \in Clients, NEW i \in 1 .. Len(conn_device_list), LocalFinds(c, i)
      PROVE  TypeInv'
  <2>1. conn_device_list[i] \in Clients /\ Scanned(c) \subseteq Clients
    BY DEF Scanned
  <2>2. stale' \subseteq Clients
    BY <1>8, <2>1 DEF Access, LocalFinds
  <2> QED
    BY <1>8, <2>1, <2>2 DEF LocalFinds, handleVars, listVars, callVars, timerVars
<1>9. ASSUME LocalCallsBack PROVE TypeInv'
  <2>1. stale' \subseteq Clients
    BY <1>9 DEF Access, LocalCallsBack
  <2> QED
    BY <1>9, <2>1 DEF LocalCallsBack, handleVars, listVars, callVars, timerVars
<1>10. ASSUME LocalCallbackReturns PROVE TypeInv'
  BY <1>10, SubdevSessionAssumption DEF LocalCallbackReturns, handleVars, listVars, callVars, timerVars
<1>11. ASSUME SyncReads PROVE TypeInv'
  <2>1. Listed \subseteq Clients
    BY ListedAt DEF Listed
  <2>2. stale' \subseteq Clients
    BY <1>11, <2>1 DEF Access, SyncReads
  <2> QED
    BY <1>11, <2>1, <2>2 DEF SyncReads, handleVars, listVars, callVars, localVars
<1>12. ASSUME SyncReturnsLocked PROVE TypeInv'
  BY <1>12 DEF SyncReturnsLocked, handleVars, callVars, localVars, timerVars
<1>13. ASSUME SyncPublishes PROVE TypeInv'
  BY <1>13 DEF SyncPublishes, handleVars, listVars, callVars, localVars
<1>14. CASE UNCHANGED vars
  BY <1>14 DEF vars, handleVars, listVars, callVars, localVars, timerVars
<1> QED
  BY <1>1, <1>2, <1>3, <1>4, <1>5, <1>6, <1>7, <1>8, <1>9, <1>10, <1>11, <1>12,
     <1>13, <1>14 DEF Next, CallStep

LEMMA TypeInvariant == Spec => []TypeInv
  BY TypeInit, TypeStep, PTL DEF Spec

-----------------------------------------------------------------------------
(* What the steps of a call do.                                            *)

\* A call that returns leaves its thread idle and every other thread and handle
\* alone.
LEMMA ReturnEffect ==
  ASSUME TypeInv, NEW t \in AllThreads, NEW c \in Clients, NEW o, NEW s,
         Return(t, c, o, s)
  PROVE  /\ pc'[t] = "idle" /\ cl'[t] = NoClient /\ op'[t] = "none"
         /\ \A u \in AllThreads : u # t =>
              pc'[u] = pc[u] /\ cl'[u] = cl[u] /\ op'[u] = op[u]
         /\ use'[c] = UseAfter(o, s, use[c])
         /\ result'[c] = IF o = "auth" THEN result[c] ELSE s
         /\ \A d \in Clients : d # c => use'[d] = use[d] /\ result'[d] = result[d]
  BY DEF Return, TypeInv, TypeOK

\* A call that begins finds its thread idle and no other call on its handle.
LEMMA SendEffect ==
  ASSUME TypeInv, NEW t \in AllThreads, NEW c \in Clients, NEW o, Send(t, c, o)
  PROVE  /\ pc'[t] = (IF o = "auth" THEN "waiting" ELSE "sent")
         /\ cl'[t] = c /\ op'[t] = o
         /\ \A u \in AllThreads : u # t =>
              pc'[u] = pc[u] /\ cl'[u] = cl[u] /\ op'[u] = op[u]
         /\ \A u \in AllThreads : cl[u] # c
         /\ pc[t] = "idle" /\ heard' = Heard(c, o)
         /\ UNCHANGED <<use, result, cmem, nats_online, conn_device_list>>
  BY DEF Send, MayCall, InCall, handleVars, listVars, TypeInv, TypeOK

\* The edge hears of the handle in question only, and never forgets it.
LEMMA HeardEffect ==
  ASSUME TypeInv, NEW c \in Clients, NEW o
  PROVE  /\ \A d \in Clients : d # c => Heard(c, o)[d] = heard[d]
         /\ Heard(c, o)[c] = IF o \in Logins THEN "login"
                             ELSE IF o \in Logouts THEN "logout" ELSE heard[c]
  BY DEF Heard, TypeInv, TypeOK

\* A busy thread has a handle and a call.
LEMMA Busy ==
  ASSUME TypeInv, NEW t \in AllThreads
  PROVE  /\ pc[t] # "idle" => cl[t] \in Clients /\ op[t] \in Ops /\ cl[t] # NoClient
         /\ op[t] # "none" => pc[t] # "idle"
         /\ op[t] \in Logins \union Logouts => pc[t] # "idle"
  BY SubdevSessionAssumption DEF TypeInv, TypeOK, CallsApart, Logins, Logouts

LEMMA Apart ==
  ASSUME TypeInv, NEW t \in AllThreads, NEW u \in AllThreads, pc[t] # "idle", u # t
  PROVE  cl[u] # cl[t]
  BY Busy DEF TypeInv, CallsApart

\* Listing a handle.
LEMMA ListEffect ==
  ASSUME TypeInv, NEW t \in AllThreads, List(t)
  PROVE  /\ pc[t] = "sent" /\ op[t] \in Logins /\ cl[t] \in Clients
         /\ \/ conn_device_list' = conn_device_list /\ MallocFails
            \/ conn_device_list' = Append(conn_device_list, cl[t])
         /\ Listed' \subseteq Listed \union {cl[t]} /\ Listed \subseteq Listed'
         /\ ~ MallocFails => cl[t] \in Listed'
         /\ NoRepeats(conn_device_list) /\ cl[t] \notin Listed =>
              NoRepeats(conn_device_list')
         /\ UNCHANGED <<cmem, heard, lpc, lnode, lmsg>>
<1>1. pc[t] = "sent" /\ op[t] \in Logins /\ cl[t] \in Clients
  BY Busy DEF List
<1>2. \/ conn_device_list' = conn_device_list /\ MallocFails
      \/ conn_device_list' = Append(conn_device_list, cl[t])
  BY SubdevSessionAssumption DEF List
<1>3. conn_device_list \in Seq(Clients)
  BY DEF TypeInv, TypeOK
<1>4. /\ ToSet(Append(conn_device_list, cl[t])) = Listed \union {cl[t]}
      /\ NoRepeats(conn_device_list) /\ cl[t] \notin Listed =>
              NoRepeats(Append(conn_device_list, cl[t]))
  BY <1>1, <1>3, AppendSet DEF Listed
<1>5. UNCHANGED <<cmem, heard, lpc, lnode, lmsg>>
  BY DEF List, localVars
<1> QED
  BY <1>1, <1>2, <1>4, <1>5 DEF Listed

\* Unlisting frees the handle that was found.
LEMMA UnlistEffect ==
  ASSUME TypeInv, NEW t \in AllThreads, Unlist(t)
  PROVE  /\ pc[t] = "sent" /\ op[t] \in Logouts /\ cl[t] \in Clients
         /\ UNCHANGED <<heard, lpc, lnode, lmsg>>
         /\ Listed' \subseteq Listed
         /\ \/ FindsNothing(cl[t]) /\ UNCHANGED <<conn_device_list, cmem>>
            \/ \E d \in Listed :
                 /\ Matches(cl[t], d)
                 /\ cmem' = [cmem EXCEPT ![d] = "freed"]
                 /\ NoRepeats(conn_device_list) =>
                      Listed' = Listed \ {d} /\ NoRepeats(conn_device_list')
<1>1. pc[t] = "sent" /\ op[t] \in Logouts /\ cl[t] \in Clients
  BY Busy DEF Unlist
<1>2. UNCHANGED <<heard, lpc, lnode, lmsg>>
  BY DEF Unlist, localVars
<1>3. conn_device_list \in Seq(Clients)
  BY DEF TypeInv, TypeOK
<1>4. CASE FindsNothing(cl[t]) /\ UNCHANGED <<conn_device_list, cmem>>
  BY <1>1, <1>2, <1>4 DEF Listed
<1>5. ASSUME NEW i \in 1 .. Len(conn_device_list), Finds(i, cl[t]),
             conn_device_list' = RemoveAt(conn_device_list, i),
             cmem' = [cmem EXCEPT ![conn_device_list[i]] = "freed"]
      PROVE  /\ Listed' \subseteq Listed
             /\ \E d \in Listed :
                  /\ Matches(cl[t], d)
                  /\ cmem' = [cmem EXCEPT ![d] = "freed"]
                  /\ NoRepeats(conn_device_list) =>
                       Listed' = Listed \ {d} /\ NoRepeats(conn_device_list')
  <2>1. conn_device_list[i] \in Listed
    BY <1>3, ListedAt DEF Listed
  <2>2. Listed' \subseteq Listed
    BY <1>3, <1>5, RemoveSubset DEF Listed
  <2>3. NoRepeats(conn_device_list) =>
          Listed' = Listed \ {conn_device_list[i]} /\ NoRepeats(conn_device_list')
    BY <1>3, <1>5, RemoveSet DEF Listed
  <2>4. Matches(cl[t], conn_device_list[i])
    BY <1>5 DEF Finds
  <2> QED
    BY <1>5, <2>1, <2>2, <2>3, <2>4
<1> QED
  BY <1>1, <1>2, <1>4, <1>5 DEF Unlist

-----------------------------------------------------------------------------
(* Messages reach the right device.                                        *)

LEMMA HeardInit == Init => HeardFirst
  BY SubdevSessionAssumption DEF Init, HeardFirst, Listed, ToSet, Logins

\* The edge forgets no request, so what was heard of stays so.
LEMMA HeardStays ==
  ASSUME TypeInv, HeardFirst, NEW c \in Clients, NEW o \in Ops,
         heard' \in {heard, Heard(c, o)}
  PROVE  \A d \in Clients : heard[d] # "none" => heard'[d] # "none"
  BY HeardEffect

LEMMA HeardStep == TypeInv /\ HeardFirst /\ [Next]_vars => HeardFirst'
<1> SUFFICES ASSUME TypeInv, HeardFirst, [Next]_vars PROVE HeardFirst'
  OBVIOUS
<1>a. /\ Listed \subseteq Clients
      /\ lpc # "idle" => lnode \in Clients /\ lmsg \in Clients
      /\ "none" \notin Logins
  BY ListedAt DEF Listed, TypeInv, TypeOK, LocalHasHandle, Logins
<1>r. ASSUME NEW t \in AllThreads, NEW c \in Clients, NEW o, NEW s,
             Return(t, c, o, s), heard' = heard \/ (heard' = Heard(c, o) /\ ~ InCall(c))
      PROVE  \A u \in AllThreads : op'[u] \in Logins => heard'[cl'[u]] = "login"
  <2> SUFFICES ASSUME NEW u \in AllThreads, op'[u] \in Logins
               PROVE  heard'[cl'[u]] = "login"
    OBVIOUS
  <2>1. u # t /\ op'[u] = op[u] /\ cl'[u] = cl[u]
    BY <1>r, <1>a, ReturnEffect
  <2>2. cl[u] \in Clients /\ heard[cl[u]] = "login"
    BY <2>1, Busy DEF HeardFirst
  <2>3. CASE heard' = heard
    BY <2>1, <2>2, <2>3
  <2>4. CASE heard' = Heard(c, o) /\ ~ InCall(c)
    BY <2>1, <2>2, <2>4, HeardEffect DEF InCall
  <2> QED
    BY <1>r, <2>3, <2>4
<1>1. ASSUME NEW c \in Clients, Construct(c) PROVE HeardFirst'
  BY <1>1 DEF HeardFirst, Listed, Construct, listVars, callVars, localVars
<1>2. ASSUME NEW t \in AllThreads, NEW c \in Clients, NEW o \in Ops, LogoutOffline(t, c, o)
      PROVE  HeardFirst'
  <2>1. Return(t, c, o, "OK") /\ UNCHANGED <<heard, conn_device_list, lpc, lnode, lmsg>>
    BY <1>2 DEF LogoutOffline, listVars, localVars
  <2> QED
    BY <2>1, <1>r DEF HeardFirst, Listed
<1>3. ASSUME NEW t \in AllThreads, NEW c \in Clients, NEW o \in Ops, Send(t, c, o)
      PROVE  HeardFirst'
  <2>1. heard' = Heard(c, o) /\ UNCHANGED <<conn_device_list, lpc, lnode, lmsg>>
    BY <1>3 DEF Send, listVars, localVars
  <2>2. ASSUME NEW u \in AllThreads, op'[u] \in Logins
        PROVE  heard'[cl'[u]] = "login"
    <3>1. CASE u = t
      BY <1>3, <2>1, <2>2, <3>1, SendEffect, HeardEffect
    <3>2. CASE u # t
      <4>1. op'[u] = op[u] /\ cl'[u] = cl[u] /\ cl[u] # c
        BY <1>3, <3>2, SendEffect
      <4>2. cl[u] \in Clients /\ heard[cl[u]] = "login"
        BY <2>2, <4>1, Busy DEF HeardFirst
      <4> QED
        BY <2>1, <4>1, <4>2, HeardEffect
    <3> QED
      BY <3>1, <3>2
  <2>3. \A d \in Clients : heard[d] # "none" => heard'[d] # "none"
    BY <2>1, HeardStays
  <2> QED
    BY <1>a, <2>1, <2>2, <2>3 DEF HeardFirst, Listed
<1>4. ASSUME NEW t \in AllThreads, NEW c \in Clients, NEW o \in Ops, SendFails(t, c, o)
      PROVE  HeardFirst'
  <2>1. /\ UNCHANGED <<conn_device_list, lpc, lnode, lmsg>>
        /\ ~ InCall(c) /\ heard' \in {heard, Heard(c, o)}
    BY <1>4 DEF SendFails, MayCall, listVars, localVars
  <2>2. \E s : Return(t, c, o, s)
    BY <1>4 DEF SendFails
  <2>3. \A u \in AllThreads : op'[u] \in Logins => heard'[cl'[u]] = "login"
    BY <2>1, <2>2, <1>r
  <2>4. \A d \in Clients : heard[d] # "none" => heard'[d] # "none"
    BY <2>1, HeardStays
  <2> QED
    BY <1>a, <2>1, <2>3, <2>4 DEF HeardFirst, Listed
<1>5. ASSUME NEW t \in AllThreads, List(t) PROVE HeardFirst'
  <2>1. /\ pc[t] = "sent" /\ op[t] \in Logins /\ cl[t] \in Clients
        /\ Listed' \subseteq Listed \union {cl[t]}
        /\ UNCHANGED <<heard, lpc, lnode, lmsg>>
    BY <1>5, ListEffect
  <2>2. \A u \in AllThreads : op'[u] \in Logins => heard'[cl'[u]] = "login"
    <3>1. CASE op[t] = "login_sync"
      BY <1>5, <2>1, <3>1 DEF List, HeardFirst
    <3>2. CASE op[t] # "login_sync"
      <4>1. \E s : Return(t, cl[t], op[t], s)
        BY <1>5, <3>2 DEF List
      <4> QED
        BY <2>1, <4>1, <1>r
    <3> QED
      BY <3>1, <3>2
  <2>3. heard[cl[t]] = "login"
    BY <2>1 DEF HeardFirst
  <2> QED
    BY <2>1, <2>2, <2>3 DEF HeardFirst
<1>6. ASSUME NEW t \in AllThreads, Unlist(t) PROVE HeardFirst'
  <2>1. /\ cl[t] \in Clients /\ Listed' \subseteq Listed
        /\ UNCHANGED <<heard, lpc, lnode, lmsg>>
    BY <1>6, UnlistEffect
  <2>2. PICK s : AfterUnlist(t, s)
    BY <1>6 DEF Unlist
  <2>3. \A u \in AllThreads : op'[u] \in Logins => heard'[cl'[u]] = "login"
    <3>1. CASE op[t] = "logout_sync"
      BY <2>1, <2>2, <3>1 DEF AfterUnlist, HeardFirst
    <3>2. CASE op[t] # "logout_sync"
      BY <2>1, <2>2, <3>2, <1>r DEF AfterUnlist
    <3> QED
      BY <3>1, <3>2
  <2> QED
    BY <2>1, <2>3 DEF HeardFirst
<1>7. ASSUME NEW t \in AllThreads, NEW s \in Results \ Early, WaitEnds(t, s)
      PROVE  HeardFirst'
  <2>1. /\ cl[t] \in Clients /\ Return(t, cl[t], op[t], s)
        /\ UNCHANGED <<heard, conn_device_list, lpc, lnode, lmsg>>
    BY <1>7, Busy DEF WaitEnds, listVars, localVars
  <2> QED
    BY <2>1, <1>r DEF HeardFirst, Listed
<1>8. ASSUME NEW c \in Clients, NEW i \in 1 .. Len(conn_device_list), LocalFinds(c, i)
      PROVE  HeardFirst'
  <2>1. /\ conn_device_list[i] \in Listed /\ <<c, conn_device_list[i]>> \in PrefixOf
        /\ lnode' = conn_device_list[i] /\ lmsg' = c
        /\ UNCHANGED <<heard, conn_device_list, op, cl>>
    <3>1. conn_device_list \in Seq(Clients)
      BY DEF TypeInv, TypeOK
    <3> QED
      BY <1>8, <3>1, ListedAt DEF Listed, LocalFinds, Finds, Matches, listVars, callVars
  <2> QED
    BY <2>1 DEF HeardFirst, Listed
<1>9. ASSUME LocalCallsBack PROVE HeardFirst'
  BY <1>9 DEF HeardFirst, Listed, LocalCallsBack, listVars, callVars
<1>10. ASSUME LocalCallbackReturns PROVE HeardFirst'
  BY <1>10 DEF HeardFirst, Listed, LocalCallbackReturns, listVars, callVars
<1>11. ASSUME SyncReads \/ SyncReturnsLocked \/ SyncPublishes PROVE HeardFirst'
  BY <1>11 DEF HeardFirst, Listed, SyncReads, SyncReturnsLocked, SyncPublishes,
               listVars, callVars, localVars
<1>12. CASE UNCHANGED vars
  BY <1>12 DEF HeardFirst, Listed, vars, listVars, callVars, localVars
<1> QED
  BY <1>1, <1>2, <1>3, <1>4, <1>5, <1>6, <1>7, <1>8, <1>9, <1>10, <1>11, <1>12
  DEF Next, CallStep

\* _on_local_message runs the handler of the device a message is addressed to,
\* and only that of a device the edge has been told of, for any handles and
\* threads and however their calls interleave, if no serial number is a prefix
\* of another.
THEOREM SessionRightDevice == Spec => []RightDevice
<1>1. TypeInv /\ HeardFirst => RightDevice
  BY DEF TypeInv, LocalHasHandle, HeardFirst, RightDevice, PrefixFree
<1> QED
  BY <1>1, TypeInvariant, HeardInit, HeardStep, PTL DEF Spec

\* The variables of the sub-device sessions keep their types, each busy thread
\* has a handle, and the mutex is left locked for want of memory only.
THEOREM SessionTypes == Spec => []TypeOK
<1>1. TypeInv => TypeOK
  BY DEF TypeInv
<1> QED
  BY <1>1, TypeInvariant, PTL

-----------------------------------------------------------------------------
(* A call concerns its own handle.                                         *)

LEMMA CallReturns ==
  ASSUME TypeInv, NEW t \in AllThreads, NEW c \in Clients, NEW o \in Ops, NEW s,
         Return(t, c, o, s), heard' \in {heard, Heard(c, o)},
         \A d \in Clients \ {c} : nats_online'[d] = nats_online[d],
         (pc[t] = "idle" /\ ~ InCall(c)) \/ cl[t] = c
  PROVE  CallOf(t, c)
<1>1. \A u \in AllThreads : u # t => cl[u] # c
  BY SubdevSessionAssumption DEF InCall, TypeInv, CallsApart
<1>2. cl[t] \in {c, NoClient}
  BY DEF TypeInv, TypeOK
<1>3. \A d \in Clients \ {c} : heard'[d] = heard[d]
  BY HeardEffect
<1> QED
  BY <1>1, <1>2, <1>3, ReturnEffect DEF CallOf

LEMMA CallBegins ==
  ASSUME TypeInv, NEW t \in AllThreads, NEW c \in Clients, NEW o \in Ops,
         LogoutOffline(t, c, o) \/ Send(t, c, o) \/ SendFails(t, c, o)
  PROVE  CallOf(t, c)
<1>1. CASE LogoutOffline(t, c, o)
  BY <1>1, CallReturns DEF LogoutOffline, MayCall, handleVars
<1>2. CASE Send(t, c, o)
  <2>1. cl[t] = NoClient
    BY <1>2, SendEffect DEF TypeInv, TypeOK
  <2> QED
    BY <1>2, <2>1, SendEffect, HeardEffect DEF CallOf
<1>3. CASE SendFails(t, c, o)
  <2>1. PICK s : Return(t, c, o, s) /\ heard' \in {heard, Heard(c, o)}
    BY <1>3 DEF SendFails
  <2> QED
    BY <1>3, <2>1, CallReturns DEF SendFails, MayCall, handleVars
<1> QED
  BY <1>1, <1>2, <1>3

LEMMA CallGoesOn ==
  ASSUME TypeInv, NEW t \in AllThreads, CallStep(t)
  PROVE  pc[t] # "idle" /\ cl[t] \in Clients /\ op[t] \in Ops /\ CallOf(t, cl[t])
<1>1. pc[t] # "idle" /\ cl[t] \in Clients /\ op[t] \in Ops
  BY Busy DEF CallStep, List, Unlist, WaitEnds
<1>2. heard' = heard
  BY DEF CallStep, List, Unlist, WaitEnds
<1>3. \A d \in Clients \ {cl[t]} : nats_online'[d] = nats_online[d]
  BY DEF CallStep, List, Unlist, AfterUnlist, WaitEnds, TypeInv, TypeOK
<1>4. \/ \E s : Return(t, cl[t], op[t], s)
      \/ pc' = [pc EXCEPT ![t] = "waiting"] /\ UNCHANGED <<cl, op, use, result>>
  BY DEF CallStep, List, Unlist, AfterUnlist, WaitEnds
<1>5. CASE \E s : Return(t, cl[t], op[t], s)
  BY <1>1, <1>2, <1>3, <1>5, CallReturns
<1>6. CASE pc' = [pc EXCEPT ![t] = "waiting"] /\ UNCHANGED <<cl, op, use, result>>
  <2>1. \A u \in AllThreads : u # t => cl[u] # cl[t]
    BY <1>1, Apart
  <2>2. \A u \in AllThreads : u # t => pc'[u] = pc[u]
    BY <1>6 DEF TypeInv, TypeOK
  <2>3. /\ \A u \in AllThreads : u # t =>
             pc'[u] = pc[u] /\ cl'[u] = cl[u] /\ op'[u] = op[u] /\ cl[u] # cl[t]
        /\ cl[t] \in {cl[t], NoClient} /\ cl'[t] \in {cl[t], NoClient}
    BY <1>6, <2>1, <2>2
  <2>4. \A d \in Clients \ {cl[t]} :
          /\ use'[d] = use[d] /\ result'[d] = result[d]
          /\ nats_online'[d] = nats_online[d] /\ heard'[d] = heard[d]
    BY <1>2, <1>3, <1>6
  <2> QED
    BY <1>1, <2>3, <2>4 DEF CallOf
<1> QED
  BY <1>1, <1>4, <1>5, <1>6

\* So the other handles stay as far in their calls as they were, and how far the
\* handle has got is told by its thread.
LEMMA Phases ==
  ASSUME NEW t \in AllThreads, NEW c \in Clients, CallOf(t, c)
  PROVE  /\ \A d \in Clients \ {c} :
              /\ InLogin(d)' <=> InLogin(d)
              /\ InLogout(d)' <=> InLogout(d)
              /\ BeginsLogout(d)' <=> BeginsLogout(d)
         /\ InLogin(c) <=> cl[t] = c /\ pc[t] = "waiting" /\ op[t] = "login_sync"
         /\ InLogout(c) <=> cl[t] = c /\ pc[t] = "waiting" /\ op[t] = "logout_sync"
         /\ BeginsLogout(c) <=> cl[t] = c /\ pc[t] = "sent" /\ op[t] \in Logouts
         /\ InLogin(c)' <=>
              cl'[t] = c /\ pc'[t] = "waiting" /\ op'[t] = "login_sync"
         /\ InLogout(c)' <=>
              cl'[t] = c /\ pc'[t] = "waiting" /\ op'[t] = "logout_sync"
         /\ BeginsLogout(c)' <=>
              cl'[t] = c /\ pc'[t] = "sent" /\ op'[t] \in Logouts
<1>1. /\ \A u \in AllThreads : u # t =>
           /\ pc'[u] = pc[u] /\ cl'[u] = cl[u] /\ op'[u] = op[u]
           /\ cl[u] # c
      /\ \A d \in Clients \ {c} : cl[t] # d /\ cl'[t] # d
  BY SubdevSessionAssumption DEF CallOf
<1>2. \A d \in Clients \ {c} :
        /\ InLogin(d)' <=> InLogin(d)
        /\ InLogout(d)' <=> InLogout(d)
        /\ BeginsLogout(d)' <=> BeginsLogout(d)
  BY <1>1 DEF InLogin, InLogout, BeginsLogout
<1>3. /\ InLogin(c) <=> cl[t] = c /\ pc[t] = "waiting" /\ op[t] = "login_sync"
      /\ InLogout(c) <=> cl[t] = c /\ pc[t] = "waiting" /\ op[t] = "logout_sync"
      /\ BeginsLogout(c) <=> cl[t] = c /\ pc[t] = "sent" /\ op[t] \in Logouts
  BY <1>1 DEF InLogin, InLogout, BeginsLogout
<1>4. /\ InLogin(c)' <=> cl'[t] = c /\ pc'[t] = "waiting" /\ op'[t] = "login_sync"
      /\ InLogout(c)' <=> cl'[t] = c /\ pc'[t] = "waiting" /\ op'[t] = "logout_sync"
      /\ BeginsLogout(c)' <=> cl'[t] = c /\ pc'[t] = "sent" /\ op'[t] \in Logouts
  BY <1>1 DEF InLogin, InLogout, BeginsLogout
<1> QED
  BY <1>2, <1>3, <1>4

-----------------------------------------------------------------------------
(* Listed handles are live.                                                *)

LEMMA ListedInit == Init => ListedOnce
<1>1. ASSUME conn_device_list = <<>> PROVE NoRepeats(conn_device_list) /\ Listed = {}
  BY <1>1 DEF NoRepeats, Listed, ToSet
<1> QED
  BY <1>1 DEF Init, ListedOnce

\* The calls of other handles are no concern of a call on c.
LEMMA ListedOnceOthers ==
  ASSUME TypeInv, ListedOnce, NEW t \in AllThreads, NEW c \in Clients, CallOf(t, c)
  PROVE  /\ \A u \in AllThreads :
              u # t /\ pc'[u] = "sent" /\ op'[u] \in Logins => use'[cl'[u]] = "new"
         /\ \A d \in Clients \ {c} :
              use'[d] = "new" /\ ~ InLogin(d)' => d \notin Listed /\ cmem[d] # "freed"
<1>1. ASSUME NEW u \in AllThreads, u # t, pc'[u] = "sent", op'[u] \in Logins
      PROVE  use'[cl'[u]] = "new"
  <2>1. /\ pc[u] = "sent" /\ op[u] \in Logins /\ cl'[u] = cl[u]
        /\ cl[u] \in Clients \ {c}
    BY <1>1, Busy DEF CallOf
  <2> QED
    BY <2>1 DEF CallOf, ListedOnce
<1>2. ASSUME NEW d \in Clients \ {c}, use'[d] = "new" /\ ~ InLogin(d)'
      PROVE  d \notin Listed /\ cmem[d] # "freed"
  BY <1>2, Phases DEF CallOf, ListedOnce
<1> QED
  BY <1>1, <1>2

\* A step that changes neither the list nor what the calls have done.
LEMMA ListedOnceIdle ==
  ASSUME ListedOnce, UNCHANGED <<conn_device_list, cmem, callVars>>
  PROVE  ListedOnce'
  BY DEF ListedOnce, Listed, InLogin, callVars

LEMMA ListedOnceStep ==
  ASSUME ~ RetriesLogin
  PROVE  TypeInv /\ ListedOnce /\ [Next]_vars => ListedOnce'
<1> SUFFICES ASSUME TypeInv, ListedOnce, [Next]_vars PROVE ListedOnce'
  OBVIOUS
<1>1. ASSUME NEW c \in Clients, Construct(c) PROVE ListedOnce'
  <2>1. UNCHANGED <<conn_device_list, callVars>> /\ cmem' = [cmem EXCEPT ![c] = "live"]
    BY <1>1 DEF Construct, listVars
  <2>2. \A d \in Clients :
          /\ cmem[d] = "live" => cmem'[d] = "live"
          /\ cmem[d] # "freed" => cmem'[d] # "freed"
    BY <2>1 DEF TypeInv, TypeOK
  <2>3. Listed \subseteq Clients
    BY ListedAt DEF Listed, TypeInv, TypeOK
  <2> QED
    BY <2>1, <2>2, <2>3 DEF ListedOnce, Listed, InLogin, callVars
<1>2. ASSUME NEW t \in AllThreads, NEW c \in Clients, NEW o \in Ops,
             LogoutOffline(t, c, o) \/ Send(t, c, o) \/ SendFails(t, c, o)
      PROVE  ListedOnce'
  <2>1. CallOf(t, c)
    BY <1>2, CallBegins
  <2>2. UNCHANGED <<conn_device_list, cmem>>
    BY <1>2 DEF LogoutOffline, Send, SendFails, handleVars, listVars
  <2>3. pc[t] = "idle"
    BY <1>2 DEF LogoutOffline, Send, SendFails, MayCall
  <2>4. pc'[t] = "sent" /\ op'[t] \in Logins => use'[cl'[t]] = "new"
    <3>1. CASE LogoutOffline(t, c, o) \/ SendFails(t, c, o)
      <4>1. \E s : Return(t, c, o, s)
        BY <3>1 DEF LogoutOffline, SendFails
      <4> QED
        BY <4>1, ReturnEffect
    <3>2. CASE Send(t, c, o)
      <4>1. o \in Logins => use[c] = "new"
        BY <3>2 DEF Send, MayCall
      <4> QED
        BY <3>2, <4>1, SendEffect
    <3> QED
      BY <1>2, <3>1, <3>2
  <2>5. use'[c] = "new" => use[c] = "new"
    <3>1. CASE LogoutOffline(t, c, o)
      BY <3>1, ReturnEffect DEF LogoutOffline, UseAfter
    <3>2. CASE Send(t, c, o)
      BY <3>2, SendEffect
    <3>3. CASE SendFails(t, c, o)
      BY <3>3, ReturnEffect DEF SendFails, UseAfter
    <3> QED
      BY <1>2, <3>1, <3>2, <3>3
  <2>6. ~ InLogin(c)
    BY <2>1, <2>3, Phases
  <2>7. use'[c] = "new" => c \notin Listed /\ cmem[c] # "freed"
    BY <2>5, <2>6 DEF ListedOnce
  <2> QED
    BY <2>1, <2>2, <2>4, <2>7, ListedOnceOthers DEF ListedOnce, Listed
<1>3. ASSUME NEW t \in AllThreads, List(t) PROVE ListedOnce'
  <2>1. PICK c \in Clients : c = cl[t] /\ op[t] \in Ops /\ CallOf(t, c)
    BY <1>3, CallGoesOn DEF CallStep
  <2>2. pc[t] = "sent" /\ op[t] \in Logins /\ ~ InLogin(c)
    BY <1>3, <2>1, Phases DEF List
  <2>3. c \notin Listed /\ cmem[c] = "live"
    BY <2>1, <2>2 DEF ListedOnce, TypeInv, TypeOK, CallsApart
  <2>4. /\ NoRepeats(conn_device_list') /\ Listed' \subseteq Listed \union {c}
        /\ UNCHANGED cmem
    BY <1>3, <2>1, <2>3, ListEffect DEF ListedOnce
  <2>5. CASE op[t] = "login_sync"
    <3>1. pc'[t] = "waiting" /\ cl'[t] = c /\ op'[t] = "login_sync"
      BY <1>3, <2>1, <2>5 DEF List, TypeInv, TypeOK
    <3>2. InLogin(c)'
      BY <2>1, <3>1, Phases
    <3> QED
      BY <2>1, <2>3, <2>4, <3>1, <3>2, ListedOnceOthers DEF ListedOnce
  <2>6. CASE op[t] # "login_sync"
    <3>1. pc'[t] = "idle" /\ use'[c] = "logged_in"
      <4>1. PICK s \in {"OK", "ERR"} : Return(t, c, op[t], s)
        BY <1>3, <2>1, <2>6 DEF List
      <4>2. UseAfter(op[t], s, use[c]) = "logged_in"
        BY <2>2, <4>1 DEF UseAfter, Early, Logins
      <4> QED
        BY <2>1, <4>1, <4>2, ReturnEffect
    <3> QED
      BY <2>1, <2>3, <2>4, <3>1, ListedOnceOthers DEF ListedOnce
  <2> QED
    BY <2>5, <2>6
<1>4. ASSUME NEW t \in AllThreads, Unlist(t) PROVE ListedOnce'
  <2>1. PICK c \in Clients : c = cl[t] /\ op[t] \in Ops /\ CallOf(t, c)
    BY <1>4, CallGoesOn DEF CallStep
  <2>2. pc[t] = "sent" /\ op[t] \in Logouts /\ ~ InLogin(c)
    BY <1>4, <2>1, Phases DEF Unlist
  <2>3. /\ NoRepeats(conn_device_list')
        /\ \A d \in Listed' : cmem'[d] = "live"
        /\ Listed' \subseteq Listed
        /\ \A d \in Clients : cmem'[d] = "freed" => cmem[d] = "freed" \/ d \in Listed
    <3>1. Listed \subseteq Clients
      BY ListedAt DEF Listed, TypeInv, TypeOK
    <3>2. CASE UNCHANGED <<conn_device_list, cmem>>
      BY <3>2 DEF ListedOnce, Listed
    <3>3. ASSUME NEW d \in Listed, cmem' = [cmem EXCEPT ![d] = "freed"],
                 NoRepeats(conn_device_list) =>
                   Listed' = Listed \ {d} /\ NoRepeats(conn_device_list')
          PROVE  /\ NoRepeats(conn_device_list')
                 /\ \A e \in Listed' : cmem'[e] = "live"
                 /\ \A e \in Clients : cmem'[e] = "freed" =>
                      cmem[e] = "freed" \/ e \in Listed
      BY <3>1, <3>3 DEF ListedOnce, TypeInv, TypeOK
    <3>4. Listed' \subseteq Listed
      BY <1>4, UnlistEffect
    <3>5. \/ UNCHANGED <<conn_device_list, cmem>>
          \/ \E d \in Listed :
               /\ cmem' = [cmem EXCEPT ![d] = "freed"]
               /\ NoRepeats(conn_device_list) =>
                    Listed' = Listed \ {d} /\ NoRepeats(conn_device_list')
      BY <1>4, UnlistEffect
    <3>6. CASE UNCHANGED <<conn_device_list, cmem>>
      BY <3>2, <3>4, <3>6
    <3>7. CASE \E d \in Listed :
                 /\ cmem' = [cmem EXCEPT ![d] = "freed"]
                 /\ NoRepeats(conn_device_list) =>
                      Listed' = Listed \ {d} /\ NoRepeats(conn_device_list')
      BY <3>3, <3>4, <3>7
    <3> QED
      BY <3>5, <3>6, <3>7
  <2>4. /\ ~ (pc'[t] = "sent" /\ op'[t] \in Logins)
        /\ use'[c] = "new" => use[c] = "new"
    <3>1. PICK s \in {"OK", "ERR"} : AfterUnlist(t, s)
      BY <1>4 DEF Unlist
    <3>2. CASE op[t] = "logout_sync"
      BY <3>1, <3>2 DEF AfterUnlist, TypeInv, TypeOK
    <3>3. CASE op[t] # "logout_sync"
      BY <2>1, <2>2, <3>1, <3>3, ReturnEffect DEF AfterUnlist, UseAfter
    <3> QED
      BY <3>2, <3>3
  <2>5. use'[c] = "new" => c \notin Listed /\ cmem[c] # "freed"
    BY <2>1, <2>2, <2>4 DEF ListedOnce
  <2>6. \A d \in Clients :
          use'[d] = "new" /\ ~ InLogin(d)' => d \notin Listed' /\ cmem'[d] # "freed"
    BY <2>1, <2>3, <2>5, ListedOnceOthers
  <2> QED
    BY <2>1, <2>3, <2>4, <2>6, ListedOnceOthers DEF ListedOnce
<1>5. ASSUME NEW t \in AllThreads, NEW s \in Results \ Early, WaitEnds(t, s)
      PROVE  ListedOnce'
  <2>1. PICK c \in Clients : c = cl[t] /\ op[t] \in Ops /\ CallOf(t, c)
    BY <1>5, CallGoesOn DEF CallStep
  <2>2. UNCHANGED <<conn_device_list, cmem>> /\ Return(t, c, op[t], s)
    BY <1>5, <2>1 DEF WaitEnds, listVars
  <2>3. /\ pc'[t] = "idle"
        /\ use'[c] = "new" => op[t] = "auth" /\ use[c] = "new"
    BY <2>1, <2>2, ReturnEffect DEF UseAfter
  <2>4. op[t] = "auth" => ~ InLogin(c)
    BY <2>1, Phases
  <2>5. use'[c] = "new" => c \notin Listed /\ cmem[c] # "freed"
    BY <2>1, <2>3, <2>4 DEF ListedOnce
  <2> QED
    BY <2>1, <2>2, <2>3, <2>5, ListedOnceOthers DEF ListedOnce, Listed
<1>6. CASE \/ \E c \in Clients, i \in 1 .. Len(conn_device_list) : LocalFinds(c, i)
           \/ LocalCallsBack \/ LocalCallbackReturns
           \/ SyncReads \/ SyncReturnsLocked \/ SyncPublishes
           \/ UNCHANGED vars
  BY <1>6, ListedOnceIdle
  DEF LocalFinds, LocalCallsBack, LocalCallbackReturns, SyncReads, SyncReturnsLocked,
      SyncPublishes, vars, handleVars, listVars
<1> QED
  BY <1>1, <1>2, <1>3, <1>4, <1>5, <1>6 DEF Next, CallStep

\* conn_device_list never holds a freed handle, for any handles, threads, serial
\* numbers and list length and whether or not malloc fails, if the application
\* does not repeat a login that failed (run session_retry shows what happens if
\* it does).
THEOREM SessionListedAreLive ==
  ASSUME ~ RetriesLogin
  PROVE  Spec => []ListedClientsAreLive
<1>1. ListedOnce => ListedClientsAreLive
  BY DEF ListedOnce, ListedClientsAreLive
<1>2. TypeInv /\ ListedOnce /\ [Next]_vars => ListedOnce'
  BY ListedOnceStep
<1> QED
  BY <1>1, <1>2, TypeInvariant, ListedInit, PTL DEF Spec

-----------------------------------------------------------------------------
(* Freed handles are left alone.                                           *)

LEMMA FreedInit == Init => FreedByOwner
  BY DEF Init, FreedByOwner

LEMMA FreedOthers ==
  ASSUME TypeInv, FreedByOwner, NEW t \in AllThreads, NEW c \in Clients, CallOf(t, c)
  PROVE  /\ \A u \in AllThreads : u # t /\ pc'[u] # "idle" => use'[cl'[u]] # "done"
         /\ \A d \in Clients \ {c} :
              cmem[d] = "freed" => use'[d] = "done" \/ InLogout(d)'
<1>1. ASSUME NEW u \in AllThreads, u # t, pc'[u] # "idle"
      PROVE  use'[cl'[u]] # "done"
  <2>1. pc[u] # "idle" /\ cl'[u] = cl[u] /\ cl[u] \in Clients \ {c}
    BY <1>1, Busy DEF CallOf
  <2> QED
    BY <2>1 DEF CallOf, FreedByOwner
<1>2. ASSUME NEW d \in Clients \ {c}, cmem[d] = "freed"
      PROVE  use'[d] = "done" \/ InLogout(d)'
  BY <1>2, Phases DEF CallOf, FreedByOwner
<1> QED
  BY <1>1, <1>2

LEMMA FreedStep ==
  ASSUME PrefixFree
  PROVE  TypeInv /\ FreedByOwner /\ [Next]_vars => FreedByOwner'
<1> SUFFICES ASSUME TypeInv, FreedByOwner, [Next]_vars PROVE FreedByOwner'
  OBVIOUS
<1>a. ASSUME NEW t \in AllThreads, pc[t] # "idle", cmem[cl[t]] = "freed"
      PROVE  pc[t] = "waiting" /\ op[t] = "logout_sync"
  <2>1. cl[t] \in Clients /\ use[cl[t]] # "done" /\ InLogout(cl[t])
    BY <1>a, Busy DEF FreedByOwner
  <2>2. PICK u \in AllThreads : cl[u] = cl[t] /\ pc[u] = "waiting" /\ op[u] = "logout_sync"
    BY <2>1 DEF InLogout
  <2>3. u = t
    BY <1>a, <2>2, Apart
  <2> QED
    BY <2>2, <2>3
<1>1. ASSUME NEW c \in Clients, Construct(c) PROVE FreedByOwner'
  <2>1. UNCHANGED callVars /\ cmem' = [cmem EXCEPT ![c] = "live"]
    BY <1>1 DEF Construct
  <2>2. \A d \in Clients : cmem'[d] = "freed" => cmem[d] = "freed"
    BY <2>1 DEF TypeInv, TypeOK
  <2> QED
    BY <2>1, <2>2 DEF FreedByOwner, InLogout, callVars
<1>2. ASSUME NEW t \in AllThreads, NEW c \in Clients, NEW o \in Ops,
             LogoutOffline(t, c, o) \/ Send(t, c, o) \/ SendFails(t, c, o)
      PROVE  FreedByOwner'
  <2>1. CallOf(t, c) /\ cmem' = cmem
    BY <1>2, CallBegins DEF LogoutOffline, Send, SendFails, handleVars
  <2>2. pc[t] = "idle" /\ use[c] # "done" /\ ~ InCall(c)
    BY <1>2 DEF LogoutOffline, Send, SendFails, MayCall
  <2>3. cmem[c] # "freed"
    BY <2>2 DEF FreedByOwner, InLogout, InCall
  <2>4. pc'[t] # "idle" => use'[cl'[t]] # "done"
    <3>1. CASE LogoutOffline(t, c, o) \/ SendFails(t, c, o)
      <4>1. \E s : Return(t, c, o, s)
        BY <3>1 DEF LogoutOffline, SendFails
      <4> QED
        BY <4>1, ReturnEffect
    <3>2. CASE Send(t, c, o)
      BY <2>2, <3>2, SendEffect
    <3> QED
      BY <1>2, <3>1, <3>2
  <2> QED
    BY <2>1, <2>3, <2>4, FreedOthers DEF FreedByOwner
<1>3. ASSUME NEW t \in AllThreads, List(t) PROVE FreedByOwner'
  <2>1. PICK c \in Clients : c = cl[t] /\ CallOf(t, c) /\ cmem' = cmem /\ pc[t] = "sent"
    BY <1>3, CallGoesOn DEF CallStep, List
  <2>2. cmem[c] # "freed" /\ use[c] # "done"
    BY <1>a, <2>1 DEF FreedByOwner
  <2>3. pc'[t] # "idle" => use'[cl'[t]] # "done"
    <3>1. CASE op[t] = "login_sync"
      BY <1>3, <2>1, <2>2, <3>1 DEF List
    <3>2. CASE op[t] # "login_sync"
      <4>1. \E s : Return(t, c, op[t], s)
        BY <1>3, <2>1, <3>2 DEF List
      <4> QED
        BY <2>1, <4>1, ReturnEffect
    <3> QED
      BY <3>1, <3>2
  <2> QED
    BY <2>1, <2>2, <2>3, FreedOthers DEF FreedByOwner
<1>4. ASSUME NEW t \in AllThreads, Unlist(t) PROVE FreedByOwner'
  <2>1. PICK c \in Clients : c = cl[t] /\ op[t] \in Ops /\ CallOf(t, c)
    BY <1>4, CallGoesOn DEF CallStep
  <2>2. pc[t] = "sent" /\ op[t] \in Logouts /\ use[c] # "done"
    BY <1>4, <2>1 DEF Unlist, FreedByOwner
  <2>3. \A d \in Clients \ {c} : cmem'[d] = "freed" => cmem[d] = "freed"
    <3>1. \/ cmem' = cmem
          \/ \E d \in Listed : Matches(c, d) /\ cmem' = [cmem EXCEPT ![d] = "freed"]
      BY <1>4, <2>1, UnlistEffect
    <3>2. ASSUME NEW d \in Listed, Matches(c, d) PROVE d = c
      <4>1. d \in Clients
        BY ListedAt DEF Listed, TypeInv, TypeOK
      <4> QED
        BY <2>1, <3>2, <4>1, PrefixFree DEF PrefixFree, Matches
    <3> QED
      BY <3>1, <3>2 DEF TypeInv, TypeOK
  <2>4. PICK s \in {"OK", "ERR"} : AfterUnlist(t, s)
    BY <1>4 DEF Unlist
  <2>5. CASE op[t] = "logout_sync"
    <3>1. pc'[t] = "waiting" /\ cl'[t] = c /\ op'[t] = op[t] /\ use' = use
      BY <2>1, <2>4, <2>5 DEF AfterUnlist, TypeInv, TypeOK
    <3>2. InLogout(c)'
      BY <2>1, <2>5, <3>1, Phases
    <3> QED
      BY <2>1, <2>2, <2>3, <3>1, <3>2, FreedOthers DEF FreedByOwner
  <2>6. CASE op[t] # "logout_sync"
    <3>1. Return(t, c, op[t], s)
      BY <2>1, <2>4, <2>6 DEF AfterUnlist
    <3>2. UseAfter(op[t], s, use[c]) = "done"
      BY <2>2 DEF UseAfter, Early, Logins, Logouts
    <3>3. pc'[t] = "idle" /\ use'[c] = "done"
      BY <2>1, <3>1, <3>2, ReturnEffect
    <3> QED
      BY <2>1, <2>3, <3>3, FreedOthers DEF FreedByOwner
  <2> QED
    BY <2>5, <2>6
<1>5. ASSUME NEW t \in AllThreads, NEW s \in Results \ Early, WaitEnds(t, s)
      PROVE  FreedByOwner'
  <2>1. PICK c \in Clients : c = cl[t] /\ op[t] \in Ops /\ CallOf(t, c)
    BY <1>5, CallGoesOn DEF CallStep
  <2>2. cmem' = cmem /\ Return(t, c, op[t], s) /\ pc[t] = "waiting"
    BY <1>5, <2>1 DEF WaitEnds
  <2>3. pc'[t] = "idle" /\ use'[c] = UseAfter(op[t], s, use[c])
    BY <2>1, <2>2, ReturnEffect
  <2>4. cmem[c] = "freed" => use'[c] = "done"
    <3>1. CASE cmem[c] = "freed"
      <4>1. op[t] = "logout_sync"
        BY <1>a, <2>1, <2>2, <3>1
      <4> QED
        BY <2>3, <4>1 DEF UseAfter, Logins
    <3> QED
      BY <3>1
  <2> QED
    BY <2>1, <2>2, <2>3, <2>4, FreedOthers DEF FreedByOwner
<1>6. CASE \/ \E c \in Clients, i \in 1 .. Len(conn_device_list) : LocalFinds(c, i)
           \/ LocalCallsBack \/ LocalCallbackReturns
           \/ SyncReads \/ SyncReturnsLocked \/ SyncPublishes
           \/ UNCHANGED vars
  <2>1. UNCHANGED <<cmem, callVars>>
    BY <1>6 DEF LocalFinds, LocalCallsBack, LocalCallbackReturns, SyncReads,
       SyncReturnsLocked, SyncPublishes, vars, handleVars
  <2> QED
    BY <2>1 DEF FreedByOwner, InLogout, callVars
<1> QED
  BY <1>1, <1>2, <1>3, <1>4, <1>5, <1>6 DEF Next, CallStep

\* The handles a lookup reads are listed.
LEMMA ScannedListed ==
  ASSUME TypeInv, NEW c
  PROVE  Scanned(c) \subseteq Listed
  BY ListedAt DEF Scanned, Listed, TypeInv, TypeOK

LEMMA LeftAloneStep ==
  TypeInv /\ ListedOnce /\ FreedByOwner /\ [Next]_vars =>
    \A c \in Clients :
      (cmem[c] = "freed" /\ ~ InCall(c) /\ ~ (lpc = "found" /\ lnode = c))
        => (c \in stale' <=> c \in stale)
<1> SUFFICES ASSUME TypeInv, ListedOnce, FreedByOwner, [Next]_vars, NEW c \in Clients,
                    cmem[c] = "freed", ~ InCall(c), ~ (lpc = "found" /\ lnode = c)
             PROVE  c \in stale' <=> c \in stale
  OBVIOUS
<1>a. use[c] = "done" /\ c \notin Listed /\ \A d : c \notin Scanned(d)
  BY ScannedListed DEF FreedByOwner, InLogout, InCall, ListedOnce
<1>s. ASSUME NEW S, c \notin S, Access(S) PROVE c \in stale' <=> c \in stale
  BY <1>s DEF Access
<1>1. ASSUME NEW t \in AllThreads, NEW d \in Clients, NEW o \in Ops,
             LogoutOffline(t, d, o) \/ Send(t, d, o) \/ SendFails(t, d, o)
      PROVE  c \in stale' <=> c \in stale
  <2>1. use[d] # "done" /\ Access({d})
    BY <1>1 DEF LogoutOffline, Send, SendFails, MayCall
  <2> QED
    BY <1>a, <2>1 DEF Access
<1>2. ASSUME NEW t \in AllThreads, CallStep(t) PROVE c \in stale' <=> c \in stale
  <2>1. cl[t] # c
    BY DEF InCall
  <2>2. CASE List(t)
    <3>1. UNCHANGED stale \/ Access({cl[t]})
      BY <2>2 DEF List
    <3> QED
      BY <2>1, <3>1 DEF Access
  <2>3. CASE Unlist(t)
    <3>1. Access({cl[t]} \union Scanned(cl[t]))
      BY <2>3 DEF Unlist
    <3> QED
      BY <1>a, <2>1, <3>1 DEF Access
  <2>4. ASSUME NEW s \in Results \ Early, WaitEnds(t, s)
        PROVE  c \in stale' <=> c \in stale
    BY <2>1, <2>4 DEF Access, WaitEnds
  <2> QED
    BY <1>2, <2>2, <2>3, <2>4 DEF CallStep
<1>3. ASSUME NEW d \in Clients, NEW i \in 1 .. Len(conn_device_list), LocalFinds(d, i)
      PROVE  c \in stale' <=> c \in stale
  BY <1>3, <1>a DEF Access, LocalFinds
<1>4. ASSUME LocalCallsBack PROVE c \in stale' <=> c \in stale
  BY <1>4 DEF Access, LocalCallsBack
<1>5. ASSUME SyncReads PROVE c \in stale' <=> c \in stale
  BY <1>5, <1>a DEF Access, SyncReads
<1>6. CASE \/ \E d \in Clients : Construct(d)
           \/ LocalCallbackReturns \/ SyncReturnsLocked \/ SyncPublishes
           \/ UNCHANGED vars
  BY <1>6 DEF Construct, LocalCallbackReturns, SyncReturnsLocked, SyncPublishes, vars
<1> QED
  BY <1>1, <1>2, <1>3, <1>4, <1>5, <1>6 DEF Next

\* A handle that _remove_from_list has freed is not touched again, but by the
\* logout that freed it until it returns and by the local handler that had found
\* it before: for any handles, threads and list length and whether or not malloc
\* fails, if no serial number is a prefix of another and no failed login is
\* repeated.
THEOREM SessionFreedIsLeftAlone ==
  ASSUME ~ RetriesLogin, PrefixFree
  PROVE  Spec => FreedClientIsLeftAlone
<1>1. TypeInv /\ ListedOnce /\ [Next]_vars => ListedOnce'
  BY ListedOnceStep
<1>2. TypeInv /\ FreedByOwner /\ [Next]_vars => FreedByOwner'
  BY FreedStep
<1>3. TypeInv /\ ListedOnce /\ FreedByOwner /\ [Next]_vars =>
        [\A c \in Clients :
           (cmem[c] = "freed" /\ ~ InCall(c) /\ ~ (lpc = "found" /\ lnode = c))
             => (c \in stale' <=> c \in stale)]_vars
  BY LeftAloneStep
<1> QED
  BY <1>1, <1>2, <1>3, TypeInvariant, ListedInit, FreedInit, PTL
  DEF Spec, FreedClientIsLeftAlone

-----------------------------------------------------------------------------
(* What a login promises, and what the list tells the edge.                *)

LEMMA AgreesInit == Init => StatesAgree
<1> SUFFICES ASSUME Init PROVE StatesAgree
  OBVIOUS
<1>1. Listed = {} /\ \A t \in AllThreads : pc[t] = "idle"
  BY DEF Init, Listed, ToSet
<1> QED
  BY <1>1 DEF Init, StatesAgree, Agrees, InLogin, InLogout

LEMMA AgreesOthers ==
  ASSUME TypeInv, NEW t \in AllThreads, NEW c \in Clients, CallOf(t, c),
         NEW d \in Clients \ {c}, Agrees(d), d \in Listed' <=> d \in Listed
  PROVE  Agrees(d)'
  BY Phases DEF Agrees, CallOf

LEMMA AgreesStep ==
  ASSUME ~ RetriesLogin, PrefixFree, ~ MallocFails
  PROVE  TypeInv /\ HeardFirst /\ ListedOnce /\ StatesAgree /\ [Next]_vars => StatesAgree'
<1> SUFFICES ASSUME TypeInv, HeardFirst, ListedOnce, StatesAgree, [Next]_vars
             PROVE  StatesAgree'
  OBVIOUS
<1>a. Listed \subseteq Clients /\ \A c \in Clients : Agrees(c)
  BY ListedAt DEF Listed, TypeInv, TypeOK, StatesAgree
<1>q. SUFFICES \A c \in Clients : Agrees(c)'
  BY DEF StatesAgree
<1>1. ASSUME NEW t \in AllThreads, NEW c \in Clients, NEW o \in Ops,
             LogoutOffline(t, c, o) \/ Send(t, c, o) \/ SendFails(t, c, o)
      PROVE  \A d \in Clients : Agrees(d)'
  <2>1. CallOf(t, c)
    BY <1>1, CallBegins
  <2>2. UNCHANGED <<conn_device_list, nats_online>>
    BY <1>1 DEF LogoutOffline, Send, SendFails, handleVars, listVars
  <2>3. pc[t] = "idle" /\ ~ InLogin(c) /\ ~ InLogout(c) /\ ~ BeginsLogout(c)
    BY <1>1, <2>1, Phases DEF LogoutOffline, Send, SendFails, MayCall
  <2>4. Agrees(c)
    BY <1>a
  <2>5. Agrees(c)'
    <3>1. CASE LogoutOffline(t, c, o)
      <4>1. Return(t, c, o, "OK") /\ heard' = heard /\ ~ nats_online[c] /\ o \in Logouts
        BY <3>1 DEF LogoutOffline
      <4>2. UseAfter(o, "OK", use[c]) = "done"
        BY <4>1 DEF UseAfter, Early, Logins, Logouts
      <4>3. pc'[t] = "idle" /\ use'[c] = "done"
        BY <4>1, <4>2, ReturnEffect
      <4>4. ~ InLogin(c)' /\ ~ InLogout(c)'
        BY <2>1, <4>3, Phases
      <4> QED
        BY <2>2, <2>4, <4>1, <4>3, <4>4 DEF Agrees, Listed
    <3>2. CASE Send(t, c, o)
      <4>1. /\ UNCHANGED <<use, result>> /\ heard' = Heard(c, o)
            /\ cl'[t] = c /\ op'[t] = o
            /\ pc'[t] = (IF o = "auth" THEN "waiting" ELSE "sent")
        BY <3>2, SendEffect
      <4>o. o \in Logouts => nats_online[c]
        BY <3>2 DEF Send
      <4>2. /\ ~ InLogin(c)' /\ ~ InLogout(c)'
            /\ o \in Logouts => BeginsLogout(c)'
        BY <2>1, <4>1, Phases DEF Logouts
      <4>3. heard'[c] = IF o \in Logins THEN "login"
                        ELSE IF o \in Logouts THEN "logout" ELSE heard[c]
        BY <4>1, HeardEffect
      <4> QED
        BY <2>2, <2>3, <2>4, <4>o, <4>1, <4>2, <4>3 DEF Agrees, Listed
    <3>3. CASE SendFails(t, c, o)
      <4>1. PICK s \in Early : Return(t, c, o, s) /\ heard' \in {heard, Heard(c, o)}
        BY <3>3 DEF SendFails, Early
      <4>2. /\ pc'[t] = "idle" /\ use'[c] = use[c]
            /\ result'[c] = IF o = "auth" THEN result[c] ELSE s
        BY <4>1, ReturnEffect DEF UseAfter
      <4>3. ~ InLogin(c)' /\ ~ InLogout(c)'
        BY <2>1, <4>2, Phases
      <4>4. /\ heard'[c] \in {heard[c], IF o \in Logins THEN "login"
                                       ELSE IF o \in Logouts THEN "logout" ELSE heard[c]}
            /\ o \in Logouts => nats_online[c] /\ o # "auth"
            /\ "OK" \notin Early
        BY <3>3, <4>1, HeardEffect DEF SendFails, Early, Logouts
      <4> QED
        BY <2>2, <2>3, <2>4, <4>1, <4>2, <4>3, <4>4 DEF Agrees, Listed
    <3> QED
      BY <1>1, <3>1, <3>2, <3>3
  <2> QED
    BY <1>a, <2>1, <2>2, <2>5, AgreesOthers DEF Listed
<1>2. ASSUME NEW t \in AllThreads, List(t) PROVE \A d \in Clients : Agrees(d)'
  <2>1. PICK c \in Clients : c = cl[t] /\ op[t] \in Ops /\ CallOf(t, c)
    BY <1>2, CallGoesOn DEF CallStep
  <2>2. /\ Listed' = Listed \union {c} /\ heard' = heard
        /\ pc[t] = "sent" /\ op[t] \in Logins
    BY <1>2, <2>1, ListEffect
  <2>3. heard'[c] = "login" /\ use[c] = "new"
    BY <2>1, <2>2 DEF HeardFirst, ListedOnce
  <2>4. ~ InLogout(c)' /\ (use'[c] = "logged_in" => nats_online'[c])
    <3>1. CASE op[t] = "login_sync"
      <4>1. op'[t] = "login_sync" /\ use'[c] = "new"
        BY <1>2, <2>3, <3>1 DEF List
      <4> QED
        BY <2>1, <4>1, Phases
    <3>2. CASE op[t] # "login_sync"
      <4>1. nats_online'[c] = TRUE /\ \E s : Return(t, c, op[t], s)
        BY <1>2, <2>1, <3>2 DEF List, TypeInv, TypeOK
      <4>2. pc'[t] = "idle"
        BY <2>1, <4>1, ReturnEffect
      <4> QED
        BY <2>1, <4>1, <4>2, Phases
    <3> QED
      BY <3>1, <3>2
  <2>5. Agrees(c)'
    BY <2>2, <2>3, <2>4 DEF Agrees
  <2> QED
    BY <1>a, <2>1, <2>2, <2>5, AgreesOthers
<1>3. ASSUME NEW t \in AllThreads, Unlist(t) PROVE \A d \in Clients : Agrees(d)'
  <2>1. PICK c \in Clients : c = cl[t] /\ op[t] \in Ops /\ CallOf(t, c)
    BY <1>3, CallGoesOn DEF CallStep
  <2>2. pc[t] = "sent" /\ op[t] \in Logouts
    BY <1>3 DEF Unlist
  <2>3. Listed' = Listed \ {c}
    <3>1. CASE FindsNothing(c) /\ UNCHANGED <<conn_device_list, cmem>>
      <4>1. \A i \in 1 .. Len(conn_device_list) : conn_device_list[i] # c
        BY <2>1, <3>1, SubdevSessionAssumption DEF FindsNothing, Matches
      <4>2. c \notin Listed
        BY <4>1, ListedAt DEF Listed, TypeInv, TypeOK
      <4> QED
        BY <3>1, <4>2 DEF Listed
    <3>2. ASSUME NEW d \in Listed, Matches(c, d), Listed' = Listed \ {d}
          PROVE  Listed' = Listed \ {c}
      BY <1>a, <2>1, <3>2, PrefixFree DEF PrefixFree, Matches
    <3>3. NoRepeats(conn_device_list)
      BY DEF ListedOnce
    <3> QED
      BY <1>3, <2>1, <3>1, <3>2, <3>3, UnlistEffect
  <2>4. PICK s \in {"OK", "ERR"} : AfterUnlist(t, s)
    BY <1>3 DEF Unlist
  <2>5. ~ InLogin(c)' /\ (use'[c] = "logged_in" => InLogout(c)')
    <3>1. CASE op[t] = "logout_sync"
      <4>1. pc'[t] = "waiting" /\ cl'[t] = c /\ op'[t] = "logout_sync"
        BY <2>1, <2>4, <3>1 DEF AfterUnlist, TypeInv, TypeOK
      <4> QED
        BY <2>1, <4>1, Phases
    <3>2. CASE op[t] # "logout_sync"
      <4>1. Return(t, c, op[t], s)
        BY <2>1, <2>4, <3>2 DEF AfterUnlist
      <4>2. UseAfter(op[t], s, use[c]) = "done"
        BY <2>2 DEF UseAfter, Early, Logins, Logouts
      <4>3. pc'[t] = "idle" /\ use'[c] = "done"
        BY <2>1, <4>1, <4>2, ReturnEffect
      <4> QED
        BY <2>1, <4>3, Phases
    <3> QED
      BY <3>1, <3>2
  <2>6. Agrees(c)'
    BY <2>3, <2>5 DEF Agrees
  <2> QED
    BY <1>a, <2>1, <2>3, <2>6, AgreesOthers
<1>4. ASSUME NEW t \in AllThreads, NEW s \in Results \ Early, WaitEnds(t, s)
      PROVE  \A d \in Clients : Agrees(d)'
  <2>1. PICK c \in Clients : c = cl[t] /\ op[t] \in Ops /\ CallOf(t, c)
    BY <1>4, CallGoesOn DEF CallStep
  <2>2. /\ UNCHANGED <<conn_device_list, heard>> /\ Return(t, c, op[t], s)
        /\ pc[t] = "waiting" /\ op[t] \in {"login_sync", "logout_sync", "auth"}
        /\ nats_online' = IF s = "OK"
                          THEN [nats_online EXCEPT ![c] = op[t] # "logout_sync"]
                          ELSE nats_online
    BY <1>4, <2>1 DEF WaitEnds, listVars, TypeInv, CallsApart
  <2>3. /\ pc'[t] = "idle" /\ use'[c] = UseAfter(op[t], s, use[c])
        /\ result'[c] = IF op[t] = "auth" THEN result[c] ELSE s
    BY <2>1, <2>2, ReturnEffect
  <2>4. ~ InLogin(c)' /\ ~ InLogout(c)' /\ ~ BeginsLogout(c)
    BY <2>1, <2>2, <2>3, Phases
  <2>5. Agrees(c)
    BY <1>a, <2>1
  <2>6. op[t] # "logout_sync" => nats_online'[c] = (s = "OK" \/ nats_online[c])
    BY <2>1, <2>2 DEF TypeInv, TypeOK
  <2>7. Agrees(c)'
    <3>1. CASE op[t] = "login_sync"
      <4>1. InLogin(c) /\ heard[c] = "login"
        BY <2>1, <2>2, <3>1, Phases DEF HeardFirst, Logins
      <4> QED
        BY <2>2, <2>3, <2>4, <2>5, <2>6, <3>1, <4>1 DEF Agrees, Listed
    <3>2. CASE op[t] = "logout_sync"
      <4>1. InLogout(c) /\ use'[c] = "done"
        BY <2>1, <2>2, <2>3, <3>2, Phases DEF UseAfter, Logins
      <4> QED
        BY <2>2, <2>4, <2>5, <4>1 DEF Agrees, Listed
    <3>3. CASE op[t] = "auth"
      <4>1. ~ InLogout(c) /\ use'[c] = use[c] /\ result'[c] = result[c]
        BY <2>1, <2>2, <2>3, <3>3, Phases DEF UseAfter
      <4>2. nats_online[c] => nats_online'[c]
        BY <2>6, <3>3 DEF TypeInv, TypeOK
      <4> QED
        BY <2>2, <2>4, <2>5, <4>1, <4>2 DEF Agrees, Listed
    <3> QED
      BY <2>2, <3>1, <3>2, <3>3
  <2> QED
    BY <1>a, <2>1, <2>2, <2>7, AgreesOthers DEF Listed
<1>5. CASE \/ \E c \in Clients : Construct(c)
           \/ \E c \in Clients, i \in 1 .. Len(conn_device_list) : LocalFinds(c, i)
           \/ LocalCallsBack \/ LocalCallbackReturns
           \/ SyncReads \/ SyncReturnsLocked \/ SyncPublishes
           \/ UNCHANGED vars
  <2>1. UNCHANGED <<conn_device_list, nats_online, heard, callVars>>
    BY <1>5 DEF Construct, LocalFinds, LocalCallsBack, LocalCallbackReturns, SyncReads,
       SyncReturnsLocked, SyncPublishes, vars, handleVars, listVars
  <2> QED
    BY <1>a, <2>1 DEF Agrees, Listed, InLogin, InLogout, BeginsLogout, callVars
<1> QED
  BY <1>1, <1>2, <1>3, <1>4, <1>5 DEF Next, CallStep

LEMMA AgreesInvariant ==
  ASSUME ~ RetriesLogin, PrefixFree, ~ MallocFails
  PROVE  Spec => []StatesAgree
<1>1. TypeInv /\ ListedOnce /\ [Next]_vars => ListedOnce'
  BY ListedOnceStep
<1>2. TypeInv /\ HeardFirst /\ ListedOnce /\ StatesAgree /\ [Next]_vars => StatesAgree'
  BY AgreesStep
<1> QED
  BY <1>1, <1>2, TypeInvariant, HeardInit, HeardStep, ListedInit, AgreesInit, PTL
  DEF Spec

\* A device whose login returned EDGE_OK is online and in conn_device_list until
\* its own logout begins, whatever is done with other devices: for any handles,
\* threads and list length, as long as malloc succeeds, no serial number is a
\* prefix of another and no failed login is repeated.
THEOREM SessionLoginIsListed ==
  ASSUME ~ RetriesLogin, PrefixFree, ~ MallocFails
  PROVE  Spec => []LoginOkMeansListed
<1>1. Spec => []StatesAgree
  BY AgreesInvariant
<1>2. TypeInv /\ StatesAgree => LoginOkMeansListed
  BY DEF StatesAgree, Agrees, LoginOkMeansListed, InLogout, InCall
<1> QED
  BY <1>1, <1>2, TypeInvariant, PTL

\* Under the same conditions every listed device, and so every device that
\* _handle_status_sync reports as connected, is one whose login was sent to the
\* edge, and no later logout, unless that logout is going on or failed.
THEOREM SessionListedWasAnnounced ==
  ASSUME ~ RetriesLogin, PrefixFree, ~ MallocFails
  PROVE  Spec => []ListedWasAnnounced
<1>1. Spec => []StatesAgree
  BY AgreesInvariant
<1>2. TypeInv => Listed \subseteq Clients
  BY ListedAt DEF Listed, TypeInv, TypeOK
<1>3. TypeInv /\ StatesAgree => ListedWasAnnounced
  BY <1>2 DEF StatesAgree, Agrees, ListedWasAnnounced, BeginsLogout, InCall
<1> QED
  BY <1>1, <1>3, TypeInvariant, PTL

=============================================================================
