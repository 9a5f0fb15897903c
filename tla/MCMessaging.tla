----------------------------- MODULE MCMessaging -----------------------------
(***************************************************************************)
(* Instances of Messaging and GatewayState for TLC.  The two share no      *)
(* variable; either takes its steps while the other stands still.          *)
(***************************************************************************)
EXTENDS Messaging, GatewayState

\* One byte at the limits of its six upper bits, or special to a string; groups of
\* two and three bytes with all bits set and unset on both sides; some of more
\* groups, the longest beyond every buffer.
MCMessages ==
  {<<>>} \union {<<b>> : b \in {0, 3, 4, 34, 127, 128, 255}}
    \union {<<b, c>> : b \in {127, 170}, c \in {0, 85, 255}}
    \union {<<b, c, d>> : b \in {63, 255}, c \in {34, 255}, d \in {0, 255}}
    \union {<<65, 255, 34, 66>>, <<34, 65, 34, 66, 128>>, <<34, 34, 92, 34, 1, 2>>}
    \union {[i \in 1 .. n |-> 34] : n \in {10, 16}}
    \union {[i \in 1 .. n |-> 77] : n \in {9, 12, 13, 31, 32}}

\* A topic of this device, one of a remote call, and one of a device whose name
\* holds the word as well.
MCTopics == {<<"a">>, <<"rrpc", "request", "x">>, <<"request", "rrpc", "request", "x">>}

\* No device, some with entries that fit or are cut, and as many as fit, spoil the
\* log line, the report, and its buffer.
MCDeviceLists ==
  {<<>>, <<2>>, <<5, 6>>, <<2, 7, 3>>} \union {[i \in 1 .. n |-> 5] : n \in 1 .. 6}

\* The compiler has left zeros before base64_alphabet.
MCBeforeTable == [v \in -64 .. -1 |-> 0]

MCInit == Init /\ GatewayInit

MCNext ==
  \/ Next /\ UNCHANGED gatewayVars
  \/ GatewayNext /\ UNCHANGED vars

MCSpec ==
  /\ MCInit
  /\ [][MCNext]_<<vars, gatewayVars>>
  /\ GatewayFairness
=============================================================================
