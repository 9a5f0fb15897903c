---------------------------- MODULE GatewayState ----------------------------
(***************************************************************************)
(* Whether the gateway is online, as the driver knows it: every report of  *)
(* _handle_status_sync makes the edge publish its state on                 *)
(* edge.state.reply, and _on_edge_state_message keeps it in edge_state.    *)
(* What a report holds, and how the timer can get stuck, is the subject of *)
(* SubdevSession.                                                          *)
(***************************************************************************)
EXTENDS Sequences, Naturals

CONSTANT
  MaxReplies    \* bound: replies that wait for the handler

ASSUME GatewayAssumption == MaxReplies \in Nat \ {0}

VARIABLES
  online, up,   \* the uplink of the gateway; whether the edge process answers
  mute,         \* no report will be made: there is no timer, or it is stuck
  reported,     \* a report is with the edge
  replies,      \* the replies that wait for _on_edge_state_message
  edge_state

gatewayVars == <<online, up, mute, reported, replies, edge_state>>


\* _fetch_online_status goes unnoticed if it could not make the timer.
GatewayInit ==
  /\ online \in BOOLEAN /\ up \in BOOLEAN /\ mute \in BOOLEAN
  /\ reported = FALSE /\ replies = <<>>
  /\ edge_state = FALSE

\* The uplink goes down or comes back.
UplinkChanges ==
  /\ online' = ~ online
  /\ UNCHANGED <<up, mute, reported, replies, edge_state>>

\* The edge process stops, losing the report it has, or starts.
EdgeStopsOrStarts ==
  /\ up' = ~ up /\ reported' = FALSE
  /\ UNCHANGED <<online, mute, replies, edge_state>>

\* _handle_status_sync publishes a report.  One that has no memory for its buffers,
\* cannot be sent or finds no edge is no step.
Reports ==
  /\ ~ mute /\ up /\ ~ reported /\ reported' = TRUE
  /\ UNCHANGED <<online, up, mute, replies, edge_state>>

\* It has no memory for an iterator and returns with conn_device_list_mutex locked,
\* for which every later one waits.
ReportSticks ==
  /\ ~ mute /\ mute' = TRUE
  /\ UNCHANGED <<online, up, reported, replies, edge_state>>


\* The edge answers.  The reply is lost if MaxReplies wait.
EdgeReplies ==
  /\ reported /\ reported' = FALSE
  /\ replies' = IF Len(replies) < MaxReplies THEN Append(replies, online) ELSE replies
  /\ UNCHANGED <<online, up, mute, edge_state>>

\* Mutant: edge_state is set and never reset.
HandlesStateSets ==
  /\ replies # <<>>
  /\ edge_state' = (edge_state \/ Head(replies))
  /\ replies' = Tail(replies)
  /\ UNCHANGED <<online, up, mute, reported>>

\* _on_edge_state_message.
HandlesState ==
  /\ replies # <<>>
  /\ edge_state' = Head(replies)
  /\ replies' = Tail(replies)
  /\ UNCHANGED <<online, up, mute, reported>>

\* A reply that cJSON_Parse has no memory for, or that holds no state.
DropsState ==
  /\ replies # <<>>
  /\ replies' = Tail(replies)
  /\ UNCHANGED <<online, up, mute, reported, edge_state>>

GatewayNext ==
  \/ UplinkChanges \/ EdgeStopsOrStarts \/ Reports \/ ReportSticks \/ EdgeReplies
  \/ HandlesState \/ DropsState

\* Unless there is no timer, or it is stuck, it fires, and does not lack memory for
\* ever; the edge answers while it is up; and the handler that has replies gets
\* memory for one again and again.
GatewayFairness ==
  /\ WF_gatewayVars(Reports) /\ WF_gatewayVars(EdgeReplies)
  /\ SF_gatewayVars(HandlesState)

GatewaySpec == GatewayInit /\ [][GatewayNext]_gatewayVars /\ GatewayFairness

-----------------------------------------------------------------------------
(* Properties.                                                             *)

\* edge_get_online_status comes to tell what the uplink is and goes on telling it,
\* when the uplink no longer changes, the edge answers and the timer reports: no
\* reply from before the change is handled last.
EdgeStateFollows ==
  \A b \in BOOLEAN : <>[](up /\ online = b /\ ~ mute) => <>[](edge_state = b)

=============================================================================
