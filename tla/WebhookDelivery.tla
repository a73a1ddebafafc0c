---------------------------- MODULE WebhookDelivery ----------------------------
(***************************************************************************)
(* How an issue of Jira or GitHub becomes a task, once.  Events about one  *)
(* issue arrive through errand-cloud, which repeats what was not           *)
(* acknowledged on the next connection, and directly, where the sender     *)
(* repeats what it likes.  Each path has its own memory of what it has     *)
(* handled; both end in a handler that checks for the issue's              *)
(* ExternalTaskRef and later inserts it with the task.                     *)
(***************************************************************************)
EXTENDS Naturals, FiniteSets

CONSTANTS
  Relayed,      \* ids of messages that errand-cloud relays
  Direct,       \* event ids of deliveries to /webhooks/{source}
  Loop,         \* the receive loop, which handles one message at a time
  MaxTroubles   \* bound: lost connections, repeats, failures and restarts

ASSUME DeliveryAssumption ==
  /\ Loop \notin Direct
  /\ MaxTroubles \in Nat

VARIABLES
  linked,      \* the WebSocket is open
  outbox,      \* of the cloud: what it still has to do with each message
  processed,   \* _processed_ids
  remembered,  \* _dedup_cache
  handler,     \* what each handler does: the loop's, one per direct event
  issue,       \* the message the loop handles
  ref,         \* the issue has an ExternalTaskRef
  tasks,       \* tasks there are for the issue
  troubles,
  dispatched   \* ghost: messages whose dispatch ran to its end

deliveryVars == <<linked, outbox, processed, remembered, handler, issue, ref,
                  tasks, troubles, dispatched>>

-----------------------------------------------------------------------------
Handlers == Direct \cup {Loop}
Nobody   == "nomessage"

DeliveryTypeOK ==
  /\ linked \in BOOLEAN
  /\ outbox \in [Relayed -> {"waiting", "sent", "acked"}]
  /\ processed \in SUBSET Relayed /\ remembered \in SUBSET Direct
  /\ handler \in [Handlers -> {"idle", "verifying", "checking", "creating",
                               "acking"}]
  /\ issue \in Relayed \cup {Nobody}
  /\ ref \in BOOLEAN /\ tasks \in Nat
  /\ troubles \in 0..MaxTroubles
  /\ dispatched \in SUBSET Relayed

DeliveryInit ==
  /\ linked = FALSE
  /\ outbox = [d \in Relayed |-> "waiting"]
  /\ processed = {} /\ remembered = {}
  /\ handler = [h \in Handlers |-> "idle"]
  /\ issue = Nobody
  /\ ref = FALSE /\ tasks = 0
  /\ troubles = 0
  /\ dispatched = {}

Trouble == troubles < MaxTroubles /\ troubles' = troubles + 1
\* A handler goes on to s; one of the loop's that ends has dispatched its message.
Turn(h, s) ==
  /\ handler' = [handler EXCEPT ![h] = s]
  /\ dispatched' = IF h = Loop /\ s = "acking" THEN dispatched \cup {issue}
                                                ELSE dispatched
\* What a handler returns to.
Ended(h) == IF h = Loop THEN "acking" ELSE "idle"

-----------------------------------------------------------------------------
(* The relay                                                               *)

\* A new connection forgets what the last one processed; the cloud sends again
\* whatever was not acknowledged.
Link ==
  /\ ~linked /\ handler[Loop] = "idle"
  /\ linked' = TRUE
  /\ processed' = {}
  /\ outbox' = [d \in Relayed |-> IF outbox[d] = "sent" THEN "waiting"
                                                       ELSE outbox[d]]
  /\ UNCHANGED <<remembered, handler, issue, ref, tasks, troubles, dispatched>>

LinkLost ==
  /\ linked /\ Trouble
  /\ linked' = FALSE
  /\ UNCHANGED <<outbox, processed, remembered, handler, issue, ref, tasks,
                 dispatched>>

\* The cloud repeats a message it believes unacknowledged.
Repeat(d) ==
  /\ linked /\ outbox[d] = "sent" /\ Trouble
  /\ outbox' = [outbox EXCEPT ![d] = "waiting"]
  /\ UNCHANGED <<linked, processed, remembered, handler, issue, ref, tasks,
                 dispatched>>

\* Wrong: the message is acknowledged as it arrives.
AckFirst(d) ==
  /\ linked /\ handler[Loop] = "idle" /\ outbox[d] = "waiting"
  /\ outbox' = [outbox EXCEPT ![d] = "acked"]
  /\ UNCHANGED <<linked, processed, remembered, handler, issue, ref, tasks,
                 troubles, dispatched>>
\* _handle_message: a message processed on this connection is acknowledged
\* again, another one dispatched.
ReceiveMessage(d) ==
  /\ linked /\ handler[Loop] = "idle" /\ outbox[d] = "waiting"
  /\ \/ /\ d \in processed
        /\ outbox' = [outbox EXCEPT ![d] = "acked"]
        /\ UNCHANGED <<handler, issue, dispatched>>
     \/ /\ d \notin processed
        /\ outbox' = [outbox EXCEPT ![d] = "sent"]
        /\ Turn(Loop, "verifying")
        /\ issue' = d
  /\ UNCHANGED <<linked, processed, remembered, ref, tasks, troubles>>

\* However the dispatch ended; the acknowledgement needs the connection.
Acknowledge ==
  /\ handler[Loop] = "acking"
  /\ processed' = processed \cup {issue}
  /\ outbox' = IF linked THEN [outbox EXCEPT ![issue] = "acked"] ELSE outbox
  /\ Turn(Loop, "idle")
  /\ issue' = Nobody
  /\ UNCHANGED <<linked, remembered, ref, tasks, troubles>>

-----------------------------------------------------------------------------
(* Direct deliveries                                                       *)

\* receive_webhook: an event seen within the TTL is answered as a duplicate,
\* another one remembered and handled in the background.
PostWebhook(d) ==
  /\ handler[d] = "idle" /\ d \notin remembered
  /\ remembered' = remembered \cup {d}
  /\ Turn(d, "verifying")
  /\ UNCHANGED <<linked, outbox, processed, issue, ref, tasks, troubles>>

\* DEDUP_TTL.
Forget(d) ==
  /\ d \in remembered /\ Trouble
  /\ remembered' = remembered \ {d}
  /\ UNCHANGED <<linked, outbox, processed, handler, issue, ref, tasks,
                 dispatched>>

-----------------------------------------------------------------------------
(* The handlers                                                            *)

\* No trigger, a disabled one, a signature or a filter that does not match:
\* discarded.
Verify(h) ==
  /\ handler[h] = "verifying"
  /\ \/ Turn(h, "checking") /\ UNCHANGED troubles
     \/ Turn(h, Ended(h)) /\ Trouble
  /\ UNCHANGED <<linked, outbox, processed, remembered, issue, ref, tasks>>

CheckRef(h) ==
  /\ handler[h] = "checking"
  /\ Turn(h, IF ref THEN Ended(h) ELSE "creating")
  /\ UNCHANGED <<linked, outbox, processed, remembered, issue, ref, tasks,
                 troubles>>

\* Wrong: the check was enough.
CreatedUnchecked == ref' = TRUE /\ tasks' = tasks + 1
\* The unique constraint refuses task and reference alike to the second.
CreatedOnce ==
  IF ref THEN UNCHANGED <<ref, tasks>> ELSE ref' = TRUE /\ tasks' = tasks + 1

\* One transaction; an error is logged, and the delivery counts as handled.
CreateExternal(h) ==
  /\ handler[h] = "creating"
  /\ \/ CreatedOnce /\ UNCHANGED troubles
     \/ Trouble /\ UNCHANGED <<ref, tasks>>
  /\ Turn(h, Ended(h))
  /\ UNCHANGED <<linked, outbox, processed, remembered, issue>>

-----------------------------------------------------------------------------
\* Deleting the task deletes the reference.
DeleteExternal ==
  /\ ref /\ Trouble
  /\ ref' = FALSE /\ tasks' = tasks - 1
  /\ UNCHANGED <<linked, outbox, processed, remembered, handler, issue,
                 dispatched>>

Restart ==
  /\ Trouble
  /\ linked' = FALSE
  /\ processed' = {} /\ remembered' = {}
  /\ handler' = [h \in Handlers |-> "idle"]
  /\ issue' = Nobody
  /\ UNCHANGED <<outbox, ref, tasks, dispatched>>

Handle(h) == Verify(h) \/ CheckRef(h) \/ CreateExternal(h)

RelayWork == Link \/ (\E d \in Relayed : ReceiveMessage(d)) \/ Acknowledge
             \/ Handle(Loop)

DeliveryNext ==
  \/ RelayWork
  \/ \E d \in Direct : PostWebhook(d) \/ Forget(d) \/ Handle(d)
  \/ \E d \in Relayed : Repeat(d)
  \/ LinkLost \/ DeleteExternal \/ Restart

DeliverySpec ==
  DeliveryInit /\ [][DeliveryNext]_deliveryVars /\ WF_deliveryVars(RelayWork)

-----------------------------------------------------------------------------
(* Properties                                                              *)

\* However often and on however many paths an issue is delivered, and however
\* the handlers interleave, there is one task for it.
OneTaskPerIssue == tasks <= 1

\* Once the relay is linked, losses, repeats and restarts let no message slip
\* through: each is dispatched to the end and then acknowledged.
RelayedIsDispatched ==
  \A d \in Relayed : linked /\ outbox[d] # "acked" ~>
                        outbox[d] = "acked" /\ d \in dispatched
=============================================================================
