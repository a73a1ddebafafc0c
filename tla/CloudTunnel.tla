------------------------------ MODULE CloudTunnel ------------------------------
(***************************************************************************)
(* What comes through the cloud connection once it is open: the desktop's   *)
(* subscriptions, each forwarded by a coroutine of its own from a Valkey    *)
(* channel, its requests, and payment alerts.  The receive loop handles one *)
(* message at a time, so a request or an unsubscription it waits for holds  *)
(* up every other message.                                                  *)
(***************************************************************************)
EXTENDS Naturals, Sequences, FiniteSets

CONSTANTS
  Channels,
  MaxLinks,     \* bound on connections
  MaxMessages,  \* bound on subscribe and unsubscribe messages
  MaxHitches    \* bound on failures of Valkey and of the database

ASSUME TunnelAssumption ==
  MaxLinks \in Nat /\ MaxMessages \in Nat /\ MaxHitches \in Nat

VARIABLES
  stage,       \* where the client is
  conn, since, \* the connection, and the last one of the client before
  subscribed,  \* _subscriptions
  task,        \* _subscription_tasks: the connection each forwards to
  forwarders,  \* forwarders, by channel and connection
  soured,      \* forwarders that ended by an exception
  leaving,     \* channels of an unsubscribe message still to be left
  warning,     \* cloud_payment_warning is stored
  net,         \* ghost: what the desktop has subscribed to on this connection
  failed,      \* ghost: channels an exception has put out of step with that
  messages, hitches

tunnelVars == <<stage, conn, since, subscribed, task, forwarders, soured, leaving,
                warning, net, failed, messages, hitches>>

-----------------------------------------------------------------------------
Links == 1..MaxLinks
NoTask == 0
NoSubscriptions == [c \in Channels |-> 0]

TunnelTypeOK ==
  /\ stage \in {"off", "down", "registering", "receiving", "proxying", "leaving", "closing"}
  /\ conn \in 0..MaxLinks /\ since \in 0..conn
  /\ subscribed \in [Channels -> 0..MaxMessages]
  /\ task \in [Channels -> Links \cup {NoTask}]
  /\ forwarders \in [Channels \X Links -> 0..MaxMessages]
  /\ soured \in SUBSET (Channels \X Links)
  /\ leaving \in Seq(Channels) /\ (leaving = <<>> <=> stage # "leaving")
  /\ warning \in BOOLEAN
  /\ net \in [Channels -> 0..MaxMessages]
  /\ failed \in SUBSET Channels
  /\ messages \in 0..MaxMessages
  /\ hitches \in 0..MaxHitches

TunnelInit ==
  /\ stage = "down" /\ conn = 0 /\ since = 0
  /\ subscribed = NoSubscriptions
  /\ task = [c \in Channels |-> NoTask]
  /\ forwarders = [k \in Channels \X Links |-> 0]
  /\ soured = {} /\ leaving = <<>> /\ warning = FALSE
  /\ net = NoSubscriptions /\ failed = {}
  /\ messages = 0 /\ hitches = 0

Hitch == hitches < MaxHitches /\ hitches' = hitches + 1

-----------------------------------------------------------------------------
(* Connections                                                             *)

\* Wrong: the count is left to the clean-up of the connection before.
AsLeft == subscribed
AtConnect == NoSubscriptions

\* _connect_and_receive up to the registration.
OpensTunnel ==
  /\ stage = "down" /\ conn < MaxLinks
  /\ stage' = "registering" /\ conn' = conn + 1
  /\ subscribed' = AtConnect
  /\ net' = NoSubscriptions /\ failed' = {}
  /\ UNCHANGED <<since, task, forwarders, soured, leaving, warning, messages, hitches>>

\* By the acknowledgement, another message or none; or the client gives up.
EndsRegistration ==
  /\ stage = "registering" /\ stage' \in {"receiving", "down"}
  /\ UNCHANGED <<conn, since, subscribed, task, forwarders, soured, leaving, warning,
                 net, failed, messages, hitches>>

\* The watchdog, a close code, or a client told to stop.
LosesTunnel ==
  /\ stage = "receiving" /\ stage' = "closing"
  /\ UNCHANGED <<conn, since, subscribed, task, forwarders, soured, leaving, warning,
                 net, failed, messages, hitches>>

Tasks == {c \in Channels : task[c] # NoTask}
Cancelled(cs) ==
  [k \in Channels \X Links |-> IF k[1] \in cs /\ k[2] = task[k[1]] THEN 0 ELSE forwarders[k]]

\* _cleanup_subscriptions cancels every forwarder before it waits for them; one
\* that raises, now or in an earlier clean-up, breaks it off.
CleansUp ==
  LET raised == {<<c, task[c]>> : c \in Tasks} \cap soured IN
  /\ stage = "closing" /\ stage' \in {"down", "off"}
  /\ forwarders' = Cancelled(Tasks)
  /\ \/ /\ raised = {}
        /\ subscribed' = NoSubscriptions
        /\ task' = [c \in Channels |-> NoTask]
        /\ UNCHANGED <<soured, hitches>>
     \/ raised # {} /\ UNCHANGED <<subscribed, task, soured, hitches>>
     \/ \E c \in Tasks :
          /\ Hitch /\ forwarders[<<c, task[c]>>] > 0
          /\ soured' = soured \cup {<<c, task[c]>>}
          /\ UNCHANGED <<subscribed, task>>
  /\ UNCHANGED <<conn, since, leaving, warning, net, failed, messages>>

\* stop_cloud_client cancels the client; nothing is cleaned up.  A client that
\* waits for a forwarder, in an unsubscription or a clean-up, takes the
\* cancellation for the forwarder's and goes on.
StopsClient ==
  /\ stage \notin {"off", "leaving"}
  /\ stage' = "off"
  /\ UNCHANGED <<conn, since, subscribed, task, forwarders, soured, leaving, warning,
                 net, failed, messages, hitches>>

\* A new CloudWebSocketClient.
StartsClient ==
  /\ stage = "off" /\ stage' = "down" /\ since' = conn
  /\ subscribed' = NoSubscriptions
  /\ task' = [c \in Channels |-> NoTask] /\ soured' = {}
  /\ UNCHANGED <<conn, forwarders, leaving, warning, net, failed, messages, hitches>>

-----------------------------------------------------------------------------
(* Messages                                                                *)

\* _handle_subscribe, also as the first message; without Valkey a forwarder
\* ends at once.
Subscribes(cs) ==
  LET first == {c \in cs : subscribed[c] = 0} IN
  /\ stage \in {"registering", "receiving"} /\ stage' = "receiving"
  /\ messages < MaxMessages /\ messages' = messages + 1
  /\ subscribed' = [c \in Channels |-> subscribed[c] + (IF c \in cs THEN 1 ELSE 0)]
  /\ task' = [c \in Channels |-> IF c \in first THEN conn ELSE task[c]]
  /\ net' = [c \in Channels |-> net[c] + (IF c \in cs THEN 1 ELSE 0)]
  /\ \/ /\ forwarders' = [k \in Channels \X Links |->
               forwarders[k] + (IF k[1] \in first /\ k[2] = conn THEN 1 ELSE 0)]
        /\ UNCHANGED <<failed, hitches>>
     \/ /\ Hitch /\ failed' = failed \cup first /\ UNCHANGED forwarders
  /\ UNCHANGED <<conn, since, soured, leaving, warning>>

\* _handle_unsubscribe
Unsubscribes(cs) ==
  /\ stage = "receiving" /\ stage' = "leaving" /\ leaving' = cs
  /\ messages < MaxMessages /\ messages' = messages + 1
  /\ net' = [c \in Channels |->
       IF (\E i \in DOMAIN cs : cs[i] = c) /\ net[c] > 0 THEN net[c] - 1 ELSE net[c]]
  /\ UNCHANGED <<conn, since, subscribed, task, forwarders, soured, warning, failed, hitches>>

\* The rest of the message, or none of it after an exception.
Continues(rest) == leaving' = rest /\ stage' = IF rest = <<>> THEN "receiving" ELSE "leaving"

\* One channel of the message: the last subscription ends the forwarder.
LeavesChannel ==
  LET c == Head(leaving)
      rest == Tail(leaving)
      skipped == {rest[i] : i \in DOMAIN rest}
      forwarder == <<c, task[c]>>
  IN
  /\ stage = "leaving"
  /\ subscribed' = [subscribed EXCEPT ![c] = IF @ > 0 THEN @ - 1 ELSE 0]
  /\ IF subscribed[c] # 1
     THEN Continues(rest) /\ UNCHANGED <<task, forwarders, failed, hitches>>
     ELSE /\ task' = [task EXCEPT ![c] = NoTask]
          /\ forwarders' = Cancelled({c})
          /\ \/ /\ forwarder \notin soured /\ Continues(rest)
                /\ failed' = failed \ {c} /\ UNCHANGED hitches
             \/ /\ forwarder \in soured /\ Continues(<<>>)
                /\ failed' = (failed \ {c}) \cup skipped /\ UNCHANGED hitches
             \/ /\ task[c] # NoTask /\ forwarders[forwarder] > 0 /\ Hitch
                /\ Continues(<<>>) /\ failed' = (failed \ {c}) \cup skipped
  /\ UNCHANGED <<conn, since, soured, warning, net, messages>>

\* _handle_proxy_request: the loop waits for the server's own answer.
Proxies ==
  /\ \/ stage = "receiving" /\ stage' = "proxying"
     \/ stage = "proxying" /\ stage' = "receiving"
  /\ UNCHANGED <<conn, since, subscribed, task, forwarders, soured, leaving, warning,
                 net, failed, messages, hitches>>

\* _handle_subscription_alert; a database that fails leaves the warning.
Alerts(paid) ==
  /\ stage = "receiving"
  /\ \/ warning' = ~paid /\ UNCHANGED hitches
     \/ Hitch /\ UNCHANGED warning
  /\ UNCHANGED <<stage, conn, since, subscribed, task, forwarders, soured, leaving,
                 net, failed, messages>>

-----------------------------------------------------------------------------
Alive(k) == k = conn /\ stage \in {"registering", "receiving", "proxying", "leaving"}

\* _forward_channel: on a connection that is gone the next event ends it, on a
\* live one a failure of Valkey; its own clean-up may raise.
ForwarderEnds(c, k) ==
  /\ forwarders[<<c, k>>] > 0
  /\ forwarders' = [forwarders EXCEPT ![<<c, k>>] = @ - 1]
  /\ \/ ~Alive(k) /\ UNCHANGED <<failed, hitches, soured>>
     \/ Hitch /\ failed' = (IF Alive(k) THEN failed \cup {c} ELSE failed)
        /\ soured' \in {soured, soured \cup {<<c, k>>}}
  /\ UNCHANGED <<stage, conn, since, subscribed, task, leaving, warning, net, messages>>

TunnelNext ==
  \/ OpensTunnel \/ EndsRegistration \/ LosesTunnel \/ CleansUp
  \/ StopsClient \/ StartsClient \/ Proxies \/ LeavesChannel
  \/ \E cs \in SUBSET Channels : cs # {} /\ Subscribes(cs)
  \/ \E c, d \in Channels : Unsubscribes(IF c = d THEN <<c>> ELSE <<c, d>>)
  \/ \E paid \in BOOLEAN : Alerts(paid)
  \/ \E c \in Channels, k \in Links : ForwarderEnds(c, k)

-----------------------------------------------------------------------------
\* Between messages a channel has one forwarder to the connection that is
\* open if the desktop has subscribed to it there and none if it has not,
\* whatever earlier connections and broken-off clean-ups left behind; only a
\* channel whose forwarder failed on this connection is excepted.  A client
\* that is not connected has none (_handle_subscribe, _handle_unsubscribe,
\* _cleanup_subscriptions).
SubscribedIsForwarded ==
  /\ stage = "receiving" => \A c \in Channels \ failed :
       forwarders[<<c, conn>>] = IF net[c] > 0 THEN 1 ELSE 0
  /\ stage = "down" => \A c \in Channels, k \in Links : k > since => forwarders[<<c, k>>] = 0

TunnelSpec == TunnelInit /\ [][TunnelNext]_tunnelVars
=============================================================================
