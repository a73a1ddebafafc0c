---------------------------- MODULE CloudEndpoints ----------------------------
(***************************************************************************)
(* Webhook endpoints: every trigger row of this server has at most one     *)
(* endpoint on errand-cloud, to which Jira or GitHub delivers.  Requests   *)
(* create, save and delete triggers, a pass repairs what the cloud lost    *)
(* after every connect, and a disconnect takes everything down.  All run   *)
(* on one event loop; each step below ends at an await of the code.        *)
(*                                                                         *)
(* A URL and its token come together and are one number, 0 when null.      *)
(* The cloud is external: it registers by trigger id, may have lost an     *)
(* endpoint, refuse a call, or lose the answer to one it served.           *)
(***************************************************************************)
EXTENDS Naturals, FiniteSets

CONSTANTS
  Triggers,       \* WebhookTrigger rows that may come to exist
  Sources,        \* WEBHOOK_TRIGGER_INTEGRATIONS
  Requests,       \* HTTP requests in flight at a time
  Pass            \* the one pass that _post_connect_lock lets run

CONSTANTS         \* bounds of the model, not of the program
  MaxTokens,      \* tokens the cloud issues in one behaviour
  MaxCloudFaults, \* failed calls and lost endpoints in one behaviour
  MaxConnects,    \* connections in one behaviour
  MaxRequests     \* requests in one behaviour

ASSUME EndpointsAssumption ==
  /\ Pass \notin Requests
  /\ "free" \notin Requests \cup {Pass}   \* Free, below, is nobody
  /\ Sources # {} /\ Triggers # {}
  /\ MaxTokens \in Nat /\ MaxCloudFaults \in Nat /\ MaxConnects \in Nat
  /\ MaxRequests \in Nat

VARIABLES
  trigger,     \* the rows
  held,        \* what the cloud holds for a trigger id
  issued,      \* tokens the cloud has issued
  credential,  \* status of the "cloud" PlatformCredential
  client,      \* TRUE while the WebSocket client runs
  actor,       \* what each actor does, how far, on which row, the row as it
               \* read it, and the token its POST returned
  guardian,    \* who holds the trigger's endpoint lock
  pass,        \* of the pass: what it read and what is left to do
  news,        \* Setting cloud_endpoint_url_changes: changes, last_known
  cloudFaults, connects, asked,  \* counted against the bounds
  pointed,     \* ghost: the URL the third party is configured with
  excused,     \* ghost: rows whose endpoint the code lost track of
  dropped      \* ghost: rows whose last_known a dismissal threw away

cloudVars    == <<held, issued, cloudFaults>>
linkVars     == <<credential, client, connects, asked>>
tellVars     == <<news, pointed, dropped>>
endpointVars == <<trigger, cloudVars, linkVars, actor, guardian, pass,
                  tellVars, excused>>

-----------------------------------------------------------------------------
None   == 0
Actors == Requests \cup {Pass}
Free   == "free"
Kinds  == {"none", "create", "update", "delete", "disconnect", "pass"}
Steps  == {"idle", "saving", "waiting", "resolving", "posting", "answered",
           "refused", "revoking", "removing", "stopping", "cancelling",
           "bulk", "clearing", "choosing"}
Row    == [state: {"unborn", "there", "gone"}, source: Sources, token: Nat,
           url: Nat]
News   == [changes: SUBSET Triggers, lastKnown: [Triggers -> Nat]]

\* Variables in their sets, and nobody idles with something to do.
EndpointsTypeOK ==
  /\ trigger \in [Triggers -> Row]
  /\ held \in [Triggers -> [source: Sources, token: Nat]]
  /\ issued \in Nat
  /\ credential \in {"none", "connected", "error"}
  /\ client \in BOOLEAN
  /\ actor \in [Actors -> [doing: Kinds, step: Steps, subject: Triggers,
                           loaded: Row, answer: Nat]]
  /\ guardian \in [Triggers -> Actors \cup {Free}]
  /\ pass \in [seen: [Triggers -> Nat], todo: [Sources -> SUBSET Triggers],
               group: Sources, work: SUBSET Triggers, listing: SUBSET Nat,
               noted: News]
  /\ news \in News
  /\ cloudFaults \in 0..MaxCloudFaults /\ connects \in 0..MaxConnects
  /\ asked \in 0..MaxRequests
  /\ pointed \in [Triggers -> Nat]
  /\ excused \in SUBSET Triggers /\ dropped \in SUBSET Triggers
  /\ \A a \in Actors : actor[a].doing = "none" <=> actor[a].step = "idle"

NoToken  == [t \in Triggers |-> None]
NoNews   == [changes |-> {}, lastKnown |-> NoToken]
ASource  == CHOOSE s \in Sources : TRUE
BlankRow == [state |-> "unborn", source |-> ASource, token |-> None,
             url |-> None]
NoPass   == [seen |-> NoToken, todo |-> [s \in Sources |-> {}],
             group |-> ASource, work |-> {}, listing |-> {}, noted |-> NoNews]
Idle     == [doing |-> "none", step |-> "idle", answer |-> None,
             subject |-> CHOOSE t \in Triggers : TRUE, loaded |-> BlankRow]

EndpointInit ==
  /\ trigger \in [Triggers -> {BlankRow, [BlankRow EXCEPT !.state = "there"]}]
  /\ held = [t \in Triggers |-> [source |-> ASource, token |-> None]]
  /\ issued = 0
  /\ credential = "none" /\ client = FALSE
  /\ actor = [a \in Actors |-> Idle]
  /\ guardian = [t \in Triggers |-> Free]
  /\ pass = NoPass
  /\ news = NoNews
  /\ cloudFaults = 0 /\ connects = 0 /\ asked = 0
  /\ pointed = NoToken /\ excused = {} /\ dropped = {}

-----------------------------------------------------------------------------
(* How an actor moves                                                      *)

There(t)   == trigger[t].state = "there"
Goto(a, s) == actor' = [actor EXCEPT ![a].step = s]

Begin(q, kind, s, t, row) ==
  /\ actor[q] = Idle
  /\ asked < MaxRequests /\ asked' = asked + 1
  /\ actor' = [actor EXCEPT ![q] = [Idle EXCEPT !.doing = kind, !.step = s,
                                    !.subject = t, !.loaded = row]]

\* A request is answered; the pass turns to its next row.
Done(a) ==
  actor' = [actor EXCEPT ![a] = IF a = Pass
              THEN [Idle EXCEPT !.doing = "pass", !.step = "choosing"]
              ELSE Idle]

Unlocked(a) == [t \in Triggers |-> IF guardian[t] = a THEN Free ELSE guardian[t]]

Leave(a) == Done(a) /\ guardian' = Unlocked(a)

CloudFails == cloudFaults < MaxCloudFaults /\ cloudFaults' = cloudFaults + 1

Registers(a, t) ==
  actor[a].subject = t /\ actor[a].step \in {"resolving", "posting", "answered"}

\* A creation registers its row without the row's lock.
Unguarded(t) == \E q \in Requests : actor[q].doing = "create" /\ Registers(q, t)

\* trigger_endpoint_lock, and the row as it is read under it.
Guard(a, t, s) ==
  /\ guardian' = [guardian EXCEPT ![t] = a]
  /\ actor' = [actor EXCEPT ![a].subject = t, ![a].loaded = trigger[t],
                            ![a].step = s]
  /\ excused' = IF Unguarded(t) THEN excused \cup {t} ELSE excused

-----------------------------------------------------------------------------
(* Trigger routes                                                          *)

\* create_trigger commits the row, then registers it.
CreateTrigger(q, t, s) ==
  /\ trigger[t].state = "unborn"
  /\ LET row == [trigger[t] EXCEPT !.state = "there", !.source = s] IN
     /\ trigger' = [trigger EXCEPT ![t] = row]
     /\ Begin(q, "create", "resolving", t, row)
  /\ UNCHANGED <<cloudVars, credential, client, connects, guardian, pass, tellVars, excused>>

\* update_trigger and delete_trigger load the row.
LoadTrigger(q, t, kind) ==
  /\ There(t)
  /\ Begin(q, kind, IF kind = "update" THEN "saving" ELSE "waiting", t, BlankRow)
  /\ UNCHANGED <<trigger, cloudVars, credential, client, connects, guardian, pass, tellVars, excused>>

\* The commit of update_trigger, outside the lock; it fails on a row that is
\* gone.
SaveTrigger(q, s) ==
  /\ actor[q].step = "saving"
  /\ LET t == actor[q].subject IN
     \/ /\ There(t)
        /\ trigger' = [trigger EXCEPT ![t].source = s]
        /\ Goto(q, "waiting")
     \/ /\ ~There(t)
        /\ Done(q) /\ UNCHANGED trigger
  /\ UNCHANGED <<cloudVars, linkVars, guardian, pass, tellVars, excused>>

\* Both re-read the row under its lock; a row that is gone ends the request.
LockTrigger(q) ==
  /\ actor[q].step = "waiting"
  /\ LET t == actor[q].subject IN
     /\ guardian[t] = Free
     /\ \/ /\ There(t)
           /\ Guard(q, t, IF actor[q].doing = "update" THEN "resolving"
                                                      ELSE "revoking")
        \/ /\ ~There(t)
           /\ Done(q) /\ UNCHANGED <<guardian, excused>>
  /\ UNCHANGED <<trigger, cloudVars, linkVars, pass, tellVars>>

\* DELETE by token takes down that token only; without one, whatever the cloud
\* has under this trigger id and integration.
Revoked(q, t) ==
  IF actor[q].loaded.token # None THEN held[t].token = actor[q].loaded.token
                            ELSE held[t].source = actor[q].loaded.source

\* revoke_webhook_trigger_in_cloud: skipped when not connected, and its
\* failure is swallowed; either way the row goes next.
RevokeTrigger(q) ==
  /\ actor[q].step = "revoking"
  /\ LET t == actor[q].subject IN
     \/ /\ credential = "connected"
        /\ held' = [held EXCEPT ![t].token = IF Revoked(q, t) THEN None ELSE @]
        /\ UNCHANGED <<cloudFaults, excused>>
     \/ /\ \/ credential # "connected" /\ UNCHANGED cloudFaults
           \/ credential = "connected" /\ CloudFails
        /\ excused' = excused \cup {t}
        /\ UNCHANGED held
  /\ Goto(q, "removing")
  /\ UNCHANGED <<trigger, issued, linkVars, guardian, pass, tellVars>>

\* The row is deleted and its lock forgotten.
RemoveTrigger(q) ==
  /\ actor[q].step = "removing"
  /\ trigger' = [trigger EXCEPT ![actor[q].subject].state = "gone"]
  /\ Leave(q)
  /\ UNCHANGED <<cloudVars, linkVars, pass, tellVars, excused>>

-----------------------------------------------------------------------------
(* register_webhook_trigger_with_cloud, for a request and for the pass     *)

ResolveContext(a) ==
  /\ actor[a].step = "resolving"
  /\ Goto(a, IF credential = "connected" THEN "posting" ELSE "refused")
  /\ UNCHANGED <<trigger, cloudVars, linkVars, guardian, pass, tellVars, excused>>

\* The cloud registers a trigger id: with the token it has, or a new one.
Upsert(t, s, n) ==
  /\ \/ n = held[t].token /\ n # None /\ UNCHANGED issued
     \/ issued < MaxTokens /\ n = issued + 1 /\ issued' = n
  /\ held' = [held EXCEPT ![t] = [source |-> s, token |-> n]]

\* A disconnect has revoked what there was.
TakenDown ==
  credential = "none" \/ \E q \in Requests : actor[q].step = "clearing"

\* Served, served with the answer lost, or refused.
PostEndpoint(a) ==
  /\ actor[a].step = "posting"
  /\ LET t == actor[a].subject IN
     \/ \E n \in 1..MaxTokens :
          /\ Upsert(t, actor[a].loaded.source, n)
          /\ \/ /\ actor' = [actor EXCEPT ![a].answer = n,
                                          ![a].step = "answered"]
                /\ excused' = IF a # Pass /\ TakenDown THEN excused \cup {t}
                                                      ELSE excused
                /\ UNCHANGED cloudFaults
             \/ /\ CloudFails
                /\ Goto(a, "refused")
                /\ excused' = excused \cup {t}
     \/ /\ CloudFails
        /\ Goto(a, "refused")
        /\ UNCHANGED <<held, issued, excused>>
  /\ UNCHANGED <<trigger, linkVars, guardian, pass, tellVars>>

\* The ORM writes the columns that differ from what it loaded.
Written(a, t) ==
  LET new == actor[a].answer
      old == actor[a].loaded
  IN  [trigger EXCEPT ![t].token = IF new = old.token THEN @ ELSE new,
                      ![t].url   = IF new = old.url   THEN @ ELSE new]

\* A request's answer shows the URL.  A row that is gone makes the commit fail.
CommitRequest(q) ==
  /\ q # Pass /\ actor[q].step = "answered"
  /\ LET t == actor[q].subject IN
     \/ /\ There(t)
        /\ trigger' = Written(q, t)
        /\ pointed' = [pointed EXCEPT ![t] = None]
     \/ ~There(t) /\ UNCHANGED <<trigger, pointed>>
  /\ Leave(q)
  /\ UNCHANGED <<cloudVars, linkVars, pass, news, dropped, excused>>

RefuseRequest(q) ==
  /\ q # Pass /\ actor[q].step = "refused"
  /\ Leave(q)
  /\ UNCHANGED <<trigger, cloudVars, linkVars, pass, tellVars, excused>>

-----------------------------------------------------------------------------
(* The reconciliation pass                                                 *)

\* Ids and tokens of all rows, read at once.
PassBegin ==
  /\ client /\ actor[Pass] = Idle /\ credential = "connected"
  /\ Done(Pass)
  /\ pass' = [NoPass EXCEPT
       !.seen = [t \in Triggers |-> trigger[t].token],
       !.todo = [s \in Sources |->
                  {t \in Triggers : There(t) /\ trigger[t].source = s}]]
  /\ UNCHANGED <<trigger, cloudVars, linkVars, guardian, tellVars, excused>>

\* One listing per integration; a failed one leaves its rows alone.
PassList(s) ==
  /\ actor[Pass].step = "choosing" /\ pass.work = {} /\ pass.todo[s] # {}
  /\ LET live == {held[t].token : t \in {u \in Triggers :
                     held[u].source = s}} \ {None} IN
     \/ /\ pass' = [pass EXCEPT !.todo[s] = {}, !.group = s, !.listing = live,
            !.work = {t \in pass.todo[s] : pass.seen[t] \notin live}]
        /\ UNCHANGED cloudFaults
     \/ CloudFails /\ pass' = [pass EXCEPT !.todo[s] = {}]
  /\ UNCHANGED <<trigger, held, issued, linkVars, actor, guardian, tellVars,
                 excused>>

\* Wrong: the pass acts on its snapshot.
MissingWhenSeen(t) == pass.seen[t] \notin pass.listing
\* _reconcile_one re-reads the row under its lock: skipped when it is gone,
\* has moved, or carries a token the listing had.
StillMissing(t) ==
  There(t) /\ trigger[t].source = pass.group /\ trigger[t].token \notin pass.listing

PassTake(t) ==
  /\ actor[Pass].step = "choosing" /\ t \in pass.work /\ guardian[t] = Free
  /\ pass' = [pass EXCEPT !.work = @ \ {t}, !.noted = news]
  /\ \/ /\ StillMissing(t)
        /\ Guard(Pass, t, "resolving")
     \/ /\ ~StillMissing(t)
        /\ UNCHANGED <<guardian, actor, excused>>
  /\ UNCHANGED <<trigger, cloudVars, linkVars, tellVars>>

\* Wrong: a URL cleared by a failed attempt is forgotten.
UrlOnRow(t) == actor[Pass].loaded.url
\* Either the URL the row still holds, or the one an earlier pass cleared.
PreviousUrl(t) == IF actor[Pass].loaded.url # None THEN actor[Pass].loaded.url
                                             ELSE pass.noted.lastKnown[t]

\* What the pass writes back is what it loaded, with this row's entry.
Noting(t) ==
  [changes |-> IF PreviousUrl(t) \notin {None, actor[Pass].answer}
                 THEN pass.noted.changes \cup {t} ELSE pass.noted.changes,
   lastKnown |-> [pass.noted.lastKnown EXCEPT ![t] = None]]

PassCommit ==
  /\ actor[Pass].step = "answered"
  /\ LET t == actor[Pass].subject IN
     \/ There(t) /\ trigger' = Written(Pass, t) /\ news' = Noting(t)
     \/ ~There(t) /\ UNCHANGED <<trigger, news>>
  /\ Leave(Pass)
  /\ UNCHANGED <<cloudVars, linkVars, pass, pointed, dropped, excused>>

\* A URL whose endpoint is gone and could not be made again is not shown.
PassClear ==
  /\ actor[Pass].step = "refused"
  /\ LET t == actor[Pass].subject IN
     \/ /\ There(t) /\ actor[Pass].loaded.url # None
        /\ trigger' = [trigger EXCEPT ![t].url = None]
        /\ news' = [pass.noted EXCEPT !.lastKnown[t] = actor[Pass].loaded.url]
     \/ /\ ~There(t) \/ actor[Pass].loaded.url = None
        /\ UNCHANGED <<trigger, news>>
  /\ Leave(Pass)
  /\ UNCHANGED <<cloudVars, linkVars, pass, pointed, dropped, excused>>

PassEnd ==
  /\ actor[Pass].step = "choosing" /\ pass.work = {}
  /\ \A s \in Sources : pass.todo[s] = {}
  /\ actor' = [actor EXCEPT ![Pass] = Idle]
  /\ pass' = NoPass
  /\ UNCHANGED <<trigger, cloudVars, linkVars, guardian, tellVars, excused>>

-----------------------------------------------------------------------------
(* Connection and disconnection                                            *)

Disconnecting == \E q \in Requests : actor[q].doing = "disconnect"

\* A device grant, or the start of the process: credential and client.  One
\* that crosses a disconnect may be undone by it or undo it.
Connect ==
  /\ connects < MaxConnects /\ connects' = connects + 1
  /\ credential' = "connected" /\ client' = TRUE
  /\ excused' = IF Disconnecting THEN Triggers ELSE excused
  /\ UNCHANGED <<asked, trigger, cloudVars, actor, guardian, pass, tellVars>>

\* A refused refresh of the access token.
CredentialError ==
  /\ credential = "connected" /\ credential' = "error"
  /\ CloudFails
  /\ UNCHANGED <<asked, trigger, held, issued, client, connects, actor, guardian,
                 pass, tellVars, excused>>

BeginDisconnect(q) ==
  /\ credential # "none" /\ ~Disconnecting
  /\ Begin(q, "disconnect", "stopping", Idle.subject, BlankRow)
  /\ UNCHANGED <<trigger, cloudVars, credential, client, connects, guardian, pass, tellVars, excused>>

\* stop_cloud_client, so that nothing is left that could start a pass ...
StopClient(q) ==
  /\ actor[q].step = "stopping"
  /\ client' = FALSE /\ Goto(q, "cancelling")
  /\ UNCHANGED <<asked, trigger, cloudVars, credential, connects, guardian, pass,
                 tellVars, excused>>

\* Wrong: a pass that runs is left to finish.
CancelNothing(q) ==
  /\ actor[q].step = "cancelling"
  /\ Goto(q, "bulk")
  /\ UNCHANGED <<trigger, cloudVars, linkVars, guardian, pass, tellVars, excused>>
\* ... then cancel_endpoint_tasks.  A cancelled POST was served or was not, and
\* its answer reached nobody.
CancelPass(q) ==
  /\ actor[q].step = "cancelling"
  /\ actor' = [actor EXCEPT ![q].step = "bulk", ![Pass] = Idle]
  /\ guardian' = Unlocked(Pass)
  /\ pass' = NoPass
  /\ LET t == actor[Pass].subject IN
     /\ excused' = IF actor[Pass].step \in {"posting", "answered"}
                     THEN excused \cup {t} ELSE excused
     /\ \/ UNCHANGED <<held, issued>>
        \/ /\ actor[Pass].step = "posting"
           /\ \E n \in 1..MaxTokens : Upsert(t, actor[Pass].loaded.source, n)
  /\ UNCHANGED <<trigger, cloudFaults, linkVars, tellVars>>

\* One bulk DELETE per integration; each may fail.
BulkRevoke(q) ==
  /\ actor[q].step = "bulk"
  /\ Goto(q, "clearing")
  /\ \E failed \in SUBSET Sources :
       /\ IF failed = {} THEN UNCHANGED cloudFaults ELSE CloudFails
       /\ held' = [t \in Triggers |-> IF held[t].source \in failed THEN held[t]
                                      ELSE [held[t] EXCEPT !.token = None]]
       /\ excused' = excused \cup {t \in Triggers : held[t].source \in failed}
  /\ UNCHANGED <<trigger, issued, linkVars, guardian, pass, tellVars>>

\* URLs, tokens, the credential and what was to be told go in one commit.
ClearLocal(q) ==
  /\ actor[q].step = "clearing"
  /\ trigger' = [t \in Triggers |->
                   [trigger[t] EXCEPT !.token = None, !.url = None]]
  /\ credential' = "none"
  /\ news' = NoNews /\ pointed' = NoToken /\ dropped' = {}
  /\ Done(q)
  /\ UNCHANGED <<asked, cloudVars, client, connects, guardian, pass, excused>>

-----------------------------------------------------------------------------
(* The user and the cloud                                                  *)

\* The third party is configured with the URL on display.
UserPoints(t) ==
  /\ There(t) /\ trigger[t].url \notin {None, pointed[t]}
  /\ pointed' = [pointed EXCEPT ![t] = trigger[t].url]
  /\ UNCHANGED <<trigger, cloudVars, linkVars, actor, guardian, pass, news,
                 dropped, excused>>

\* clear_url_changes deletes the whole setting, last_known with it.
Dismiss ==
  /\ news # NoNews
  /\ news' = NoNews
  /\ pointed' = [t \in Triggers |-> IF t \in news.changes THEN None
                                                         ELSE pointed[t]]
  /\ dropped' = dropped \cup {t \in Triggers : news.lastKnown[t] # None}
  /\ UNCHANGED <<trigger, cloudVars, linkVars, actor, guardian, pass,
                 excused>>

CloudLoses(t) ==
  /\ held[t].token # None /\ CloudFails
  /\ held' = [held EXCEPT ![t].token = None]
  /\ UNCHANGED <<trigger, issued, linkVars, actor, guardian, pass, tellVars,
                 excused>>

-----------------------------------------------------------------------------
EndpointNext ==
  \/ \E q \in Requests :
       \/ \E t \in Triggers :
            \/ \E s \in Sources : CreateTrigger(q, t, s)
            \/ \E kind \in {"update", "delete"} : LoadTrigger(q, t, kind)
       \/ \E s \in Sources : SaveTrigger(q, s)
       \/ LockTrigger(q) \/ RevokeTrigger(q) \/ RemoveTrigger(q)
       \/ CommitRequest(q) \/ RefuseRequest(q)
       \/ BeginDisconnect(q) \/ StopClient(q) \/ CancelPass(q)
       \/ BulkRevoke(q) \/ ClearLocal(q)
  \/ \E a \in Actors : ResolveContext(a) \/ PostEndpoint(a)
  \/ PassBegin \/ PassCommit \/ PassClear \/ PassEnd
  \/ \E s \in Sources : PassList(s)
  \/ \E t \in Triggers : PassTake(t) \/ UserPoints(t) \/ CloudLoses(t)
  \/ Connect \/ CredentialError \/ Dismiss

EndpointSpec == EndpointInit /\ [][EndpointNext]_endpointVars

-----------------------------------------------------------------------------
(* Properties                                                              *)

Unregistered(t) == \A a \in Actors : ~Registers(a, t)

\* When nobody is registering it, an endpoint on the cloud is one its row knows
\* and can take down, and a deleted row leaves none: the lock, the re-reads
\* under it and the revocation by token or id add up.  Excused are rows of a
\* creation that overlapped (it takes no lock) and of failed or lost calls.
NoOrphan ==
  \A t \in Triggers \ excused : Unregistered(t) /\ held[t].token # None =>
    There(t) /\ trigger[t].token = held[t].token

\* After a disconnect the cloud holds nothing: no pass that was running, or was
\* about to, re-creates what the bulk revocation took down.
DisconnectedHoldsNothing ==
  credential = "none" => \A t \in Triggers \ excused : held[t].token = None

\* What the cloud holds and what the rows and the credential say belong
\* together.
CloudIsOwned == NoOrphan /\ DisconnectedHoldsNothing

Stale(t) ==
  /\ There(t) /\ Unregistered(t)
  /\ pointed[t] # None /\ trigger[t].url \notin {None, pointed[t]}

\* A repair that replaces a URL the user has configured elsewhere is on the
\* list the user is shown, however many failed attempts cleared the column
\* first; unless a dismissal threw the remembered URL away, or an unlocked
\* creation overlapped.
ReplacedUrlReported ==
  \A t \in Triggers \ (dropped \cup excused) : Stale(t) => t \in news.changes
=============================================================================
