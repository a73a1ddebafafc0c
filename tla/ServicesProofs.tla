--------------------------- MODULE ServicesProofs ---------------------------
(***************************************************************************)
(* Proofs about the services beside the task lifecycle: webhook endpoints, *)
(* the cloud client, webhook deliveries and the locks of the replicas; for *)
(* every set of rows, replicas and messages, and any number of failures.   *)
(***************************************************************************)
EXTENDS CloudEndpoints, CloudClient, WebhookDelivery, ReplicaLocks, TLAPS

-----------------------------------------------------------------------------
(* Endpoints                                                               *)

ActorRecords == [doing: Kinds, step: Steps, subject: Triggers, loaded: Row, answer: Nat]
HeldRecords  == [source: Sources, token: Nat]
PassRecords  == [seen: [Triggers -> Nat], todo: [Sources -> SUBSET Triggers],
                 group: Sources, work: SUBSET Triggers, listing: SUBSET Nat, noted: News]

Registering == {"resolving", "posting", "answered"}
Guarded     == Registering \cup {"refused", "revoking", "removing"}
OnIt(r, t)   == r.subject = t /\ r.step \in Registering
Holds(r, t)  == r.subject = t /\ r.doing \in {"update", "delete", "pass"} /\ r.step \in Guarded
Active(r, t) == OnIt(r, t) \/ Holds(r, t)

StepsOf ==
  [none |-> {"idle"}, create |-> Registering \cup {"refused"},
   update |-> {"saving", "waiting", "refused"} \cup Registering,
   delete |-> {"waiting", "revoking", "removing"},
   disconnect |-> {"stopping", "cancelling", "bulk", "clearing"},
   pass |-> {"choosing", "refused"} \cup Registering]

\* What an actor may be doing, and that it has no token the cloud did not issue.
Sane(r, n) ==
  /\ r.step \in StepsOf[r.doing]
  /\ r.loaded.token <= n /\ r.answer <= n
  /\ r.step = "answered" => r.answer # None

EndpointShape ==
  /\ EndpointsTypeOK
  /\ \A a \in Actors : Sane(actor[a], issued)
  /\ \A q \in Requests : actor[q].doing # "pass"
  /\ actor[Pass].doing \in {"none", "pass"}
  /\ \A t \in Triggers : held[t].token <= issued /\ trigger[t].token <= issued

\* A row's lock is with who works under it, and the row is there; a creation has
\* a row.
LocksHold ==
  /\ \A a \in Actors : \A t \in Triggers :
       Holds(actor[a], t) => guardian[t] = a /\ trigger[t].state = "there"
  /\ \A a \in Actors :
       actor[a].doing = "create" => trigger[actor[a].subject].state # "unborn"

\* One actor at a time works on a row that is not excused.
OneAtATime ==
  \A t \in Triggers \ excused : \A a, b \in Actors :
    Active(actor[a], t) /\ Active(actor[b], t) => a = b

\* What the cloud holds is on its row, or the one that registers it will put it
\* there, or the one that deletes the row takes it down.
Owned(t, row, h, act) ==
  /\ (\A a \in Actors : ~(act[a].subject = t /\ act[a].step = "answered")) =>
       (h.token # None => row.state = "there" /\ row.token = h.token)
  /\ \A a \in Actors :
       /\ OnIt(act[a], t) => row.state = "there"
       /\ act[a].subject = t /\ act[a].step = "answered" =>
            (h.token # None =>
               /\ h.token = act[a].answer
               /\ act[a].loaded.token = act[a].answer => row.token = act[a].answer)
       /\ act[a].subject = t /\ act[a].step = "revoking" =>
            (h.token # None => act[a].loaded.token = h.token)
       /\ act[a].subject = t /\ act[a].step = "removing" => h.token = None

HeldIsOwned ==
  \A t \in Triggers \ excused : Owned(t, trigger[t], held[t], actor)

\* From the moment a disconnect has stopped the client no pass begins, and what
\* it has taken down stays down.
Unplugged ==
  /\ credential = "none" \/ (\E q \in Requests : actor[q].step = "clearing") =>
       \A t \in Triggers \ excused : held[t].token = None
  /\ excused # Triggers =>
       /\ (\E q \in Requests : actor[q].step \in {"cancelling", "bulk", "clearing"}) => ~client
       /\ (\E q \in Requests : actor[q].step \in {"bulk", "clearing"}) => actor[Pass].doing = "none"
       /\ credential = "none" => ~client /\ actor[Pass].doing = "none"

\* The URL a user has configured is the row's, on the list of changes, or
\* remembered for it.
Told(t, row, point, nw) ==
  point # None => \/ row.url = point
                  \/ t \in nw.changes
                  \/ row.url = None /\ nw.lastKnown[t] = point

UrlsAreTold ==
  /\ \A t \in Triggers \ (dropped \cup excused) : Told(t, trigger[t], pointed[t], news)
  /\ actor[Pass].step \in Registering \cup {"refused"} =>
       /\ news \in {pass.noted, NoNews}
       /\ actor[Pass].subject \notin excused =>
            actor[Pass].loaded.url = trigger[actor[Pass].subject].url

EndpointInv ==
  EndpointShape /\ LocksHold /\ OneAtATime /\ HeldIsOwned /\ Unplugged /\ UrlsAreTold

LEMMA BlankEndpoints ==
  /\ ASource \in Sources /\ BlankRow \in Row /\ Idle \in ActorRecords
  /\ NoToken \in [Triggers -> Nat] /\ NoNews \in News /\ NoPass \in PassRecords
<1>1. ASource \in Sources
  BY EndpointsAssumption DEF ASource
<1>2. BlankRow \in Row /\ NoToken \in [Triggers -> Nat]
  BY <1>1 DEF BlankRow, Row, NoToken, None
<1>3. (CHOOSE t \in Triggers : TRUE) \in Triggers
  BY EndpointsAssumption
<1>4. Idle \in ActorRecords
  BY <1>2, <1>3 DEF Idle, ActorRecords, Kinds, Steps, None
<1>5. NoNews \in News
  BY <1>2 DEF NoNews, News
<1>6. NoPass \in PassRecords
  BY <1>1, <1>2, <1>5 DEF NoPass, PassRecords
<1>7. QED
  BY <1>1, <1>2, <1>4, <1>5, <1>6

LEMMA EndpointsAreTyped ==
  ASSUME EndpointsTypeOK
  PROVE  /\ trigger \in [Triggers -> Row] /\ held \in [Triggers -> HeldRecords] /\ issued \in Nat
         /\ actor \in [Actors -> ActorRecords] /\ guardian \in [Triggers -> Actors \cup {Free}]
         /\ pass \in PassRecords /\ news \in News /\ pointed \in [Triggers -> Nat]
         /\ credential \in {"none", "connected", "error"} /\ client \in BOOLEAN
         /\ cloudFaults \in 0..MaxCloudFaults /\ connects \in 0..MaxConnects /\ asked \in 0..MaxRequests
         /\ MaxCloudFaults \in Nat /\ MaxConnects \in Nat /\ MaxRequests \in Nat /\ MaxTokens \in Nat
         /\ excused \in SUBSET Triggers /\ dropped \in SUBSET Triggers
BY EndpointsAssumption DEF EndpointsTypeOK, HeldRecords, ActorRecords, PassRecords

LEMMA EndpointsTyped ==
  ASSUME trigger' \in [Triggers -> Row], held' \in [Triggers -> HeldRecords], issued' \in Nat,
         actor' \in [Actors -> ActorRecords], guardian' \in [Triggers -> Actors \cup {Free}],
         pass' \in PassRecords, news' \in News, pointed' \in [Triggers -> Nat],
         credential' \in {"none", "connected", "error"}, client' \in BOOLEAN,
         cloudFaults' \in 0..MaxCloudFaults, connects' \in 0..MaxConnects, asked' \in 0..MaxRequests,
         excused' \in SUBSET Triggers, dropped' \in SUBSET Triggers,
         \A a \in Actors : actor'[a].step \in StepsOf[actor'[a].doing]
  PROVE  EndpointsTypeOK'
<1>1. \A a \in Actors : actor'[a].doing = "none" <=> actor'[a].step = "idle"
  <2>1. \A a \in Actors : actor'[a].doing \in Kinds
    BY DEF ActorRecords
  <2>2. \A k \in Kinds : \A x \in StepsOf[k] : k = "none" <=> x = "idle"
    BY DEF Kinds, StepsOf, Registering
  <2>3. QED
    BY <2>1, <2>2
<1>2. QED
  BY <1>1 DEF EndpointsTypeOK, HeldRecords, ActorRecords, PassRecords

LEMMA FreeIsNobody == Free \notin Actors
BY EndpointsAssumption DEF Free, Actors

\* Of the idle actor.
LEMMA IdleIsSane ==
  /\ Idle.doing = "none" /\ Idle.step = "idle" /\ Idle.answer = None
  /\ Idle.loaded = BlankRow /\ BlankRow.token = None /\ BlankRow.url = None
  /\ BlankRow.state = "unborn" /\ Idle.subject \in Triggers
BY BlankEndpoints DEF Idle, BlankRow, ActorRecords

LEMMA EndpointInvInit == EndpointInit => EndpointInv
<1> SUFFICES ASSUME EndpointInit PROVE EndpointInv
  OBVIOUS
<1>1. /\ trigger \in [Triggers -> Row] /\ held \in [Triggers -> HeldRecords]
      /\ \A t \in Triggers : trigger[t].token = None /\ held[t].token = None
  BY BlankEndpoints DEF EndpointInit, HeldRecords, None, BlankRow, Row
<1>2. /\ actor \in [Actors -> ActorRecords] /\ issued = 0 /\ credential = "none" /\ client = FALSE
      /\ \A a \in Actors : actor[a].doing = "none" /\ actor[a].step = "idle"
      /\ \A a \in Actors : actor[a].answer = None /\ actor[a].loaded.token = None
  BY BlankEndpoints, IdleIsSane DEF EndpointInit
<1>3. EndpointsTypeOK
  <2>1. /\ cloudFaults \in 0..MaxCloudFaults /\ connects \in 0..MaxConnects /\ asked \in 0..MaxRequests
    BY EndpointsAssumption DEF EndpointInit
  <2>2. /\ issued \in Nat /\ credential \in {"none", "connected", "error"} /\ client \in BOOLEAN
        /\ excused \in SUBSET Triggers /\ dropped \in SUBSET Triggers
    BY DEF EndpointInit
  <2>3. pass \in PassRecords /\ news \in News /\ pointed \in [Triggers -> Nat]
    BY BlankEndpoints DEF EndpointInit
  <2>4. guardian \in [Triggers -> Actors \cup {Free}]
    BY DEF EndpointInit
  <2>5. \A a \in Actors : actor[a].doing = "none" <=> actor[a].step = "idle"
    BY <1>2
  <2>6. QED
    BY <1>1, <1>2, <2>1, <2>2, <2>3, <2>4, <2>5
       DEF EndpointsTypeOK, HeldRecords, ActorRecords, PassRecords
<1>4. EndpointShape
  BY <1>1, <1>2, <1>3 DEF EndpointShape, Sane, StepsOf, None, Actors
<1>5. LocksHold /\ OneAtATime
  BY <1>2 DEF LocksHold, OneAtATime, Active, OnIt, Holds, Registering, Guarded
<1>6. HeldIsOwned
  BY <1>1, <1>2 DEF HeldIsOwned, Owned, OnIt, Registering
<1>7. Unplugged
  BY <1>1, <1>2 DEF Unplugged, Actors
<1>8. UrlsAreTold
  BY <1>2 DEF UrlsAreTold, EndpointInit, Told, NoToken, Registering, Actors
<1>9. QED
  BY <1>4, <1>5, <1>6, <1>7, <1>8 DEF EndpointInv

\* Nobody takes up or puts down a row.
LEMMA QuietStep ==
  ASSUME EndpointInv, EndpointShape',
         \A t \in Triggers : /\ trigger'[t].state = trigger[t].state
                             /\ trigger'[t].token = trigger[t].token
                             /\ trigger'[t].url = trigger[t].url,
         UNCHANGED <<held, pointed, news, dropped, excused>>,
         credential' = "none" => credential = "none", client' => client,
         \A a \in Actors : \A t \in Triggers :
           Holds(actor[a], t) /\ actor'[a] = actor[a] => guardian'[t] = guardian[t],
         \A a \in Actors :
           \/ actor'[a] = actor[a]
           \/ /\ actor[a].step # "answered" /\ actor'[a].step \notin Registering \cup Guarded
              /\ actor'[a].doing # "create" /\ actor'[a].step \notin {"bulk", "clearing"}
              /\ actor'[a].step = "cancelling" => ~client'
              /\ (actor[a].doing = "none" /\ actor'[a].doing # "none" /\ a = Pass)
                   => (client /\ credential # "none"),
         actor'[Pass] = actor[Pass] /\ actor[Pass].step # "choosing" => pass'.noted = pass.noted
  PROVE  EndpointInv'
<1> USE DEF EndpointInv
<1>0. Pass \in Actors /\ Requests \subseteq Actors
  BY DEF Actors
<1>1. \A a \in Actors : \A t \in Triggers :
        /\ OnIt(actor'[a], t) => actor'[a] = actor[a]
        /\ Holds(actor'[a], t) => actor'[a] = actor[a]
  BY DEF OnIt, Holds
<1>2. LocksHold'
  <2>1. \A a \in Actors : \A t \in Triggers :
          Holds(actor'[a], t) => guardian'[t] = a /\ trigger'[t].state = "there"
    BY <1>1 DEF LocksHold
  <2>2. ASSUME NEW a \in Actors, actor'[a].doing = "create"
        PROVE  trigger'[actor'[a].subject].state # "unborn"
    <3>1. actor'[a] = actor[a] /\ actor[a].subject \in Triggers
      BY <2>2, EndpointsAreTyped DEF EndpointShape, ActorRecords
    <3>2. QED
      BY <2>2, <3>1 DEF LocksHold
  <2>3. QED
    BY <2>1, <2>2 DEF LocksHold
<1>3. OneAtATime'
  BY <1>1 DEF OneAtATime, Active
<1>4. HeldIsOwned'
  <2> SUFFICES ASSUME NEW t \in Triggers \ excused
               PROVE  Owned(t, trigger'[t], held'[t], actor')
    BY DEF HeldIsOwned
  <2>1. Owned(t, trigger[t], held[t], actor)
    BY DEF HeldIsOwned
  <2>2. \A a \in Actors : actor'[a].step \in {"answered", "revoking", "removing"} => actor'[a] = actor[a]
    BY DEF Registering, Guarded
  <2>3. \A a \in Actors : actor[a].step = "answered" => actor'[a] = actor[a]
    OBVIOUS
  <2>4. QED
    BY <1>1, <2>1, <2>2, <2>3 DEF Owned
<1>5. Unplugged'
  BY <1>0 DEF Unplugged
<1>6. UrlsAreTold'
  <2>1. actor'[Pass].step \in Registering \cup {"refused"} =>
          actor'[Pass] = actor[Pass] /\ actor[Pass].step # "choosing"
    BY <1>0 DEF Guarded, Registering
  <2>2. actor[Pass].subject \in Triggers
    BY <1>0, EndpointsAreTyped DEF EndpointShape, ActorRecords
  <2>3. \A t \in Triggers \ (dropped' \cup excused') : Told(t, trigger'[t], pointed'[t], news')
    BY DEF UrlsAreTold, Told
  <2>4. QED
    BY <2>1, <2>2, <2>3 DEF UrlsAreTold
<1>7. QED
  BY <1>2, <1>3, <1>4, <1>5, <1>6

-----------------------------------------------------------------------------
(* What one actor's move leaves as it was                                  *)

Moved(a) ==
  actor' \in [Actors -> ActorRecords] /\ \A b \in Actors \ {a} : actor'[b] = actor[b]

LEMMA MoveIsTyped ==
  ASSUME EndpointShape, NEW a \in Actors, NEW r \in ActorRecords,
         actor' = [actor EXCEPT ![a] = r]
  PROVE  Moved(a) /\ actor'[a] = r
BY EndpointsAreTyped DEF EndpointShape, Moved

LEMMA GotoMoves ==
  ASSUME EndpointShape, NEW a \in Actors, NEW s \in Steps, Goto(a, s)
  PROVE  Moved(a) /\ actor'[a] = [actor[a] EXCEPT !.step = s]
BY EndpointsAreTyped DEF EndpointShape, Moved, Goto, ActorRecords

\* The types after a move.
LEMMA ShapeStep ==
  ASSUME EndpointShape, NEW a \in Actors, Moved(a),
         Sane(actor'[a], issued'), a \in Requests => actor'[a].doing # "pass",
         a = Pass => actor'[a].doing \in {"none", "pass"},
         issued' \in Nat, issued <= issued',
         trigger' \in [Triggers -> Row], held' \in [Triggers -> HeldRecords],
         \A t \in Triggers : held'[t].token <= issued' /\ trigger'[t].token <= issued',
         guardian' \in [Triggers -> Actors \cup {Free}],
         pass' \in PassRecords, news' \in News, pointed' \in [Triggers -> Nat],
         credential' \in {"none", "connected", "error"}, client' \in BOOLEAN,
         cloudFaults' \in 0..MaxCloudFaults, connects' \in 0..MaxConnects, asked' \in 0..MaxRequests,
         excused' \in SUBSET Triggers, dropped' \in SUBSET Triggers
  PROVE  EndpointShape'
<1>1. \A b \in Actors : Sane(actor'[b], issued')
  <2>1. SUFFICES ASSUME NEW b \in Actors, b # a PROVE Sane(actor'[b], issued')
    OBVIOUS
  <2>2. actor'[b] = actor[b] /\ Sane(actor[b], issued) /\ actor[b] \in ActorRecords /\ issued \in Nat
    BY <2>1, EndpointsAreTyped DEF EndpointShape, Moved
  <2>3. actor[b].loaded.token \in Nat /\ actor[b].answer \in Nat
    BY <2>2 DEF ActorRecords, Row
  <2>4. QED
    BY <2>2, <2>3 DEF Sane
<1>2. EndpointsTypeOK'
  BY <1>1, EndpointsTyped DEF Moved, Sane
<1>3. /\ \A q \in Requests : actor'[q].doing # "pass"
      /\ actor'[Pass].doing \in {"none", "pass"}
  BY DEF EndpointShape, Moved, Actors
<1>4. QED
  BY <1>1, <1>2, <1>3 DEF EndpointShape

LEMMA LocksStep ==
  ASSUME LocksHold, EndpointShape, NEW a \in Actors, Moved(a),
         \A t \in Triggers : Holds(actor'[a], t) => guardian'[t] = a /\ trigger'[t].state = "there",
         actor'[a].doing = "create" => trigger'[actor'[a].subject].state # "unborn",
         \A b \in Actors \ {a} : \A t \in Triggers :
           Holds(actor[b], t) => guardian'[t] = guardian[t] /\ trigger'[t].state = "there",
         \A t \in Triggers : trigger'[t].state = "unborn" => trigger[t].state = "unborn"
  PROVE  LocksHold'
<1>1. \A b \in Actors : \A t \in Triggers :
        Holds(actor'[b], t) => guardian'[t] = b /\ trigger'[t].state = "there"
  BY DEF LocksHold, Moved
<1>2. ASSUME NEW b \in Actors, actor'[b].doing = "create", b # a
      PROVE  trigger'[actor'[b].subject].state # "unborn"
  <2>1. actor'[b] = actor[b] /\ actor[b].subject \in Triggers
    BY <1>2, EndpointsAreTyped DEF Moved, EndpointShape, ActorRecords
  <2>2. QED
    BY <1>2, <2>1 DEF LocksHold
<1>3. QED
  BY <1>1, <1>2 DEF LocksHold

LEMMA TurnsStep ==
  ASSUME OneAtATime, NEW a \in Actors, Moved(a), excused \subseteq excused',
         \A t \in Triggers \ excused' : Active(actor'[a], t) =>
           Active(actor[a], t) \/ \A b \in Actors \ {a} : ~Active(actor[b], t)
  PROVE  OneAtATime'
BY DEF OneAtATime, Moved

LEMMA UnpluggedStep ==
  ASSUME Unplugged, EndpointShape, NEW a \in Actors, Moved(a), excused \subseteq excused',
         excused' \subseteq Triggers,
         actor'[a].step \notin {"cancelling", "bulk", "clearing"},
         a = Pass => actor[a].doing # "none",
         UNCHANGED <<credential, client>>,
         \A t \in Triggers \ excused' :
           TakenDown => \/ held'[t].token = None \/ held'[t] = held[t]
                        \/ (a = Pass /\ actor[a].doing # "none")
  PROVE  Unplugged'
<1>1. \A q \in Requests : actor'[q].step \in {"cancelling", "bulk", "clearing"} =>
        actor'[q] = actor[q]
  BY DEF Moved, Actors
<1>2. actor'[Pass].doing = "none" => actor[Pass].doing = "none" \/ a = Pass
  BY DEF Moved, Actors
<1>3. excused' # Triggers =>
       /\ (\E q \in Requests : actor'[q].step \in {"cancelling", "bulk", "clearing"}) => ~client'
       /\ (\E q \in Requests : actor'[q].step \in {"bulk", "clearing"}) => actor'[Pass].doing = "none"
       /\ credential' = "none" => ~client' /\ actor'[Pass].doing = "none"
  BY <1>1, <1>2 DEF Unplugged, Moved, Actors
<1>4. ASSUME credential' = "none" \/ (\E q \in Requests : actor'[q].step = "clearing"),
             NEW t \in Triggers \ excused'
      PROVE  held'[t].token = None
  <2>1. TakenDown
    BY <1>1, <1>4 DEF TakenDown
  <2>2. held[t].token = None /\ (a # Pass \/ actor[a].doing = "none")
    BY <1>4, <2>1 DEF Unplugged, TakenDown
  <2>3. QED
    BY <1>4, <2>1, <2>2
<1>5. QED
  BY <1>3, <1>4 DEF Unplugged

\* A row the actor does not register or take down, before or after.
Rests(r, t) == ~(r.subject = t /\ r.step \in Registering \cup {"revoking", "removing"})

LEMMA OtherRowsOwned ==
  ASSUME NEW a \in Actors, Moved(a), NEW t \in Triggers, Rests(actor'[a], t),
         Rests(actor[a], t) \/ actor[a].step \in {"resolving", "posting"},
         Owned(t, trigger[t], held[t], actor),
         trigger'[t].state = trigger[t].state, trigger'[t].token = trigger[t].token,
         held'[t].token = held[t].token
  PROVE  Owned(t, trigger'[t], held'[t], actor')
<1>1. \A b \in Actors : actor'[b].subject = t /\ actor'[b].step \in Registering \cup {"revoking", "removing"}
         => actor'[b] = actor[b]
  BY DEF Moved, Rests
<1>2. \A b \in Actors : actor[b].subject = t /\ actor[b].step = "answered"
         => actor'[b] = actor[b]
  BY DEF Moved, Rests, Registering
<1>3. QED
  BY <1>1, <1>2 DEF Owned, OnIt, Registering

\* The user's view: no URL and no news are touched.
LEMMA ToldStep ==
  ASSUME UrlsAreTold, EndpointShape, NEW a \in Actors, Moved(a),
         UNCHANGED <<pointed, news, dropped>>, excused \subseteq excused',
         \A t \in Triggers : trigger'[t].url = trigger[t].url,
         a = Pass /\ actor'[a].step \in Registering \cup {"refused"} =>
           \/ /\ actor[a].step \in Registering \cup {"refused"}
              /\ actor'[a].subject = actor[a].subject /\ actor'[a].loaded = actor[a].loaded
              /\ pass'.noted = pass.noted
           \/ /\ actor'[a].loaded = trigger[actor'[a].subject]
              /\ pass'.noted = news,
         a # Pass => UNCHANGED pass
  PROVE  UrlsAreTold'
<1>1. \A t \in Triggers \ (dropped' \cup excused') : Told(t, trigger'[t], pointed'[t], news')
  BY DEF UrlsAreTold, Told
<1>2. ASSUME actor'[Pass].step \in Registering \cup {"refused"}
      PROVE  /\ news' \in {pass'.noted, NoNews}
             /\ actor'[Pass].subject \notin excused' =>
                  actor'[Pass].loaded.url = trigger'[actor'[Pass].subject].url
  <2>1. Pass \in Actors /\ actor'[Pass].subject \in Triggers
    BY DEF Actors, Moved, ActorRecords
  <2>2. CASE a = Pass
    BY <1>2, <2>1, <2>2 DEF UrlsAreTold
  <2>3. CASE a # Pass
    BY <1>2, <2>1, <2>3 DEF UrlsAreTold, Moved
  <2>4. QED
    BY <2>2, <2>3
<1>3. QED
  BY <1>1, <1>2 DEF UrlsAreTold

-----------------------------------------------------------------------------
(* The steps of the requests and of the pass                               *)

\* Facts about an actor, and about what it is on.
LEMMA ActorFacts ==
  ASSUME EndpointShape, NEW a \in Actors
  PROVE  /\ actor[a] \in ActorRecords /\ actor[a].subject \in Triggers /\ actor[a].loaded \in Row
         /\ actor[a].answer \in Nat /\ actor[a].loaded.token \in Nat /\ actor[a].loaded.url \in Nat
         /\ actor[a].doing \in Kinds /\ actor[a].step \in StepsOf[actor[a].doing]
         /\ actor[a].loaded.token <= issued /\ actor[a].answer <= issued /\ issued \in Nat
         /\ actor[a].step = "answered" => actor[a].answer # None
BY EndpointsAreTyped DEF EndpointShape, ActorRecords, Row, Sane

\* Who registers a row, or takes it down, is active on it, and everybody else is
\* not, unless the row is excused.
LEMMA OthersAreNot ==
  ASSUME EndpointInv, NEW a \in Actors, NEW t \in Triggers \ excused, Active(actor[a], t)
  PROVE  /\ \A b \in Actors \ {a} : ~Active(actor[b], t)
         /\ \A b \in Actors \ {a} : Rests(actor[b], t)
<1>1. \A b \in Actors \ {a} : ~Active(actor[b], t)
  BY DEF EndpointInv, OneAtATime
<1>2. ASSUME NEW b \in Actors \ {a}, ~Rests(actor[b], t) PROVE FALSE
  <2>1. actor[b].doing \in Kinds /\ actor[b].step \in StepsOf[actor[b].doing]
    BY ActorFacts DEF EndpointInv
  <2>2. actor[b].step \in {"revoking", "removing"} => actor[b].doing = "delete"
    BY <2>1 DEF StepsOf, Kinds, Registering
  <2>3. QED
    BY <1>1, <1>2, <2>2 DEF Rests, Active, OnIt, Holds, Guarded
<1>3. QED
  BY <1>1, <1>2

LEMMA ResolveStep ==
  ASSUME EndpointInv, NEW a \in Actors, ResolveContext(a)
  PROVE  EndpointInv'
<1> USE DEF EndpointInv
<1> DEFINE s == IF credential = "connected" THEN "posting" ELSE "refused"
<1>1. /\ Moved(a) /\ actor'[a] = [actor[a] EXCEPT !.step = s]
      /\ actor[a].step = "resolving" /\ s \in {"posting", "refused"}
      /\ UNCHANGED <<trigger, held, issued, cloudFaults, credential, client, connects, asked,
                     guardian, pass, news, pointed, dropped, excused>>
  BY GotoMoves DEF ResolveContext, Steps, cloudVars, linkVars, tellVars
<1>2. /\ actor'[a].doing = actor[a].doing /\ actor'[a].subject = actor[a].subject
      /\ actor'[a].loaded = actor[a].loaded /\ actor'[a].answer = actor[a].answer
      /\ actor'[a].step \in {"posting", "refused"}
  BY <1>1, ActorFacts DEF ActorRecords
<1>3. actor[a].doing \in {"create", "update", "pass"}
  BY <1>1, ActorFacts DEF StepsOf, Kinds, Registering
<1>4. Sane(actor'[a], issued')
  <2>1. \A k \in {"create", "update", "pass"} : {"posting", "refused"} \subseteq StepsOf[k]
    BY DEF StepsOf, Registering
  <2>2. actor'[a].step \in StepsOf[actor'[a].doing]
    BY <1>2, <1>3, <2>1
  <2>3. QED
    BY <1>1, <1>2, <2>2, ActorFacts DEF Sane
<1>5. EndpointShape'
  <2>1. \A u \in Triggers : held'[u].token <= issued' /\ trigger'[u].token <= issued'
    BY <1>1 DEF EndpointShape
  <2>2. /\ issued' \in Nat /\ issued <= issued'
        /\ a \in Requests => actor'[a].doing # "pass"
        /\ a = Pass => actor'[a].doing \in {"none", "pass"}
    BY <1>1, <1>2, ActorFacts DEF EndpointShape
  <2>3. /\ trigger' \in [Triggers -> Row] /\ held' \in [Triggers -> HeldRecords]
        /\ guardian' \in [Triggers -> Actors \cup {Free}]
        /\ pass' \in PassRecords /\ news' \in News /\ pointed' \in [Triggers -> Nat]
        /\ credential' \in {"none", "connected", "error"} /\ client' \in BOOLEAN
        /\ cloudFaults' \in 0..MaxCloudFaults /\ connects' \in 0..MaxConnects /\ asked' \in 0..MaxRequests
        /\ excused' \in SUBSET Triggers /\ dropped' \in SUBSET Triggers
    BY <1>1, EndpointsAreTyped DEF EndpointShape
  <2>4. QED
    BY <1>1, <1>4, <2>1, <2>2, <2>3, ShapeStep
<1>6. LocksHold'
  <2>1. \A t \in Triggers : Holds(actor'[a], t) => Holds(actor[a], t)
    BY <1>1, <1>2 DEF Holds, Guarded, Registering
  <2>2. \A b \in Actors : \A t \in Triggers :
          Holds(actor[b], t) => guardian'[t] = guardian[t] /\ trigger'[t].state = "there"
    BY <1>1 DEF LocksHold
  <2>3. \A t \in Triggers : Holds(actor'[a], t) => guardian'[t] = a /\ trigger'[t].state = "there"
    BY <1>1, <2>1 DEF LocksHold
  <2>4. actor'[a].doing = "create" => trigger'[actor'[a].subject].state # "unborn"
    BY <1>1, <1>2 DEF LocksHold
  <2>5. QED
    BY <1>1, <2>2, <2>3, <2>4, LocksStep
<1>7. OneAtATime'
  BY <1>1, <1>2, <1>3, TurnsStep DEF Active, OnIt, Holds, Guarded, Registering
<1>8. HeldIsOwned'
  <2> SUFFICES ASSUME NEW t \in Triggers \ excused
               PROVE  Owned(t, trigger'[t], held'[t], actor')
    BY <1>1 DEF HeldIsOwned
  <2>1. Owned(t, trigger[t], held[t], actor)
    BY DEF HeldIsOwned
  <2>2. \A b \in Actors : actor'[b].step \in {"answered", "revoking", "removing"} => actor'[b] = actor[b]
    BY <1>1, <1>2 DEF Moved
  <2>3. \A b \in Actors : actor[b].step = "answered" => actor'[b] = actor[b]
    BY <1>1 DEF Moved
  <2>4. \A b \in Actors : OnIt(actor'[b], t) => OnIt(actor[b], t)
    BY <1>1, <1>2 DEF Moved, OnIt, Registering
  <2>5. QED
    BY <1>1, <2>1, <2>2, <2>3, <2>4 DEF Owned
<1>9. Unplugged'
  BY <1>1, <1>2, <1>3, UnpluggedStep, EndpointsAreTyped DEF EndpointShape
<1>10. UrlsAreTold'
  BY <1>1, <1>2, ToldStep DEF Registering
<1>11. QED
  BY <1>5, <1>6, <1>7, <1>8, <1>9, <1>10

\* A row is created: nobody was on it and the cloud has nothing of it.
LEMMA CreateStep ==
  ASSUME EndpointInv, NEW q \in Requests, NEW t \in Triggers, NEW s \in Sources,
         CreateTrigger(q, t, s)
  PROVE  EndpointInv'
<1> USE DEF EndpointInv
<1> DEFINE row == [trigger[t] EXCEPT !.state = "there", !.source = s]
<1> DEFINE me == [Idle EXCEPT !.doing = "create", !.step = "resolving", !.subject = t, !.loaded = row]
<1>1. trigger[t] \in Row /\ row \in Row /\ row.token = trigger[t].token /\ row.url = trigger[t].url
      /\ row.state = "there" /\ trigger[t].state = "unborn"
  BY EndpointsAreTyped DEF EndpointShape, CreateTrigger, Row
<1>2. me \in ActorRecords /\ me.doing = "create" /\ me.step = "resolving" /\ me.subject = t
      /\ me.loaded = row /\ me.answer = None
  BY <1>1, BlankEndpoints, IdleIsSane DEF ActorRecords, Kinds, Steps
<1>3. /\ trigger' = [trigger EXCEPT ![t] = row] /\ actor' = [actor EXCEPT ![q] = me]
      /\ actor[q] = Idle /\ asked < MaxRequests /\ asked' = asked + 1
      /\ UNCHANGED <<held, issued, cloudFaults, credential, client, connects,
                     guardian, pass, news, pointed, dropped, excused>>
  BY DEF CreateTrigger, Begin, cloudVars, tellVars
<1> HIDE DEF me, row
<1>4. q \in Actors /\ q # Pass /\ Moved(q) /\ actor'[q] = me
  BY <1>2, <1>3, MoveIsTyped, EndpointsAssumption DEF Actors
<1>5. trigger' \in [Triggers -> Row] /\ trigger'[t] = row /\ \A u \in Triggers \ {t} : trigger'[u] = trigger[u]
  BY <1>1, <1>3, EndpointsAreTyped DEF EndpointShape
<1>6. asked' \in 0..MaxRequests
  BY <1>3, EndpointsAreTyped DEF EndpointShape
<1>7. Sane(actor'[q], issued')
  BY <1>1, <1>2, <1>3, <1>4, EndpointsAreTyped DEF Sane, StepsOf, Registering, EndpointShape, None
<1>8. EndpointShape'
  <2>1. \A u \in Triggers : held'[u].token <= issued' /\ trigger'[u].token <= issued'
    BY <1>1, <1>3, <1>5 DEF EndpointShape
  <2>2. issued' \in Nat /\ issued <= issued' /\ actor'[q].doing = "create"
    BY <1>2, <1>3, <1>4, EndpointsAreTyped DEF EndpointShape
  <2>3. QED
    BY <1>3, <1>4, <1>5, <1>6, <1>7, <2>1, <2>2, ShapeStep, EndpointsAreTyped DEF EndpointShape
\* Whoever works on a row has found it there.
<1>9. t \in excused \/ \A b \in Actors : Rests(actor[b], t) /\ ~Active(actor[b], t)
  <2> SUFFICES ASSUME t \notin excused, NEW b \in Actors
               PROVE  Rests(actor[b], t) /\ ~Active(actor[b], t)
    OBVIOUS
  <2>1. Owned(t, trigger[t], held[t], actor)
    BY DEF HeldIsOwned
  <2>2. ~OnIt(actor[b], t) /\ ~Holds(actor[b], t)
    BY <1>1, <2>1 DEF Owned, LocksHold
  <2>3. actor[b].doing \in Kinds /\ actor[b].step \in StepsOf[actor[b].doing]
    BY ActorFacts
  <2>4. actor[b].step \in {"revoking", "removing"} => actor[b].doing = "delete"
    BY <2>3 DEF StepsOf, Kinds, Registering
  <2>5. QED
    BY <2>2, <2>4 DEF Rests, Active, OnIt, Holds, Guarded
<1>10. LocksHold'
  <2>1. \A u \in Triggers : ~Holds(actor'[q], u)
    BY <1>2, <1>4 DEF Holds
  <2>2. \A u \in Triggers : trigger[u].state = "there" => trigger'[u].state = "there"
    BY <1>1, <1>5
  <2>3. \A u \in Triggers : trigger'[u].state = "unborn" => trigger[u].state = "unborn"
    BY <1>1, <1>5
  <2>4. trigger'[actor'[q].subject].state # "unborn"
    BY <1>1, <1>2, <1>4, <1>5
  <2>5. \A b \in Actors \ {q} : \A u \in Triggers :
           Holds(actor[b], u) => guardian'[u] = guardian[u] /\ trigger'[u].state = "there"
    BY <1>3, <2>2 DEF LocksHold
  <2>6. QED
    BY <1>4, <2>1, <2>3, <2>4, <2>5, LocksStep
<1>11. OneAtATime'
  BY <1>2, <1>3, <1>4, <1>9, TurnsStep DEF Active, OnIt, Holds
<1>12. HeldIsOwned'
  <2> SUFFICES ASSUME NEW u \in Triggers \ excused
               PROVE  Owned(u, trigger'[u], held'[u], actor')
    BY <1>3 DEF HeldIsOwned
  <2>1. Owned(u, trigger[u], held[u], actor)
    BY DEF HeldIsOwned
  <2>2. CASE u = t
    <3>1. \A b \in Actors : ~(actor[b].subject = t /\ actor[b].step = "answered")
      BY <1>9, <2>2 DEF Rests, Registering
    <3>2. held'[t].token = None
      BY <1>1, <1>3, <2>1, <2>2, <3>1 DEF Owned
    <3>3. QED
      BY <1>1, <1>5, <2>2, <3>2 DEF Owned
  <2>3. CASE u # t
    <3>1. Rests(actor'[q], u) /\ Rests(actor[q], u)
      BY <1>2, <1>3, <1>4, <2>3, IdleIsSane DEF Rests, Registering
    <3>2. QED
      BY <1>3, <1>4, <1>5, <2>1, <2>3, <3>1, OtherRowsOwned
  <2>4. QED
    BY <2>2, <2>3
<1>13. Unplugged'
  <2>1. excused \subseteq excused' /\ excused' \subseteq Triggers
    BY <1>3, EndpointsAreTyped DEF EndpointShape
  <2>2. actor'[q].step \notin {"cancelling", "bulk", "clearing"}
    BY <1>2, <1>4
  <2>3. /\ UNCHANGED <<credential, client>>
        /\ \A u \in Triggers \ excused' : TakenDown =>
             \/ held'[u].token = None \/ held'[u] = held[u]
             \/ (q = Pass /\ actor[q].doing # "none")
    BY <1>3
  <2>4. q = Pass => actor[q].doing # "none"
    BY <1>4
  <2>5. q \in Actors /\ Moved(q)
    BY <1>4
  <2>6. QED
    BY <2>1, <2>2, <2>3, <2>4, <2>5, UnpluggedStep
<1>14. UrlsAreTold'
  BY <1>1, <1>3, <1>4, <1>5, ToldStep
<1>15. QED
  BY <1>8, <1>10, <1>11, <1>12, <1>13, <1>14

\* An actor takes a row's lock: nobody else works under it, and an unlocked
\* creation excuses the row.
LEMMA GuardStep ==
  ASSUME EndpointInv, NEW a \in Actors, NEW t \in Triggers, NEW s \in {"resolving", "revoking"},
         Guard(a, t, s), guardian[t] = Free, There(t),
         UNCHANGED <<trigger, held, issued, cloudFaults, credential, client, connects, asked,
                     news, pointed, dropped>>,
         actor[a].step \in {"waiting", "choosing"},
         actor[a].doing \in {"update", "delete", "pass"},
         s = "revoking" <=> actor[a].doing = "delete",
         a = Pass => pass' \in PassRecords /\ pass'.noted = news,
         a # Pass => UNCHANGED pass
  PROVE  EndpointInv'
<1> USE DEF EndpointInv
<1> DEFINE me == [actor[a] EXCEPT !.subject = t, !.loaded = trigger[t], !.step = s]
<1>1. actor[a] \in ActorRecords /\ trigger[t] \in Row
  BY ActorFacts, EndpointsAreTyped DEF EndpointShape
<1>2. /\ me \in ActorRecords /\ me.subject = t /\ me.loaded = trigger[t] /\ me.step = s
      /\ me.doing = actor[a].doing /\ me.answer = actor[a].answer
  BY <1>1 DEF ActorRecords, Steps
<1>3. actor' = [actor EXCEPT ![a] = me]
  BY <1>1, EndpointsAreTyped DEF Guard, EndpointShape, ActorRecords
<1> HIDE DEF me
<1>4. Moved(a) /\ actor'[a] = me
  BY <1>2, <1>3, MoveIsTyped
<1>5. /\ excused \subseteq excused' /\ excused' \subseteq Triggers
      /\ t \notin excused' => ~Unguarded(t)
  BY EndpointsAreTyped DEF Guard, EndpointShape
<1>6. /\ guardian' \in [Triggers -> Actors \cup {Free}] /\ guardian'[t] = a
      /\ \A u \in Triggers \ {t} : guardian'[u] = guardian[u]
  BY EndpointsAreTyped DEF Guard, EndpointShape
<1>7. EndpointShape'
  <2>1. Sane(actor'[a], issued')
    <3>1. s \in StepsOf[actor[a].doing]
      BY DEF StepsOf, Registering
    <3>2. trigger[t].token <= issued /\ actor[a].answer <= issued
      BY ActorFacts DEF EndpointShape
    <3>3. QED
      BY <1>2, <1>4, <3>1, <3>2 DEF Sane
  <2>2. \A u \in Triggers : held'[u].token <= issued' /\ trigger'[u].token <= issued'
    BY DEF EndpointShape
  <2>3. /\ issued' \in Nat /\ issued <= issued'
        /\ a \in Requests => actor'[a].doing # "pass"
        /\ a = Pass => actor'[a].doing \in {"none", "pass"}
    BY <1>2, <1>4, ActorFacts DEF EndpointShape
  <2>4. /\ trigger' \in [Triggers -> Row] /\ held' \in [Triggers -> HeldRecords]
        /\ pass' \in PassRecords /\ news' \in News /\ pointed' \in [Triggers -> Nat]
        /\ credential' \in {"none", "connected", "error"} /\ client' \in BOOLEAN
        /\ cloudFaults' \in 0..MaxCloudFaults /\ connects' \in 0..MaxConnects /\ asked' \in 0..MaxRequests
        /\ excused' \in SUBSET Triggers /\ dropped' \in SUBSET Triggers
    BY <1>5, EndpointsAreTyped DEF EndpointShape
  <2>5. QED
    BY <1>4, <1>6, <2>1, <2>2, <2>3, <2>4, ShapeStep
\* Nobody else is on the row.
<1>8. t \in excused' \/ \A b \in Actors : Rests(actor[b], t) /\ ~Active(actor[b], t)
  <2> SUFFICES ASSUME t \notin excused', NEW b \in Actors
               PROVE  Rests(actor[b], t) /\ ~Active(actor[b], t)
    OBVIOUS
  <2>1. ~Holds(actor[b], t)
    BY EndpointsAssumption, FreeIsNobody DEF LocksHold
  <2>2. actor[b].doing \in Kinds /\ actor[b].step \in StepsOf[actor[b].doing]
    BY ActorFacts
  <2>3. ~(actor[b].doing = "create" /\ OnIt(actor[b], t))
    <3>1. b = Pass => actor[b].doing # "create"
      BY DEF EndpointShape
    <3>2. QED
      BY <1>5, <3>1 DEF Unguarded, Registers, OnIt, Registering, Actors
  <2>4. actor[b].step \in Registering => actor[b].doing \in {"create", "update", "pass"}
    BY <2>2 DEF StepsOf, Kinds, Registering
  <2>5. actor[b].step \in {"revoking", "removing"} => actor[b].doing = "delete"
    BY <2>2 DEF StepsOf, Kinds, Registering
  <2>6. QED
    BY <2>1, <2>3, <2>4, <2>5 DEF Rests, Active, OnIt, Holds, Guarded
<1>9. LocksHold'
  <2>1. \A u \in Triggers : Holds(actor'[a], u) => guardian'[u] = a /\ trigger'[u].state = "there"
    BY <1>2, <1>4, <1>6 DEF Holds, There
  <2>2. actor'[a].doing = "create" => trigger'[actor'[a].subject].state # "unborn"
    BY <1>2, <1>4
  <2>3. \A b \in Actors \ {a} : \A u \in Triggers :
          Holds(actor[b], u) => guardian'[u] = guardian[u] /\ trigger'[u].state = "there"
    <3> SUFFICES ASSUME NEW b \in Actors \ {a}, NEW u \in Triggers, Holds(actor[b], u)
                 PROVE  guardian'[u] = guardian[u] /\ trigger'[u].state = "there"
      OBVIOUS
    <3>1. guardian[u] = b /\ trigger[u].state = "there"
      BY DEF LocksHold
    <3>2. u # t
      BY <3>1, FreeIsNobody
    <3>3. QED
      BY <1>6, <3>1, <3>2
  <2>4. QED
    BY <1>4, <2>1, <2>2, <2>3, LocksStep
<1>10. OneAtATime'
  <2>1. \A u \in Triggers : Active(actor'[a], u) => u = t
    BY <1>2, <1>4 DEF Active, OnIt, Holds
  <2>2. QED
    BY <1>4, <1>5, <1>8, <2>1, TurnsStep
<1>11. HeldIsOwned'
  <2> SUFFICES ASSUME NEW u \in Triggers \ excused'
               PROVE  Owned(u, trigger'[u], held'[u], actor')
    BY DEF HeldIsOwned
  <2>1. Owned(u, trigger[u], held[u], actor)
    BY <1>5 DEF HeldIsOwned
  <2>2. CASE u = t
    <3>1. \A b \in Actors : ~(actor[b].subject = t /\ actor[b].step = "answered")
      BY <1>8, <2>2 DEF Rests, Registering
    <3>2. held[t].token # None => trigger[t].token = held[t].token
      BY <2>1, <2>2, <3>1 DEF Owned
    <3>3. \A b \in Actors : b # a => Rests(actor'[b], t)
      BY <1>4, <1>8, <2>2 DEF Moved
    <3>4. \A b \in Actors : b # a => ~OnIt(actor'[b], t)
      BY <3>3 DEF Rests, OnIt
    <3>5. \A b \in Actors : b # a => ~(actor'[b].subject = t /\ actor'[b].step \in {"answered", "revoking", "removing"})
      BY <3>3 DEF Rests, Registering
    <3>6. actor'[a].loaded = trigger[t] /\ actor'[a].step \in {"resolving", "revoking"}
      BY <1>2, <1>4
    <3>7. QED
      BY <2>2, <3>2, <3>4, <3>5, <3>6 DEF Owned, There
  <2>3. CASE u # t
    <3>1. Rests(actor'[a], u) /\ Rests(actor[a], u)
      BY <1>2, <1>4, <2>3 DEF Rests, Registering
    <3>2. QED
      BY <1>4, <2>1, <3>1, OtherRowsOwned
  <2>4. QED
    BY <2>2, <2>3
<1>12. Unplugged'
  <2>1. a = Pass => actor[a].doing # "none"
    OBVIOUS
  <2>2. actor'[a].step \notin {"cancelling", "bulk", "clearing"}
    BY <1>2, <1>4
  <2>3. QED
    BY <1>4, <1>5, <2>1, <2>2, UnpluggedStep
<1>13. UrlsAreTold'
  BY <1>2, <1>4, <1>5, ToldStep
<1>14. QED
  BY <1>7, <1>9, <1>10, <1>11, <1>12, <1>13

LEMMA LockStep ==
  ASSUME EndpointInv, NEW q \in Requests, LockTrigger(q), There(actor[q].subject)
  PROVE  EndpointInv'
<1> DEFINE t == actor[q].subject
<1>1. q \in Actors /\ q # Pass /\ actor[q].step = "waiting" /\ t \in Triggers
  BY EndpointsAssumption, ActorFacts DEF LockTrigger, Actors, EndpointInv
<1>2. actor[q].doing \in {"update", "delete"}
  <2>1. actor[q].doing \in Kinds /\ actor[q].step \in StepsOf[actor[q].doing]
    BY <1>1, ActorFacts DEF EndpointInv
  <2>2. QED
    BY <1>1, <2>1 DEF StepsOf, Kinds, Registering
<1> DEFINE s == IF actor[q].doing = "update" THEN "resolving" ELSE "revoking"
<1>3. /\ Guard(q, t, s) /\ guardian[t] = Free
      /\ UNCHANGED <<trigger, held, issued, cloudFaults, credential, client, connects, asked,
                     news, pointed, dropped, pass>>
  BY DEF LockTrigger, cloudVars, linkVars, tellVars
<1>4. s \in {"resolving", "revoking"} /\ (s = "revoking" <=> actor[q].doing = "delete")
  BY <1>2
<1> HIDE DEF s, t
<1>5. There(t)
  BY DEF t
<1>6. QED
  BY <1>1, <1>2, <1>3, <1>4, <1>5, GuardStep

LEMMA TakeStep ==
  ASSUME EndpointInv, NEW t \in Triggers, PassTake(t), StillMissing(t)
  PROVE  EndpointInv'
<1>1. /\ Pass \in Actors /\ actor[Pass].step = "choosing" /\ actor[Pass].doing = "pass"
      /\ actor[Pass] # Idle
  <2>1. Pass \in Actors /\ actor[Pass].step = "choosing"
    BY DEF PassTake, Actors
  <2>2. actor[Pass].doing \in {"none", "pass"} /\ actor[Pass].step \in StepsOf[actor[Pass].doing]
    BY <2>1, ActorFacts DEF EndpointInv, EndpointShape
  <2>3. QED
    BY <2>1, <2>2, IdleIsSane DEF StepsOf
<1>2. pass' = [pass EXCEPT !.work = @ \ {t}, !.noted = news] /\ pass \in PassRecords /\ news \in News
  BY EndpointsAreTyped DEF EndpointInv, EndpointShape, PassTake
<1>3. pass' \in PassRecords /\ pass'.noted = news
  BY <1>2 DEF PassRecords
<1>4. /\ Guard(Pass, t, "resolving") /\ guardian[t] = Free /\ There(t)
      /\ UNCHANGED <<trigger, held, issued, cloudFaults, credential, client, connects, asked,
                     news, pointed, dropped>>
  BY DEF PassTake, StillMissing, cloudVars, linkVars, tellVars
<1>5. QED
  BY <1>1, <1>3, <1>4, GuardStep

LEMMA RevokeStep ==
  ASSUME EndpointInv, NEW q \in Requests, RevokeTrigger(q)
  PROVE  EndpointInv'
<1> USE DEF EndpointInv
<1> DEFINE t == actor[q].subject
<1>1. /\ q \in Actors /\ q # Pass /\ actor[q].step = "revoking" /\ t \in Triggers
      /\ actor[q] \in ActorRecords /\ actor[q].doing = "delete"
  <2>1. q \in Actors /\ q # Pass /\ actor[q].step = "revoking"
    BY EndpointsAssumption DEF RevokeTrigger, Actors
  <2>2. actor[q].doing \in Kinds /\ actor[q].step \in StepsOf[actor[q].doing]
    BY <2>1, ActorFacts
  <2>3. actor[q].doing = "delete"
    BY <2>1, <2>2 DEF StepsOf, Kinds, Registering
  <2>4. QED
    BY <2>1, <2>3, ActorFacts
<1>2. /\ Moved(q) /\ actor'[q] = [actor[q] EXCEPT !.step = "removing"]
      /\ UNCHANGED <<trigger, issued, credential, client, connects, asked, guardian, pass,
                     news, pointed, dropped>>
  BY <1>1, GotoMoves DEF RevokeTrigger, Steps, linkVars, tellVars
<1>3. /\ actor'[q].step = "removing" /\ actor'[q].doing = "delete" /\ actor'[q].subject = t
      /\ actor'[q].loaded = actor[q].loaded /\ actor'[q].answer = actor[q].answer
  BY <1>1, <1>2 DEF ActorRecords
<1>4. /\ held' \in [Triggers -> HeldRecords]
      /\ \A u \in Triggers : held'[u].token \in {None, held[u].token}
      /\ \A u \in Triggers \ {t} : held'[u] = held[u]
      /\ t \in excused' \/ held'[t].token = (IF Revoked(q, t) THEN None ELSE held[t].token)
  <2> DEFINE n == IF Revoked(q, t) THEN None ELSE held[t].token
  <2>1. held \in [Triggers -> HeldRecords] /\ excused \in SUBSET Triggers
    BY EndpointsAreTyped DEF EndpointShape
  <2>2. n \in {None, held[t].token} /\ n \in Nat
    BY <1>1, <2>1 DEF HeldRecords, None
  <2>3. \/ held' = [held EXCEPT ![t].token = n]
        \/ UNCHANGED held /\ t \in excused'
    BY <1>1 DEF RevokeTrigger
  <2> HIDE DEF n
  <2>4. CASE held' = [held EXCEPT ![t].token = n]
    BY <1>1, <2>1, <2>2, <2>4 DEF HeldRecords, n
  <2>5. CASE UNCHANGED held /\ t \in excused'
    BY <2>1, <2>5
  <2>6. QED
    BY <2>3, <2>4, <2>5
<1>5. excused \subseteq excused' /\ excused' \subseteq Triggers /\ cloudFaults' \in 0..MaxCloudFaults
  BY <1>1, EndpointsAreTyped DEF RevokeTrigger, EndpointShape, CloudFails
<1> HIDE DEF t
<1>6. EndpointShape'
  <2>1. Sane(actor'[q], issued')
    <3>1. "removing" \in StepsOf["delete"]
      BY DEF StepsOf
    <3>2. QED
      BY <1>1, <1>2, <1>3, <3>1, ActorFacts DEF Sane
  <2>2. \A u \in Triggers : held'[u].token <= issued' /\ trigger'[u].token <= issued'
    BY <1>2, <1>4, EndpointsAreTyped DEF EndpointShape, None
  <2>3. issued' \in Nat /\ issued <= issued' /\ actor'[q].doing = "delete"
    BY <1>1, <1>2, <1>3, ActorFacts
  <2>4. /\ trigger' \in [Triggers -> Row]
        /\ guardian' \in [Triggers -> Actors \cup {Free}]
        /\ pass' \in PassRecords /\ news' \in News /\ pointed' \in [Triggers -> Nat]
        /\ credential' \in {"none", "connected", "error"} /\ client' \in BOOLEAN
        /\ connects' \in 0..MaxConnects /\ asked' \in 0..MaxRequests
        /\ excused' \in SUBSET Triggers /\ dropped' \in SUBSET Triggers
    BY <1>2, <1>5, EndpointsAreTyped DEF EndpointShape
  <2>5. QED
    BY <1>1, <1>2, <1>4, <1>5, <2>1, <2>2, <2>3, <2>4, ShapeStep
<1>7. /\ Active(actor[q], t) /\ Holds(actor[q], t)
      /\ \A u \in Triggers : Holds(actor'[q], u) => u = t
      /\ \A u \in Triggers : Active(actor'[q], u) => u = t
  BY <1>1, <1>3 DEF t, Active, OnIt, Holds, Guarded
<1>8. LocksHold'
  <2>1. \A u \in Triggers : Holds(actor'[q], u) => guardian'[u] = q /\ trigger'[u].state = "there"
    BY <1>1, <1>2, <1>7 DEF LocksHold
  <2>2. \A b \in Actors \ {q} : \A u \in Triggers :
          Holds(actor[b], u) => guardian'[u] = guardian[u] /\ trigger'[u].state = "there"
    BY <1>2 DEF LocksHold
  <2>3. QED
    BY <1>1, <1>2, <1>3, <2>1, <2>2, LocksStep
<1>9. OneAtATime'
  BY <1>1, <1>2, <1>5, <1>7, TurnsStep
<1>10. HeldIsOwned'
  <2> SUFFICES ASSUME NEW u \in Triggers \ excused'
               PROVE  Owned(u, trigger'[u], held'[u], actor')
    BY DEF HeldIsOwned
  <2>1. Owned(u, trigger[u], held[u], actor)
    BY <1>5 DEF HeldIsOwned
  <2>2. CASE u = t
    <3>1. held[t].token # None => actor[q].loaded.token = held[t].token
      BY <1>1, <2>1, <2>2 DEF Owned, t
    <3>2. held'[t].token = None
      BY <1>4, <2>2, <3>1 DEF Revoked
    <3>3. \A b \in Actors \ {q} : Rests(actor[b], t)
      BY <1>1, <1>5, <1>7, <2>2, OthersAreNot
    <3>4. \A b \in Actors : ~OnIt(actor'[b], t)
      BY <1>2, <1>3, <3>3 DEF Moved, Rests, OnIt, Registering
    <3>5. \A b \in Actors : ~(actor'[b].subject = t /\ actor'[b].step = "answered")
      BY <3>4 DEF OnIt, Registering
    <3>6. QED
      BY <2>2, <3>2, <3>4, <3>5 DEF Owned
  <2>3. CASE u # t
    <3>1. Rests(actor'[q], u) /\ Rests(actor[q], u)
      BY <1>3, <2>3 DEF Rests, t
    <3>2. trigger'[u] = trigger[u] /\ held'[u] = held[u]
      BY <1>2, <1>4, <2>3
    <3>3. QED
      BY <1>1, <1>2, <2>1, <3>1, <3>2, OtherRowsOwned
  <2>4. QED
    BY <2>2, <2>3
<1>11. Unplugged'
  <2>1. \A u \in Triggers : held'[u].token = None \/ held'[u] = held[u]
    <3>1. \A u \in Triggers : held'[u].token = held[u].token => held'[u] = held[u]
      BY <1>1, EndpointsAreTyped DEF RevokeTrigger, EndpointShape, HeldRecords, t
    <3>2. QED
      BY <1>4, <3>1
  <2>2. actor'[q].step \notin {"cancelling", "bulk", "clearing"}
    BY <1>3
  <2>3. QED
    BY <1>1, <1>2, <1>5, <2>1, <2>2, UnpluggedStep
<1>12. UrlsAreTold'
  BY <1>1, <1>2, <1>5, ToldStep
<1>13. QED
  BY <1>6, <1>8, <1>9, <1>10, <1>11, <1>12

LEMMA DoneMoves ==
  ASSUME EndpointShape, NEW a \in Actors, Done(a)
  PROVE  /\ Moved(a) /\ Sane(actor'[a], issued)
         /\ a = Pass => actor'[a].doing = "pass"
         /\ a # Pass => actor'[a].doing = "none"
         /\ actor'[a].step \in {"idle", "choosing"}
<1> DEFINE me == IF a = Pass THEN [Idle EXCEPT !.doing = "pass", !.step = "choosing"] ELSE Idle
<1>1. me \in ActorRecords
  BY BlankEndpoints DEF ActorRecords, Kinds, Steps
<1>2. /\ me.answer = None /\ me.loaded = BlankRow
      /\ a = Pass => me.doing = "pass" /\ me.step = "choosing"
      /\ a # Pass => me.doing = "none" /\ me.step = "idle"
  BY BlankEndpoints, IdleIsSane DEF ActorRecords
<1>3. actor' = [actor EXCEPT ![a] = me]
  BY DEF Done
<1> HIDE DEF me
<1>4. Moved(a) /\ actor'[a] = me
  BY <1>1, <1>3, MoveIsTyped
<1>5. "choosing" \in StepsOf["pass"] /\ "idle" \in StepsOf["none"]
  BY DEF StepsOf
<1>6. Sane(actor'[a], issued)
  BY <1>2, <1>4, <1>5, IdleIsSane, EndpointsAreTyped DEF Sane, EndpointShape, None
<1>7. QED
  BY <1>2, <1>4, <1>6

LEMMA LeaveMoves ==
  ASSUME EndpointShape, NEW a \in Actors, Leave(a)
  PROVE  /\ Moved(a) /\ Sane(actor'[a], issued)
         /\ a = Pass => actor'[a].doing = "pass"
         /\ a # Pass => actor'[a].doing = "none"
         /\ actor'[a].step \in {"idle", "choosing"}
         /\ guardian' \in [Triggers -> Actors \cup {Free}]
         /\ \A u \in Triggers : guardian[u] # a => guardian'[u] = guardian[u]
<1>1. /\ guardian' \in [Triggers -> Actors \cup {Free}]
      /\ \A u \in Triggers : guardian[u] # a => guardian'[u] = guardian[u]
  BY EndpointsAreTyped DEF Leave, Unlocked, EndpointShape
<1>2. QED
  BY <1>1, DoneMoves DEF Leave

\* An actor is done with its row.
LEMMA LeaveKeeps ==
  ASSUME EndpointInv, NEW a \in Actors, Leave(a), actor[a].step # "idle",
         UNCHANGED <<held, issued, cloudFaults, credential, client, connects, asked, pass,
                     dropped, excused>>,
         trigger' \in [Triggers -> Row], news' \in News, pointed' \in [Triggers -> Nat],
         \A u \in Triggers : trigger'[u].token <= issued,
         \A u \in Triggers : trigger'[u].state = "unborn" => trigger[u].state = "unborn",
         \A b \in Actors \ {a} : \A u \in Triggers :
           Holds(actor[b], u) => trigger'[u].state = "there"
  PROVE  EndpointShape' /\ LocksHold' /\ OneAtATime' /\ Unplugged'
<1> USE DEF EndpointInv
<1>1. /\ Moved(a) /\ Sane(actor'[a], issued)
      /\ a = Pass => actor'[a].doing = "pass"
      /\ a # Pass => actor'[a].doing = "none"
      /\ actor'[a].step \in {"idle", "choosing"}
      /\ guardian' \in [Triggers -> Actors \cup {Free}]
      /\ \A u \in Triggers : guardian[u] # a => guardian'[u] = guardian[u]
  BY LeaveMoves
<1>2. EndpointShape'
  <2>1. \A u \in Triggers : held'[u].token <= issued' /\ trigger'[u].token <= issued'
    BY DEF EndpointShape
  <2>2. /\ issued' \in Nat /\ issued <= issued' /\ Sane(actor'[a], issued')
        /\ a \in Requests => actor'[a].doing # "pass"
        /\ a = Pass => actor'[a].doing \in {"none", "pass"}
    BY <1>1, EndpointsAreTyped, EndpointsAssumption DEF EndpointShape
  <2>3. /\ held' \in [Triggers -> HeldRecords] /\ pass' \in PassRecords
        /\ credential' \in {"none", "connected", "error"} /\ client' \in BOOLEAN
        /\ cloudFaults' \in 0..MaxCloudFaults /\ connects' \in 0..MaxConnects /\ asked' \in 0..MaxRequests
        /\ excused' \in SUBSET Triggers /\ dropped' \in SUBSET Triggers
    BY EndpointsAreTyped DEF EndpointShape
  <2>4. QED
    BY <1>1, <2>1, <2>2, <2>3, ShapeStep
<1>3. LocksHold'
  <2>1. \A u \in Triggers : ~Holds(actor'[a], u)
    BY <1>1 DEF Holds, Guarded, Registering
  <2>2. \A b \in Actors \ {a} : \A u \in Triggers :
          Holds(actor[b], u) => guardian'[u] = guardian[u] /\ trigger'[u].state = "there"
    <3> SUFFICES ASSUME NEW b \in Actors \ {a}, NEW u \in Triggers, Holds(actor[b], u)
                 PROVE  guardian'[u] = guardian[u]
      OBVIOUS
    <3>1. guardian[u] = b
      BY DEF LocksHold
    <3>2. QED
      BY <1>1, <3>1
  <2>3. actor'[a].doing # "create"
    BY <1>1
  <2>4. QED
    BY <1>1, <2>1, <2>2, <2>3, LocksStep
<1>4. OneAtATime'
  <2>1. \A u \in Triggers : ~Active(actor'[a], u)
    BY <1>1 DEF Active, OnIt, Holds, Guarded, Registering
  <2>2. QED
    BY <1>1, <2>1, TurnsStep
<1>5. Unplugged'
  <2>1. actor[a].doing # "none"
    BY ActorFacts DEF StepsOf
  <2>2. excused' \subseteq Triggers /\ actor'[a].step \notin {"cancelling", "bulk", "clearing"}
    BY <1>1, EndpointsAreTyped DEF EndpointShape
  <2>3. QED
    BY <1>1, <2>1, <2>2, UnpluggedStep
<1>6. QED
  BY <1>2, <1>3, <1>4, <1>5

\* The row goes: what it had on the cloud is gone already.
LEMMA RemoveStep ==
  ASSUME EndpointInv, NEW q \in Requests, RemoveTrigger(q)
  PROVE  EndpointInv'
<1> USE DEF EndpointInv
<1> DEFINE t == actor[q].subject
<1>1. /\ q \in Actors /\ q # Pass /\ actor[q].step = "removing" /\ t \in Triggers
      /\ actor[q].doing = "delete"
  <2>1. q \in Actors /\ q # Pass /\ actor[q].step = "removing"
    BY EndpointsAssumption DEF RemoveTrigger, Actors
  <2>2. actor[q].doing \in Kinds /\ actor[q].step \in StepsOf[actor[q].doing]
    BY <2>1, ActorFacts
  <2>3. actor[q].doing = "delete"
    BY <2>1, <2>2 DEF StepsOf, Kinds, Registering
  <2>4. QED
    BY <2>1, <2>3, ActorFacts
<1>2. trigger \in [Triggers -> Row] /\ trigger' = [trigger EXCEPT ![t].state = "gone"]
  BY EndpointsAreTyped DEF RemoveTrigger, EndpointShape
<1>3. /\ trigger' \in [Triggers -> Row] /\ trigger'[t].state = "gone"
      /\ \A u \in Triggers : trigger'[u].token = trigger[u].token /\ trigger'[u].url = trigger[u].url
      /\ \A u \in Triggers \ {t} : trigger'[u] = trigger[u]
  BY <1>1, <1>2 DEF Row
<1>4. /\ Leave(q)
      /\ UNCHANGED <<held, issued, cloudFaults, credential, client, connects, asked, pass,
                     dropped, excused, news, pointed>>
  BY DEF RemoveTrigger, cloudVars, linkVars, tellVars
<1> HIDE DEF t
<1>5. /\ Moved(q) /\ actor'[q].step \in {"idle", "choosing"} /\ Holds(actor[q], t)
  BY <1>1, <1>4, LeaveMoves DEF Holds, Guarded, t
<1>6. EndpointShape' /\ LocksHold' /\ OneAtATime' /\ Unplugged'
  <2>1. \A b \in Actors \ {q} : \A u \in Triggers :
          Holds(actor[b], u) => trigger'[u].state = "there"
    <3> SUFFICES ASSUME NEW b \in Actors \ {q}, NEW u \in Triggers, Holds(actor[b], u)
                 PROVE  trigger'[u].state = "there"
      OBVIOUS
    <3>1. guardian[u] = b /\ trigger[u].state = "there" /\ guardian[t] = q
      BY <1>1, <1>5 DEF LocksHold
    <3>2. QED
      BY <1>3, <3>1
  <2>2. /\ \A u \in Triggers : trigger'[u].token <= issued
        /\ \A u \in Triggers : trigger'[u].state = "unborn" => trigger[u].state = "unborn"
        /\ news' \in News /\ pointed' \in [Triggers -> Nat]
    BY <1>3, <1>4, EndpointsAreTyped DEF EndpointShape
  <2>3. QED
    BY <1>1, <1>3, <1>4, <2>1, <2>2, LeaveKeeps
<1>7. HeldIsOwned'
  <2> SUFFICES ASSUME NEW u \in Triggers \ excused
               PROVE  Owned(u, trigger'[u], held'[u], actor')
    BY <1>4 DEF HeldIsOwned
  <2>1. Owned(u, trigger[u], held[u], actor)
    BY DEF HeldIsOwned
  <2>2. CASE u = t
    <3>1. held'[t].token = None
      BY <1>1, <1>4, <2>1, <2>2 DEF Owned, t
    <3>2. \A b \in Actors \ {q} : Rests(actor[b], t)
      BY <1>1, <1>5, <2>2, OthersAreNot DEF Active
    <3>3. \A b \in Actors : Rests(actor'[b], t)
      BY <1>5, <3>2 DEF Moved, Rests, Registering
    <3>4. QED
      BY <2>2, <3>1, <3>3 DEF Owned, OnIt, Rests, Registering
  <2>3. CASE u # t
    <3>1. Rests(actor'[q], u) /\ Rests(actor[q], u)
      BY <1>5, <2>3 DEF Rests, t, Registering
    <3>2. trigger'[u] = trigger[u] /\ held'[u] = held[u]
      BY <1>3, <1>4, <2>3
    <3>3. QED
      BY <1>1, <1>5, <2>1, <3>1, <3>2, OtherRowsOwned
  <2>4. QED
    BY <2>2, <2>3
<1>8. UrlsAreTold'
  BY <1>1, <1>3, <1>4, <1>5, ToldStep
<1>9. QED
  BY <1>6, <1>7, <1>8

LEMMA WrittenRow ==
  ASSUME EndpointShape, NEW a \in Actors, NEW t \in Triggers, trigger' = Written(a, t)
  PROVE  /\ trigger' \in [Triggers -> Row]
         /\ \A u \in Triggers : trigger'[u].state = trigger[u].state /\ trigger'[u].token <= issued
         /\ \A u \in Triggers \ {t} : trigger'[u] = trigger[u]
         /\ trigger'[t].token = IF actor[a].answer = actor[a].loaded.token
                                THEN trigger[t].token ELSE actor[a].answer
         /\ trigger'[t].url = IF actor[a].answer = actor[a].loaded.url
                              THEN trigger[t].url ELSE actor[a].answer
<1> DEFINE n == IF actor[a].answer = actor[a].loaded.token THEN trigger[t].token ELSE actor[a].answer
<1> DEFINE u0 == IF actor[a].answer = actor[a].loaded.url THEN trigger[t].url ELSE actor[a].answer
<1>1. trigger \in [Triggers -> Row] /\ \A u \in Triggers : trigger[u].token <= issued
  BY EndpointsAreTyped DEF EndpointShape
<1>2. n \in Nat /\ u0 \in Nat /\ n <= issued
  BY <1>1, ActorFacts DEF Row
<1>3. trigger' = [trigger EXCEPT ![t].token = n, ![t].url = u0]
  BY <1>1 DEF Written, Row
<1> HIDE DEF n, u0
<1>4. /\ trigger' \in [Triggers -> Row]
      /\ \A u \in Triggers : trigger'[u].state = trigger[u].state
      /\ \A u \in Triggers \ {t} : trigger'[u] = trigger[u]
      /\ trigger'[t].token = n /\ trigger'[t].url = u0
  <2> DEFINE r == [trigger[t] EXCEPT !.token = n, !.url = u0]
  <2>1. trigger[t] \in Row
    BY <1>1
  <2>2. r \in Row /\ r.token = n /\ r.url = u0 /\ r.state = trigger[t].state
    BY <1>2, <2>1 DEF Row
  <2>3. trigger' = [trigger EXCEPT ![t] = r]
    BY <1>1, <1>3, <2>1 DEF Row
  <2> HIDE DEF r
  <2>4. QED
    BY <1>1, <2>2, <2>3
<1>5. QED
  BY <1>1, <1>2, <1>4 DEF n, u0

\* The row of a registration that is committed says what the cloud holds.
LEMMA CommitOwns ==
  ASSUME EndpointInv, NEW a \in Actors, NEW t \in Triggers, t = actor[a].subject,
         actor[a].step = "answered", Moved(a), actor'[a].step \in {"idle", "choosing"},
         UNCHANGED <<held, excused>>,
         trigger[t].state = "there" => trigger' = Written(a, t),
         trigger[t].state # "there" => UNCHANGED trigger
  PROVE  HeldIsOwned'
<1> USE DEF EndpointInv
<1> SUFFICES ASSUME NEW u \in Triggers \ excused
             PROVE  Owned(u, trigger'[u], held'[u], actor')
  BY DEF HeldIsOwned
<1>1. Owned(u, trigger[u], held[u], actor)
  BY DEF HeldIsOwned
<1>2. CASE u = t
  <2>1. OnIt(actor[a], t) /\ Active(actor[a], t)
    BY DEF OnIt, Active, Registering
  <2>2. trigger[t].state = "there"
    BY <1>1, <1>2, <2>1 DEF Owned
  <2>3. /\ held[t].token # None => held[t].token = actor[a].answer
        /\ held[t].token # None /\ actor[a].loaded.token = actor[a].answer => trigger[t].token = actor[a].answer
    BY <1>1, <1>2 DEF Owned
  <2>4. trigger'[t].state = "there" /\ (held'[t].token # None => trigger'[t].token = held'[t].token)
    BY <2>2, <2>3, WrittenRow
  <2>5. \A b \in Actors \ {a} : Rests(actor[b], t)
    BY <1>2, <2>1, OthersAreNot
  <2>6. \A b \in Actors : Rests(actor'[b], t)
    BY <2>5 DEF Moved, Rests, Registering
  <2>7. QED
    BY <1>2, <2>4, <2>6 DEF Owned, OnIt, Rests, Registering
<1>3. CASE u # t
  <2>1. Rests(actor'[a], u) /\ Rests(actor[a], u)
    BY <1>3 DEF Rests, Registering
  <2>2. trigger'[u] = trigger[u]
    BY <1>3, WrittenRow
  <2>3. QED
    BY <1>1, <2>1, <2>2, OtherRowsOwned
<1>4. QED
  BY <1>2, <1>3

LEMMA CommitStep ==
  ASSUME EndpointInv, NEW q \in Requests, CommitRequest(q)
  PROVE  EndpointInv'
<1> USE DEF EndpointInv
<1> DEFINE t == actor[q].subject
<1>1. q \in Actors /\ q # Pass /\ actor[q].step = "answered" /\ t \in Triggers
  BY ActorFacts DEF CommitRequest, Actors
<1>2. /\ Leave(q)
      /\ UNCHANGED <<held, issued, cloudFaults, credential, client, connects, asked, pass,
                     dropped, excused, news>>
      /\ trigger[t].state = "there" => /\ trigger' = Written(q, t)
                                       /\ pointed' = [pointed EXCEPT ![t] = None]
      /\ trigger[t].state # "there" => UNCHANGED <<trigger, pointed>>
  BY DEF CommitRequest, cloudVars, linkVars, There
<1> HIDE DEF t
<1>3. Moved(q) /\ actor'[q].step \in {"idle", "choosing"}
  BY <1>1, <1>2, LeaveMoves
<1>4. /\ trigger' \in [Triggers -> Row]
      /\ \A u \in Triggers : trigger'[u].state = trigger[u].state /\ trigger'[u].token <= issued
      /\ \A u \in Triggers \ {t} : trigger'[u] = trigger[u]
  <2>1. CASE trigger[t].state = "there"
    BY <1>1, <1>2, <2>1, WrittenRow
  <2>2. CASE trigger[t].state # "there"
    BY <1>2, <2>2, EndpointsAreTyped DEF EndpointShape
  <2>3. QED
    BY <2>1, <2>2
<1>5. /\ pointed' \in [Triggers -> Nat]
      /\ \A u \in Triggers \ {t} : pointed'[u] = pointed[u]
      /\ trigger[t].state = "there" => pointed'[t] = None
  BY <1>1, <1>2, EndpointsAreTyped DEF EndpointShape, None
<1>6. EndpointShape' /\ LocksHold' /\ OneAtATime' /\ Unplugged'
  <2>1. \A b \in Actors \ {q} : \A u \in Triggers :
          Holds(actor[b], u) => trigger'[u].state = "there"
    BY <1>4 DEF LocksHold
  <2>2. /\ \A u \in Triggers : trigger'[u].token <= issued
        /\ \A u \in Triggers : trigger'[u].state = "unborn" => trigger[u].state = "unborn"
        /\ news' \in News
    BY <1>2, <1>4, EndpointsAreTyped DEF EndpointShape
  <2>3. QED
    BY <1>1, <1>2, <1>4, <1>5, <2>1, <2>2, LeaveKeeps
<1>7. HeldIsOwned'
  BY <1>1, <1>2, <1>3, CommitOwns DEF t
<1>8. UrlsAreTold'
  <2>1. Active(actor[q], t) /\ OnIt(actor[q], t)
    BY <1>1 DEF Active, OnIt, Registering, t
  <2>2. \A u \in Triggers \ (dropped' \cup excused') : Told(u, trigger'[u], pointed'[u], news')
    <3> SUFFICES ASSUME NEW u \in Triggers \ (dropped \cup excused)
                 PROVE  Told(u, trigger'[u], pointed'[u], news')
      BY <1>2
    <3>1. Told(u, trigger[u], pointed[u], news)
      BY DEF UrlsAreTold
    <3>2. CASE u = t /\ trigger[t].state = "there"
      BY <1>5, <3>2 DEF Told
    <3>3. CASE ~(u = t /\ trigger[t].state = "there")
      BY <1>2, <1>4, <1>5, <3>1, <3>3
    <3>4. QED
      BY <3>2, <3>3
  <2>3. ASSUME actor'[Pass].step \in Registering \cup {"refused"}
        PROVE  /\ news' \in {pass'.noted, NoNews}
               /\ actor'[Pass].subject \notin excused' =>
                    actor'[Pass].loaded.url = trigger'[actor'[Pass].subject].url
    <3>1. actor'[Pass] = actor[Pass] /\ Pass \in Actors
      BY <1>1, <1>3 DEF Moved, Actors
    <3>2. news \in {pass.noted, NoNews} /\ news' \in {pass'.noted, NoNews}
      BY <1>2, <2>3, <3>1 DEF UrlsAreTold
    <3>3. ASSUME actor[Pass].subject \notin excused
          PROVE  actor[Pass].loaded.url = trigger'[actor[Pass].subject].url
      <4>1. actor[Pass].loaded.url = trigger[actor[Pass].subject].url
        BY <2>3, <3>1, <3>3 DEF UrlsAreTold
      <4>2. actor[Pass].subject \in Triggers
        BY <3>1, ActorFacts
      <4>3. Active(actor[Pass], actor[Pass].subject)
        <5>1. actor[Pass].doing \in {"none", "pass"} /\ actor[Pass].step \in StepsOf[actor[Pass].doing]
          BY <3>1, ActorFacts DEF EndpointShape
        <5>2. actor[Pass].doing = "pass"
          BY <2>3, <3>1, <5>1 DEF StepsOf, Registering
        <5>3. QED
          BY <2>3, <3>1, <5>2 DEF Active, Holds, Guarded
      <4>4. actor[Pass].subject # t
        BY <1>1, <2>1, <3>1, <3>3, <4>2, <4>3 DEF OneAtATime
      <4>5. QED
        BY <1>4, <4>1, <4>2, <4>4
    <3>4. QED
      BY <1>2, <3>1, <3>2, <3>3
  <2>4. QED
    BY <2>2, <2>3 DEF UrlsAreTold
<1>9. QED
  BY <1>6, <1>7, <1>8

\* The pass is on its row.
LEMMA PassOnRow ==
  ASSUME EndpointInv, actor[Pass].step \in Registering \cup {"refused"}
  PROVE  /\ Pass \in Actors /\ actor[Pass].subject \in Triggers /\ actor[Pass].doing = "pass"
         /\ Active(actor[Pass], actor[Pass].subject)
         /\ pass.noted \in News /\ news \in {pass.noted, NoNews}
         /\ actor[Pass].loaded.url \in Nat /\ actor[Pass].answer \in Nat
         /\ actor[Pass].subject \notin excused =>
              actor[Pass].loaded.url = trigger[actor[Pass].subject].url
<1> USE DEF EndpointInv
<1>1. Pass \in Actors
  BY DEF Actors
<1>2. actor[Pass].doing \in {"none", "pass"} /\ actor[Pass].step \in StepsOf[actor[Pass].doing]
  BY <1>1, ActorFacts DEF EndpointShape
<1>3. actor[Pass].doing = "pass"
  BY <1>2 DEF StepsOf, Registering
<1>4. Active(actor[Pass], actor[Pass].subject)
  BY <1>3 DEF Active, Holds, Guarded
<1>5. pass.noted \in News
  BY EndpointsAreTyped DEF EndpointShape, PassRecords
<1>6. QED
  BY <1>1, <1>3, <1>4, <1>5, ActorFacts DEF UrlsAreTold

\* What the pass writes back about URLs.
LEMMA NotingTells ==
  ASSUME EndpointInv, actor[Pass].step = "answered", NEW t \in Triggers, t = actor[Pass].subject
  PROVE  /\ Noting(t) \in News
         /\ \A u \in Triggers \ {t} : \A row \in Row : \A p \in Nat :
              Told(u, row, p, news) => Told(u, row, p, Noting(t))
         /\ t \notin excused => \A p \in Nat : Told(t, trigger[t], p, news) =>
              p = actor[Pass].answer \/ t \in Noting(t).changes \/ p = None
<1>1. /\ pass.noted \in News /\ news \in {pass.noted, NoNews}
      /\ actor[Pass].loaded.url \in Nat /\ actor[Pass].answer \in Nat
      /\ t \notin excused => actor[Pass].loaded.url = trigger[t].url
  BY PassOnRow DEF Registering
<1>2. /\ pass.noted.changes \in SUBSET Triggers /\ pass.noted.lastKnown \in [Triggers -> Nat]
  BY <1>1 DEF News
<1> DEFINE known == [pass.noted.lastKnown EXCEPT ![t] = None]
<1> DEFINE changed == IF PreviousUrl(t) \notin {None, actor[Pass].answer}
                      THEN pass.noted.changes \cup {t} ELSE pass.noted.changes
<1>3. Noting(t) = [changes |-> changed, lastKnown |-> known]
  BY DEF Noting
<1>4. /\ known \in [Triggers -> Nat] /\ \A u \in Triggers \ {t} : known[u] = pass.noted.lastKnown[u]
      /\ changed \in SUBSET Triggers /\ pass.noted.changes \subseteq changed
  BY <1>2 DEF None
<1>5. PreviousUrl(t) \notin {None, actor[Pass].answer} => t \in changed
  OBVIOUS
<1> HIDE DEF known, changed
<1>6. Noting(t) \in News /\ Noting(t).changes = changed /\ Noting(t).lastKnown = known
  BY <1>3, <1>4 DEF News
<1>7. NoNews.changes = {} /\ \A u \in Triggers : NoNews.lastKnown[u] = None
  BY DEF NoNews, NoToken
<1>8. ASSUME NEW u \in Triggers \ {t}, NEW row \in Row, NEW p \in Nat, Told(u, row, p, news)
      PROVE  Told(u, row, p, Noting(t))
  BY <1>1, <1>4, <1>6, <1>7, <1>8 DEF Told
<1>9. ASSUME t \notin excused, NEW p \in Nat, Told(t, trigger[t], p, news),
             p # actor[Pass].answer, p # None
      PROVE  t \in Noting(t).changes
  <2>1. CASE trigger[t].url = p
    BY <1>1, <1>5, <1>6, <1>9, <2>1 DEF PreviousUrl
  <2>2. CASE t \in news.changes
    BY <1>1, <1>4, <1>6, <1>7, <2>2
  <2>3. CASE trigger[t].url = None /\ news.lastKnown[t] = p
    BY <1>1, <1>5, <1>6, <1>7, <1>9, <2>3 DEF PreviousUrl
  <2>4. QED
    BY <1>9, <2>1, <2>2, <2>3 DEF Told
<1>10. QED
  BY <1>6, <1>8, <1>9

LEMMA PassCommitStep ==
  ASSUME EndpointInv, PassCommit
  PROVE  EndpointInv'
<1> USE DEF EndpointInv
<1> DEFINE t == actor[Pass].subject
<1>1. /\ Pass \in Actors /\ actor[Pass].step = "answered" /\ t \in Triggers
      /\ actor[Pass].answer # None /\ Active(actor[Pass], t)
  BY PassOnRow, ActorFacts DEF PassCommit, Registering
<1>2. /\ Leave(Pass)
      /\ UNCHANGED <<held, issued, cloudFaults, credential, client, connects, asked, pass,
                     dropped, excused, pointed>>
      /\ trigger[t].state = "there" => trigger' = Written(Pass, t) /\ news' = Noting(t)
      /\ trigger[t].state # "there" => UNCHANGED <<trigger, news>>
  BY DEF PassCommit, cloudVars, linkVars, There
<1> HIDE DEF t
<1>3. Moved(Pass) /\ actor'[Pass].step \in {"idle", "choosing"}
  BY <1>1, <1>2, LeaveMoves
<1>4. /\ trigger' \in [Triggers -> Row]
      /\ \A u \in Triggers : trigger'[u].state = trigger[u].state /\ trigger'[u].token <= issued
      /\ \A u \in Triggers \ {t} : trigger'[u] = trigger[u]
  <2>1. CASE trigger[t].state = "there"
    BY <1>1, <1>2, <2>1, WrittenRow
  <2>2. CASE trigger[t].state # "there"
    BY <1>2, <2>2, EndpointsAreTyped DEF EndpointShape
  <2>3. QED
    BY <2>1, <2>2
<1>5. news' \in News /\ pointed \in [Triggers -> Nat] /\ trigger \in [Triggers -> Row]
  BY <1>1, <1>2, NotingTells, EndpointsAreTyped DEF EndpointShape, t
<1>6. EndpointShape' /\ LocksHold' /\ OneAtATime' /\ Unplugged'
  <2>1. \A b \in Actors \ {Pass} : \A u \in Triggers :
          Holds(actor[b], u) => trigger'[u].state = "there"
    BY <1>4 DEF LocksHold
  <2>2. /\ \A u \in Triggers : trigger'[u].token <= issued
        /\ \A u \in Triggers : trigger'[u].state = "unborn" => trigger[u].state = "unborn"
        /\ pointed' \in [Triggers -> Nat] /\ actor[Pass].step # "idle"
    BY <1>1, <1>2, <1>4, <1>5
  <2>3. QED
    BY <1>1, <1>2, <1>4, <1>5, <2>1, <2>2, LeaveKeeps
<1>7. HeldIsOwned'
  BY <1>1, <1>2, <1>3, CommitOwns DEF t
<1>8. UrlsAreTold'
  <2>1. ASSUME NEW u \in Triggers \ (dropped \cup excused)
        PROVE  Told(u, trigger'[u], pointed[u], news')
    <3>1. Told(u, trigger[u], pointed[u], news) /\ pointed[u] \in Nat /\ trigger[u] \in Row
      BY <1>5 DEF UrlsAreTold
    <3>2. CASE trigger[t].state # "there"
      BY <1>2, <3>1, <3>2
    <3>3. CASE trigger[t].state = "there" /\ u # t
      <4>1. trigger'[u] = trigger[u] /\ news' = Noting(t)
        BY <1>2, <1>4, <3>3
      <4>2. QED
        BY <1>1, <3>1, <3>3, <4>1, NotingTells DEF t
    <3>4. CASE trigger[t].state = "there" /\ u = t
      <4>1. pointed[t] = actor[Pass].answer \/ t \in news'.changes \/ pointed[t] = None
        BY <1>1, <1>2, <3>1, <3>4, NotingTells DEF t
      <4>2. trigger'[t].url = actor[Pass].answer
        <5>1. actor[Pass].loaded.url = trigger[t].url
          BY <1>1, <3>4, PassOnRow DEF t, Registering
        <5>2. QED
          BY <1>1, <1>2, <3>4, <5>1, WrittenRow
      <4>3. QED
        BY <3>4, <4>1, <4>2 DEF Told
    <3>5. QED
      BY <3>2, <3>3, <3>4
  <2>2. actor'[Pass].step \notin Registering \cup {"refused"}
    BY <1>3 DEF Registering
  <2>3. QED
    BY <1>2, <2>1, <2>2 DEF UrlsAreTold
<1>9. QED
  BY <1>6, <1>7, <1>8

\* The URL of a row that could not be registered again is remembered.
LEMMA PassClearStep ==
  ASSUME EndpointInv, PassClear
  PROVE  EndpointInv'
<1> USE DEF EndpointInv
<1> DEFINE t == actor[Pass].subject
<1> DEFINE clears == trigger[t].state = "there" /\ actor[Pass].loaded.url # None
<1>1. /\ Pass \in Actors /\ actor[Pass].step = "refused" /\ t \in Triggers
      /\ actor[Pass].loaded.url \in Nat /\ pass.noted \in News /\ news \in {pass.noted, NoNews}
      /\ t \notin excused => actor[Pass].loaded.url = trigger[t].url
  BY PassOnRow DEF PassClear, Registering
<1>2. /\ Leave(Pass)
      /\ UNCHANGED <<held, issued, cloudFaults, credential, client, connects, asked, pass,
                     dropped, excused, pointed>>
      /\ clears => /\ trigger' = [trigger EXCEPT ![t].url = None]
                   /\ news' = [pass.noted EXCEPT !.lastKnown[t] = actor[Pass].loaded.url]
      /\ ~clears => UNCHANGED <<trigger, news>>
  BY DEF PassClear, cloudVars, linkVars, There
<1>3. Moved(Pass) /\ actor'[Pass].step \in {"idle", "choosing"}
  BY <1>1, <1>2, LeaveMoves
<1>4. /\ trigger \in [Triggers -> Row] /\ news \in News /\ pointed \in [Triggers -> Nat]
      /\ \A u \in Triggers : trigger[u].token <= issued
  BY EndpointsAreTyped DEF EndpointShape
<1> HIDE DEF t, clears
<1>5. /\ trigger' \in [Triggers -> Row]
      /\ \A u \in Triggers : trigger'[u].state = trigger[u].state /\ trigger'[u].token = trigger[u].token
      /\ \A u \in Triggers \ {t} : trigger'[u] = trigger[u]
      /\ clears => trigger'[t].url = None
  <2>1. CASE clears
    <3> DEFINE r == [trigger[t] EXCEPT !.url = None]
    <3>1. r \in Row /\ r.url = None /\ r.state = trigger[t].state /\ r.token = trigger[t].token
      BY <1>1, <1>4 DEF Row, None
    <3>2. trigger' = [trigger EXCEPT ![t] = r]
      BY <1>2, <2>1
    <3> HIDE DEF r
    <3>3. QED
      BY <1>1, <1>4, <3>1, <3>2
  <2>2. CASE ~clears
    BY <1>2, <1>4, <2>2
  <2>3. QED
    BY <2>1, <2>2
<1>6. clears => /\ news' \in News /\ news'.changes = pass.noted.changes
                /\ news'.lastKnown[t] = actor[Pass].loaded.url
                /\ \A u \in Triggers \ {t} : news'.lastKnown[u] = pass.noted.lastKnown[u]
  <2> SUFFICES ASSUME clears PROVE /\ news' \in News /\ news'.changes = pass.noted.changes
                                   /\ news'.lastKnown[t] = actor[Pass].loaded.url
                                   /\ \A u \in Triggers \ {t} : news'.lastKnown[u] = pass.noted.lastKnown[u]
    OBVIOUS
  <2>1. news' = [pass.noted EXCEPT !.lastKnown = [pass.noted.lastKnown EXCEPT ![t] = actor[Pass].loaded.url]]
    BY <1>1, <1>2 DEF News
  <2>2. [pass.noted.lastKnown EXCEPT ![t] = actor[Pass].loaded.url] \in [Triggers -> Nat]
    BY <1>1 DEF News
  <2>3. QED
    BY <1>1, <2>1, <2>2 DEF News
<1>7. EndpointShape' /\ LocksHold' /\ OneAtATime' /\ Unplugged'
  <2>1. \A b \in Actors \ {Pass} : \A u \in Triggers :
          Holds(actor[b], u) => trigger'[u].state = "there"
    BY <1>5 DEF LocksHold
  <2>2. /\ \A u \in Triggers : trigger'[u].token <= issued
        /\ \A u \in Triggers : trigger'[u].state = "unborn" => trigger[u].state = "unborn"
        /\ pointed' \in [Triggers -> Nat] /\ news' \in News /\ actor[Pass].step # "idle"
    BY <1>1, <1>2, <1>4, <1>5, <1>6
  <2>3. QED
    BY <1>1, <1>2, <1>5, <2>1, <2>2, LeaveKeeps
<1>8. HeldIsOwned'
  <2> SUFFICES ASSUME NEW u \in Triggers \ excused
               PROVE  Owned(u, trigger'[u], held'[u], actor')
    BY <1>2 DEF HeldIsOwned
  <2>1. Owned(u, trigger[u], held[u], actor)
    BY DEF HeldIsOwned
  <2>2. Rests(actor'[Pass], u) /\ Rests(actor[Pass], u)
    BY <1>1, <1>3 DEF Rests, Registering
  <2>3. QED
    BY <1>1, <1>2, <1>3, <1>5, <2>1, <2>2, OtherRowsOwned
<1>9. UrlsAreTold'
  <2>1. ASSUME NEW u \in Triggers \ (dropped \cup excused)
        PROVE  Told(u, trigger'[u], pointed[u], news')
    <3>1. Told(u, trigger[u], pointed[u], news)
      BY DEF UrlsAreTold
    <3>2. CASE ~clears
      BY <1>2, <3>1, <3>2
    <3>3. NoNews.changes = {} /\ \A v \in Triggers : NoNews.lastKnown[v] = None
      BY DEF NoNews, NoToken
    <3>4. CASE clears /\ u # t
      BY <1>1, <1>5, <1>6, <3>1, <3>3, <3>4 DEF Told
    <3>5. CASE clears /\ u = t
      BY <1>1, <1>5, <1>6, <3>1, <3>3, <3>5 DEF Told, clears
    <3>6. QED
      BY <3>2, <3>4, <3>5
  <2>2. actor'[Pass].step \notin Registering \cup {"refused"}
    BY <1>3 DEF Registering
  <2>3. QED
    BY <1>2, <2>1, <2>2 DEF UrlsAreTold
<1>10. QED
  BY <1>7, <1>8, <1>9

LEMMA UpsertFacts ==
  ASSUME EndpointShape, NEW t \in Triggers, NEW s \in Sources, NEW n \in 1..MaxTokens,
         Upsert(t, s, n)
  PROVE  /\ issued' \in Nat /\ issued <= issued' /\ n <= issued' /\ n # None /\ n \in Nat
         /\ n = held[t].token \/ issued < n
         /\ held' \in [Triggers -> HeldRecords] /\ held'[t].token = n
         /\ \A u \in Triggers \ {t} : held'[u] = held[u]
         /\ \A u \in Triggers : held'[u].token <= issued'
<1>1. /\ issued \in Nat /\ held \in [Triggers -> HeldRecords] /\ MaxTokens \in Nat
      /\ \A u \in Triggers : held[u].token <= issued /\ held[u].token \in Nat
  BY EndpointsAreTyped DEF EndpointShape, HeldRecords
<1>2. n \in Nat /\ n # None
  BY <1>1 DEF None
<1> DEFINE r == [source |-> s, token |-> n]
<1>3. r \in HeldRecords /\ r.token = n
  BY <1>2 DEF HeldRecords
<1>4. held' = [held EXCEPT ![t] = r]
  BY DEF Upsert
<1> HIDE DEF r
<1>5. /\ held' \in [Triggers -> HeldRecords] /\ held'[t].token = n
      /\ \A u \in Triggers \ {t} : held'[u] = held[u]
  BY <1>1, <1>3, <1>4
<1>6. \/ n = held[t].token /\ issued' = issued
      \/ n = issued + 1 /\ issued' = n
  BY DEF Upsert
<1>7. /\ issued' \in Nat /\ issued <= issued' /\ n <= issued'
      /\ n = held[t].token \/ issued < n
  BY <1>1, <1>2, <1>6
<1>8. \A u \in Triggers : held'[u].token <= issued'
  BY <1>1, <1>5, <1>7
<1>9. QED
  BY <1>2, <1>5, <1>7, <1>8

LEMMA PostStep ==
  ASSUME EndpointInv, NEW a \in Actors, PostEndpoint(a)
  PROVE  EndpointInv'
<1> USE DEF EndpointInv
<1> DEFINE t == actor[a].subject
<1>1. /\ actor[a].step = "posting" /\ t \in Triggers /\ actor[a] \in ActorRecords
      /\ actor[a].doing \in {"create", "update", "pass"} /\ actor[a].loaded.source \in Sources
      /\ OnIt(actor[a], t) /\ Active(actor[a], t)
  <2>1. actor[a].step = "posting" /\ t \in Triggers /\ actor[a] \in ActorRecords
    BY ActorFacts DEF PostEndpoint
  <2>2. actor[a].doing \in {"create", "update", "pass"}
    BY <2>1, ActorFacts DEF StepsOf, Kinds, Registering
  <2>3. QED
    BY <2>1, <2>2, ActorFacts DEF OnIt, Active, Registering, Row
<1>2. UNCHANGED <<trigger, credential, client, connects, asked, guardian, pass, news, pointed, dropped>>
  BY DEF PostEndpoint, linkVars, tellVars
<1>3. cloudFaults' \in 0..MaxCloudFaults /\ excused' \subseteq Triggers /\ excused \subseteq excused'
  <2>1. cloudFaults \in 0..MaxCloudFaults /\ MaxCloudFaults \in Nat /\ excused \subseteq Triggers
    BY EndpointsAreTyped DEF EndpointShape
  <2>2. UNCHANGED cloudFaults \/ CloudFails
    BY DEF PostEndpoint
  <2>3. cloudFaults' \in 0..MaxCloudFaults
    BY <2>1, <2>2 DEF CloudFails
  <2>4. excused' = excused \/ excused' = excused \cup {t}
    BY DEF PostEndpoint
  <2>5. QED
    BY <1>1, <2>1, <2>3, <2>4
<1>4. Moved(a) /\ \/ actor'[a] = [actor[a] EXCEPT !.step = "refused"]
                  \/ \E n \in 1..MaxTokens : actor'[a] = [actor[a] EXCEPT !.answer = n, !.step = "answered"]
  <2>1. CASE Goto(a, "refused")
    BY <2>1, GotoMoves DEF Steps
  <2>2. ASSUME NEW n \in 1..MaxTokens, actor' = [actor EXCEPT ![a].answer = n, ![a].step = "answered"]
        PROVE  Moved(a) /\ actor'[a] = [actor[a] EXCEPT !.answer = n, !.step = "answered"]
    <3> DEFINE me == [actor[a] EXCEPT !.answer = n, !.step = "answered"]
    <3>1. n \in Nat
      BY EndpointsAssumption
    <3>2. me \in ActorRecords
      BY <1>1, <3>1 DEF ActorRecords, Steps
    <3>3. actor' = [actor EXCEPT ![a] = me]
      BY <1>1, <2>2, EndpointsAreTyped DEF EndpointShape, ActorRecords
    <3> HIDE DEF me
    <3>4. Moved(a) /\ actor'[a] = me
      BY <3>2, <3>3, MoveIsTyped
    <3>5. QED
      BY <3>4 DEF me
  <2>3. QED
    BY <2>1, <2>2 DEF PostEndpoint
<1>5. \/ /\ UNCHANGED <<held, issued, excused>> /\ actor'[a].step = "refused"
      \/ /\ \E n \in 1..MaxTokens : Upsert(t, actor[a].loaded.source, n)
         /\ actor'[a].step = "refused" /\ t \in excused'
      \/ \E n \in 1..MaxTokens :
           /\ Upsert(t, actor[a].loaded.source, n)
           /\ actor'[a] = [actor[a] EXCEPT !.answer = n, !.step = "answered"]
           /\ a # Pass /\ TakenDown => t \in excused'
  <2>1. CASE UNCHANGED <<held, issued, excused>> /\ Goto(a, "refused")
    BY <1>1, <2>1, GotoMoves, ZenonT(60) DEF ActorRecords, Steps
  <2>2. ASSUME NEW n \in 1..MaxTokens, Upsert(t, actor[a].loaded.source, n), Goto(a, "refused"),
               t \in excused'
        PROVE  actor'[a].step = "refused"
    BY <1>1, <2>2, GotoMoves DEF ActorRecords, Steps
  <2>3. ASSUME NEW n \in 1..MaxTokens, Upsert(t, actor[a].loaded.source, n),
               actor' = [actor EXCEPT ![a].answer = n, ![a].step = "answered"]
        PROVE  actor'[a] = [actor[a] EXCEPT !.answer = n, !.step = "answered"]
    BY <1>1, <2>3, EndpointsAreTyped DEF EndpointShape, ActorRecords
  <2>4. QED
    BY <2>1, <2>2, <2>3 DEF PostEndpoint
<1>6. /\ actor'[a].doing = actor[a].doing /\ actor'[a].subject = t /\ actor'[a].loaded = actor[a].loaded
      /\ actor'[a].step \in {"refused", "answered"}
      /\ actor'[a].step = "refused" => actor'[a].answer = actor[a].answer
  BY <1>1, <1>4 DEF ActorRecords
<1> HIDE DEF t
\* What the cloud holds afterwards, and who knows.
<1>7. /\ issued' \in Nat /\ issued <= issued' /\ held' \in [Triggers -> HeldRecords]
      /\ \A u \in Triggers : held'[u].token <= issued'
      /\ \A u \in Triggers \ {t} : held'[u] = held[u]
      /\ actor'[a].answer <= issued'
      /\ actor'[a].step = "answered" =>
           /\ actor'[a].answer # None /\ held'[t].token = actor'[a].answer
           /\ actor'[a].answer = held[t].token \/ issued < actor'[a].answer
      /\ actor'[a].step = "refused" => t \in excused' \/ held' = held
      /\ a # Pass /\ TakenDown => t \in excused' \/ held' = held
  <2>1. CASE UNCHANGED <<held, issued, excused>> /\ actor'[a].step = "refused"
    BY <1>6, <2>1, ActorFacts, EndpointsAreTyped DEF EndpointShape
  <2>2. CASE /\ \E n \in 1..MaxTokens : Upsert(t, actor[a].loaded.source, n)
             /\ actor'[a].step = "refused" /\ t \in excused'
    <3>1. PICK n \in 1..MaxTokens : Upsert(t, actor[a].loaded.source, n)
      BY <2>2
    <3>2. /\ issued' \in Nat /\ issued <= issued' /\ held' \in [Triggers -> HeldRecords]
          /\ \A u \in Triggers : held'[u].token <= issued'
          /\ \A u \in Triggers \ {t} : held'[u] = held[u]
      BY <1>1, <3>1, UpsertFacts
    <3>3. actor'[a].answer <= issued'
      BY <1>6, <2>2, <3>2, ActorFacts
    <3>4. QED
      BY <2>2, <3>2, <3>3
  <2>3. CASE \E n \in 1..MaxTokens :
               /\ Upsert(t, actor[a].loaded.source, n)
               /\ actor'[a] = [actor[a] EXCEPT !.answer = n, !.step = "answered"]
               /\ a # Pass /\ TakenDown => t \in excused'
    <3>1. PICK n \in 1..MaxTokens :
               /\ Upsert(t, actor[a].loaded.source, n)
               /\ actor'[a] = [actor[a] EXCEPT !.answer = n, !.step = "answered"]
               /\ a # Pass /\ TakenDown => t \in excused'
      BY <2>3
    <3>2. actor'[a].answer = n /\ actor'[a].step = "answered"
      BY <1>1, <3>1 DEF ActorRecords
    <3>3. /\ issued' \in Nat /\ issued <= issued' /\ held' \in [Triggers -> HeldRecords]
          /\ \A u \in Triggers : held'[u].token <= issued'
          /\ \A u \in Triggers \ {t} : held'[u] = held[u]
          /\ n <= issued' /\ n # None /\ held'[t].token = n
          /\ n = held[t].token \/ issued < n
      BY <1>1, <3>1, UpsertFacts
    <3>4. QED
      BY <3>1, <3>2, <3>3
  <2>4. QED
    BY <1>5, <2>1, <2>2, <2>3
<1>8. EndpointShape'
  <2>1. Sane(actor'[a], issued')
    <3>1. \A k \in {"create", "update", "pass"} : {"refused", "answered"} \subseteq StepsOf[k]
      BY DEF StepsOf, Registering
    <3>2. actor[a].loaded.token \in Nat /\ issued \in Nat /\ actor[a].loaded.token <= issued
      BY ActorFacts
    <3>3. actor'[a].loaded.token <= issued'
      BY <1>6, <1>7, <3>2
    <3>4. actor'[a].step \in StepsOf[actor'[a].doing]
      BY <1>1, <1>6, <3>1
    <3>5. QED
      BY <1>7, <3>3, <3>4 DEF Sane
  <2>2. \A u \in Triggers : held'[u].token <= issued' /\ trigger'[u].token <= issued'
    <3>1. \A u \in Triggers : trigger[u].token \in Nat /\ trigger[u].token <= issued /\ issued \in Nat
      BY EndpointsAreTyped DEF EndpointShape, Row
    <3>2. QED
      BY <1>2, <1>7, <3>1
  <2>3. /\ a \in Requests => actor'[a].doing # "pass"
        /\ a = Pass => actor'[a].doing \in {"none", "pass"}
    BY <1>6 DEF EndpointShape
  <2>4. /\ trigger' \in [Triggers -> Row]
        /\ guardian' \in [Triggers -> Actors \cup {Free}]
        /\ pass' \in PassRecords /\ news' \in News /\ pointed' \in [Triggers -> Nat]
        /\ credential' \in {"none", "connected", "error"} /\ client' \in BOOLEAN
        /\ connects' \in 0..MaxConnects /\ asked' \in 0..MaxRequests
        /\ excused' \in SUBSET Triggers /\ dropped' \in SUBSET Triggers
    BY <1>2, <1>3, EndpointsAreTyped DEF EndpointShape
  <2>5. QED
    BY <1>3, <1>4, <1>7, <2>1, <2>2, <2>3, <2>4, ShapeStep
<1>9. LocksHold'
  <2>1. \A u \in Triggers : Holds(actor'[a], u) => Holds(actor[a], u)
    BY <1>1, <1>6 DEF Holds, Guarded, Registering, t
  <2>2. \A b \in Actors : \A u \in Triggers :
          Holds(actor[b], u) => guardian'[u] = guardian[u] /\ trigger'[u].state = "there"
    BY <1>2 DEF LocksHold
  <2>3. \A u \in Triggers : Holds(actor'[a], u) => guardian'[u] = a /\ trigger'[u].state = "there"
    BY <1>2, <2>1 DEF LocksHold
  <2>4. actor'[a].doing = "create" => trigger'[actor'[a].subject].state # "unborn"
    BY <1>2, <1>6 DEF LocksHold, t
  <2>5. QED
    BY <1>2, <1>4, <2>2, <2>3, <2>4, LocksStep
<1>10. OneAtATime'
  <2>1. \A u \in Triggers : Active(actor'[a], u) => Active(actor[a], u)
    BY <1>1, <1>6 DEF Active, OnIt, Holds, t
  <2>2. QED
    BY <1>3, <1>4, <2>1, TurnsStep
<1>11. HeldIsOwned'
  <2> SUFFICES ASSUME NEW u \in Triggers \ excused'
               PROVE  Owned(u, trigger'[u], held'[u], actor')
    BY DEF HeldIsOwned
  <2>1. Owned(u, trigger[u], held[u], actor)
    BY <1>3 DEF HeldIsOwned
  <2>2. CASE u = t
    <3>1. \A b \in Actors \ {a} : Rests(actor[b], t)
      BY <1>1, <1>3, <2>2, OthersAreNot
    <3>2. \A b \in Actors \ {a} : Rests(actor'[b], t)
      BY <1>4, <3>1 DEF Moved
    <3>3. \A b \in Actors : ~(actor[b].subject = t /\ actor[b].step = "answered")
      BY <1>1, <3>1 DEF Rests, Registering
    <3>4. trigger[t].state = "there" /\ (held[t].token # None => trigger[t].token = held[t].token)
      BY <1>1, <2>1, <2>2, <3>3 DEF Owned
    <3>5. CASE actor'[a].step = "answered"
      <4>1. actor'[a].loaded.token = actor'[a].answer => trigger'[t].token = actor'[a].answer
        <5>1. actor[a].loaded.token \in Nat /\ issued \in Nat /\ actor[a].loaded.token <= issued
              /\ actor'[a].answer \in Nat
          BY <1>4, ActorFacts DEF Moved, ActorRecords
        <5>2. actor'[a].loaded.token = actor'[a].answer => actor'[a].answer = held[t].token
          BY <1>6, <1>7, <3>5, <5>1
        <5>3. QED
          BY <1>2, <1>7, <3>4, <3>5, <5>2
      <4>2. actor'[a].subject = t
        BY <1>6
      <4>3. \A b \in Actors : actor'[b].subject = t /\ actor'[b].step \in {"answered", "revoking", "removing"}
               => b = a
        BY <3>2 DEF Rests, Registering
      <4>4. QED
        BY <1>2, <1>7, <2>2, <3>4, <3>5, <4>1, <4>2, <4>3 DEF Owned
    <3>6. CASE actor'[a].step = "refused"
      <4>1. \A b \in Actors : Rests(actor'[b], t)
        BY <3>2, <3>6 DEF Rests, Registering
      <4>2. held' = held
        BY <1>7, <2>2, <3>6
      <4>3. QED
        BY <1>2, <2>2, <3>4, <4>1, <4>2 DEF Owned, OnIt, Rests, Registering
    <3>7. QED
      BY <1>6, <3>5, <3>6
  <2>3. CASE u # t
    <3>1. Rests(actor'[a], u) /\ Rests(actor[a], u)
      BY <1>6, <2>3 DEF Rests, t
    <3>2. trigger'[u] = trigger[u] /\ held'[u] = held[u]
      BY <1>2, <1>7, <2>3
    <3>3. QED
      BY <1>4, <2>1, <3>1, <3>2, OtherRowsOwned
  <2>4. QED
    BY <2>2, <2>3
<1>12. Unplugged'
  <2>1. a = Pass => actor[a].doing # "none"
    BY <1>1
  <2>2. actor'[a].step \notin {"cancelling", "bulk", "clearing"}
    BY <1>6
  <2>3. \A u \in Triggers \ excused' : TakenDown =>
          \/ held'[u].token = None \/ held'[u] = held[u] \/ (a = Pass /\ actor[a].doing # "none")
    BY <1>7, <2>1
  <2>4. QED
    BY <1>2, <1>3, <1>4, <2>1, <2>2, <2>3, UnpluggedStep
<1>13. UrlsAreTold'
  BY <1>1, <1>2, <1>3, <1>4, <1>6, ToldStep DEF Registering, t
<1>14. QED
  BY <1>8, <1>9, <1>10, <1>11, <1>12, <1>13

-----------------------------------------------------------------------------
(* The steps of a disconnect, of the user and of the cloud                 *)

\* The pass is called off where it stands.
LEMMA CancelStep ==
  ASSUME EndpointInv, NEW q \in Requests, CancelPass(q)
  PROVE  EndpointInv'
<1> USE DEF EndpointInv
<1> DEFINE t == actor[Pass].subject
<1>1. /\ q \in Actors /\ Pass \in Actors /\ q # Pass /\ t \in Triggers
      /\ actor[q].step = "cancelling" /\ actor[q] \in ActorRecords /\ actor[q].doing = "disconnect"
      /\ actor[Pass].loaded.source \in Sources
  <2>1. /\ q \in Actors /\ Pass \in Actors /\ q # Pass /\ actor[q].step = "cancelling"
    BY EndpointsAssumption DEF CancelPass, Actors
  <2>2. actor[q].doing = "disconnect"
    BY <2>1, ActorFacts DEF StepsOf, Kinds, Registering
  <2>3. QED
    BY <2>1, <2>2, ActorFacts DEF Row
<1>2. UNCHANGED <<trigger, cloudFaults, credential, client, connects, asked, news, pointed, dropped>>
  BY DEF CancelPass, linkVars, tellVars
<1> DEFINE me == [actor[q] EXCEPT !.step = "bulk"]
<1>3. me \in ActorRecords /\ me.step = "bulk" /\ me.doing = "disconnect" /\ me.loaded = actor[q].loaded
      /\ me.answer = actor[q].answer
  BY <1>1 DEF ActorRecords, Steps
<1>4. actor' = [[actor EXCEPT ![q] = me] EXCEPT ![Pass] = Idle]
  BY <1>1, EndpointsAreTyped DEF CancelPass, EndpointShape, ActorRecords
<1> HIDE DEF me
<1>5. /\ actor' \in [Actors -> ActorRecords] /\ actor'[q] = me /\ actor'[Pass] = Idle
      /\ \A b \in Actors \ {q, Pass} : actor'[b] = actor[b]
  BY <1>1, <1>3, <1>4, BlankEndpoints, EndpointsAreTyped DEF EndpointShape
<1>6. /\ guardian' \in [Triggers -> Actors \cup {Free}]
      /\ \A u \in Triggers : guardian[u] # Pass => guardian'[u] = guardian[u]
      /\ pass' \in PassRecords
  BY BlankEndpoints, EndpointsAreTyped DEF CancelPass, Unlocked, EndpointShape
<1>7. /\ excused \subseteq excused' /\ excused' \subseteq Triggers
      /\ actor[Pass].step \in {"posting", "answered"} => t \in excused'
  BY <1>1, EndpointsAreTyped DEF CancelPass, EndpointShape
<1>8. /\ issued' \in Nat /\ issued <= issued' /\ held' \in [Triggers -> HeldRecords]
      /\ \A u \in Triggers : held'[u].token <= issued'
      /\ \A u \in Triggers \ excused' : held'[u] = held[u]
  <2>1. CASE UNCHANGED <<held, issued>>
    BY <2>1, EndpointsAreTyped DEF EndpointShape
  <2>2. CASE /\ actor[Pass].step = "posting"
             /\ \E n \in 1..MaxTokens : Upsert(t, actor[Pass].loaded.source, n)
    <3>1. PICK n \in 1..MaxTokens : Upsert(t, actor[Pass].loaded.source, n)
      BY <2>2
    <3>2. QED
      BY <1>1, <1>7, <2>2, <3>1, UpsertFacts
  <2>3. QED
    BY <2>1, <2>2 DEF CancelPass
<1> HIDE DEF t
\* Who works now did so before; the pass does not.
<1>9. /\ Sane(actor'[q], issued') /\ Sane(actor'[Pass], issued')
      /\ \A b \in Actors \ {q, Pass} : Sane(actor'[b], issued')
  <2>1. "bulk" \in StepsOf["disconnect"] /\ "idle" \in StepsOf["none"]
    BY DEF StepsOf
  <2>2. \A b \in Actors : /\ actor[b].loaded.token \in Nat /\ actor[b].answer \in Nat /\ issued \in Nat
                           /\ actor[b].loaded.token <= issued /\ actor[b].answer <= issued
    BY ActorFacts
  <2>3. \A b \in Actors : actor[b].loaded.token <= issued' /\ actor[b].answer <= issued'
    BY <1>8, <2>2
  <2>4. Sane(actor'[q], issued')
    BY <1>1, <1>3, <1>5, <2>1, <2>3 DEF Sane
  <2>5. Sane(actor'[Pass], issued')
    BY <1>5, <1>8, <2>1, IdleIsSane DEF Sane, None
  <2>6. \A b \in Actors \ {q, Pass} : Sane(actor'[b], issued')
    BY <1>5, <2>3 DEF Sane, EndpointShape
  <2>7. QED
    BY <2>4, <2>5, <2>6
<1>10. EndpointShape'
  <2>1. \A b \in Actors : Sane(actor'[b], issued')
    BY <1>9
  <2>2. EndpointsTypeOK'
    <3>1. /\ trigger' \in [Triggers -> Row]
          /\ news' \in News /\ pointed' \in [Triggers -> Nat]
          /\ credential' \in {"none", "connected", "error"} /\ client' \in BOOLEAN
          /\ cloudFaults' \in 0..MaxCloudFaults /\ connects' \in 0..MaxConnects /\ asked' \in 0..MaxRequests
          /\ excused' \in SUBSET Triggers /\ dropped' \in SUBSET Triggers
      BY <1>2, <1>7, EndpointsAreTyped DEF EndpointShape
    <3>2. \A b \in Actors : actor'[b].step \in StepsOf[actor'[b].doing]
      BY <2>1 DEF Sane
    <3>3. QED
      BY <1>5, <1>6, <1>8, <3>1, <3>2, EndpointsTyped
  <2>3. /\ \A b \in Requests : actor'[b].doing # "pass"
        /\ actor'[Pass].doing \in {"none", "pass"}
    BY <1>3, <1>5, IdleIsSane, EndpointsAssumption DEF EndpointShape, Actors
  <2>4. \A u \in Triggers : trigger'[u].token <= issued'
    <3>1. \A u \in Triggers : trigger[u].token \in Nat /\ trigger[u].token <= issued /\ issued \in Nat
      BY EndpointsAreTyped DEF EndpointShape, Row
    <3>2. QED
      BY <1>2, <1>8, <3>1
  <2>5. QED
    BY <1>8, <2>1, <2>2, <2>3, <2>4 DEF EndpointShape
<1>11. \A b \in {q, Pass} : \A u \in Triggers : ~Active(actor'[b], u) /\ Rests(actor'[b], u) /\ ~Holds(actor'[b], u)
  BY <1>3, <1>5, IdleIsSane DEF Active, OnIt, Holds, Rests, Registering, Guarded
<1>12. LocksHold'
  <2>1. ASSUME NEW b \in Actors, NEW u \in Triggers, Holds(actor'[b], u)
        PROVE  guardian'[u] = b /\ trigger'[u].state = "there"
    <3>1. b \notin {q, Pass} /\ Holds(actor[b], u)
      BY <1>5, <1>11, <2>1
    <3>2. QED
      BY <1>2, <1>6, <3>1 DEF LocksHold
  <2>2. ASSUME NEW b \in Actors, actor'[b].doing = "create"
        PROVE  trigger'[actor'[b].subject].state # "unborn"
    <3>1. b \notin {q, Pass}
      BY <1>3, <1>5, <2>2, IdleIsSane
    <3>2. QED
      BY <1>2, <1>5, <2>2, <3>1 DEF LocksHold
  <2>3. QED
    BY <2>1, <2>2 DEF LocksHold
<1>13. OneAtATime'
  BY <1>5, <1>7, <1>11 DEF OneAtATime
<1>14. HeldIsOwned'
  <2> SUFFICES ASSUME NEW u \in Triggers \ excused'
               PROVE  Owned(u, trigger'[u], held'[u], actor')
    BY DEF HeldIsOwned
  <2>1. Owned(u, trigger[u], held[u], actor) /\ held'[u] = held[u]
    BY <1>7, <1>8 DEF HeldIsOwned
  <2>2. \A b \in Actors : ~Rests(actor'[b], u) => actor'[b] = actor[b]
    BY <1>5, <1>11
  <2>3. \A b \in Actors : actor[b].subject = u /\ actor[b].step = "answered" => actor'[b] = actor[b]
    BY <1>1, <1>5, <1>7 DEF t
  <2>4. \A b \in Actors : OnIt(actor'[b], u) => OnIt(actor[b], u)
    BY <2>2 DEF OnIt, Rests
  <2>5. \A b \in Actors : actor'[b].subject = u /\ actor'[b].step \in {"answered", "revoking", "removing"}
          => actor'[b] = actor[b]
    BY <2>2 DEF Rests, Registering
  <2>6. QED
    BY <1>2, <2>1, <2>3, <2>4, <2>5 DEF Owned
<1>15. Unplugged'
  <2>1. \A b \in Requests : actor'[b].step = "clearing" => actor[b].step = "clearing"
    BY <1>1, <1>3, <1>5, EndpointsAssumption DEF Actors
  <2>2. \A b \in Requests : actor'[b].step \in {"cancelling", "bulk", "clearing"} =>
           \E c \in Requests : actor[c].step \in {"cancelling", "bulk", "clearing"}
    BY <1>1
  <2>3. actor'[Pass].doing = "none"
    BY <1>5, IdleIsSane
  <2>4. excused' # Triggers => excused # Triggers
    BY <1>7
  <2>5. credential' = "none" \/ (\E b \in Requests : actor'[b].step = "clearing") =>
         \A u \in Triggers \ excused' : held'[u].token = None
    BY <1>2, <1>7, <1>8, <2>1 DEF Unplugged
  <2>6. QED
    BY <1>2, <2>2, <2>3, <2>4, <2>5 DEF Unplugged
<1>16. UrlsAreTold'
  BY <1>2, <1>5, <1>7, IdleIsSane DEF UrlsAreTold, Registering
<1>17. QED
  BY <1>10, <1>12, <1>13, <1>14, <1>15, <1>16

\* The bulk revocation leaves nothing, but for what it could not reach.
LEMMA BulkStep ==
  ASSUME EndpointInv, NEW q \in Requests, BulkRevoke(q)
  PROVE  EndpointInv'
<1> USE DEF EndpointInv
<1>1. /\ q \in Actors /\ Pass \in Actors /\ q # Pass
      /\ actor[q].step = "bulk" /\ actor[q] \in ActorRecords /\ actor[q].doing = "disconnect"
  <2>1. /\ q \in Actors /\ Pass \in Actors /\ q # Pass /\ actor[q].step = "bulk"
    BY EndpointsAssumption DEF BulkRevoke, Actors
  <2>2. actor[q].doing = "disconnect"
    BY <2>1, ActorFacts DEF StepsOf, Kinds, Registering
  <2>3. QED
    BY <2>1, <2>2, ActorFacts
<1>2. /\ Moved(q) /\ actor'[q] = [actor[q] EXCEPT !.step = "clearing"]
      /\ UNCHANGED <<trigger, issued, credential, client, connects, asked, guardian, pass,
                     news, pointed, dropped>>
  BY <1>1, GotoMoves DEF BulkRevoke, Steps, linkVars, tellVars
<1>3. /\ actor'[q].step = "clearing" /\ actor'[q].doing = "disconnect"
      /\ actor'[q].loaded = actor[q].loaded /\ actor'[q].answer = actor[q].answer
  BY <1>1, <1>2 DEF ActorRecords
<1>4. /\ held' \in [Triggers -> HeldRecords]
      /\ \A u \in Triggers : held'[u].token \in {None, held[u].token}
      /\ \A u \in Triggers \ excused' : held'[u].token = None
      /\ excused \subseteq excused' /\ excused' \subseteq Triggers /\ cloudFaults' \in 0..MaxCloudFaults
  <2>1. PICK failed \in SUBSET Sources :
          /\ IF failed = {} THEN UNCHANGED cloudFaults ELSE CloudFails
          /\ held' = [u \in Triggers |-> IF held[u].source \in failed THEN held[u]
                                         ELSE [held[u] EXCEPT !.token = None]]
          /\ excused' = excused \cup {u \in Triggers : held[u].source \in failed}
    BY DEF BulkRevoke
  <2>2. held \in [Triggers -> HeldRecords] /\ excused \in SUBSET Triggers
        /\ cloudFaults \in 0..MaxCloudFaults /\ MaxCloudFaults \in Nat
    BY EndpointsAreTyped DEF EndpointShape
  <2>3. cloudFaults' \in 0..MaxCloudFaults
    BY <2>1, <2>2 DEF CloudFails
  <2>4. \A u \in Triggers : /\ [held[u] EXCEPT !.token = None] \in HeldRecords
                            /\ [held[u] EXCEPT !.token = None].token = None
    BY <2>2 DEF HeldRecords, None
  <2>5. held' \in [Triggers -> HeldRecords]
    BY <2>1, <2>2, <2>4
  <2>6. \A u \in Triggers : held'[u].token = IF held[u].source \in failed THEN held[u].token ELSE None
    BY <2>1, <2>4
  <2>7. QED
    BY <2>1, <2>2, <2>3, <2>5, <2>6
<1>5. EndpointShape'
  <2>1. Sane(actor'[q], issued')
    <3>1. "clearing" \in StepsOf["disconnect"]
      BY DEF StepsOf
    <3>2. QED
      BY <1>1, <1>2, <1>3, <3>1, ActorFacts DEF Sane
  <2>2. \A u \in Triggers : held'[u].token <= issued' /\ trigger'[u].token <= issued'
    BY <1>2, <1>4, EndpointsAreTyped DEF EndpointShape, None
  <2>3. issued' \in Nat /\ issued <= issued' /\ actor'[q].doing = "disconnect"
    BY <1>1, <1>2, <1>3, ActorFacts
  <2>4. /\ trigger' \in [Triggers -> Row]
        /\ guardian' \in [Triggers -> Actors \cup {Free}]
        /\ pass' \in PassRecords /\ news' \in News /\ pointed' \in [Triggers -> Nat]
        /\ credential' \in {"none", "connected", "error"} /\ client' \in BOOLEAN
        /\ connects' \in 0..MaxConnects /\ asked' \in 0..MaxRequests
        /\ excused' \in SUBSET Triggers /\ dropped' \in SUBSET Triggers
    BY <1>2, <1>4, EndpointsAreTyped DEF EndpointShape
  <2>5. QED
    BY <1>1, <1>2, <1>4, <2>1, <2>2, <2>3, <2>4, ShapeStep
<1>6. \A u \in Triggers : ~Active(actor'[q], u) /\ Rests(actor'[q], u) /\ ~Holds(actor'[q], u)
  BY <1>3 DEF Active, OnIt, Holds, Rests, Registering, Guarded
<1>7. LocksHold'
  <2>1. \A b \in Actors \ {q} : \A u \in Triggers :
          Holds(actor[b], u) => guardian'[u] = guardian[u] /\ trigger'[u].state = "there"
    BY <1>2 DEF LocksHold
  <2>2. QED
    BY <1>1, <1>2, <1>3, <1>6, <2>1, LocksStep
<1>8. OneAtATime'
  BY <1>1, <1>2, <1>4, <1>6, TurnsStep
<1>9. HeldIsOwned'
  <2> SUFFICES ASSUME NEW u \in Triggers \ excused'
               PROVE  Owned(u, trigger'[u], held'[u], actor')
    BY DEF HeldIsOwned
  <2>1. Owned(u, trigger[u], held[u], actor) /\ held'[u].token = None
    BY <1>4 DEF HeldIsOwned
  <2>2. \A b \in Actors : OnIt(actor'[b], u) => OnIt(actor[b], u)
    BY <1>2, <1>6 DEF Moved, Rests, OnIt
  <2>3. QED
    BY <1>2, <2>1, <2>2 DEF Owned
<1>10. Unplugged'
  <2>1. \A b \in Requests : actor'[b].step \in {"cancelling", "bulk", "clearing"} =>
           \E c \in Requests : actor[c].step \in {"bulk", "clearing"} \/ actor[c].step = actor'[b].step
    BY <1>1, <1>2 DEF Moved, Actors
  <2>2. excused # Triggers => ~client /\ actor[Pass].doing = "none"
    BY <1>1 DEF Unplugged
  <2>3. actor'[Pass] = actor[Pass]
    BY <1>1, <1>2 DEF Moved
  <2>4. excused' # Triggers => excused # Triggers
    BY <1>4
  <2>5. QED
    BY <1>2, <1>4, <2>2, <2>3, <2>4 DEF Unplugged
<1>11. UrlsAreTold'
  BY <1>1, <1>2, <1>4, ToldStep
<1>12. QED
  BY <1>5, <1>7, <1>8, <1>9, <1>10, <1>11

\* Rows, credential and what was to be told are cleared; the cloud holds nothing.
LEMMA ClearStep ==
  ASSUME EndpointInv, NEW q \in Requests, ClearLocal(q)
  PROVE  EndpointInv'
<1> USE DEF EndpointInv
<1>1. /\ q \in Actors /\ Pass \in Actors /\ q # Pass /\ actor[q].step = "clearing"
  BY EndpointsAssumption DEF ClearLocal, Actors
<1>2. UNCHANGED <<asked, held, issued, cloudFaults, client, connects, guardian, pass, excused>>
  BY DEF ClearLocal, cloudVars
<1>3. /\ news' = NoNews /\ pointed' = NoToken /\ dropped' = {} /\ credential' = "none"
      /\ actor' = [actor EXCEPT ![q] = Idle]
  BY <1>1 DEF ClearLocal, Done
<1>4. Moved(q) /\ actor'[q] = Idle
  BY <1>1, <1>3, BlankEndpoints, MoveIsTyped
<1>5. /\ trigger' \in [Triggers -> Row]
      /\ \A u \in Triggers : trigger'[u].state = trigger[u].state /\ trigger'[u].token = None
  <2>1. trigger \in [Triggers -> Row]
    BY EndpointsAreTyped DEF EndpointShape
  <2>2. \A u \in Triggers : /\ [trigger[u] EXCEPT !.token = None, !.url = None] \in Row
                            /\ [trigger[u] EXCEPT !.token = None, !.url = None].state = trigger[u].state
                            /\ [trigger[u] EXCEPT !.token = None, !.url = None].token = None
    BY <2>1 DEF Row, None
  <2>3. trigger' = [u \in Triggers |-> [trigger[u] EXCEPT !.token = None, !.url = None]]
    BY DEF ClearLocal
  <2>4. QED
    BY <2>2, <2>3
<1>6. EndpointShape'
  <2>1. Sane(actor'[q], issued')
    <3>1. "idle" \in StepsOf["none"]
      BY DEF StepsOf
    <3>2. QED
      BY <1>2, <1>4, <3>1, IdleIsSane, EndpointsAreTyped DEF Sane, EndpointShape, None
  <2>2. \A u \in Triggers : held'[u].token <= issued' /\ trigger'[u].token <= issued'
    BY <1>2, <1>5, EndpointsAreTyped DEF EndpointShape, None
  <2>3. issued' \in Nat /\ issued <= issued' /\ actor'[q].doing = "none"
    BY <1>2, <1>4, IdleIsSane, EndpointsAreTyped DEF EndpointShape
  <2>4. /\ held' \in [Triggers -> HeldRecords]
        /\ guardian' \in [Triggers -> Actors \cup {Free}]
        /\ pass' \in PassRecords /\ news' \in News /\ pointed' \in [Triggers -> Nat]
        /\ credential' \in {"none", "connected", "error"} /\ client' \in BOOLEAN
        /\ cloudFaults' \in 0..MaxCloudFaults /\ connects' \in 0..MaxConnects /\ asked' \in 0..MaxRequests
        /\ excused' \in SUBSET Triggers /\ dropped' \in SUBSET Triggers
    BY <1>2, <1>3, BlankEndpoints, EndpointsAreTyped DEF EndpointShape
  <2>5. QED
    BY <1>1, <1>4, <1>5, <2>1, <2>2, <2>3, <2>4, ShapeStep
<1>7. \A u \in Triggers : ~Active(actor'[q], u) /\ Rests(actor'[q], u) /\ ~Holds(actor'[q], u)
  BY <1>4, IdleIsSane DEF Active, OnIt, Holds, Rests, Registering, Guarded
<1>8. LocksHold'
  <2>1. \A b \in Actors \ {q} : \A u \in Triggers :
          Holds(actor[b], u) => guardian'[u] = guardian[u] /\ trigger'[u].state = "there"
    BY <1>2, <1>5 DEF LocksHold
  <2>2. QED
    BY <1>1, <1>4, <1>5, <1>7, <2>1, IdleIsSane, LocksStep
<1>9. OneAtATime'
  BY <1>1, <1>2, <1>4, <1>7, TurnsStep
<1>10. \A u \in Triggers \ excused : held[u].token = None
  BY <1>1 DEF Unplugged
<1>11. HeldIsOwned'
  <2> SUFFICES ASSUME NEW u \in Triggers \ excused
               PROVE  Owned(u, trigger'[u], held'[u], actor')
    BY <1>2 DEF HeldIsOwned
  <2>1. Owned(u, trigger[u], held[u], actor) /\ held'[u].token = None
    BY <1>2, <1>10 DEF HeldIsOwned
  <2>2. \A b \in Actors : OnIt(actor'[b], u) => OnIt(actor[b], u)
    BY <1>4, <1>7 DEF Moved, Rests, OnIt
  <2>3. QED
    BY <1>5, <2>1, <2>2 DEF Owned
<1>12. excused # Triggers => ~client /\ actor[Pass].doing = "none"
  BY <1>1 DEF Unplugged
<1>13. actor'[Pass] = actor[Pass]
  BY <1>1, <1>4 DEF Moved
<1>14. Unplugged'
  BY <1>2, <1>10, <1>12, <1>13 DEF Unplugged
<1>15. UrlsAreTold'
  <2>1. \A u \in Triggers : Told(u, trigger'[u], pointed'[u], news')
    BY <1>3 DEF Told, NoToken
  <2>2. ASSUME actor'[Pass].step \in Registering \cup {"refused"}
        PROVE  actor'[Pass].subject \in excused'
    <3>1. actor[Pass].doing = "pass" /\ actor[Pass].subject \in Triggers
      BY <1>13, <2>2, PassOnRow
    <3>2. QED
      BY <1>2, <1>12, <1>13, <3>1
  <2>3. QED
    BY <1>3, <2>1, <2>2 DEF UrlsAreTold
<1>16. QED
  BY <1>6, <1>8, <1>9, <1>11, <1>14, <1>15

\* The types where no actor moves.
LEMMA ShapeStays ==
  ASSUME EndpointShape, UNCHANGED <<actor, issued, trigger, guardian>>,
         held' \in [Triggers -> HeldRecords],
         \A t \in Triggers : held'[t].token \in {None, held[t].token},
         pass' \in PassRecords, news' \in News, pointed' \in [Triggers -> Nat],
         credential' \in {"none", "connected", "error"}, client' \in BOOLEAN,
         cloudFaults' \in 0..MaxCloudFaults, connects' \in 0..MaxConnects, asked' \in 0..MaxRequests,
         excused' \in SUBSET Triggers, dropped' \in SUBSET Triggers
  PROVE  EndpointShape'
<1>1. Pass \in Actors
  BY DEF Actors
<1>2. Moved(Pass) /\ actor'[Pass] = actor[Pass] /\ Sane(actor[Pass], issued)
  BY <1>1, EndpointsAreTyped DEF Moved, EndpointShape
<1>3. \A t \in Triggers : held'[t].token <= issued' /\ trigger'[t].token <= issued'
  BY EndpointsAreTyped DEF EndpointShape, None
<1>4. issued' \in Nat /\ issued <= issued' /\ Sane(actor'[Pass], issued')
  BY <1>2, EndpointsAreTyped DEF EndpointShape
<1>5. trigger' \in [Triggers -> Row] /\ guardian' \in [Triggers -> Actors \cup {Free}]
  BY EndpointsAreTyped DEF EndpointShape
<1>6. /\ Pass \in Requests => actor'[Pass].doing # "pass"
      /\ actor'[Pass].doing \in {"none", "pass"}
  BY <1>2 DEF EndpointShape
<1>7. QED
  BY <1>1, <1>2, <1>3, <1>4, <1>5, <1>6, ShapeStep

LEMMA ConnectStep ==
  ASSUME EndpointInv, Connect
  PROVE  EndpointInv'
<1> USE DEF EndpointInv
<1>1. /\ UNCHANGED <<asked, trigger, held, issued, cloudFaults, actor, guardian, pass, news, pointed, dropped>>
      /\ credential' = "connected" /\ client' = TRUE
      /\ connects < MaxConnects /\ connects' = connects + 1
      /\ excused' = IF Disconnecting THEN Triggers ELSE excused
  BY DEF Connect, cloudVars, tellVars
<1>2. excused \subseteq excused' /\ excused' \subseteq Triggers /\ connects' \in 0..MaxConnects
  BY <1>1, EndpointsAreTyped DEF EndpointShape
<1>3. EndpointShape'
  BY <1>1, <1>2, ShapeStays, EndpointsAreTyped DEF EndpointShape
<1>4. LocksHold' /\ OneAtATime' /\ HeldIsOwned' /\ UrlsAreTold'
  BY <1>1, <1>2 DEF LocksHold, OneAtATime, HeldIsOwned, UrlsAreTold
<1>5. Unplugged'
  <2>1. CASE Disconnecting
    BY <1>1, <2>1 DEF Unplugged
  <2>2. CASE ~Disconnecting
    <3>1. \A q \in Requests : actor[q].step \notin {"cancelling", "bulk", "clearing"}
      <4> SUFFICES ASSUME NEW q \in Requests, actor[q].step \in {"cancelling", "bulk", "clearing"}
                   PROVE  FALSE
        OBVIOUS
      <4>1. q \in Actors /\ actor[q].doing # "disconnect"
        BY <2>2 DEF Disconnecting, Actors
      <4>2. QED
        BY <4>1, ActorFacts DEF StepsOf, Kinds, Registering
    <3>2. QED
      BY <1>1, <3>1 DEF Unplugged
  <2>3. QED
    BY <2>1, <2>2
<1>6. QED
  BY <1>3, <1>4, <1>5

LEMMA PointStep ==
  ASSUME EndpointInv, NEW t \in Triggers, UserPoints(t)
  PROVE  EndpointInv'
<1> USE DEF EndpointInv
<1>1. /\ UNCHANGED <<asked, trigger, held, issued, cloudFaults, credential, client, connects,
                     actor, guardian, pass, news, dropped, excused>>
      /\ pointed' = [pointed EXCEPT ![t] = trigger[t].url]
  BY DEF UserPoints, cloudVars, linkVars
<1>2. trigger[t].url \in Nat /\ pointed \in [Triggers -> Nat]
  BY EndpointsAreTyped DEF EndpointShape, Row
<1>3. /\ pointed' \in [Triggers -> Nat] /\ pointed'[t] = trigger[t].url
      /\ \A u \in Triggers \ {t} : pointed'[u] = pointed[u]
  BY <1>1, <1>2
<1>4. EndpointShape'
  BY <1>1, <1>3, ShapeStays, EndpointsAreTyped DEF EndpointShape
<1>5. LocksHold' /\ OneAtATime' /\ HeldIsOwned' /\ Unplugged'
  BY <1>1 DEF LocksHold, OneAtATime, HeldIsOwned, Unplugged
<1>6. \A u \in Triggers \ (dropped \cup excused) : Told(u, trigger[u], pointed'[u], news)
  BY <1>3 DEF UrlsAreTold, Told
<1>7. UrlsAreTold'
  BY <1>1, <1>6 DEF UrlsAreTold
<1>8. QED
  BY <1>4, <1>5, <1>7

LEMMA DismissStep ==
  ASSUME EndpointInv, Dismiss
  PROVE  EndpointInv'
<1> USE DEF EndpointInv
<1>1. /\ UNCHANGED <<asked, trigger, held, issued, cloudFaults, credential, client, connects,
                     actor, guardian, pass, excused>>
      /\ news' = NoNews
      /\ pointed' = [u \in Triggers |-> IF u \in news.changes THEN None ELSE pointed[u]]
      /\ dropped' = dropped \cup {u \in Triggers : news.lastKnown[u] # None}
  BY DEF Dismiss, cloudVars, linkVars
<1>2. pointed' \in [Triggers -> Nat] /\ dropped' \in SUBSET Triggers /\ news' \in News
  BY <1>1, BlankEndpoints, EndpointsAreTyped DEF EndpointShape, None
<1>3. EndpointShape'
  BY <1>1, <1>2, ShapeStays, EndpointsAreTyped DEF EndpointShape
<1>4. LocksHold' /\ OneAtATime' /\ HeldIsOwned' /\ Unplugged'
  BY <1>1 DEF LocksHold, OneAtATime, HeldIsOwned, Unplugged
<1>5. ASSUME NEW u \in Triggers \ (dropped' \cup excused)
      PROVE  Told(u, trigger[u], pointed'[u], news')
  <2>1. Told(u, trigger[u], pointed[u], news) /\ news.lastKnown[u] = None
    BY <1>1 DEF UrlsAreTold
  <2>2. QED
    BY <1>1, <2>1 DEF Told
<1>6. UrlsAreTold'
  BY <1>1, <1>5 DEF UrlsAreTold
<1>7. QED
  BY <1>3, <1>4, <1>6

LEMMA LoseStep ==
  ASSUME EndpointInv, NEW t \in Triggers, CloudLoses(t)
  PROVE  EndpointInv'
<1> USE DEF EndpointInv
<1>1. /\ UNCHANGED <<asked, trigger, issued, credential, client, connects,
                     actor, guardian, pass, news, pointed, dropped, excused>>
      /\ held' = [held EXCEPT ![t].token = None]
      /\ cloudFaults' = cloudFaults + 1 /\ cloudFaults < MaxCloudFaults
  BY DEF CloudLoses, linkVars, tellVars, CloudFails
<1>2. held \in [Triggers -> HeldRecords] /\ cloudFaults' \in 0..MaxCloudFaults
  BY <1>1, EndpointsAreTyped DEF EndpointShape
<1>3. /\ held' \in [Triggers -> HeldRecords] /\ held'[t].token = None
      /\ \A u \in Triggers \ {t} : held'[u] = held[u]
  <2> DEFINE h == [held[t] EXCEPT !.token = None]
  <2>1. h \in HeldRecords /\ h.token = None
    BY <1>2 DEF HeldRecords, None
  <2>2. held' = [held EXCEPT ![t] = h]
    BY <1>1
  <2> HIDE DEF h
  <2>3. QED
    BY <1>2, <2>1, <2>2
<1>4. \A u \in Triggers : held'[u].token \in {None, held[u].token}
  BY <1>3
<1>5. EndpointShape'
  BY <1>1, <1>2, <1>3, <1>4, ShapeStays, EndpointsAreTyped DEF EndpointShape
<1>6. LocksHold' /\ OneAtATime' /\ UrlsAreTold'
  BY <1>1 DEF LocksHold, OneAtATime, UrlsAreTold
<1>7. HeldIsOwned'
  <2> SUFFICES ASSUME NEW u \in Triggers \ excused
               PROVE  Owned(u, trigger[u], held'[u], actor)
    BY <1>1 DEF HeldIsOwned
  <2>1. Owned(u, trigger[u], held[u], actor)
    BY DEF HeldIsOwned
  <2>2. QED
    BY <1>4, <2>1 DEF Owned
<1>8. Unplugged'
  BY <1>1, <1>4 DEF Unplugged
<1>9. QED
  BY <1>5, <1>6, <1>7, <1>8

-----------------------------------------------------------------------------
(* The steps on which nobody takes up or puts down a row                   *)

LEMMA QuietShape ==
  ASSUME EndpointShape, NEW a \in Actors, Moved(a), Sane(actor'[a], issued),
         a \in Requests => actor'[a].doing # "pass",
         a = Pass => actor'[a].doing \in {"none", "pass"},
         UNCHANGED <<issued, held, credential, connects, cloudFaults, pointed, news, dropped, excused>>,
         trigger' \in [Triggers -> Row], \A t \in Triggers : trigger'[t].token = trigger[t].token,
         guardian' \in [Triggers -> Actors \cup {Free}], pass' \in PassRecords,
         client' \in BOOLEAN, asked' \in 0..MaxRequests
  PROVE  EndpointShape'
<1>1. \A t \in Triggers : held'[t].token <= issued' /\ trigger'[t].token <= issued'
  BY DEF EndpointShape
<1>2. issued' \in Nat /\ issued <= issued' /\ Sane(actor'[a], issued')
  BY EndpointsAreTyped DEF EndpointShape
<1>3. /\ held' \in [Triggers -> HeldRecords] /\ news' \in News /\ pointed' \in [Triggers -> Nat]
      /\ credential' \in {"none", "connected", "error"}
      /\ cloudFaults' \in 0..MaxCloudFaults /\ connects' \in 0..MaxConnects
      /\ excused' \in SUBSET Triggers /\ dropped' \in SUBSET Triggers
  BY EndpointsAreTyped DEF EndpointShape
<1>4. QED
  BY <1>1, <1>2, <1>3, ShapeStep

LEMMA BeginMoves ==
  ASSUME EndpointShape, NEW q \in Requests, NEW what \in Kinds, NEW s \in Steps, NEW t \in Triggers,
         Begin(q, what, s, t, BlankRow)
  PROVE  /\ q \in Actors /\ q # Pass /\ Moved(q) /\ actor[q].step = "idle"
         /\ actor'[q].doing = what /\ actor'[q].step = s
         /\ s \in StepsOf[what] /\ s # "answered" => Sane(actor'[q], issued)
         /\ asked' \in 0..MaxRequests
<1> DEFINE me == [Idle EXCEPT !.doing = what, !.step = s, !.subject = t, !.loaded = BlankRow]
<1>1. /\ me \in ActorRecords /\ me.doing = what /\ me.step = s /\ me.loaded = BlankRow
      /\ me.answer = None
  BY BlankEndpoints, IdleIsSane DEF ActorRecords
<1>2. actor' = [actor EXCEPT ![q] = me] /\ actor[q] = Idle
  BY DEF Begin
<1> HIDE DEF me
<1>3. q \in Actors /\ q # Pass /\ Moved(q) /\ actor'[q] = me
  BY <1>1, <1>2, MoveIsTyped, EndpointsAssumption DEF Actors
<1>4. asked' \in 0..MaxRequests
  BY EndpointsAreTyped DEF Begin, EndpointShape
<1>5. s \in StepsOf[what] /\ s # "answered" => Sane(actor'[q], issued)
  BY <1>1, <1>3, IdleIsSane, EndpointsAreTyped DEF Sane, EndpointShape, None
<1>6. QED
  BY <1>1, <1>2, <1>3, <1>4, <1>5, IdleIsSane

LEMMA BeginningSteps ==
  ASSUME EndpointInv, NEW q \in Requests,
         \/ \E t \in Triggers, what \in {"update", "delete"} : LoadTrigger(q, t, what)
         \/ BeginDisconnect(q)
  PROVE  EndpointInv'
<1> USE DEF EndpointInv
<1>1. PICK what \in {"update", "delete", "disconnect"}, s \in {"saving", "waiting", "stopping"}, t \in Triggers :
        Begin(q, what, s, t, BlankRow) /\ s \in StepsOf[what]
  <2>1. ASSUME NEW t \in Triggers, NEW what \in {"update", "delete"}, LoadTrigger(q, t, what)
        PROVE  \E k \in {"update", "delete", "disconnect"}, s \in {"saving", "waiting", "stopping"}, u \in Triggers :
                 Begin(q, k, s, u, BlankRow) /\ s \in StepsOf[k]
    <3> DEFINE s == IF what = "update" THEN "saving" ELSE "waiting"
    <3>1. Begin(q, what, s, t, BlankRow)
      BY <2>1 DEF LoadTrigger
    <3>2. s \in {"saving", "waiting", "stopping"} /\ s \in StepsOf[what]
      BY DEF StepsOf
    <3> HIDE DEF s
    <3>3. QED
      BY <3>1, <3>2
  <2>2. ASSUME BeginDisconnect(q)
        PROVE  \E k \in {"update", "delete", "disconnect"}, s \in {"saving", "waiting", "stopping"}, u \in Triggers :
                 Begin(q, k, s, u, BlankRow) /\ s \in StepsOf[k]
    <3>1. Begin(q, "disconnect", "stopping", Idle.subject, BlankRow)
      BY <2>2 DEF BeginDisconnect
    <3>2. "stopping" \in StepsOf["disconnect"] /\ Idle.subject \in Triggers
      BY IdleIsSane DEF StepsOf
    <3>3. QED
      BY <3>1, <3>2
  <2>3. QED
    BY <2>1, <2>2
<1>2. UNCHANGED <<trigger, held, issued, cloudFaults, credential, client, connects, guardian, pass,
                  news, pointed, dropped, excused>>
  BY DEF LoadTrigger, BeginDisconnect, cloudVars, tellVars
<1>3. what \in Kinds /\ s \in Steps /\ s # "answered"
  BY DEF Kinds, Steps
<1>4. /\ q \in Actors /\ q # Pass /\ Moved(q) /\ actor[q].step = "idle"
      /\ actor'[q].doing = what /\ actor'[q].step = s
      /\ Sane(actor'[q], issued) /\ asked' \in 0..MaxRequests
  BY <1>1, <1>3, BeginMoves
<1>5. EndpointShape'
  BY <1>2, <1>4, QuietShape, EndpointsAreTyped DEF EndpointShape
<1>6. \A a \in Actors :
        \/ actor'[a] = actor[a]
        \/ /\ actor[a].step # "answered" /\ actor'[a].step \notin Registering \cup Guarded
           /\ actor'[a].doing # "create" /\ actor'[a].step \notin {"bulk", "clearing"}
           /\ actor'[a].step = "cancelling" => ~client'
           /\ (actor[a].doing = "none" /\ actor'[a].doing # "none" /\ a = Pass)
                => (client /\ credential # "none")
  BY <1>4 DEF Moved, Registering, Guarded
<1>7. QED
  BY <1>2, <1>5, <1>6, QuietStep

\* A request goes on, or is answered without having done anything.
LEMMA RequestSteps ==
  ASSUME EndpointInv, NEW q \in Requests,
         \/ \E s \in Sources : SaveTrigger(q, s)
         \/ LockTrigger(q) /\ ~There(actor[q].subject)
         \/ RefuseRequest(q) \/ StopClient(q)
  PROVE  EndpointInv'
<1> USE DEF EndpointInv
<1>1. q \in Actors /\ q # Pass /\ Pass \in Actors /\ Pass \notin Requests
  BY EndpointsAssumption DEF Actors
<1>2. UNCHANGED <<held, issued, cloudFaults, credential, connects, asked, pass,
                  news, pointed, dropped, excused>>
  BY DEF SaveTrigger, LockTrigger, There, RefuseRequest, StopClient, cloudVars, linkVars, tellVars
<1>3. client' \in BOOLEAN /\ (client' => client)
  <2>1. UNCHANGED client \/ client' = FALSE
    BY DEF SaveTrigger, LockTrigger, RefuseRequest, StopClient, linkVars
  <2>2. client \in BOOLEAN
    BY EndpointsAreTyped DEF EndpointShape
  <2>3. CASE client' = client
    <3>1. client' \in BOOLEAN
      BY <2>2, <2>3
    <3>2. client' => client
      BY <2>3
    <3>3. QED
      BY <3>1, <3>2
  <2>4. CASE client' = FALSE
    BY <2>4
  <2>5. QED
    BY <2>1, <2>3, <2>4
<1>4. /\ trigger' \in [Triggers -> Row]
      /\ \A t \in Triggers : /\ trigger'[t].state = trigger[t].state
                             /\ trigger'[t].token = trigger[t].token
                             /\ trigger'[t].url = trigger[t].url
  <2>1. trigger \in [Triggers -> Row] /\ actor[q].subject \in Triggers
    BY <1>1, ActorFacts, EndpointsAreTyped DEF EndpointShape
  <2>2. UNCHANGED trigger \/ \E s \in Sources : trigger' = [trigger EXCEPT ![actor[q].subject].source = s]
    BY DEF SaveTrigger, LockTrigger, RefuseRequest, StopClient
  <2>3. ASSUME NEW s \in Sources, trigger' = [trigger EXCEPT ![actor[q].subject].source = s],
               NEW t \in Triggers
        PROVE  /\ trigger' \in [Triggers -> Row] /\ trigger'[t].state = trigger[t].state
               /\ trigger'[t].token = trigger[t].token /\ trigger'[t].url = trigger[t].url
    BY <2>1, <2>3 DEF Row
  <2>4. Triggers # {}
    BY EndpointsAssumption
  <2>5. QED
    BY <2>1, <2>2, <2>3, <2>4
<1>5. /\ Moved(q) /\ Sane(actor'[q], issued)
      /\ actor'[q].doing \notin {"pass", "create"}
      /\ actor'[q].step \in {"idle", "choosing", "waiting", "cancelling"}
      /\ actor'[q].step = "cancelling" => ~client'
      /\ actor[q].step # "answered"
  <2>1. actor[q].doing \in Kinds /\ actor[q].step \in StepsOf[actor[q].doing] /\ actor[q] \in ActorRecords
        /\ Sane(actor[q], issued)
    BY <1>1, ActorFacts DEF EndpointShape
  <2>2. CASE Done(q) /\ actor[q].step # "answered"
    BY <1>1, <2>2, DoneMoves
  <2>3. CASE Goto(q, "waiting") /\ actor[q].step = "saving"
    <3>1. actor[q].doing = "update"
      BY <2>1, <2>3 DEF StepsOf, Kinds, Registering
    <3>2. Moved(q) /\ actor'[q] = [actor[q] EXCEPT !.step = "waiting"]
      BY <1>1, <2>3, GotoMoves DEF Steps
    <3>3. "waiting" \in StepsOf["update"]
      BY DEF StepsOf
    <3>4. QED
      BY <2>1, <2>3, <3>1, <3>2, <3>3 DEF Sane, ActorRecords
  <2>4. CASE Goto(q, "cancelling") /\ actor[q].step = "stopping" /\ ~client'
    <3>1. actor[q].doing = "disconnect"
      BY <2>1, <2>4 DEF StepsOf, Kinds, Registering
    <3>2. Moved(q) /\ actor'[q] = [actor[q] EXCEPT !.step = "cancelling"]
      BY <1>1, <2>4, GotoMoves DEF Steps
    <3>3. "cancelling" \in StepsOf["disconnect"]
      BY DEF StepsOf
    <3>4. QED
      BY <2>1, <2>4, <3>1, <3>2, <3>3 DEF Sane, ActorRecords
  <2>5. \/ Done(q) /\ actor[q].step # "answered"
        \/ Goto(q, "waiting") /\ actor[q].step = "saving"
        \/ Goto(q, "cancelling") /\ actor[q].step = "stopping" /\ ~client'
    BY DEF SaveTrigger, LockTrigger, RefuseRequest, StopClient, Leave, There, Guard
  <2>6. QED
    BY <2>2, <2>3, <2>4, <2>5
<1>6. guardian' \in [Triggers -> Actors \cup {Free}] /\ \A t \in Triggers : guardian[t] # q => guardian'[t] = guardian[t]
  <2>1. UNCHANGED guardian \/ Leave(q)
    BY DEF SaveTrigger, LockTrigger, RefuseRequest, StopClient, There, Guard
  <2>2. QED
    BY <1>1, <2>1, LeaveMoves, EndpointsAreTyped DEF EndpointShape
<1>7. EndpointShape'
  BY <1>1, <1>2, <1>3, <1>4, <1>5, <1>6, QuietShape, EndpointsAreTyped DEF EndpointShape
<1>8. \A a \in Actors :
        \/ actor'[a] = actor[a]
        \/ /\ actor[a].step # "answered" /\ actor'[a].step \notin Registering \cup Guarded
           /\ actor'[a].doing # "create" /\ actor'[a].step \notin {"bulk", "clearing"}
           /\ actor'[a].step = "cancelling" => ~client'
           /\ (actor[a].doing = "none" /\ actor'[a].doing # "none" /\ a = Pass)
                => (client /\ credential # "none")
  BY <1>1, <1>5 DEF Moved, Registering, Guarded
<1>9. \A a \in Actors : \A t \in Triggers :
        Holds(actor[a], t) /\ actor'[a] = actor[a] => guardian'[t] = guardian[t]
  <2> SUFFICES ASSUME NEW a \in Actors, NEW t \in Triggers, Holds(actor[a], t), actor'[a] = actor[a]
               PROVE  guardian'[t] = guardian[t]
    OBVIOUS
  <2>1. a # q
    BY <1>5 DEF Holds, Guarded, Registering
  <2>2. guardian[t] = a
    BY DEF LocksHold
  <2>3. QED
    BY <1>6, <2>1, <2>2
<1>10. QED
  BY <1>2, <1>3, <1>4, <1>7, <1>8, <1>9, QuietStep

\* The pass reads, lists, turns to the next row or ends.
LEMMA PassSteps ==
  ASSUME EndpointInv,
         \/ PassBegin \/ PassEnd
         \/ \E s \in Sources : PassList(s)
         \/ \E t \in Triggers : PassTake(t) /\ ~StillMissing(t)
  PROVE  EndpointInv'
<1> USE DEF EndpointInv
<1>1. Pass \in Actors /\ Pass \notin Requests
  BY EndpointsAssumption DEF Actors
<1>2. UNCHANGED <<trigger, held, issued, credential, client, connects, asked, guardian,
                  news, pointed, dropped, excused>>
  BY DEF PassBegin, PassEnd, PassList, PassTake, cloudVars, linkVars, tellVars
<1>3. cloudFaults' \in 0..MaxCloudFaults
  <2>1. cloudFaults \in 0..MaxCloudFaults /\ MaxCloudFaults \in Nat
    BY EndpointsAreTyped DEF EndpointShape
  <2>2. UNCHANGED cloudFaults \/ CloudFails
    BY DEF PassBegin, PassEnd, PassList, PassTake, cloudVars
  <2>3. QED
    BY <2>1, <2>2 DEF CloudFails
<1>4. pass' \in PassRecords
  <2>1. /\ pass \in PassRecords /\ NoPass \in PassRecords /\ news \in News
        /\ held \in [Triggers -> HeldRecords] /\ trigger \in [Triggers -> Row]
    BY BlankEndpoints, EndpointsAreTyped DEF EndpointShape
  <2>2. CASE PassEnd
    BY <2>1, <2>2 DEF PassEnd
  <2>3. CASE PassBegin
    <3> DEFINE tokens == [t \in Triggers |-> trigger[t].token]
    <3> DEFINE due == [s \in Sources |-> {t \in Triggers : There(t) /\ trigger[t].source = s}]
    <3>1. tokens \in [Triggers -> Nat] /\ due \in [Sources -> SUBSET Triggers]
      BY <2>1 DEF Row
    <3>2. pass' = [NoPass EXCEPT !.seen = tokens, !.todo = due]
      BY <2>3 DEF PassBegin
    <3> HIDE DEF tokens, due
    <3>3. QED
      BY <2>1, <3>1, <3>2 DEF PassRecords
  <2>4. ASSUME NEW s \in Sources, PassList(s) PROVE pass' \in PassRecords
    <3> DEFINE live == {held[t].token : t \in {u \in Triggers : held[u].source = s}} \ {None}
    <3> DEFINE work == {t \in pass.todo[s] : pass.seen[t] \notin live}
    <3> DEFINE due == [pass.todo EXCEPT ![s] = {}]
    <3>1. live \in SUBSET Nat
      BY <2>1 DEF HeldRecords
    <3>2. work \in SUBSET Triggers /\ due \in [Sources -> SUBSET Triggers]
      BY <2>1 DEF PassRecords
    <3>3. \/ pass' = [pass EXCEPT !.todo = due, !.group = s, !.listing = live, !.work = work]
          \/ pass' = [pass EXCEPT !.todo = due]
      BY <2>1, <2>4 DEF PassList, PassRecords
    <3> HIDE DEF live, work, due
    <3>4. QED
      BY <2>1, <3>1, <3>2, <3>3 DEF PassRecords
  <2>5. ASSUME NEW t \in Triggers, PassTake(t) PROVE pass' \in PassRecords
    <3> DEFINE work == pass.work \ {t}
    <3>1. work \in SUBSET Triggers
      BY <2>1 DEF PassRecords
    <3>2. pass' = [pass EXCEPT !.work = work, !.noted = news]
      BY <2>5 DEF PassTake
    <3> HIDE DEF work
    <3>3. QED
      BY <2>1, <3>1, <3>2 DEF PassRecords
  <2>6. QED
    BY <2>2, <2>3, <2>4, <2>5
<1>5. \/ /\ Moved(Pass) /\ Sane(actor'[Pass], issued) /\ actor'[Pass].doing \in {"none", "pass"}
         /\ actor'[Pass].step \in {"idle", "choosing"} /\ actor[Pass].step # "answered"
         /\ actor[Pass].doing = "none" => client /\ credential # "none"
      \/ UNCHANGED actor /\ actor[Pass].step = "choosing"
  <2>1. CASE PassBegin
    BY <1>1, <2>1, DoneMoves, IdleIsSane DEF PassBegin
  <2>2. CASE PassEnd
    <3>1. Moved(Pass) /\ actor'[Pass] = Idle
      BY <1>1, <2>2, BlankEndpoints, MoveIsTyped DEF PassEnd
    <3>2. "idle" \in StepsOf["none"]
      BY DEF StepsOf
    <3>3. Sane(actor'[Pass], issued)
      BY <3>1, <3>2, IdleIsSane, EndpointsAreTyped DEF Sane, EndpointShape, None
    <3>4. actor[Pass].step = "choosing" /\ actor[Pass].doing # "none"
      <4>1. actor[Pass].step = "choosing" /\ actor[Pass].step \in StepsOf[actor[Pass].doing]
        BY <1>1, <2>2, ActorFacts DEF PassEnd
      <4>2. QED
        BY <4>1 DEF StepsOf
    <3>5. QED
      BY <3>1, <3>3, <3>4, IdleIsSane
  <2>3. CASE \E s \in Sources : PassList(s)
    BY <2>3 DEF PassList
  <2>4. CASE \E t \in Triggers : PassTake(t) /\ ~StillMissing(t)
    BY <2>4 DEF PassTake
  <2>5. QED
    BY <2>1, <2>2, <2>3, <2>4
<1>6. EndpointShape'
  <2>1. Moved(Pass) /\ Sane(actor'[Pass], issued) /\ actor'[Pass].doing \in {"none", "pass"}
    BY <1>1, <1>5, EndpointsAreTyped DEF Moved, EndpointShape
  <2>2. \A t \in Triggers : held'[t].token <= issued' /\ trigger'[t].token <= issued'
    BY <1>2 DEF EndpointShape
  <2>3. issued' \in Nat /\ issued <= issued' /\ Sane(actor'[Pass], issued')
    BY <1>2, <2>1, EndpointsAreTyped DEF EndpointShape
  <2>4. /\ trigger' \in [Triggers -> Row] /\ held' \in [Triggers -> HeldRecords]
        /\ guardian' \in [Triggers -> Actors \cup {Free}]
        /\ news' \in News /\ pointed' \in [Triggers -> Nat]
        /\ credential' \in {"none", "connected", "error"} /\ client' \in BOOLEAN
        /\ connects' \in 0..MaxConnects /\ asked' \in 0..MaxRequests
        /\ excused' \in SUBSET Triggers /\ dropped' \in SUBSET Triggers
    BY <1>2, EndpointsAreTyped DEF EndpointShape
  <2>5. QED
    BY <1>1, <1>3, <1>4, <2>1, <2>2, <2>3, <2>4, ShapeStep
<1>7. \A a \in Actors :
        \/ actor'[a] = actor[a]
        \/ /\ actor[a].step # "answered" /\ actor'[a].step \notin Registering \cup Guarded
           /\ actor'[a].doing # "create" /\ actor'[a].step \notin {"bulk", "clearing"}
           /\ actor'[a].step = "cancelling" => ~client'
           /\ (actor[a].doing = "none" /\ actor'[a].doing # "none" /\ a = Pass)
                => (client /\ credential # "none")
  BY <1>1, <1>5 DEF Moved, Registering, Guarded
<1>8. actor'[Pass] = actor[Pass] /\ actor[Pass].step # "choosing" => pass'.noted = pass.noted
  <2>1. actor'[Pass] # actor[Pass] \/ actor[Pass].step = "choosing"
    <3>1. CASE PassBegin
      <4>1. actor[Pass].doing = "none" /\ actor'[Pass].doing = "pass"
        BY <1>1, <3>1, DoneMoves, IdleIsSane DEF PassBegin
      <4>2. QED
        BY <4>1
    <3>2. QED
      BY <3>1 DEF PassEnd, PassList, PassTake
  <2>2. QED
    BY <2>1
<1>9. QED
  BY <1>2, <1>6, <1>7, <1>8, QuietStep

LEMMA ErrorStep ==
  ASSUME EndpointInv, CredentialError
  PROVE  EndpointInv'
<1> USE DEF EndpointInv
<1>1. /\ UNCHANGED <<asked, trigger, held, issued, client, connects, actor, guardian, pass,
                     news, pointed, dropped, excused>>
      /\ credential' = "error" /\ cloudFaults' = cloudFaults + 1 /\ cloudFaults < MaxCloudFaults
  BY DEF CredentialError, CloudFails, tellVars
<1>2. cloudFaults' \in 0..MaxCloudFaults
  BY <1>1, EndpointsAreTyped DEF EndpointShape
<1>3. EndpointShape'
  BY <1>1, <1>2, ShapeStays, EndpointsAreTyped DEF EndpointShape
<1>4. QED
  BY <1>1, <1>3, QuietStep

LEMMA EndpointInvStep == EndpointInv /\ [EndpointNext]_endpointVars => EndpointInv'
<1> SUFFICES ASSUME EndpointInv, [EndpointNext]_endpointVars PROVE EndpointInv'
  OBVIOUS
<1>1. CASE UNCHANGED endpointVars
  <2>1. UNCHANGED <<trigger, held, issued, cloudFaults, credential, client, connects, asked, actor,
                    guardian, pass, news, pointed, dropped, excused>>
    BY <1>1 DEF endpointVars, cloudVars, linkVars, tellVars
  <2>2. EndpointShape'
    BY <2>1, ShapeStays, EndpointsAreTyped DEF EndpointInv, EndpointShape
  <2>3. QED
    BY <2>1, <2>2, QuietStep
<1>2. ASSUME NEW q \in Requests,
             \/ \E t \in Triggers :
                  \/ \E s \in Sources : CreateTrigger(q, t, s)
                  \/ \E what \in {"update", "delete"} : LoadTrigger(q, t, what)
             \/ \E s \in Sources : SaveTrigger(q, s)
             \/ LockTrigger(q) \/ RevokeTrigger(q) \/ RemoveTrigger(q)
             \/ CommitRequest(q) \/ RefuseRequest(q)
             \/ BeginDisconnect(q) \/ StopClient(q) \/ CancelPass(q)
             \/ BulkRevoke(q) \/ ClearLocal(q)
      PROVE  EndpointInv'
  BY <1>2, CreateStep, BeginningSteps, RequestSteps, LockStep, RevokeStep, RemoveStep, CommitStep,
     CancelStep, BulkStep, ClearStep
<1>3. ASSUME NEW a \in Actors, ResolveContext(a) \/ PostEndpoint(a) PROVE EndpointInv'
  BY <1>3, ResolveStep, PostStep
<1>4. ASSUME PassBegin \/ PassCommit \/ PassClear \/ PassEnd PROVE EndpointInv'
  BY <1>4, PassSteps, PassCommitStep, PassClearStep
<1>5. ASSUME NEW s \in Sources, PassList(s) PROVE EndpointInv'
  BY <1>5, PassSteps
<1>6. ASSUME NEW t \in Triggers, PassTake(t) \/ UserPoints(t) \/ CloudLoses(t) PROVE EndpointInv'
  BY <1>6, PassSteps, TakeStep, PointStep, LoseStep
<1>7. ASSUME Connect \/ CredentialError \/ Dismiss PROVE EndpointInv'
  BY <1>7, ConnectStep, ErrorStep, DismissStep
<1>8. QED
  BY <1>1, <1>2, <1>3, <1>4, <1>5, <1>6, <1>7 DEF EndpointNext

LEMMA EndpointsAreSound == EndpointSpec => []EndpointInv
<1>1. EndpointInit => EndpointInv
  BY EndpointInvInit
<1>2. EndpointInv /\ [EndpointNext]_endpointVars => EndpointInv'
  BY EndpointInvStep
<1>3. QED
  BY <1>1, <1>2, PTL DEF EndpointSpec

\* When nobody registers it, an endpoint on the cloud is on a row that is there and
\* carries its token, so delete_trigger can take it down; and after disconnect the
\* cloud holds none.  For any number of triggers, requests, connections and tokens,
\* wherever _reconcile_one waits for a lock and whichever calls fail; rows of an
\* unlocked create_trigger that overlapped and of failed or lost calls are excused.
THEOREM CloudEndpointsAreOwned == EndpointSpec => []CloudIsOwned
<1>1. EndpointInv => CloudIsOwned
  <2> SUFFICES ASSUME EndpointInv PROVE CloudIsOwned
    OBVIOUS
  <2>1. ASSUME NEW t \in Triggers \ excused, Unregistered(t), held[t].token # None
        PROVE  There(t) /\ trigger[t].token = held[t].token
    <3>1. Owned(t, trigger[t], held[t], actor)
      BY DEF EndpointInv, HeldIsOwned
    <3>2. \A a \in Actors : ~(actor[a].subject = t /\ actor[a].step = "answered")
      BY <2>1 DEF Unregistered, Registers
    <3>3. QED
      BY <2>1, <3>1, <3>2 DEF Owned, There
  <2>2. DisconnectedHoldsNothing
    BY DEF EndpointInv, Unplugged, DisconnectedHoldsNothing
  <2>3. QED
    BY <2>1, <2>2 DEF CloudIsOwned, NoOrphan
<1>2. QED
  BY <1>1, EndpointsAreSound, PTL

\* A repair that replaces a URL the user has configured elsewhere puts its row on
\* the list that get_url_changes shows, however many failed attempts of
\* _reconcile_one cleared the column before.
THEOREM ReplacedUrlsAreReported == EndpointSpec => []ReplacedUrlReported
<1>1. EndpointInv => ReplacedUrlReported
  BY DEF EndpointInv, UrlsAreTold, Told, ReplacedUrlReported, Stale
<1>2. QED
  BY <1>1, EndpointsAreSound, PTL

-----------------------------------------------------------------------------
(* The stored refresh token                                                *)

Sessions == 1..MaxGrants
Asks(r) == refresh[r].step = "asking"
Stores(r) == refresh[r].step = "storing"

ClientShape ==
  /\ cred \in [status: {"none", "connected", "error"}, session: Nat, token: Nat]
  /\ latest \in [Sessions -> Nat]
  /\ refresh \in [Refreshers -> [step: {"idle", "asking", "storing", "failed"},
                                 session: Nat, token: Nat]]
  /\ grant \in [step: {"none", "polling", "storing", "starting", "started"}, session: Nat]
  /\ generation \in 0..MaxGrants

\* The sessions that were ever stored are among these.
Known == IF grant.step \in {"polling", "storing"} THEN generation - 1 ELSE generation

\* No token is used of a session before its grant is stored.
SessionsKnown ==
  /\ grant.step \in {"polling", "storing"} => grant.session = generation /\ generation > 0
  /\ cred # NoCred => cred.session \in 1..Known
  /\ \A r \in Refreshers : Asks(r) \/ Stores(r) => refresh[r].session \in 1..Known
  /\ \A s \in Sessions : s > Known => latest[s] = 0

\* Tokens in use were issued; one that is to be stored is the last of its session, and
\* nobody has another one of that session that the cloud would take.
TokensIssued ==
  /\ cred # NoCred => cred.token <= latest[cred.session]
  /\ \A r \in Refreshers : Asks(r) => refresh[r].token <= latest[refresh[r].session]
  /\ \A r \in Refreshers : Stores(r) =>
       /\ refresh[r].token = latest[refresh[r].session]
       /\ cred # NoCred /\ cred.session = refresh[r].session => cred.token < refresh[r].token
       /\ \A q \in Refreshers \ {r} :
            /\ Asks(q) \/ Stores(q)
            /\ refresh[q].session = refresh[r].session
            => refresh[q].token < refresh[r].token

\* The inductive invariant.
ClientInv == ClientShape /\ SessionsKnown /\ TokensIssued /\ StoredTokenUsable

LEMMA ClientInitInv == ClientInit => ClientInv
BY ClientAssumption DEF ClientInit, ClientInv, ClientShape, SessionsKnown, TokensIssued,
   StoredTokenUsable, NoCred, NoRefresh, NoGrant, Known, Sessions, Asks, Stores

\* A stored token is of a session that was granted.
LEMMA SessionsAre ==
  ASSUME ClientInv
  PROVE  /\ Known \in Nat /\ 1..Known \subseteq Sessions
         /\ cred # NoCred => cred.session \in Sessions
         /\ \A r \in Refreshers : Asks(r) \/ Stores(r) => refresh[r].session \in Sessions
BY ClientAssumption DEF ClientInv, ClientShape, SessionsKnown, Known, Sessions

\* A step that leaves tokens and grants alone, or gives up a token that is not stored.
LEMMA TokensRest ==
  ASSUME ClientInv, UNCHANGED <<latest, grant, generation, mislaid>>,
         \/ cred' = cred
         \/ cred # NoCred /\ cred' = [cred EXCEPT !.status = "error"]
         \/ cred' = NoCred,
         \/ refresh' = refresh
         \/ \E r \in Refreshers, x \in {"failed", "idle"} :
              /\ Stores(r) => cred = NoCred
              /\ \/ refresh' = [refresh EXCEPT ![r] = [NoRefresh EXCEPT !.step = x]]
                 \/ refresh' = [refresh EXCEPT ![r].step = x]
  PROVE  ClientInv'
<1>1. /\ cred' \in [status: {"none", "connected", "error"}, session: Nat, token: Nat]
      /\ cred' # NoCred => /\ cred # NoCred
                           /\ cred'.session = cred.session /\ cred'.token = cred.token
  <2>1. CASE cred' = cred
    BY <2>1 DEF ClientInv, ClientShape
  <2>2. CASE cred # NoCred /\ cred' = [cred EXCEPT !.status = "error"]
    BY <2>2 DEF ClientInv, ClientShape
  <2>3. CASE cred' = NoCred
    BY <2>3 DEF NoCred
  <2>4. QED
    BY <2>1, <2>2, <2>3
<1>2. /\ refresh' \in [Refreshers -> [step: {"idle", "asking", "storing", "failed"},
                                      session: Nat, token: Nat]]
      /\ \A r \in Refreshers : /\ Asks(r)' => Asks(r) /\ refresh'[r] = refresh[r]
                               /\ Stores(r)' => Stores(r) /\ refresh'[r] = refresh[r]
                               /\ Stores(r) /\ cred # NoCred => refresh'[r] = refresh[r]
  <2>1. CASE refresh' = refresh
    BY <2>1 DEF ClientInv, ClientShape, Asks, Stores
  <2>2. ASSUME NEW r \in Refreshers, NEW x \in {"failed", "idle"}, Stores(r) => cred = NoCred,
               \/ refresh' = [refresh EXCEPT ![r] = [NoRefresh EXCEPT !.step = x]]
               \/ refresh' = [refresh EXCEPT ![r].step = x]
        PROVE  <1>2!1 /\ <1>2!2
    BY <2>2 DEF ClientInv, ClientShape, Asks, Stores, NoRefresh
  <2>3. QED
    BY <2>1, <2>2
<1>3. ClientShape' /\ Known' = Known
  BY <1>1, <1>2 DEF ClientInv, ClientShape, Known
<1>4. SessionsKnown' /\ TokensIssued'
  BY <1>1, <1>2, <1>3 DEF ClientInv, SessionsKnown, TokensIssued, Asks, Stores
<1>5. StoredTokenUsable'
  BY <1>1, <1>2 DEF ClientInv, StoredTokenUsable, InFlight, Stores
<1>6. QED
  BY <1>3, <1>4, <1>5 DEF ClientInv

\* What a refresher will ask with is what is stored.
LEMMA ReadStep ==
  ASSUME ClientInv, NEW r \in Refreshers, RefreshRead(r)
  PROVE  ClientInv'
<1>1. CASE cred = NoCred
  BY <1>1, TokensRest DEF RefreshRead, Stores
<1>2. CASE cred # NoCred
  <2> DEFINE ask == [step |-> "asking", session |-> cred.session, token |-> cred.token]
  <2>1. /\ refresh' = [refresh EXCEPT ![r] = ask] /\ refresh[r].step = "idle"
        /\ UNCHANGED <<cred, latest, grant, generation, mislaid>>
    BY <1>2 DEF RefreshRead
  <2>2. ClientShape' /\ Known' = Known
    BY <2>1 DEF ClientInv, ClientShape, Known
  <2>3. /\ Asks(r)' /\ ~Stores(r)' /\ refresh'[r].session = cred.session
        /\ refresh'[r].token = cred.token /\ ~Stores(r) /\ ~Asks(r)
        /\ \A q \in Refreshers \ {r} : refresh'[q] = refresh[q]
    BY <2>1 DEF ClientInv, ClientShape, Asks, Stores
  <2>4. SessionsKnown'
    BY <1>2, <2>1, <2>2, <2>3 DEF ClientInv, SessionsKnown, Asks, Stores
  <2>5. TokensIssued'
    BY <1>2, <2>1, <2>3 DEF ClientInv, TokensIssued, Asks, Stores
  <2>6. StoredTokenUsable'
    BY <2>1, <2>3 DEF ClientInv, StoredTokenUsable, InFlight, Stores
  <2>7. QED
    BY <2>2, <2>4, <2>5, <2>6 DEF ClientInv
<1>3. QED
  BY <1>1, <1>2

\* The cloud rotates the token, or does not take it.
LEMMA AskStep ==
  ASSUME ClientInv, NEW r \in Refreshers, RefreshAsk(r)
  PROVE  ClientInv'
<1> DEFINE s == refresh[r].session
           n == refresh[r].token
<1>1. /\ Asks(r) /\ ~Stores(r) /\ s \in 1..Known /\ s \in Sessions /\ n \in Nat /\ n <= latest[s]
      /\ latest[s] \in Nat /\ UNCHANGED <<cred, grant, generation>>
  BY SessionsAre DEF RefreshAsk, Asks, Stores, ClientInv, ClientShape, SessionsKnown, TokensIssued
<1>2. CASE refresh' = [refresh EXCEPT ![r].step = "failed"] /\ UNCHANGED <<latest, mislaid>>
  BY <1>1, <1>2, TokensRest
<1>3. CASE /\ n = latest[s]
           /\ latest' = [latest EXCEPT ![s] = n + 1]
           /\ \/ /\ refresh' = [refresh EXCEPT ![r].step = "storing", ![r].token = n + 1]
                 /\ mislaid' = mislaid
              \/ /\ refresh' = [refresh EXCEPT ![r].step = "failed"]
                 /\ mislaid' = mislaid \cup {s}
  <2>1. ClientShape' /\ Known' = Known
    <3>1. latest' \in [Sessions -> Nat]
      BY <1>1, <1>3 DEF ClientInv, ClientShape
    <3>2. refresh' \in [Refreshers -> [step: {"idle", "asking", "storing", "failed"},
                                       session: Nat, token: Nat]]
      BY <1>1, <1>3 DEF ClientInv, ClientShape
    <3>3. QED
      BY <1>1, <3>1, <3>2 DEF ClientInv, ClientShape, Known
  <2>2. /\ latest'[s] = n + 1 /\ \A t \in Sessions \ {s} : latest'[t] = latest[t]
        /\ \A q \in Refreshers \ {r} : refresh'[q] = refresh[q]
        /\ refresh'[r].session = s /\ ~Asks(r)'
        /\ Stores(r)' => refresh'[r].token = n + 1 /\ mislaid' = mislaid
        /\ ~Stores(r)' => mislaid' = mislaid \cup {s}
    BY <1>1, <1>3 DEF ClientInv, ClientShape, Asks, Stores
  <2>3. \A q \in Refreshers : Stores(q) => refresh[q].session # s
    BY <1>1, <1>3 DEF ClientInv, TokensIssued
  <2>4. SessionsKnown'
    BY <1>1, <2>1, <2>2, SessionsAre DEF ClientInv, SessionsKnown, Asks, Stores
  <2>5. /\ cred # NoCred /\ cred.session = s => cred.token <= n
        /\ \A q \in Refreshers : Asks(q) /\ refresh[q].session = s => refresh[q].token <= n
    BY <1>3 DEF ClientInv, TokensIssued
  <2>6. /\ cred # NoCred => cred.session \in Sessions /\ cred.token \in Nat
        /\ \A q \in Refreshers : Asks(q) \/ Stores(q) => /\ refresh[q].session \in Sessions
                                                         /\ refresh[q].token \in Nat
        /\ \A t \in Sessions : latest[t] \in Nat
    BY SessionsAre DEF ClientInv, ClientShape
  <2>7. TokensIssued'
    <3>1. cred # NoCred => cred.token <= latest'[cred.session]
      BY <1>1, <2>2, <2>5, <2>6 DEF ClientInv, TokensIssued
    <3>2. ASSUME NEW q \in Refreshers, Asks(q)'
          PROVE  refresh'[q].token <= latest'[refresh'[q].session]
      <4>1. q # r /\ refresh'[q] = refresh[q] /\ Asks(q)
        BY <3>2, <2>2 DEF Asks
      <4>2. QED
        BY <4>1, <1>1, <2>2, <2>5, <2>6 DEF ClientInv, TokensIssued
    <3>3. ASSUME NEW q \in Refreshers, Stores(q)'
          PROVE  /\ refresh'[q].token = latest'[refresh'[q].session]
                 /\ cred # NoCred /\ cred.session = refresh'[q].session =>
                      cred.token < refresh'[q].token
                 /\ \A p \in Refreshers \ {q} :
                      /\ Asks(p)' \/ Stores(p)'
                      /\ refresh'[p].session = refresh'[q].session
                      => refresh'[p].token < refresh'[q].token
      <4>1. CASE q = r
        <5>1. \A p \in Refreshers \ {q} : Asks(p)' \/ Stores(p)' =>
                refresh'[p] = refresh[p] /\ (Asks(p) \/ Stores(p))
          BY <4>1, <2>2 DEF Asks, Stores
        <5>2. QED
          BY <3>3, <4>1, <5>1, <1>1, <2>2, <2>3, <2>5, <2>6
      <4>2. CASE q # r
        <5>1. refresh'[q] = refresh[q] /\ Stores(q) /\ refresh[q].session # s
          BY <3>3, <4>2, <2>2, <2>3 DEF Stores
        <5>2. \A p \in Refreshers \ {q} :
                /\ Asks(p)' \/ Stores(p)'
                /\ refresh'[p].session = refresh[q].session
                => p # r /\ refresh'[p] = refresh[p] /\ (Asks(p) \/ Stores(p))
          BY <5>1, <2>2 DEF Asks, Stores
        <5>3. QED
          BY <1>1, <5>1, <5>2, <2>2, <2>6 DEF ClientInv, TokensIssued
      <4>3. QED
        BY <4>1, <4>2
    <3>4. QED
      BY <1>1, <3>1, <3>2, <3>3 DEF TokensIssued
  <2>8. StoredTokenUsable'
    <3> SUFFICES ASSUME cred # NoCred, ~InFlight(cred.session)', cred.session \notin mislaid'
                 PROVE  cred.token = latest'[cred.session]
      BY <1>1 DEF StoredTokenUsable
    <3>1. cred.session # s
      BY <1>1, <2>2 DEF InFlight, Stores
    <3>2. ~InFlight(cred.session) /\ cred.session \notin mislaid
      BY <3>1, <1>1, <2>2 DEF InFlight, Stores
    <3>3. QED
      BY <3>1, <3>2, <2>2, <2>6 DEF ClientInv, StoredTokenUsable
  <2>9. QED
    BY <2>1, <2>4, <2>7, <2>8 DEF ClientInv
<1>4. QED
  BY <1>2, <1>3 DEF RefreshAsk

\* The new token is stored, over whatever credential there is.
LEMMA StoreTokenStep ==
  ASSUME ClientInv, NEW r \in Refreshers, RefreshStore(r)
  PROVE  ClientInv'
<1>1. CASE cred = NoCred
  BY <1>1, TokensRest DEF RefreshStore
<1>2. CASE cred # NoCred
  <2> DEFINE s == refresh[r].session
  <2>1. /\ Stores(r) /\ s \in Sessions /\ s \in 1..Known /\ refresh[r].token = latest[s]
        /\ cred'.session = s /\ cred'.token = latest[s]
        /\ cred' \in [status: {"none", "connected", "error"}, session: Nat, token: Nat]
        /\ refresh' = [refresh EXCEPT ![r] = NoRefresh]
        /\ UNCHANGED <<latest, grant, generation, mislaid>>
    BY <1>2, SessionsAre DEF RefreshStore, Refreshed, Stores, ClientInv, ClientShape,
       SessionsKnown, TokensIssued
  <2>2. /\ ~Asks(r)' /\ ~Stores(r)' /\ \A q \in Refreshers \ {r} : refresh'[q] = refresh[q]
    BY <2>1 DEF ClientInv, ClientShape, Asks, Stores, NoRefresh
  <2>3. ClientShape' /\ Known' = Known
    BY <2>1 DEF ClientInv, ClientShape, Known, NoRefresh
  <2>4. SessionsKnown'
    BY <2>1, <2>2, <2>3 DEF ClientInv, SessionsKnown, Asks, Stores
  <2>5. \A q \in Refreshers \ {r} : Stores(q) => refresh[q].session # s
    BY <2>1 DEF ClientInv, ClientShape, TokensIssued
  <2>6. TokensIssued'
    <3>1. latest[s] \in Nat
      BY <2>1 DEF ClientInv, ClientShape
    <3>2. \A q \in Refreshers : Asks(q)' \/ Stores(q)' => q # r /\ refresh'[q] = refresh[q]
      BY <2>2
    <3>3. QED
      BY <2>1, <2>2, <2>5, <3>1, <3>2 DEF ClientInv, TokensIssued, Asks, Stores
  <2>7. StoredTokenUsable'
    BY <2>1 DEF StoredTokenUsable
  <2>8. QED
    BY <2>3, <2>4, <2>6, <2>7 DEF ClientInv
<1>3. QED
  BY <1>1, <1>2

\* Cancelled tasks may have been issued a token that nobody has.
LEMMA StopStep ==
  ASSUME ClientInv, StopTasks, UNCHANGED <<cred, generation>>,
         grant' = grant \/ (grant.step = "starting" /\ grant' = [grant EXCEPT !.step = "started"])
  PROVE  ClientInv'
<1>1. PICK cut \in SUBSET {r \in Refreshers : Asks(r)} :
        /\ latest' = [s \in 1..MaxGrants |->
             IF \E r \in cut : refresh[r].session = s THEN latest[s] + 1 ELSE latest[s]]
        /\ mislaid' = mislaid \cup {refresh[r].session : r \in cut}
                      \cup {refresh[r].session : r \in {q \in Refreshers : Stores(q)}}
  BY DEF StopTasks, Asks, Stores
<1>2. \A s \in Sessions : /\ latest'[s] \in Nat /\ latest[s] \in Nat /\ latest[s] <= latest'[s]
                          /\ latest'[s] = latest[s] \/ \E r \in cut : refresh[r].session = s
  BY <1>1 DEF ClientInv, ClientShape, Sessions
<1>3. /\ refresh' = [r \in Refreshers |-> NoRefresh]
      /\ \A r \in Refreshers : ~Asks(r)' /\ ~Stores(r)'
  BY DEF StopTasks, NoRefresh, Asks, Stores
<1>4. ClientShape' /\ Known' = Known
  <2>1. latest' \in [Sessions -> Nat]
    BY <1>1, <1>2 DEF Sessions
  <2>2. QED
    BY <1>3, <2>1 DEF ClientInv, ClientShape, Known, NoRefresh
<1>5. SessionsKnown'
  <2>1. \A s \in Sessions : s > Known => latest'[s] = 0
    <3> SUFFICES ASSUME NEW s \in Sessions, s > Known PROVE latest'[s] = 0
      OBVIOUS
    <3>1. ~\E r \in cut : refresh[r].session = s
      BY SessionsAre DEF ClientInv, SessionsKnown, Sessions
    <3>2. QED
      BY <3>1, <1>2 DEF ClientInv, SessionsKnown
  <2>2. grant'.step \in {"polling", "storing"} => grant' = grant
    BY DEF ClientInv, ClientShape
  <2>3. QED
    BY <1>3, <1>4, <2>1, <2>2 DEF ClientInv, SessionsKnown
<1>6. TokensIssued'
  BY <1>2, <1>3, SessionsAre DEF ClientInv, ClientShape, TokensIssued
<1>7. StoredTokenUsable'
  <2> SUFFICES ASSUME cred # NoCred, cred.session \notin mislaid'
               PROVE  cred.token = latest'[cred.session]
    BY DEF StoredTokenUsable
  <2>1. /\ cred.session \notin mislaid /\ ~InFlight(cred.session)
        /\ ~\E r \in cut : refresh[r].session = cred.session
    BY <1>1 DEF InFlight, Stores
  <2>2. QED
    BY <2>1, <1>2, SessionsAre DEF ClientInv, StoredTokenUsable
<1>8. QED
  BY <1>4, <1>5, <1>6, <1>7 DEF ClientInv

\* A device grant goes on; the session it stores is a new one.
LEMMA GrantStep ==
  ASSUME ClientInv, GrantBegin \/ GrantResolved \/ GrantStore \/ StartTasks
  PROVE  ClientInv'
<1>1. /\ UNCHANGED <<latest, refresh, mislaid>> /\ ClientShape' /\ Known' \in Nat /\ Known <= Known'
      /\ grant'.step \in {"polling", "storing"} => grant'.session = generation' /\ generation' > 0
  <2> USE DEF ClientInv, ClientShape, Known, SessionsKnown
  <2>1. CASE GrantBegin
    BY <2>1, ClientAssumption DEF GrantBegin
  <2>2. CASE GrantResolved
    BY <2>2 DEF GrantResolved, NoGrant
  <2>3. CASE GrantStore
    BY <2>3 DEF GrantStore
  <2>4. CASE StartTasks
    BY <2>4 DEF StartTasks, NoGrant
  <2>5. QED
    BY <2>1, <2>2, <2>3, <2>4
<1>2. \/ cred' = cred
      \/ /\ cred'.session \in Sessions /\ cred'.session = generation /\ cred'.token = 0
         /\ Known = generation - 1 /\ Known' = generation
  BY DEF GrantBegin, GrantResolved, GrantStore, StartTasks, ClientInv, ClientShape,
     SessionsKnown, Known, Sessions
<1>3. cred' # cred => /\ latest[cred'.session] = 0
                      /\ \A r \in Refreshers : Asks(r) \/ Stores(r) =>
                                              refresh[r].session # cred'.session
  BY <1>2 DEF ClientInv, ClientShape, SessionsKnown
<1>4. SessionsKnown'
  <2>1. Known \in Nat /\ generation \in Nat
    BY SessionsAre DEF ClientInv, ClientShape
  <2>2. 1..Known \subseteq 1..Known'
    BY <1>1, <2>1
  <2>3. cred' # NoCred => cred'.session \in 1..Known'
    <3>1. CASE cred' = cred
      BY <3>1, <2>2 DEF ClientInv, SessionsKnown
    <3>2. CASE cred' # cred
      BY <3>2, <1>2, <2>1 DEF Sessions
    <3>3. QED
      BY <3>1, <3>2
  <2>4. \A s \in Sessions : s > Known' => s > Known
    BY <1>1, <2>1 DEF Sessions
  <2>5. QED
    BY <1>1, <2>2, <2>3, <2>4 DEF ClientInv, SessionsKnown, Asks, Stores
<1>5. TokensIssued'
  BY <1>1, <1>2, <1>3 DEF ClientInv, TokensIssued, Asks, Stores
<1>6. StoredTokenUsable'
  BY <1>1, <1>2, <1>3 DEF ClientInv, StoredTokenUsable, InFlight
<1>7. QED
  BY <1>1, <1>4, <1>5, <1>6 DEF ClientInv

LEMMA ClientStepInv == ClientInv /\ [ClientNext]_clientVars => ClientInv'
<1> SUFFICES ASSUME ClientInv, [ClientNext]_clientVars PROVE ClientInv'
  OBVIOUS
<1>1. CASE \/ LoadCredential \/ Dial \/ SendRegister \/ Registered \/ Backoff
           \/ Evicted \/ Closed \/ UNCHANGED clientVars
  <2>1. UNCHANGED <<cred, latest, refresh, grant, generation, mislaid>>
    BY <1>1 DEF LoadCredential, Dial, SendRegister, Registered, Backoff, Evicted, Closed,
       clientVars
  <2>2. QED
    BY <2>1, TokensRest
<1>2. CASE FailCredential
  BY <1>2, TokensRest DEF FailCredential
<1>3. CASE DisconnectDelete
  BY <1>3, TokensRest DEF DisconnectDelete
<1>4. CASE GrantStop \/ DisconnectStop
  BY <1>4, StopStep DEF GrantStop, DisconnectStop
<1>5. ASSUME NEW r \in Refreshers, RefreshFailed(r)
      PROVE  ClientInv'
  BY <1>5, TokensRest DEF RefreshFailed, Stores, NoRefresh
<1>6. {"client", "timer"} = Refreshers
  BY DEF Refreshers
<1>7. QED
  BY <1>1, <1>2, <1>3, <1>4, <1>5, <1>6, ReadStep, AskStep, StoreTokenStep, GrantStep
     DEF ClientNext, ClientWork, TimerWork, GrantWork

\* The stored refresh token is one the cloud still takes, although the refresh loop,
\* a rejected connection, a device grant and a disconnect call
\* _try_refresh_token or replace the credential at once, for any number of grants
\* and rotations; the exceptions are those the property names.
THEOREM StoredTokenIsUsable == ClientSpec => []StoredTokenUsable
<1>1. ClientInv => StoredTokenUsable
  BY DEF ClientInv
<1>2. QED
  BY <1>1, ClientInitInv, ClientStepInv, PTL DEF ClientSpec

\* The types but for timerOn's; a client that has not stopped has evictions left,
\* only one that is told to refresh has a refresh under way, and a grant starts the
\* tasks it has stopped.
ClientTypes ==
  /\ cred \in [status: {"none", "connected", "error"}, session: 0..MaxGrants,
               token: 0..MaxRotations]
  /\ latest \in [1..MaxGrants -> 0..MaxRotations]
  /\ phase \in Phases
  /\ evictions \in 0..MaxEvictions
  /\ refresh \in [Refreshers -> [step: {"idle", "asking", "storing", "failed"},
                    session: 0..MaxGrants, token: 0..MaxRotations]]
  /\ grant \in [step: {"none", "polling", "storing", "starting", "started"},
                session: 0..MaxGrants]
  /\ generation \in 0..MaxGrants
  /\ drops \in 0..MaxDrops
  /\ mislaid \in SUBSET (0..MaxGrants)
  /\ phase # "stopped" => evictions < MaxEvictions
  /\ grant.step = "started" => phase = "stopped" /\ evictions = 0
  /\ refresh["client"].step # "idle" => phase = "refreshing"

LEMMA ClientTypesInit == ClientInit => ClientTypes /\ timerOn \in BOOLEAN
<1> SUFFICES ASSUME ClientInit PROVE ClientTypes /\ timerOn \in BOOLEAN
  OBVIOUS
<1>1. timerOn \in BOOLEAN
  BY Zenon DEF ClientInit
<1>2. ClientTypes
  BY ClientAssumption DEF ClientInit, ClientTypes, NoCred, NoRefresh, NoGrant, Phases, Refreshers
<1>3. QED
  BY <1>1, <1>2

LEMMA TimerIsBoolean == timerOn \in BOOLEAN /\ [ClientNext]_clientVars => timerOn' \in BOOLEAN
<1> SUFFICES ASSUME timerOn \in BOOLEAN, [ClientNext]_clientVars PROVE timerOn' \in BOOLEAN
  OBVIOUS
<1>1. timerOn' = TRUE \/ timerOn' = FALSE \/ timerOn' = timerOn
  BY Zenon DEF ClientNext, ClientWork, TimerWork, GrantWork, clientVars, LoadCredential, Dial,
     SendRegister, Registered, Backoff, FailCredential, RefreshRead, RefreshAsk, RefreshStore,
     RefreshFailed, GrantStore, GrantStop, StartTasks, Evicted, Closed, GrantBegin, GrantResolved,
     DisconnectStop, DisconnectDelete, StopTasks
<1>2. QED
  BY <1>1, Zenon

LEMMA StopTypes ==
  ASSUME ClientTypes, StopTasks
  PROVE  /\ latest' \in [1..MaxGrants -> 0..MaxRotations] /\ mislaid' \in SUBSET (0..MaxGrants)
         /\ refresh' = [r \in Refreshers |-> NoRefresh] /\ phase' = "stopped" /\ evictions' = 0
<1>1. PICK cut \in SUBSET {r \in Refreshers : refresh[r].step = "asking"
                             /\ refresh[r].token = latest[refresh[r].session]
                             /\ refresh[r].token < MaxRotations} :
        /\ latest' = [s \in 1..MaxGrants |->
             IF \E r \in cut : refresh[r].session = s THEN latest[s] + 1 ELSE latest[s]]
        /\ mislaid' = mislaid \cup {refresh[r].session : r \in cut}
                      \cup {refresh[r].session :
                              r \in {q \in Refreshers : refresh[q].step = "storing"}}
  BY DEF StopTasks
<1>2. ASSUME NEW s \in 1..MaxGrants
      PROVE  (IF \E r \in cut : refresh[r].session = s THEN latest[s] + 1 ELSE latest[s])
               \in 0..MaxRotations
  <2>1. latest[s] \in 0..MaxRotations /\ MaxRotations \in Nat
    BY ClientAssumption DEF ClientTypes
  <2>2. ASSUME NEW r \in cut, refresh[r].session = s PROVE latest[s] < MaxRotations
    BY <2>2
  <2>3. QED
    BY <2>1, <2>2
<1>3. \A r \in Refreshers : refresh[r].session \in 0..MaxGrants
  BY DEF ClientTypes
<1>4. latest' \in [1..MaxGrants -> 0..MaxRotations]
  BY <1>1, <1>2
<1>5. mislaid' \in SUBSET (0..MaxGrants)
  <2>1. mislaid \subseteq 0..MaxGrants
    BY DEF ClientTypes
  <2>2. \A x \in mislaid' : x \in mislaid \/ \E r \in Refreshers : x = refresh[r].session
    BY <1>1
  <2>3. QED
    BY <1>3, <2>1, <2>2
<1>6. QED
  BY <1>4, <1>5 DEF StopTasks

LEMMA RefreshMoves ==
  ASSUME NEW me \in [step: {"idle", "asking", "storing", "failed"}, session: 0..MaxGrants,
                     token: 0..MaxRotations]
  PROVE  /\ [me EXCEPT !.step = "failed"] \in
              [step: {"idle", "asking", "storing", "failed"}, session: 0..MaxGrants,
               token: 0..MaxRotations]
         /\ \A m \in 0..MaxRotations : [me EXCEPT !.step = "storing", !.token = m] \in
              [step: {"idle", "asking", "storing", "failed"}, session: 0..MaxGrants,
               token: 0..MaxRotations]
OBVIOUS

LEMMA ClientTypesStep == ClientTypes /\ [ClientNext]_clientVars => ClientTypes'
<1> SUFFICES ASSUME ClientTypes, [ClientNext]_clientVars PROVE ClientTypes'
  OBVIOUS
<1> USE ClientAssumption DEF ClientTypes, Phases, Refreshers
<1>0. ASSUME Drop PROVE drops' \in 0..MaxDrops
  BY <1>0 DEF Drop
<1>1. CASE LoadCredential \/ Dial \/ SendRegister \/ Registered \/ Backoff \/ UNCHANGED clientVars
  <2>1. CASE LoadCredential \/ SendRegister \/ Backoff \/ UNCHANGED clientVars
    BY <2>1 DEF LoadCredential, SendRegister, Backoff, clientVars
  <2>2. CASE Dial
    BY <1>0, <2>2 DEF Dial
  <2>3. CASE Registered
    <3>1. CASE phase' = "receiving" /\ evictions' = 0 /\ UNCHANGED drops
      BY <2>3, <3>1 DEF Registered
    <3>2. CASE phase' = "backoff" /\ Drop /\ UNCHANGED evictions
      BY <1>0, <2>3, <3>2 DEF Registered
    <3>3. QED
      BY <2>3, <3>1, <3>2 DEF Registered
  <2>4. QED
    BY <1>1, <2>1, <2>2, <2>3
<1>2. CASE Evicted \/ Closed
  <2>1. CASE Evicted
    BY <1>0, <2>1 DEF Evicted, Open
  <2>2. CASE Closed
    BY <1>0, <2>2 DEF Closed, Open
  <2>3. QED
    BY <1>2, <2>1, <2>2
<1>3. CASE FailCredential \/ DisconnectDelete
  BY <1>3, SMTT(30) DEF FailCredential, DisconnectDelete, NoCred
<1>4. ASSUME NEW r \in Refreshers, RefreshRead(r) PROVE ClientTypes'
  BY <1>4, SMTT(30) DEF RefreshRead, Wants, NoRefresh
<1>5. ASSUME NEW r \in Refreshers, RefreshAsk(r) PROVE ClientTypes'
  <2>1. /\ refresh[r].session \in 0..MaxGrants /\ refresh[r].token \in 0..MaxRotations
        /\ refresh[r].step = "asking"
    BY <1>5 DEF RefreshAsk
  <2>2. latest' \in [1..MaxGrants -> 0..MaxRotations] /\ mislaid' \in SUBSET (0..MaxGrants)
        /\ drops' \in 0..MaxDrops
    <3> DEFINE n == refresh[r].token
    <3>1. CASE n = latest[refresh[r].session] /\ n < MaxRotations
      <4>1. n + 1 \in 0..MaxRotations
        BY <2>1, <3>1, SMTT(30)
      <4>2. latest' = [latest EXCEPT ![refresh[r].session] = n + 1]
        BY <1>5, <3>1, SMTT(30) DEF RefreshAsk
      <4>3. drops' = drops \/ Drop
        BY <1>5, <3>1 DEF RefreshAsk
      <4>4. mislaid' = mislaid \/ mislaid' = mislaid \cup {refresh[r].session}
        BY <1>5, <3>1 DEF RefreshAsk
      <4>5. QED
        BY <1>0, <2>1, <4>1, <4>2, <4>3, <4>4
    <3>2. CASE ~(n = latest[refresh[r].session] /\ n < MaxRotations)
      BY <1>5, <3>2 DEF RefreshAsk
    <3>3. QED
      BY <3>1, <3>2
  <2>3. /\ refresh' \in [Refreshers -> [step: {"idle", "asking", "storing", "failed"},
                           session: 0..MaxGrants, token: 0..MaxRotations]]
        /\ \A q \in Refreshers : q # r => refresh'[q] = refresh[q]
    <3> DEFINE Shape == [step: {"idle", "asking", "storing", "failed"},
                         session: 0..MaxGrants, token: 0..MaxRotations]
               m     == refresh[r].token + 1
    <3>1. refresh \in [Refreshers -> Shape] /\ refresh[r] \in Shape
      OBVIOUS
    <3>2. \/ /\ m \in 0..MaxRotations
             /\ refresh' = [refresh EXCEPT ![r].step = "storing", ![r].token = m]
          \/ refresh' = [refresh EXCEPT ![r].step = "failed"]
      <4>1. \/ /\ refresh[r].token < MaxRotations
               /\ refresh' = [refresh EXCEPT ![r].step = "storing", ![r].token = m]
            \/ refresh' = [refresh EXCEPT ![r].step = "failed"]
        BY <1>5, Zenon DEF RefreshAsk
      <4>2. refresh[r].token < MaxRotations => m \in 0..MaxRotations
        BY <3>1
      <4>3. QED
        BY <4>1, <4>2, Zenon
    <3>3. /\ [refresh[r] EXCEPT !.step = "failed"] \in Shape
          /\ m \in 0..MaxRotations => [refresh[r] EXCEPT !.step = "storing", !.token = m] \in Shape
      BY <3>1, RefreshMoves
    <3>4. PICK v \in Shape : refresh' = [refresh EXCEPT ![r] = v]
      <4>1. CASE refresh' = [refresh EXCEPT ![r].step = "failed"]
        <5>1. refresh' = [refresh EXCEPT ![r] = [refresh[r] EXCEPT !.step = "failed"]]
          BY <3>1, <4>1
        <5>2. QED
          BY <3>3, <5>1
      <4>2. CASE /\ m \in 0..MaxRotations
                 /\ refresh' = [refresh EXCEPT ![r].step = "storing", ![r].token = m]
        <5>1. refresh' = [refresh EXCEPT ![r] = [refresh[r] EXCEPT !.step = "storing", !.token = m]]
          BY <3>1, <4>2
        <5>2. QED
          BY <3>3, <4>2, <5>1
      <4>3. QED
        BY <3>2, <4>1, <4>2
    <3> HIDE DEF Shape
    <3>5. refresh' \in [Refreshers -> Shape] /\ \A q \in Refreshers : q # r => refresh'[q] = refresh[q]
      BY <3>1, <3>4
    <3>6. QED
      BY <3>5 DEF Shape
  <2>4. QED
    BY <1>5, <2>1, <2>2, <2>3 DEF RefreshAsk
<1>6. ASSUME NEW r \in Refreshers, RefreshStore(r) \/ RefreshFailed(r) PROVE ClientTypes'
  <2>1. CASE RefreshStore(r)
    <3>1. /\ refresh[r].session \in 0..MaxGrants /\ refresh[r].token \in 0..MaxRotations
          /\ r = "client" => phase = "refreshing"
      BY <2>1 DEF RefreshStore
    <3>2. CASE cred # NoCred
      <4>1. /\ cred' = Refreshed(r) /\ refresh' = [refresh EXCEPT ![r] = NoRefresh]
            /\ phase' = IF r = "client" THEN "backoff" ELSE phase
            /\ UNCHANGED <<latest, evictions, grant, generation, drops, mislaid>>
        BY <2>1, <3>2 DEF RefreshStore
      <4>2. /\ cred' \in [status: {"none", "connected", "error"}, session: 0..MaxGrants,
                           token: 0..MaxRotations]
        BY <3>1, <4>1 DEF Refreshed
      <4>3. refresh' \in [Refreshers -> [step: {"idle", "asking", "storing", "failed"},
                             session: 0..MaxGrants, token: 0..MaxRotations]]
            /\ (refresh'["client"].step # "idle" => r # "client" /\ refresh["client"].step # "idle")
        BY <4>1 DEF NoRefresh
      <4>4. QED
        BY <3>1, <4>1, <4>2, <4>3, SMTT(30)
    <3>3. CASE cred = NoCred
      BY <2>1, <3>1, <3>3, SMTT(30) DEF RefreshStore
    <3>4. QED
      BY <3>2, <3>3
  <2>2. CASE RefreshFailed(r)
    BY <2>2 DEF RefreshFailed, NoRefresh
  <2>3. QED
    BY <1>6, <2>1, <2>2
<1>7. CASE GrantBegin \/ GrantResolved \/ GrantStore \/ StartTasks
  <2>1. CASE GrantBegin
    BY <2>1 DEF GrantBegin
  <2>2. CASE GrantResolved \/ GrantStore
    BY <2>2, SMTT(30) DEF GrantResolved, GrantStore, NoGrant
  <2>3. CASE StartTasks
    BY <2>3 DEF StartTasks, NoGrant
  <2>4. QED
    BY <1>7, <2>1, <2>2, <2>3
<1>8. CASE GrantStop \/ DisconnectStop
  <2>1. /\ latest' \in [1..MaxGrants -> 0..MaxRotations] /\ mislaid' \in SUBSET (0..MaxGrants)
        /\ refresh' = [r \in Refreshers |-> NoRefresh] /\ phase' = "stopped" /\ evictions' = 0
    BY <1>8, StopTypes DEF GrantStop, DisconnectStop
  <2>2. UNCHANGED <<cred, generation, drops>> /\ grant' \in {grant, [grant EXCEPT !.step = "started"]}
    BY <1>8 DEF GrantStop, DisconnectStop
  <2>3. grant' \in [step: {"none", "polling", "storing", "starting", "started"},
                    session: 0..MaxGrants]
    BY <2>2
  <2>4. /\ refresh' \in [Refreshers -> [step: {"idle", "asking", "storing", "failed"},
                            session: 0..MaxGrants, token: 0..MaxRotations]]
        /\ refresh'["client"].step = "idle"
    BY <2>1 DEF NoRefresh
  <2>5. QED
    BY <2>1, <2>2, <2>3, <2>4, SMTT(30)
<1>9. QED
  BY <1>1, <1>2, <1>3, <1>4, <1>5, <1>6, <1>7, <1>8
     DEF ClientNext, ClientWork, TimerWork, GrantWork

LEMMA ClientIsTyped == ClientTypes /\ timerOn \in BOOLEAN => ClientTypeOK
BY Zenon DEF ClientTypes, ClientTypeOK

\* The flags, which keep their type on their own.
ClientFlags == timerOn \in BOOLEAN

LEMMA ClientAlwaysTyped == ClientInit /\ [][ClientNext]_clientVars => []ClientTypeOK
<1>1. ClientInit => ClientFlags
  BY ClientTypesInit DEF ClientFlags
<1>2. ClientFlags /\ [ClientNext]_clientVars => ClientFlags'
  BY TimerIsBoolean DEF ClientFlags
<1>3. ClientTypes /\ ClientFlags => ClientTypeOK
  BY ClientIsTyped DEF ClientFlags
<1>4. ClientInit => ClientTypes
  BY ClientTypesInit
<1>5. QED
  BY <1>1, <1>2, <1>3, <1>4, ClientTypesStep, PTL

-----------------------------------------------------------------------------
(* Webhook deliveries                                                      *)

\* The reference and the task come and go together.
RefIsTask == tasks = IF ref THEN 1 ELSE 0

\* The loop has a message at hand whenever its handler is not idle.
LoopHasMessage == handler[Loop] # "idle" => issue \in Relayed

\* The two flags have no part in the other types and keep theirs on their own.
FlagTypes == linked \in BOOLEAN /\ ref \in BOOLEAN

MoreTypes ==
  /\ outbox \in [Relayed -> {"waiting", "sent", "acked"}]
  /\ processed \in SUBSET Relayed /\ remembered \in SUBSET Direct
  /\ handler \in [Handlers -> {"idle", "verifying", "checking", "creating",
                               "acking"}]
  /\ issue \in Relayed \cup {Nobody}
  /\ tasks \in Nat
  /\ troubles \in 0..MaxTroubles
  /\ dispatched \in SUBSET Relayed

\* The inductive invariant.
DeliveryInv == MoreTypes /\ RefIsTask /\ LoopHasMessage

LEMMA DeliveryInitInv == DeliveryInit => DeliveryInv
  BY DeliveryAssumption
     DEF DeliveryInit, DeliveryInv, MoreTypes, RefIsTask, LoopHasMessage,
         Handlers

\* A handler moves on: the types of what it moves.
LEMMA TurnTypes ==
  ASSUME MoreTypes, LoopHasMessage, NEW h \in Handlers,
         NEW s \in {"idle", "verifying", "checking", "creating", "acking"},
         handler[h] # "idle", Turn(h, s)
  PROVE  /\ handler' \in [Handlers -> {"idle", "verifying", "checking",
                                       "creating", "acking"}]
         /\ dispatched' \in SUBSET Relayed
         /\ handler'[Loop] # "idle" => handler[Loop] # "idle"
  BY DEF MoreTypes, LoopHasMessage, Turn, Handlers

\* The relay's steps.
LEMMA RelayInv ==
  ASSUME DeliveryInv,
         \/ Link \/ LinkLost \/ Acknowledge
         \/ \E d \in Relayed : Repeat(d) \/ ReceiveMessage(d)
  PROVE  DeliveryInv'
  <1> USE DeliveryAssumption
          DEF DeliveryInv, MoreTypes, RefIsTask, LoopHasMessage, Handlers,
              Trouble, Turn
  <1>1. CASE Link
    BY <1>1 DEF Link
  <1>2. CASE LinkLost
    BY <1>2 DEF LinkLost
  <1>3. CASE Acknowledge
    BY <1>3 DEF Acknowledge
  <1>4. ASSUME NEW d \in Relayed, Repeat(d) PROVE DeliveryInv'
    BY <1>4 DEF Repeat
  <1>5. ASSUME NEW d \in Relayed, ReceiveMessage(d) PROVE DeliveryInv'
    BY <1>5 DEF ReceiveMessage
  <1>6. QED
    BY <1>1, <1>2, <1>3, <1>4, <1>5

\* A handler's steps.
LEMMA HandleInv ==
  ASSUME DeliveryInv, NEW h \in Handlers, Handle(h)
  PROVE  DeliveryInv'
  <1>1. CASE Verify(h)
    <2>1. PICK s \in {"checking", "idle", "acking"} : Turn(h, s)
      BY <1>1 DEF Verify, Ended
    <2>2. QED
      BY <1>1, <2>1, TurnTypes, DeliveryAssumption
         DEF Verify, DeliveryInv, MoreTypes, RefIsTask, LoopHasMessage,
             Trouble
  <1>2. CASE CheckRef(h)
    <2>1. PICK s \in {"creating", "idle", "acking"} : Turn(h, s)
      BY <1>2 DEF CheckRef, Ended
    <2>2. QED
      BY <1>2, <2>1, TurnTypes
         DEF CheckRef, DeliveryInv, MoreTypes, RefIsTask, LoopHasMessage
  <1>3. CASE CreateExternal(h)
    <2>1. Ended(h) \in {"idle", "acking"} /\ Turn(h, Ended(h))
      BY <1>3 DEF CreateExternal, Ended
    \* The unique constraint: the second one's insert changes nothing.
    <2>2. RefIsTask' /\ tasks' \in Nat
      BY <1>3 DEF CreateExternal, CreatedOnce, DeliveryInv, MoreTypes,
                  RefIsTask
    <2>3. QED
      BY <1>3, <2>1, <2>2, TurnTypes, DeliveryAssumption
         DEF CreateExternal, DeliveryInv, MoreTypes, LoopHasMessage, Trouble
  <1>4. QED
    BY <1>1, <1>2, <1>3 DEF Handle

LEMMA DeliveryStepInv == DeliveryInv /\ [DeliveryNext]_deliveryVars => DeliveryInv'
  <1> SUFFICES ASSUME DeliveryInv, [DeliveryNext]_deliveryVars
               PROVE  DeliveryInv'
    OBVIOUS
  <1>1. ASSUME NEW d \in Direct, PostWebhook(d) \/ Forget(d) PROVE DeliveryInv'
    BY <1>1, DeliveryAssumption
       DEF PostWebhook, Forget, DeliveryInv, MoreTypes, RefIsTask,
           LoopHasMessage, Handlers, Trouble, Turn
  <1>2. CASE DeleteExternal
    BY <1>2, DeliveryAssumption
       DEF DeleteExternal, DeliveryInv, MoreTypes, RefIsTask,
           LoopHasMessage, Trouble
  <1>3. CASE Restart
    BY <1>3, DeliveryAssumption
       DEF Restart, DeliveryInv, MoreTypes, RefIsTask, LoopHasMessage,
           Handlers, Trouble
  <1>4. CASE UNCHANGED deliveryVars
    BY <1>4
       DEF deliveryVars, DeliveryInv, MoreTypes, RefIsTask, LoopHasMessage
  <1>5. QED
    BY <1>1, <1>2, <1>3, <1>4, RelayInv, HandleInv
       DEF DeliveryNext, RelayWork, Handlers

LEMMA DeliveryInvariant == DeliverySpec => []DeliveryInv
  BY DeliveryInitInv, DeliveryStepInv, PTL DEF DeliverySpec

LEMMA FlagsKept == FlagTypes /\ [DeliveryNext]_deliveryVars => FlagTypes'
  <1> SUFFICES ASSUME FlagTypes, [DeliveryNext]_deliveryVars
               PROVE  FlagTypes'
    OBVIOUS
  <1>1. linked' = TRUE \/ linked' = FALSE \/ linked' = linked
    BY Zenon DEF DeliveryNext, RelayWork, Handle, Link, LinkLost, Repeat,
       ReceiveMessage, Acknowledge, PostWebhook, Forget, Verify, CheckRef,
       CreateExternal, DeleteExternal, Restart, deliveryVars
  <1>2. ref' = TRUE \/ ref' = FALSE \/ ref' = ref
    BY Zenon DEF DeliveryNext, RelayWork, Handle, Link, LinkLost, Repeat,
       ReceiveMessage, Acknowledge, PostWebhook, Forget, Verify, CheckRef,
       CreateExternal, CreatedOnce, DeleteExternal, Restart, deliveryVars
  <1>3. QED
    BY <1>1, <1>2, Zenon DEF FlagTypes

\* Type correctness of the relay, the webhook receiver and the handlers.
THEOREM DeliveryTypes == DeliverySpec => []DeliveryTypeOK
  <1>1. DeliveryInit => FlagTypes
    BY Zenon DEF DeliveryInit, FlagTypes
  <1>2. FlagTypes /\ DeliveryInv => DeliveryTypeOK
    BY Zenon DEF FlagTypes, DeliveryInv, MoreTypes, DeliveryTypeOK
  <1>3. QED
    BY <1>1, <1>2, FlagsKept, DeliveryInvariant, PTL DEF DeliverySpec

\* However many relayed messages and direct deliveries tell of an issue, and
\* however their handlers interleave, crash and are repeated, it has one task:
\* what the unique constraint of ExternalTaskRef gives and the deduplication
\* caches alone would not.
THEOREM IssueHasOneTask == DeliverySpec => []OneTaskPerIssue
  <1>1. DeliveryInv => OneTaskPerIssue
    BY DEF DeliveryInv, RefIsTask, OneTaskPerIssue
  <1>2. QED
    BY <1>1, DeliveryInvariant, PTL

-----------------------------------------------------------------------------
(* The replicas' locks                                                     *)

\* A replica that is releasing gave its lease up when it stopped.
ReleasingHasNone ==
  \A r \in Replicas : lp[r] \in {"releasing", "closing"} => r \notin lease

\* The inductive invariant.
LocksInv == LocksTypeOK /\ ReleasingHasNone /\ LeaseIsKey

LEMMA LocksInitInv == LocksInit => LocksInv
  BY DEF LocksInit, LocksInv, LocksTypeOK, ReleasingHasNone, LeaseIsKey

\* Every step of a replica, and the expiry of the key.
LEMMA LocksStepInv == LocksInv /\ [LocksNext]_lockVars => LocksInv'
  <1> SUFFICES ASSUME LocksInv, [LocksNext]_lockVars PROVE LocksInv'
    OBVIOUS
  <1> USE LocksAssumption
          DEF LocksInv, LocksTypeOK, ReleasingHasNone, LeaseIsKey
  <1>1. ASSUME NEW r \in Replicas, TrySet(r) PROVE LocksInv'
    BY <1>1 DEF TrySet, Move
  <1>2. ASSUME NEW r \in Replicas, ReadHolder(r) PROVE LocksInv'
    BY <1>2 DEF ReadHolder, Move
  <1>3. ASSUME NEW r \in Replicas, KeepLock(r) PROVE LocksInv'
    BY <1>3 DEF KeepLock, Move
  <1>4. ASSUME NEW r \in Replicas, EndPass(r) PROVE LocksInv'
    BY <1>4 DEF EndPass, Move
  <1>5. ASSUME NEW r \in Replicas, StopLoop(r) PROVE LocksInv'
    BY <1>5 DEF StopLoop, Move
  \* The scheduler's release deletes only the key of a replica without a lease;
  \* the cleanup's makes whoever held the key slip.
  <1>6. ASSUME NEW r \in Replicas, Release(r) PROVE LocksInv'
    <2>1. CASE lock = "zombie"
      BY <1>6, <2>1 DEF Release, Move, Deletes
    <2>2. CASE lock # "zombie"
      BY <1>6, <2>2 DEF Release, Move, Deletes
    <2>3. QED
      BY <2>1, <2>2
  <1>7. ASSUME NEW r \in Replicas, CrashReplica(r) PROVE LocksInv'
    BY <1>7 DEF CrashReplica, Move
  <1>8. ASSUME NEW r \in Replicas, StartReplica(r) PROVE LocksInv'
    BY <1>8 DEF StartReplica, Move
  <1>9. CASE Expire
    BY <1>9 DEF Expire
  <1>10. CASE UNCHANGED lockVars
    BY <1>10 DEF lockVars
  <1>11. QED
    BY <1>1, <1>2, <1>3, <1>4, <1>5, <1>6, <1>7, <1>8, <1>9, <1>10 DEF LocksNext

\* Two leases would both be the key's.
LEMMA LeaseIsOne == LocksInv => OneLease
  BY DEF LocksInv, LocksTypeOK, LeaseIsKey, OneLease, Leased

THEOREM LocksInvariant == LocksSpec => []LocksInv
  BY LocksInitInv, LocksStepInv, PTL DEF LocksSpec

\* Type correctness of the two Valkey locks (acquire_lock, acquire_zombie_lock).
THEOREM LocksTypes == LocksSpec => []LocksTypeOK
  <1>1. LocksInv => LocksTypeOK
    BY DEF LocksInv
  <1>2. QED
    BY <1>1, LocksInvariant, PTL

\* However many replicas contend for a lock, crash, stop and are late: while
\* the lock of one lasts no other works under it, but for a holder that kept a
\* key it had lost and one whose key the cleanup's unchecked release deleted.
THEOREM Leases == LocksSpec => []OneLease
  BY LocksInvariant, LeaseIsOne, PTL
=============================================================================
