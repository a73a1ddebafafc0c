---------------------------- MODULE ServerProofs ----------------------------
(***************************************************************************)
(* Proofs about the parts of the server around the task lifecycle: storage *)
(* tokens, mail loops, the tunnel to the desktop, providers of models and  *)
(* the profiles of tasks; for any number of requests, messages and servers.*)
(***************************************************************************)
EXTENDS StorageTokens, EmailPoller, CloudTunnel, LlmProviders, ProfileGrants,
        FiniteSetTheorems, TLAPS

-----------------------------------------------------------------------------
(* Storage tokens                                                          *)

OfDrive(d) == [access : {d}, refresh : {d, NoToken}]

Steps == {"free", "exchanging", "naming", "seen", "posting", "awaiting",
          "asking", "relayed", "relaying", "storing"}

AskerShape ==
  [step : Steps, drive : Drives \cup {NoToken}, own : Tokens,
   first : Drives \cup {NoToken}, answer : Drives \cup {NoToken, "refused"}]

\* What a request carries opens the drive it is about.
Minds(me) ==
  /\ me \in AskerShape
  /\ me.step # "free" => me.drive \in Drives
  /\ me.step \notin {"free", "exchanging", "seen"} => me.own \in OfDrive(me.drive)
  /\ me.first \in {NoToken, me.drive}
  /\ me.answer \in {NoToken, "refused", me.drive}

RequestsMind == asker \in [Askers -> AskerShape] /\ \A c \in Askers : Minds(asker[c])

\* A key has the request that waits for its drive.
KeysFit ==
  /\ pending \in [Drives \X {"result", "error"} -> Askers \cup {Nobody}]
  /\ \A k \in Drives \X {"result", "error"} :
       pending[k] # Nobody => /\ asker[pending[k]].drive = k[1]
                              /\ asker[pending[k]].step \in {"awaiting", "relayed"}

RowsAreTheirs ==
  /\ row \in [Drives -> Tokens] /\ linked \in [Drives -> BOOLEAN]
  /\ \A d \in Drives : IF linked[d] THEN row[d] \in OfDrive(d) ELSE row[d] = Blank

BearerIsWanted == bearer => wanted

\* The inductive invariant.
TokenInv == RequestsMind /\ KeysFit /\ RowsAreTheirs /\ BearerIsWanted

LEMMA OfDriveConnected ==
  ASSUME NEW d \in Drives, NEW t \in OfDrive(d)
  PROVE  t # Blank /\ t \in Tokens /\ t.access = d /\ t.refresh \in {d, NoToken}
BY TokenAssumption DEF OfDrive, Blank, Tokens

LEMMA FreeMinds == Minds(Free) /\ Free.step = "free"
BY DEF Minds, AskerShape, Steps, Tokens, Blank, Free

LEMMA TokenInitInv == TokensInit => TokenInv
<1> SUFFICES ASSUME TokensInit PROVE TokenInv
  OBVIOUS
<1>1. RequestsMind
  BY FreeMinds DEF TokensInit, RequestsMind, Minds
<1>2. KeysFit /\ RowsAreTheirs /\ BearerIsWanted
  BY DEF TokensInit, KeysFit, RowsAreTheirs, BearerIsWanted, Tokens, Blank
<1>3. QED
  BY <1>1, <1>2 DEF TokenInv

\* A request that no key has may become anything of its own drive.
LEMMA OneMoves ==
  ASSUME RequestsMind, KeysFit, NEW c \in Askers, NEW me, Minds(me),
         asker' = [asker EXCEPT ![c] = me], UNCHANGED pending,
         asker[c].step \notin {"awaiting", "relayed"}
  PROVE  RequestsMind' /\ KeysFit'
<1>1. RequestsMind'
  BY DEF RequestsMind, Minds
<1>2. KeysFit'
  BY DEF KeysFit, RequestsMind
<1>3. QED
  BY <1>1, <1>2

\* One that sends to the cloud takes the keys of its drive.
LEMMA OneSends ==
  ASSUME RequestsMind, KeysFit, NEW c \in Askers, NEW d \in Drives,
         NEW step \in {"awaiting", "relayed"},
         NEW first \in {d, NoToken}, NEW own \in OfDrive(d),
         asker[c].step \notin {"awaiting", "relayed"}, Sends(c, step, d, first, own)
  PROVE  RequestsMind' /\ KeysFit'
<1> DEFINE me == [step |-> step, drive |-> d, own |-> own, first |-> first, answer |-> NoToken]
<1>1. asker' = [asker EXCEPT ![c] = me]
  BY DEF Sends, Becomes
<1>2. Minds(me)
  BY OfDriveConnected DEF Minds, AskerShape, Steps
<1>3. pending' = [pending EXCEPT ![<<d, "result">>] = c, ![<<d, "error">>] = c]
  BY DEF Sends, Awaits, Key
<1>4. RequestsMind'
  BY <1>1, <1>2 DEF RequestsMind, Minds
<1>5. pending' \in [Drives \X {"result", "error"} -> Askers \cup {Nobody}]
  BY <1>3 DEF KeysFit
<1>6. ASSUME NEW k \in Drives \X {"result", "error"}, pending'[k] # Nobody
      PROVE  /\ asker'[pending'[k]].drive = k[1]
             /\ asker'[pending'[k]].step \in {"awaiting", "relayed"}
  <2>1. CASE k[1] = d
    <3>1. pending'[k] = c
      BY <1>3, <2>1 DEF KeysFit
    <3>2. asker'[c] = me
      BY <1>1 DEF RequestsMind
    <3>3. QED
      BY <2>1, <3>1, <3>2
  <2>2. CASE k[1] # d
    <3>1. pending'[k] = pending[k] /\ pending[k] # c
      BY <1>3, <1>6, <2>2 DEF KeysFit
    <3>2. asker'[pending[k]] = asker[pending[k]]
      BY <1>1, <1>6, <3>1 DEF RequestsMind, KeysFit
    <3>3. QED
      BY <1>6, <3>1, <3>2 DEF KeysFit
  <2>3. QED
    BY <2>1, <2>2
<1>7. KeysFit'
  BY <1>5, <1>6 DEF KeysFit
<1>8. QED
  BY <1>4, <1>7

\* One that stops to wait gives the keys up.
LEMMA OneStops ==
  ASSUME RequestsMind, KeysFit, NEW c \in Askers, StopsWaiting(c)
  PROVE  RequestsMind' /\ KeysFit'
<1> DEFINE me == asker[c]
<1>1. /\ me.drive \in Drives /\ me.own \in OfDrive(me.drive)
      /\ me.first \in {NoToken, me.drive} /\ me.answer \in {NoToken, "refused", me.drive}
      /\ me.step \in {"awaiting", "relayed"}
  BY DEF RequestsMind, Minds, StopsWaiting
<1>2. PICK you : asker' = [asker EXCEPT ![c] = you] /\ Minds(you)
  <2>1. CASE me.answer \in {NoToken, "refused"} /\ me.step = "awaiting"
    <3> DEFINE you == [step |-> "asking", drive |-> me.drive, own |-> me.own,
                       first |-> me.first, answer |-> NoToken]
    <3>1. asker' = [asker EXCEPT ![c] = you]
      BY <2>1 DEF StopsWaiting, Becomes
    <3>2. Minds(you)
      BY <1>1, OfDriveConnected DEF Minds, AskerShape, Steps
    <3>3. QED
      BY <3>1, <3>2
  <2>2. CASE me.answer \in {NoToken, "refused"} /\ me.step # "awaiting"
    BY <2>2, FreeMinds DEF StopsWaiting, Gives
  <2>3. CASE me.answer \notin {NoToken, "refused"}
    <3>1. PICK r \in {me.answer, me.own.refresh} :
            Becomes(c, IF me.step = "awaiting" THEN "storing" ELSE "relaying",
                    me.drive, me.first, [access |-> me.answer, refresh |-> r])
      BY <2>3 DEF StopsWaiting
    <3> DEFINE you == [step |-> IF me.step = "awaiting" THEN "storing" ELSE "relaying",
                       drive |-> me.drive, own |-> [access |-> me.answer, refresh |-> r],
                       first |-> me.first, answer |-> NoToken]
    <3>2. asker' = [asker EXCEPT ![c] = you]
      BY <3>1 DEF Becomes
    <3>3. me.answer = me.drive /\ r \in {me.drive, NoToken}
      BY <1>1, <2>3 DEF OfDrive
    <3>4. Minds(you)
      BY <1>1, <3>3, OfDriveConnected DEF Minds, AskerShape, Steps, OfDrive
    <3>5. QED
      BY <3>2, <3>4
  <2>4. QED
    BY <2>1, <2>2, <2>3
<1>3. RequestsMind'
  BY <1>2 DEF RequestsMind, Minds
<1>4. pending' = [pending EXCEPT ![<<me.drive, "result">>] = Nobody,
                                 ![<<me.drive, "error">>] = Nobody]
  BY DEF StopsWaiting, Forgets, Key
<1>5. pending' \in [Drives \X {"result", "error"} -> Askers \cup {Nobody}]
  BY <1>4 DEF KeysFit
<1>6. ASSUME NEW k \in Drives \X {"result", "error"}, pending'[k] # Nobody
      PROVE  pending'[k] = pending[k] /\ pending[k] # c
  BY <1>1, <1>4, <1>6 DEF KeysFit
<1>7. \A q \in Askers \ {c} : asker'[q] = asker[q]
  BY <1>2 DEF RequestsMind
<1>8. KeysFit'
  BY <1>5, <1>6, <1>7 DEF KeysFit
<1>9. QED
  BY <1>3, <1>8

\* An answer reaches the request its key has.
LEMMA AnswerFits ==
  ASSUME RequestsMind, KeysFit, NEW d \in Drives, NEW kind \in {"result", "error"},
         NEW answer \in {d, "refused"}, Resolves(Key(d, kind), answer)
  PROVE  RequestsMind' /\ KeysFit'
<1> DEFINE key == <<d, kind>>
<1>1. /\ pending' = [pending EXCEPT ![key] = Nobody]
      /\ asker' = [c \in Askers |->
           IF c = pending[key] /\ asker[c].answer = NoToken
           THEN [asker[c] EXCEPT !.answer = answer] ELSE asker[c]]
  BY DEF Resolves, Key
<1>2. \A c \in Askers : /\ Minds(asker'[c])
                        /\ asker'[c].drive = asker[c].drive /\ asker'[c].step = asker[c].step
  <2> SUFFICES ASSUME NEW c \in Askers
               PROVE  /\ Minds(asker'[c])
                      /\ asker'[c].drive = asker[c].drive /\ asker'[c].step = asker[c].step
    OBVIOUS
  <2>1. Minds(asker[c])
    BY DEF RequestsMind
  <2>2. CASE asker'[c] = asker[c]
    BY <2>1, <2>2
  <2>3. CASE c = pending[key] /\ asker'[c] = [asker[c] EXCEPT !.answer = answer]
    <3>1. asker[c].drive = d
      BY <2>3, TokenAssumption DEF KeysFit
    <3>2. QED
      BY <2>1, <2>3, <3>1 DEF Minds, AskerShape
  <2>4. QED
    BY <1>1, <2>2, <2>3
<1>3. RequestsMind'
  BY <1>1, <1>2 DEF RequestsMind, Minds
<1>4. KeysFit'
  BY <1>1, <1>2 DEF KeysFit
<1>5. QED
  BY <1>3, <1>4

\* The requests of one drive store what opens it, and only in a row that is there.
LEMMA UpdateFits ==
  ASSUME RowsAreTheirs, NEW d \in Drives, NEW t \in OfDrive(d),
         row' = Updates(d, t), UNCHANGED linked
  PROVE  RowsAreTheirs'
BY OfDriveConnected DEF RowsAreTheirs, Updates, Connected

LEMMA LinkFits ==
  ASSUME RowsAreTheirs, NEW d \in Drives, NEW t \in OfDrive(d), LinksDrive(d, t)
  PROVE  RowsAreTheirs'
BY OfDriveConnected DEF RowsAreTheirs, LinksDrive

\* What a request reads from the row of its drive.
LEMMA RowRead ==
  ASSUME RowsAreTheirs, NEW d \in Drives
  PROVE  /\ Connected(d) <=> linked[d]
         /\ Connected(d) => row[d] \in OfDrive(d)
         /\ row[d].refresh \in {d, NoToken}
         /\ row[d].refresh # NoToken => Connected(d)
BY OfDriveConnected DEF RowsAreTheirs, Connected, Blank

\* A request that is not waiting becomes another one of its drive, or free.
LEMMA OneBecomes ==
  ASSUME RequestsMind, KeysFit, NEW c \in Askers, NEW d \in Drives,
         asker[c].step \notin {"awaiting", "relayed"}, UNCHANGED pending,
         \/ Gives(c)
         \/ \E step \in Steps, first \in {d, NoToken}, own \in Tokens :
              /\ step \in {"exchanging", "seen"} \/ own \in OfDrive(d)
              /\ Becomes(c, step, d, first, own)
  PROVE  RequestsMind' /\ KeysFit'
<1>1. CASE Gives(c)
  BY <1>1, OneMoves, FreeMinds DEF Gives
<1>2. ASSUME NEW step \in Steps, NEW first \in {d, NoToken}, NEW own \in Tokens,
             step \in {"exchanging", "seen"} \/ own \in OfDrive(d),
             Becomes(c, step, d, first, own)
      PROVE  RequestsMind' /\ KeysFit'
  <2> DEFINE me == [step |-> step, drive |-> d, own |-> own, first |-> first,
                    answer |-> NoToken]
  <2>1. Minds(me)
    BY <1>2 DEF Minds, AskerShape
  <2>2. asker' = [asker EXCEPT ![c] = me]
    BY <1>2 DEF Becomes
  <2>3. QED
    BY <2>1, <2>2, OneMoves
<1>3. QED
  BY <1>1, <1>2

LEMMA RefreshesFit ==
  ASSUME RequestsMind, KeysFit, RowsAreTheirs, NEW c \in Askers, NEW d \in Drives,
         asker[c].step \notin {"awaiting", "relayed"}, Connected(d), Refreshes(c, d)
  PROVE  RequestsMind' /\ KeysFit'
<1> DEFINE own == row[d]
<1>1. own \in OfDrive(d) /\ own \in Tokens /\ own.refresh \in {d, NoToken}
  BY RowRead, OfDriveConnected
<1>2. CASE own.refresh = NoToken
  BY <1>2, OneBecomes DEF Refreshes
<1>3. CASE own.refresh # NoToken /\ d \in local
  <2>1. Becomes(c, "posting", d, own.refresh, own) /\ UNCHANGED pending
    BY <1>3 DEF Refreshes
  <2>2. QED
    BY <1>1, <2>1, OneBecomes DEF Steps
<1>4. CASE own.refresh # NoToken /\ d \notin local
  <2>1. \/ Sends(c, "awaiting", d, own.refresh, own)
        \/ Becomes(c, "asking", d, own.refresh, own) /\ UNCHANGED pending
    BY <1>4 DEF Refreshes
  <2>2. CASE Sends(c, "awaiting", d, own.refresh, own)
    BY <1>1, <2>2, OneSends
  <2>3. CASE Becomes(c, "asking", d, own.refresh, own) /\ UNCHANGED pending
    BY <1>1, <2>3, OneBecomes DEF Steps
  <2>4. QED
    BY <2>1, <2>2, <2>3
<1>5. QED
  BY <1>2, <1>3, <1>4

\* The steps of one request.
LEMMA RequestStepInv ==
  ASSUME TokenInv, NEW c \in Askers,
         \/ \E d \in Drives : ReturnsFromConsent(c, d) \/ TaskRefreshes(c, d) \/ GatewayCalls(c, d)
         \/ ExchangesCode(c) \/ StoresGrantedTokens(c) \/ GatewayRefreshes(c)
         \/ ProviderAnswers(c) \/ StopsWaiting(c) \/ AsksServer(c)
         \/ EndpointStores(c) \/ StoresRefreshed(c)
  PROVE  TokenInv'
<1> USE DEF TokenInv
<1>r. Minds(asker[c]) /\ Blank \in Tokens
  BY DEF RequestsMind, Blank, Tokens
<1>1. ASSUME NEW d \in Drives, ReturnsFromConsent(c, d) PROVE TokenInv'
  <2> DEFINE me == [Free EXCEPT !.step = "exchanging", !.drive = d]
  <2>1. Minds(me)
    BY DEF Minds, AskerShape, Steps, Free, Blank, Tokens
  <2>2. RequestsMind' /\ KeysFit'
    BY <1>1, <2>1, OneMoves, FreeMinds DEF ReturnsFromConsent
  <2>3. QED
    BY <1>1, <2>2 DEF ReturnsFromConsent, RowsAreTheirs, BearerIsWanted
<1>2. ASSUME NEW d \in Drives, TaskRefreshes(c, d) PROVE TokenInv'
  <2>1. RequestsMind' /\ KeysFit'
    BY <1>2, RefreshesFit, FreeMinds DEF TaskRefreshes
  <2>2. QED
    BY <1>2, <2>1 DEF TaskRefreshes, RowsAreTheirs, BearerIsWanted
<1>3. ASSUME NEW d \in Drives, GatewayCalls(c, d) PROVE TokenInv'
  <2>1. RequestsMind' /\ KeysFit'
    BY <1>3, <1>r, OneBecomes, FreeMinds DEF GatewayCalls, Steps
  <2>2. QED
    BY <1>3, <2>1 DEF GatewayCalls, RowsAreTheirs, BearerIsWanted
<1>4. CASE ExchangesCode(c)
  <2> DEFINE d == asker[c].drive
  <2>1. d \in Drives /\ asker[c].step = "exchanging" /\ UNCHANGED pending
    BY <1>4, <1>r DEF ExchangesCode, Minds
  <2>2. ASSUME NEW r \in {d, row[d].refresh},
               asker' = [asker EXCEPT ![c].step = "naming",
                                      ![c].own = [access |-> d, refresh |-> r]]
        PROVE  RequestsMind' /\ KeysFit'
    <3> DEFINE me == [asker[c] EXCEPT !.step = "naming",
                                      !.own = [access |-> d, refresh |-> r]]
    <3>1. [access |-> d, refresh |-> r] \in OfDrive(d)
      BY <2>1, RowRead DEF OfDrive
    <3>2. Minds(me)
      BY <1>r, <2>1, <3>1, OfDriveConnected DEF Minds, AskerShape, Steps
    <3>3. asker' = [asker EXCEPT ![c] = me]
      BY <2>2 DEF RequestsMind, AskerShape
    <3>4. QED
      BY <2>1, <3>2, <3>3, OneMoves
  <2>3. ASSUME asker' = [asker EXCEPT ![c] = Free] PROVE RequestsMind' /\ KeysFit'
    BY <2>1, <2>3, OneMoves, FreeMinds
  <2>4. QED
    BY <1>4, <2>2, <2>3 DEF ExchangesCode, RowsAreTheirs, BearerIsWanted
<1>5. CASE StoresGrantedTokens(c)
  <2>1. asker[c].drive \in Drives /\ asker[c].own \in OfDrive(asker[c].drive)
    BY <1>5, <1>r DEF StoresGrantedTokens, Minds
  <2>2. RequestsMind' /\ KeysFit'
    BY <1>5, OneMoves, FreeMinds DEF StoresGrantedTokens
  <2>3. RowsAreTheirs'
    BY <1>5, <2>1, LinkFits DEF StoresGrantedTokens, RowsAreTheirs
  <2>4. QED
    BY <1>5, <2>2, <2>3 DEF StoresGrantedTokens, BearerIsWanted
<1>6. CASE GatewayRefreshes(c)
  <2>1. asker[c].drive \in Drives /\ asker[c].step = "seen"
    BY <1>6, <1>r DEF GatewayRefreshes, Minds
  <2>2. RequestsMind' /\ KeysFit'
    <3>1. CASE Connected(asker[c].drive) /\ Refreshes(c, asker[c].drive)
      BY <2>1, <3>1, RefreshesFit
    <3>2. CASE Gives(c) /\ UNCHANGED pending
      BY <2>1, <3>2, OneBecomes
    <3>3. QED
      BY <1>6, <3>1, <3>2 DEF GatewayRefreshes
  <2>3. QED
    BY <1>6, <2>2 DEF GatewayRefreshes, Renewed, RowsAreTheirs, BearerIsWanted
<1>7. CASE ProviderAnswers(c)
  <2> DEFINE me == asker[c]
  <2>1. me.drive \in Drives /\ me.own.refresh \in {me.drive, NoToken}
        /\ me.first \in {me.drive, NoToken} /\ me.step = "posting"
        /\ UNCHANGED pending
    BY <1>7, <1>r, OfDriveConnected DEF ProviderAnswers, Minds
  <2>2. ASSUME NEW r \in {me.drive, me.own.refresh},
               Becomes(c, "storing", me.drive, me.first, [access |-> me.drive, refresh |-> r])
        PROVE  RequestsMind' /\ KeysFit'
    <3>1. [access |-> me.drive, refresh |-> r] \in OfDrive(me.drive) \cap Tokens
      BY <2>1 DEF OfDrive, Tokens
    <3>2. QED
      BY <2>1, <2>2, <3>1, OneBecomes DEF Steps
  <2>3. ASSUME Gives(c) PROVE RequestsMind' /\ KeysFit'
    BY <2>1, <2>3, OneBecomes
  <2>4. QED
    BY <1>7, <2>2, <2>3 DEF ProviderAnswers, RowsAreTheirs, BearerIsWanted
<1>8. CASE StopsWaiting(c)
  BY <1>8, OneStops DEF StopsWaiting, RowsAreTheirs, BearerIsWanted
<1>9. CASE AsksServer(c)
  <2> DEFINE d == asker[c].drive
  <2>1. d \in Drives /\ asker[c].first \in {d, NoToken} /\ asker[c].step = "asking"
    BY <1>9, <1>r DEF AsksServer, Minds
  <2>2. ASSUME Gives(c), UNCHANGED pending PROVE RequestsMind' /\ KeysFit'
    BY <2>1, <2>2, OneBecomes
  <2>3. ASSUME Connected(d), Sends(c, "relayed", d, asker[c].first, row[d])
        PROVE  RequestsMind' /\ KeysFit'
    BY <2>1, <2>3, RowRead, OneSends
  <2>4. QED
    BY <1>9, <2>2, <2>3 DEF AsksServer, RowsAreTheirs, BearerIsWanted
<1>10. CASE EndpointStores(c)
  <2> DEFINE me == asker[c]
  <2>1. /\ me.drive \in Drives /\ me.own \in OfDrive(me.drive)
        /\ me.first \in {me.drive, NoToken} /\ me.step = "relaying"
    BY <1>10, <1>r DEF EndpointStores, Minds
  <2>2. [me.own EXCEPT !.refresh = me.first] \in OfDrive(me.drive) \cap Tokens
    BY <2>1 DEF OfDrive, Tokens
  <2>3. RequestsMind' /\ KeysFit'
    BY <1>10, <2>1, <2>2, OneBecomes DEF EndpointStores, Steps
  <2>4. RowsAreTheirs'
    BY <1>10, <2>1, UpdateFits DEF EndpointStores
  <2>5. QED
    BY <1>10, <2>3, <2>4 DEF EndpointStores, BearerIsWanted
<1>11. CASE StoresRefreshed(c)
  <2>1. /\ asker[c].drive \in Drives /\ asker[c].own \in OfDrive(asker[c].drive)
        /\ asker[c].step = "storing"
    BY <1>11, <1>r DEF StoresRefreshed, Minds
  <2>2. RequestsMind' /\ KeysFit'
    BY <1>11, <2>1, OneBecomes DEF StoresRefreshed
  <2>3. RowsAreTheirs'
    BY <1>11, <2>1, UpdateFits DEF StoresRefreshed
  <2>4. QED
    BY <1>11, <2>2, <2>3 DEF StoresRefreshed, BearerIsWanted
<1>12. QED
  BY <1>1, <1>2, <1>3, <1>4, <1>5, <1>6, <1>7, <1>8, <1>9, <1>10, <1>11

LEMMA TokenStepInv == TokenInv /\ [TokensNext]_tokenVars => TokenInv'
<1> SUFFICES ASSUME TokenInv, [TokensNext]_tokenVars PROVE TokenInv'
  OBVIOUS
<1> USE DEF TokenInv
<1>1. ASSUME UNCHANGED <<pending, asker>> PROVE RequestsMind' /\ KeysFit'
  BY <1>1 DEF RequestsMind, KeysFit, Minds
<1>2. ASSUME NEW d \in Drives, Authorises(d) \/ TokensArrive(d) \/ DisconnectsDrive(d)
      PROVE  TokenInv'
  <2>1. CASE Authorises(d)
    BY <1>1, <2>1 DEF Authorises, RowsAreTheirs, BearerIsWanted
  <2>2. CASE TokensArrive(d)
    <3>1. PICK r \in {d, NoToken} : LinksDrive(d, [access |-> d, refresh |-> r])
      BY <2>2 DEF TokensArrive
    <3>2. [access |-> d, refresh |-> r] \in OfDrive(d)
      BY DEF OfDrive
    <3>3. RowsAreTheirs'
      BY <3>1, <3>2, LinkFits
    <3>4. QED
      BY <1>1, <2>2, <3>3 DEF TokensArrive, BearerIsWanted
  <2>3. CASE DisconnectsDrive(d)
    <3>1. RowsAreTheirs'
      BY <2>3 DEF DisconnectsDrive, RowsAreTheirs, Tokens, Blank
    <3>2. QED
      BY <1>1, <2>3, <3>1 DEF DisconnectsDrive, BearerIsWanted
  <2>4. QED
    BY <1>2, <2>1, <2>2, <2>3
<1>3. ASSUME NEW d \in Drives, CloudAnswers(d) \/ CloudRefuses(d) PROVE TokenInv'
  <2>1. RequestsMind' /\ KeysFit'
    BY <1>3, AnswerFits DEF CloudAnswers, CloudRefuses
  <2>2. QED
    BY <1>3, <2>1 DEF CloudAnswers, CloudRefuses, RowsAreTheirs, BearerIsWanted
<1>4. CASE CloudChanges \/ BearerExpires \/ \E on \in BOOLEAN : ServerStarts(on)
  BY <1>1, <1>4 DEF CloudChanges, BearerExpires, ServerStarts, RowsAreTheirs, BearerIsWanted
<1>5. CASE UNCHANGED tokenVars
  BY <1>1, <1>5 DEF tokenVars, RowsAreTheirs, BearerIsWanted
<1>6. QED
  BY <1>2, <1>3, <1>4, <1>5, RequestStepInv DEF TokensNext

\* A drive whose user disconnected it stays so, whatever refreshes were under
\* way, and its tokens are its own, whoever's answers the cloud mixed up.
THEOREM DisconnectionLasts == TokensSpec => []DisconnectedStaysSo
<1>1. TokenInv => DisconnectedStaysSo
  BY RowRead, OfDriveConnected DEF TokenInv, DisconnectedStaysSo, RowsAreTheirs, BearerIsWanted
<1>2. QED
  BY <1>1, TokenInitInv, TokenStepInv, PTL DEF TokensSpec

-----------------------------------------------------------------------------
(* Mail                                                                    *)

\* What a loop may still make of a message: the task it has fetched it for, and
\* one more while it is, or comes to be, unseen, or is on the loop's list.
Holds(p, m) == poller[p].step = "fetched" /\ poller[p].mail = m
Open(p, m) == mailbox[m] # "seen" \/ m \in poller[p].listed

MailShape ==
  /\ mailbox \in [Mails -> {"absent", "unseen", "seen"}]
  /\ poller \in [Pollers ->
       [step : {"off", "checking", "waiting", "listed", "fetched", "created"},
        listed : SUBSET Mails, mail : Mails \cup {NoMail},
        then : {"off", "checking", "waiting"}]]
  /\ mailed \in [Mails \X Pollers -> Nat]
  /\ unreads \in [Mails -> Nat]
  /\ \A p \in Pollers : poller[p].step \in {"fetched", "created"} => poller[p].mail \in Mails

\* Each of the two is one that the owner has left to be made.
Budget(p, m) ==
  /\ mailed[<<m, p>>] <= unreads[m] + 1
  /\ Holds(p, m) \/ Open(p, m) => mailed[<<m, p>>] <= unreads[m]
  /\ Holds(p, m) /\ Open(p, m) => mailed[<<m, p>>] < unreads[m]

WithinBudget == \A p \in Pollers, m \in Mails : Budget(p, m)

MailInv == MailShape /\ WithinBudget

LEMMA MailInitInv == MailInit => MailInv
BY DEF MailInit, MailInv, MailShape, WithinBudget, Budget, Holds, Open, Off

\* A message that a step opens no further keeps its budget.
LEMMA BudgetRests ==
  ASSUME NEW p \in Pollers, NEW m \in Mails, Budget(p, m),
         mailed'[<<m, p>>] = mailed[<<m, p>>], unreads'[m] = unreads[m],
         Holds(p, m)' => Holds(p, m), Open(p, m)' => Open(p, m)
  PROVE  Budget(p, m)'
BY DEF Budget

LEMMA OwnerInv ==
  ASSUME MailInv, NEW m \in Mails, Arrives(m) \/ OwnerReads(m) \/ OwnerUnreads(m)
  PROVE  MailInv'
<1>1. MailShape'
  BY DEF MailInv, MailShape, Arrives, OwnerReads, OwnerUnreads
<1>2. ASSUME NEW p \in Pollers, NEW k \in Mails PROVE Budget(p, k)'
  <2>1. Budget(p, k) /\ mailed' = mailed /\ poller' = poller
    BY DEF MailInv, WithinBudget, Arrives, OwnerReads, OwnerUnreads
  <2>2. CASE UNCHANGED unreads /\ (mailbox'[k] = "seen" \/ mailbox[k] # "seen")
    BY <2>1, <2>2, BudgetRests DEF Holds, Open
  <2>3. CASE k = m /\ mailbox[k] = "seen" /\ unreads'[k] = unreads[k] + 1
    <3>1. mailed[<<k, p>>] \in Nat /\ unreads[k] \in Nat
      BY DEF MailInv, MailShape
    <3>2. QED
      BY <2>1, <2>3, <3>1 DEF Budget, Holds, Open
  <2>4. CASE k # m /\ mailbox'[k] = mailbox[k] /\ unreads'[k] = unreads[k]
    BY <2>1, <2>4, BudgetRests DEF Holds, Open
  <2>5. QED
    BY <2>2, <2>3, <2>4 DEF MailInv, MailShape, Arrives, OwnerReads, OwnerUnreads
<1>3. QED
  BY <1>1, <1>2 DEF MailInv, WithinBudget

\* Loop p holds no message it has fetched, and has listed only what it had, or
\* what is unseen.
Idles(p) ==
  \E next \in [step : {"off", "checking", "waiting", "listed"}, listed : SUBSET Mails,
               mail : Mails \cup {NoMail}, then : {"off", "checking", "waiting"}] :
    /\ next.listed \subseteq poller[p].listed \cup {m \in Mails : mailbox[m] = "unseen"}
    /\ poller' = [poller EXCEPT ![p] = next]

\* The steps before a message is fetched, and after its task is made.
LEMMA QuietInv ==
  ASSUME MailInv, NEW p \in Pollers,
         \/ Connects(p) \/ ChecksMail(p) \/ Wakes(p) \/ FailsToCreate(p)
         \/ MarksSeen(p) \/ EndsListing(p) \/ StopsPolling(p)
         \/ \E m \in Mails : MissesMail(p, m)
  PROVE  MailInv'
<1>1. Idles(p)
  <2> USE DEF Idles, Goes, At, Off
  <2>1. CASE Connects(p) \/ StopsPolling(p)
    BY <2>1 DEF Connects, StopsPolling
  <2>2. ASSUME NEW to \in {"checking", "waiting"}, ListsUnseen(p, to) PROVE Idles(p)
    <3> DEFINE found == {m \in Mails : mailbox[m] = "unseen"}
               next == IF found = {} THEN [Off EXCEPT !.step = to]
                       ELSE [step |-> "listed", listed |-> found, mail |-> NoMail,
                             then |-> to]
    <3>1. poller' = [poller EXCEPT ![p] = next]
      BY <2>2 DEF ListsUnseen
    <3>2. next.listed \subseteq found
      OBVIOUS
    <3>3. next \in [step : {"off", "checking", "waiting", "listed"}, listed : SUBSET Mails,
                    mail : Mails \cup {NoMail}, then : {"off", "checking", "waiting"}]
      OBVIOUS
    <3>4. QED
      BY <3>1, <3>2, <3>3
  <2>3. CASE ChecksMail(p) \/ Wakes(p)
    BY <2>2, <2>3 DEF ChecksMail, Wakes
  <2>4. CASE FailsToCreate(p) \/ MarksSeen(p)
    <3> DEFINE next == [poller[p] EXCEPT !.step = "listed", !.mail = NoMail]
    <3>1. poller' = [poller EXCEPT ![p] = next]
      BY <2>4 DEF FailsToCreate, MarksSeen
    <3>2. next.listed = poller[p].listed
      BY DEF MailInv, MailShape
    <3>3. next \in [step : {"off", "checking", "waiting", "listed"}, listed : SUBSET Mails,
                    mail : Mails \cup {NoMail}, then : {"off", "checking", "waiting"}]
      BY DEF MailInv, MailShape
    <3>4. QED
      BY <3>1, <3>2, <3>3
  <2>5. CASE EndsListing(p)
    BY <2>5 DEF MailInv, MailShape, EndsListing
  <2>6. CASE \E m \in Mails : MissesMail(p, m)
    BY <2>6, ZenonT(60) DEF MailInv, MailShape, MissesMail
  <2>7. QED
    BY <2>1, <2>3, <2>4, <2>5, <2>6
<1>2. /\ UNCHANGED <<mailed, unreads>>
      /\ mailbox' \in [Mails -> {"absent", "unseen", "seen"}]
      /\ \A m \in Mails : mailbox'[m] = "seen" \/ mailbox'[m] = mailbox[m]
  BY DEF MailInv, MailShape, Connects, ChecksMail, Wakes, FailsToCreate, MarksSeen,
         EndsListing, StopsPolling, MissesMail
<1>3. MailShape'
  BY <1>1, <1>2 DEF MailInv, MailShape, Idles
<1>4. ASSUME NEW q \in Pollers, NEW m \in Mails PROVE Budget(q, m)'
  <2>1. Holds(q, m)' => Holds(q, m)
    BY <1>1 DEF MailInv, MailShape, Idles, Holds
  <2>2. Open(q, m)' => Open(q, m)
    BY <1>1, <1>2 DEF MailInv, MailShape, Idles, Open
  <2>3. QED
    BY <1>2, <2>1, <2>2, BudgetRests DEF MailInv, WithinBudget
<1>5. QED
  BY <1>3, <1>4 DEF MailInv, WithinBudget

\* To fetch a message closes it: the server marks it seen, the loop strikes it
\* off.
LEMMA FetchInv ==
  ASSUME MailInv, NEW p \in Pollers, NEW m \in Mails, FetchesMail(p, m)
  PROVE  MailInv'
<1>1. PICK next :
        /\ poller' = [poller EXCEPT ![p] = next]
        /\ next.listed = poller[p].listed \ {m}
        /\ \/ next.step = "fetched" /\ next.mail = m
           \/ next.step = "listed"
        /\ next \in [step : {"listed", "fetched"}, listed : SUBSET Mails,
                     mail : Mails \cup {NoMail}, then : {"off", "checking", "waiting"}]
  <2> DEFINE Kept == [poller[p] EXCEPT !.listed = @ \ {m}]
             Taken == [poller[p] EXCEPT !.step = "fetched", !.mail = m,
                                        !.listed = @ \ {m}]
             Next(next) ==
               /\ next.listed = poller[p].listed \ {m}
               /\ \/ next.step = "fetched" /\ next.mail = m
                  \/ next.step = "listed"
               /\ next \in [step : {"listed", "fetched"}, listed : SUBSET Mails,
                            mail : Mails \cup {NoMail},
                            then : {"off", "checking", "waiting"}]
  <2>1. poller[p].step = "listed"
    BY DEF FetchesMail, At
  <2>2. Next(Kept) /\ Next(Taken)
    BY <2>1 DEF MailInv, MailShape
  <2>3. \/ poller' = [poller EXCEPT ![p] = Kept]
        \/ poller' = [poller EXCEPT ![p] = Taken]
    BY DEF FetchesMail, Goes
  <2>4. QED
    BY <2>2, <2>3
<1>2. /\ UNCHANGED <<mailed, unreads>> /\ mailbox' = [mailbox EXCEPT ![m] = "seen"]
      /\ m \in poller[p].listed /\ poller[p].step = "listed"
  BY DEF FetchesMail, SeenByFetch, At
<1>3. MailShape'
  BY <1>1, <1>2 DEF MailInv, MailShape
<1>4. ASSUME NEW q \in Pollers, NEW k \in Mails PROVE Budget(q, k)'
  <2>1. Budget(q, k)
    BY DEF MailInv, WithinBudget
  <2>2. Open(q, k)' => Open(q, k)
    BY <1>1, <1>2 DEF MailInv, MailShape, Open
  <2>3. CASE q = p /\ k = m
    <3>1. Open(q, k) /\ ~Holds(q, k) /\ ~Open(q, k)'
      BY <1>1, <1>2, <2>3 DEF MailInv, MailShape, Open, Holds
    <3>2. QED
      BY <1>2, <2>1, <3>1 DEF Budget
  <2>4. CASE q # p \/ k # m
    <3>1. Holds(q, k)' => Holds(q, k)
      BY <1>1, <1>2, <2>4 DEF MailInv, MailShape, Holds
    <3>2. QED
      BY <1>2, <2>1, <2>2, <3>1, BudgetRests
  <2>5. QED
    BY <2>3, <2>4
<1>5. QED
  BY <1>3, <1>4 DEF MailInv, WithinBudget

\* The task is the one the message was fetched for.
LEMMA CreateInv ==
  ASSUME MailInv, NEW p \in Pollers, CreatesFromMail(p)
  PROVE  MailInv'
<1>0. PICK m \in Mails : m = poller[p].mail
  BY DEF MailInv, MailShape, CreatesFromMail, At
<1>1. PICK next :
        /\ m = poller[p].mail /\ poller[p].step = "fetched"
        /\ mailed' = [mailed EXCEPT ![<<m, p>>] = @ + 1]
        /\ poller' = [poller EXCEPT ![p] = next]
        /\ next.step = "created" /\ next.listed = poller[p].listed /\ next.mail = m
        /\ next \in [step : {"created"}, listed : SUBSET Mails,
                     mail : Mails, then : {"off", "checking", "waiting"}]
  <2> DEFINE made == [poller[p] EXCEPT !.step = "created"]
  <2>1. /\ poller[p].step = "fetched"
        /\ mailed' = [mailed EXCEPT ![<<m, p>>] = @ + 1]
        /\ poller' = [poller EXCEPT ![p] = made]
    BY <1>0 DEF CreatesFromMail, Goes, At
  <2>2. /\ made.step = "created" /\ made.listed = poller[p].listed
        /\ made.mail = m
        /\ made \in [step : {"created"}, listed : SUBSET Mails,
                     mail : Mails, then : {"off", "checking", "waiting"}]
    BY <1>0 DEF MailInv, MailShape
  <2>3. QED
    BY <1>0, <2>1, <2>2
<1>2. UNCHANGED <<mailbox, unreads>>
  BY DEF CreatesFromMail
<1>3. MailShape'
  BY <1>1, <1>2 DEF MailInv, MailShape
<1>4. ASSUME NEW q \in Pollers, NEW k \in Mails PROVE Budget(q, k)'
  <2>1. Budget(q, k) /\ mailed[<<k, q>>] \in Nat /\ unreads[k] \in Nat
    BY DEF MailInv, MailShape, WithinBudget
  <2>2. Open(q, k)' => Open(q, k)
    BY <1>1, <1>2 DEF MailInv, MailShape, Open
  <2>3. CASE q = p /\ k = m
    <3>1. Holds(q, k) /\ ~Holds(q, k)'
      BY <1>1, <2>3 DEF MailInv, MailShape, Holds
    <3>2. mailed'[<<k, q>>] = mailed[<<k, q>>] + 1 /\ unreads'[k] = unreads[k]
      BY <1>1, <1>2, <2>3 DEF MailInv, MailShape
    <3>3. QED
      BY <2>1, <2>2, <3>1, <3>2 DEF Budget
  <2>4. CASE q # p \/ k # m
    <3>1. mailed'[<<k, q>>] = mailed[<<k, q>>]
      BY <1>1, <2>4 DEF MailInv, MailShape
    <3>2. Holds(q, k)' => Holds(q, k)
      BY <1>1, <2>4 DEF MailInv, MailShape, Holds
    <3>3. QED
      BY <1>2, <2>1, <2>2, <3>1, <3>2, BudgetRests
  <2>5. QED
    BY <2>3, <2>4
<1>5. QED
  BY <1>3, <1>4 DEF MailInv, WithinBudget

LEMMA MailStepInv == MailInv /\ [MailNext]_mailVars => MailInv'
<1> SUFFICES ASSUME MailInv, [MailNext]_mailVars PROVE MailInv'
  OBVIOUS
<1>1. CASE Configures \/ UNCHANGED mailVars
  BY <1>1 DEF Configures, mailVars, MailInv, MailShape, WithinBudget, Budget, Holds, Open
<1>2. QED
  BY <1>1, OwnerInv, QuietInv, FetchInv, CreateInv DEF MailNext

\* A loop makes one task of a message each time its owner has left it unread,
\* for any number of messages, servers and failures.
THEOREM MailMakesOneTask == MailSpec => []OneTaskPerReading
<1>1. MailInv => OneTaskPerReading
  <2> SUFFICES ASSUME MailInv, NEW m \in Mails, NEW p \in Pollers
               PROVE  mailed[<<m, p>>] <= 1 + unreads[m]
    BY DEF OneTaskPerReading
  <2>1. mailed[<<m, p>>] \in Nat /\ unreads[m] \in Nat
    BY DEF MailInv, MailShape
  <2>2. QED
    BY <2>1 DEF MailInv, WithinBudget, Budget
<1>2. QED
  BY <1>1, MailInitInv, MailStepInv, PTL DEF MailSpec

\* The requests at certain steps, and how often one may still ask the cloud.
Being(S) == {c \in Askers : asker[c].step \in S}
Calling == {"seen", "awaiting", "asking"}
Weight(step) == IF step = "seen" THEN 2 ELSE IF step \in Calling THEN 1 ELSE 0

\* The types that the invariant above leaves open.  A call of the cloud is owed
\* for each of a call's two ways to it.
TokensTypes ==
  /\ authorising \in SUBSET (Drives \X {"direct", "cloud"})
  /\ local \in SUBSET Drives
  /\ cloud \in {"off", "down", "up"}
  /\ calls \in 0..MaxCalls
  /\ owed \in [Drives -> Nat]
  /\ \A d \in Drives :
       owed[d] + Cardinality(Being({"seen"})) + Cardinality(Being(Calling)) <= 2 * calls

LEMMA AskersCounted ==
  ASSUME NEW S PROVE IsFiniteSet(Being(S)) /\ Cardinality(Being(S)) \in Nat
<1>1. IsFiniteSet(Being(S))
  BY TokenAssumption, FS_Subset DEF Being
<1>2. QED
  BY <1>1, FS_CardinalityType

\* When one request moves, a count changes by that request.
LEMMA OneIsCounted ==
  ASSUME NEW S, NEW c \in Askers, \A q \in Askers \ {c} : asker'[q] = asker[q]
  PROVE  Cardinality(Being(S))'
           = Cardinality(Being(S)) - (IF asker[c].step \in S THEN 1 ELSE 0)
                                + (IF asker'[c].step \in S THEN 1 ELSE 0)
<1>1. IsFiniteSet(Being(S)) /\ Cardinality(Being(S)) \in Nat
  BY AskersCounted
<1> DEFINE rest == Being(S) \ {c}
<1>2. /\ IsFiniteSet(rest) /\ Cardinality(rest) \in Nat
      /\ Cardinality(rest) = Cardinality(Being(S)) - (IF asker[c].step \in S THEN 1 ELSE 0)
  <2>1. c \in Being(S) <=> asker[c].step \in S
    BY DEF Being
  <2>2. IsFiniteSet(rest) /\ Cardinality(rest) = IF c \in Being(S) THEN Cardinality(Being(S)) - 1
                                                 ELSE Cardinality(Being(S))
    BY <1>1, FS_RemoveElement
  <2>3. Cardinality(rest) \in Nat
    BY <2>2, FS_CardinalityType
  <2>4. QED
    BY <1>1, <2>1, <2>2, <2>3
<1>3. c \notin rest /\ Being(S)' = IF asker'[c].step \in S THEN rest \cup {c} ELSE rest
  BY DEF Being
<1>4. Cardinality(rest \cup {c}) = Cardinality(rest) + 1
  BY <1>2, <1>3, FS_AddElement
<1>5. QED
  BY <1>1, <1>2, <1>3, <1>4

\* A step of one request takes from its own weight what it adds to the calls owed.
Pays(c) ==
  /\ \A q \in Askers \ {c} : asker'[q] = asker[q]
  /\ calls' \in {calls, calls + 1} /\ calls' <= MaxCalls
  /\ owed' \in [Drives -> Nat]
  /\ \A d \in Drives :
       owed'[d] + Weight(asker'[c].step) + 2 * calls
         <= owed[d] + Weight(asker[c].step) + 2 * calls'

LEMMA RefreshesPay ==
  ASSUME RequestsMind, owed \in [Drives -> Nat], NEW c \in Askers, NEW d \in Drives,
         Refreshes(c, d)
  PROVE  /\ \A q \in Askers \ {c} : asker'[q] = asker[q]
         /\ owed' \in [Drives -> Nat]
         /\ \A k \in Drives : owed'[k] + Weight(asker'[c].step) <= owed[k] + 2
<1>1. CASE Gives(c) /\ UNCHANGED owed
  BY <1>1 DEF Gives, Free, Weight, Calling, RequestsMind
<1>2. ASSUME NEW step \in {"posting", "asking"}, NEW first, NEW own,
             Becomes(c, step, d, first, own), UNCHANGED owed
      PROVE  /\ \A q \in Askers \ {c} : asker'[q] = asker[q]
             /\ owed' \in [Drives -> Nat]
             /\ \A k \in Drives : owed'[k] + Weight(asker'[c].step) <= owed[k] + 2
  BY <1>2 DEF Becomes, Weight, Calling, RequestsMind
<1>3. CASE Sends(c, "awaiting", d, row[d].refresh, row[d])
  BY <1>3 DEF Sends, Becomes, Weight, Calling, RequestsMind
<1>4. QED
  BY <1>1, <1>2, <1>3 DEF Refreshes

LEMMA RequestsPay ==
  ASSUME RequestsMind, TokensTypes, NEW c \in Askers,
         \/ \E d \in Drives : ReturnsFromConsent(c, d) \/ TaskRefreshes(c, d) \/ GatewayCalls(c, d)
         \/ ExchangesCode(c) \/ StoresGrantedTokens(c) \/ GatewayRefreshes(c)
         \/ ProviderAnswers(c) \/ StopsWaiting(c) \/ AsksServer(c)
         \/ EndpointStores(c) \/ StoresRefreshed(c)
  PROVE  Pays(c)
<1> USE DEF Pays
<1>1. /\ asker \in [Askers -> AskerShape] /\ Minds(asker[c])
      /\ calls \in Nat /\ calls <= MaxCalls /\ MaxCalls \in Nat /\ owed \in [Drives -> Nat]
  BY TokenAssumption DEF RequestsMind, TokensTypes
<1>2. Weight("free") = 0 /\ Weight("exchanging") = 0 /\ Weight("naming") = 0
      /\ Weight("posting") = 0 /\ Weight("storing") = 0 /\ Weight("relaying") = 0
      /\ Weight("relayed") = 0 /\ Weight("seen") = 2 /\ Weight("awaiting") = 1
      /\ Weight("asking") = 1
  BY DEF Weight, Calling
<1>3. ASSUME NEW d \in Drives, ReturnsFromConsent(c, d) PROVE Pays(c)
  <2>1. /\ \A q \in Askers \ {c} : asker'[q] = asker[q]
        /\ asker[c].step = "free" /\ asker'[c].step = "exchanging"
        /\ UNCHANGED <<calls, owed>>
    <3>1. [Free EXCEPT !.step = "exchanging", !.drive = d].step = "exchanging"
          /\ Free.step = "free"
      BY DEF Free
    <3>2. QED
      BY <1>1, <1>3, <3>1 DEF ReturnsFromConsent
  <2>2. QED
    BY <1>1, <1>2, <2>1
<1>4. ASSUME NEW d \in Drives, TaskRefreshes(c, d) PROVE Pays(c)
  <2>1. asker[c].step = "free" /\ calls' = calls + 1 /\ calls < MaxCalls /\ Refreshes(c, d)
    BY <1>4 DEF TaskRefreshes, Free
  <2>2. /\ \A q \in Askers \ {c} : asker'[q] = asker[q]
        /\ owed' \in [Drives -> Nat]
        /\ \A k \in Drives : owed'[k] + Weight(asker'[c].step) <= owed[k] + 2
    BY <1>1, <2>1, RefreshesPay
  <2>3. Weight(asker'[c].step) \in Nat
    BY DEF Weight
  <2>4. QED
    BY <1>1, <1>2, <2>1, <2>2, <2>3
<1>5. ASSUME NEW d \in Drives, GatewayCalls(c, d) PROVE Pays(c)
  BY <1>1, <1>2, <1>5 DEF GatewayCalls, Free, Becomes
<1>6. CASE ExchangesCode(c)
  <2>1. /\ \A q \in Askers \ {c} : asker'[q] = asker[q]
        /\ asker[c].step = "exchanging" /\ asker'[c].step \in {"free", "naming"}
        /\ UNCHANGED <<calls, owed>>
    BY <1>1, <1>6 DEF ExchangesCode, Free, AskerShape
  <2>2. QED
    BY <1>1, <1>2, <2>1
<1>7. CASE StoresGrantedTokens(c)
  BY <1>1, <1>2, <1>7 DEF StoresGrantedTokens, Free
<1>8. CASE GatewayRefreshes(c)
  <2>1. asker[c].step = "seen" /\ UNCHANGED calls /\ asker[c].drive \in Drives
    BY <1>1, <1>8 DEF GatewayRefreshes, Minds
  <2>2. CASE Connected(asker[c].drive)
    <3>1. /\ \A q \in Askers \ {c} : asker'[q] = asker[q]
          /\ owed' \in [Drives -> Nat]
          /\ \A k \in Drives : owed'[k] + Weight(asker'[c].step) <= owed[k] + 2
      BY <1>1, <1>8, <2>1, <2>2, RefreshesPay DEF GatewayRefreshes
    <3>2. Weight(asker'[c].step) \in Nat
      BY DEF Weight
    <3>3. QED
      BY <1>1, <1>2, <2>1, <3>1, <3>2
  <2>3. CASE ~Connected(asker[c].drive)
    BY <1>1, <1>2, <1>8, <2>1, <2>3 DEF GatewayRefreshes, Gives, Free
  <2>4. QED
    BY <2>2, <2>3
<1>9. CASE ProviderAnswers(c)
  <2>1. /\ \A q \in Askers \ {c} : asker'[q] = asker[q]
        /\ asker[c].step = "posting" /\ asker'[c].step \in {"free", "storing"}
        /\ UNCHANGED <<calls, owed>>
    BY <1>1, <1>9 DEF ProviderAnswers, Gives, Becomes, Free
  <2>2. QED
    BY <1>1, <1>2, <2>1
<1>10. CASE StopsWaiting(c)
  <2>1. /\ \A q \in Askers \ {c} : asker'[q] = asker[q]
        /\ \/ asker[c].step = "awaiting" /\ asker'[c].step \in {"asking", "storing"}
           \/ asker[c].step = "relayed" /\ asker'[c].step \in {"free", "relaying"}
        /\ UNCHANGED <<calls, owed>>
    BY <1>1, <1>10 DEF StopsWaiting, Gives, Becomes, Free
  <2>2. QED
    BY <1>1, <1>2, <2>1
<1>11. CASE AsksServer(c)
  <2>1. CASE Gives(c) /\ UNCHANGED owed
    BY <1>1, <1>2, <1>11, <2>1 DEF AsksServer, Gives, Free
  <2>2. CASE Sends(c, "relayed", asker[c].drive, asker[c].first, row[asker[c].drive])
    <3>1. /\ \A q \in Askers \ {c} : asker'[q] = asker[q]
          /\ asker[c].step = "asking" /\ asker'[c].step = "relayed"
          /\ UNCHANGED calls /\ asker[c].drive \in Drives
          /\ owed' = [owed EXCEPT ![asker[c].drive] = @ + 1]
      BY <1>1, <1>11, <2>2 DEF AsksServer, Sends, Becomes, Minds
    <3>2. owed' \in [Drives -> Nat] /\ \A k \in Drives : owed'[k] <= owed[k] + 1
      BY <1>1, <3>1
    <3>3. QED
      BY <1>1, <1>2, <3>1, <3>2
  <2>3. QED
    BY <1>11, <2>1, <2>2 DEF AsksServer
<1>12. CASE EndpointStores(c)
  <2>1. /\ \A q \in Askers \ {c} : asker'[q] = asker[q]
        /\ asker[c].step = "relaying" /\ asker'[c].step \in {"free", "storing"}
        /\ UNCHANGED <<calls, owed>>
    BY <1>1, <1>12 DEF EndpointStores, Gives, Becomes, Free
  <2>2. QED
    BY <1>1, <1>2, <2>1
<1>13. CASE StoresRefreshed(c)
  BY <1>1, <1>2, <1>13 DEF StoresRefreshed, Gives, Free
<1>14. QED
  BY <1>3, <1>4, <1>5, <1>6, <1>7, <1>8, <1>9, <1>10, <1>11, <1>12, <1>13

LEMMA PaidIsTyped ==
  ASSUME TokensTypes, NEW c \in Askers, Pays(c)
  PROVE  /\ calls' \in 0..MaxCalls /\ owed' \in [Drives -> Nat]
         /\ \A d \in Drives :
              owed'[d] + Cardinality(Being({"seen"}))' + Cardinality(Being(Calling))' <= 2 * calls'
<1>1. /\ Cardinality(Being({"seen"})) \in Nat /\ Cardinality(Being(Calling)) \in Nat
      /\ calls \in Nat /\ owed \in [Drives -> Nat]
  BY AskersCounted, TokenAssumption DEF TokensTypes
<1>2. Cardinality(Being({"seen"}))'
        = Cardinality(Being({"seen"})) - (IF asker[c].step \in {"seen"} THEN 1 ELSE 0)
                                    + (IF asker'[c].step \in {"seen"} THEN 1 ELSE 0)
  BY OneIsCounted DEF Pays
<1>3. Cardinality(Being(Calling))'
        = Cardinality(Being(Calling)) - (IF asker[c].step \in Calling THEN 1 ELSE 0)
                                   + (IF asker'[c].step \in Calling THEN 1 ELSE 0)
  BY OneIsCounted DEF Pays
<1>4. \A s : Weight(s) = (IF s \in {"seen"} THEN 1 ELSE 0) + (IF s \in Calling THEN 1 ELSE 0)
  BY DEF Weight, Calling
<1>5. Cardinality(Being({"seen"}))' + Cardinality(Being(Calling))'
        = Cardinality(Being({"seen"})) + Cardinality(Being(Calling))
            - Weight(asker[c].step) + Weight(asker'[c].step)
  <2> DEFINE a == Cardinality(Being({"seen"}))
             b == Cardinality(Being(Calling))
             s == asker[c].step
             z == asker'[c].step
  <2>1. a \in Nat /\ b \in Nat
    BY <1>1
  <2>2. a' = a - (IF s \in {"seen"} THEN 1 ELSE 0) + (IF z \in {"seen"} THEN 1 ELSE 0)
    BY <1>2
  <2>3. b' = b - (IF s \in Calling THEN 1 ELSE 0) + (IF z \in Calling THEN 1 ELSE 0)
    BY <1>3
  <2> HIDE DEF a, b, s, z
  <2>4. a' + b' = a + b - Weight(s) + Weight(z)
    BY <1>4, <2>1, <2>2, <2>3
  <2>5. QED
    BY <2>4 DEF a, b, s, z
<1>6. calls' \in 0..MaxCalls /\ owed' \in [Drives -> Nat]
  BY <1>1, TokenAssumption DEF Pays, TokensTypes
<1>7. ASSUME NEW d \in Drives
      PROVE  owed'[d] + Cardinality(Being({"seen"}))' + Cardinality(Being(Calling))' <= 2 * calls'
  <2>1. owed[d] + Cardinality(Being({"seen"})) + Cardinality(Being(Calling)) <= 2 * calls
    BY DEF TokensTypes
  <2>2. owed'[d] + Weight(asker'[c].step) + 2 * calls
          <= owed[d] + Weight(asker[c].step) + 2 * calls'
    BY DEF Pays
  <2>3. Weight(asker'[c].step) \in Nat /\ Weight(asker[c].step) \in Nat
        /\ owed[d] \in Nat /\ owed'[d] \in Nat /\ calls' \in Nat
    BY <1>1, <1>6 DEF Weight
  <2>4. Cardinality(Being({"seen"}))' \in Int /\ Cardinality(Being(Calling))' \in Int
    BY <1>1, <1>2, <1>3
  <2>5. \A a, b, v, w, o, p, m, n \in Nat : \A x, y \in Int :
          x + y = a + b - v + w /\ o + a + b <= 2 * m /\ p + w + 2 * m <= o + v + 2 * n
          => p + x + y <= 2 * n
    OBVIOUS
  <2>6. QED
    BY <1>1, <1>5, <2>1, <2>2, <2>3, <2>4, <2>5
<1>8. QED
  BY <1>6, <1>7

\* The steps that are nobody's request.
LEMMA OthersAreTyped ==
  ASSUME RequestsMind, TokensTypes,
         UNCHANGED <<tokenVars>> \/ CloudChanges \/ BearerExpires
         \/ (\E on \in BOOLEAN : ServerStarts(on))
         \/ \E d \in Drives : \/ Authorises(d) \/ TokensArrive(d) \/ DisconnectsDrive(d)
                              \/ CloudAnswers(d) \/ CloudRefuses(d)
  PROVE  TokensTypes'
<1>1. /\ calls \in Nat /\ calls <= MaxCalls /\ MaxCalls \in Nat /\ owed \in [Drives -> Nat]
      /\ Cardinality(Being({"seen"})) \in Nat /\ Cardinality(Being(Calling)) \in Nat
  BY TokenAssumption, AskersCounted DEF TokensTypes
<1>2. \A c \in Askers : asker'[c].step = asker[c].step
  <2>1. ASSUME NEW key, NEW answer, Resolves(key, answer)
        PROVE  \A c \in Askers : asker'[c].step = asker[c].step
    BY <2>1 DEF Resolves, RequestsMind, AskerShape
  <2>2. QED
    BY <2>1 DEF tokenVars, CloudChanges, BearerExpires, ServerStarts, Authorises, TokensArrive,
                DisconnectsDrive, CloudAnswers, CloudRefuses
<1>3. Being({"seen"})' = Being({"seen"}) /\ Being(Calling)' = Being(Calling)
  BY <1>2 DEF Being
<1>4. /\ calls' \in {calls, calls + 1} /\ calls' <= MaxCalls
      /\ owed' \in [Drives -> Nat] /\ \A d \in Drives : owed'[d] <= owed[d]
      /\ authorising' \in SUBSET (Drives \X {"direct", "cloud"})
      /\ local' \in SUBSET Drives /\ cloud' \in {"off", "down", "up"}
  <2> DEFINE Kept == /\ calls' \in {calls, calls + 1} /\ calls' <= MaxCalls
                     /\ owed' \in [Drives -> Nat] /\ \A d \in Drives : owed'[d] <= owed[d]
                     /\ authorising' \in SUBSET (Drives \X {"direct", "cloud"})
                     /\ local' \in SUBSET Drives /\ cloud' \in {"off", "down", "up"}
  <2>0. /\ authorising \in SUBSET (Drives \X {"direct", "cloud"})
        /\ local \in SUBSET Drives /\ cloud \in {"off", "down", "up"}
    BY DEF TokensTypes
  <2>1. CASE UNCHANGED tokenVars
    BY <1>1, <2>0, <2>1 DEF tokenVars
  <2>2. CASE CloudChanges
    BY <1>1, <2>0, <2>2 DEF CloudChanges
  <2>3. CASE BearerExpires
    BY <1>1, <2>0, <2>3 DEF BearerExpires
  <2>4. ASSUME NEW on \in BOOLEAN, ServerStarts(on) PROVE Kept
    BY <1>1, <2>0, <2>4 DEF ServerStarts
  <2>5. ASSUME NEW d \in Drives, Authorises(d) PROVE Kept
    BY <1>1, <2>0, <2>5 DEF Authorises
  <2>6. ASSUME NEW d \in Drives, TokensArrive(d) PROVE Kept
    BY <1>1, <2>0, <2>6 DEF TokensArrive
  <2>7. ASSUME NEW d \in Drives, DisconnectsDrive(d) PROVE Kept
    BY <1>1, <2>0, <2>7 DEF DisconnectsDrive
  <2>8. ASSUME NEW d \in Drives, CloudAnswers(d) PROVE Kept
    BY <1>1, <2>0, <2>8 DEF CloudAnswers
  <2>9. ASSUME NEW d \in Drives, CloudRefuses(d) PROVE Kept
    BY <1>1, <2>0, <2>9 DEF CloudRefuses
  <2>10. QED
    BY <2>1, <2>2, <2>3, <2>4, <2>5, <2>6, <2>7, <2>8, <2>9
<1>5. ASSUME NEW d \in Drives
      PROVE  owed'[d] + Cardinality(Being({"seen"})') + Cardinality(Being(Calling)') <= 2 * calls'
  <2>1. owed[d] + Cardinality(Being({"seen"})) + Cardinality(Being(Calling)) <= 2 * calls
    BY DEF TokensTypes
  <2>2. owed'[d] <= owed[d] /\ owed'[d] \in Nat /\ owed[d] \in Nat
    BY <1>1, <1>4
  <2>3. QED
    BY <1>1, <1>3, <1>4, <2>1, <2>2
<1>6. QED
  BY <1>1, <1>4, <1>5 DEF TokensTypes

LEMMA TokensTypesStep == TokenInv /\ TokensTypes /\ [TokensNext]_tokenVars => TokensTypes'
<1> SUFFICES ASSUME TokenInv, TokensTypes, [TokensNext]_tokenVars PROVE TokensTypes'
  OBVIOUS
<1>1. RequestsMind
  BY DEF TokenInv
<1>2. ASSUME NEW c \in Askers,
             \/ \E d \in Drives : ReturnsFromConsent(c, d) \/ TaskRefreshes(c, d)
                                  \/ GatewayCalls(c, d)
             \/ ExchangesCode(c) \/ StoresGrantedTokens(c) \/ GatewayRefreshes(c)
             \/ ProviderAnswers(c) \/ StopsWaiting(c) \/ AsksServer(c)
             \/ EndpointStores(c) \/ StoresRefreshed(c)
      PROVE  TokensTypes'
  <2>1. Pays(c)
    BY <1>1, <1>2, RequestsPay
  <2>2. /\ authorising' \subseteq authorising /\ UNCHANGED <<local, cloud>>
    BY <1>2 DEF ReturnsFromConsent, TaskRefreshes, GatewayCalls, ExchangesCode,
                StoresGrantedTokens, GatewayRefreshes, ProviderAnswers, StopsWaiting, AsksServer,
                EndpointStores, StoresRefreshed
  <2>3. QED
    BY <2>1, <2>2, PaidIsTyped DEF TokensTypes
<1>3. QED
  BY <1>1, <1>2, OthersAreTyped DEF TokensNext

LEMMA BearerFlags ==
  bearer \in BOOLEAN /\ wanted \in BOOLEAN /\ [TokensNext]_tokenVars
  => bearer' \in BOOLEAN /\ wanted' \in BOOLEAN
<1> SUFFICES ASSUME bearer \in BOOLEAN, wanted \in BOOLEAN, [TokensNext]_tokenVars
             PROVE  bearer' \in BOOLEAN /\ wanted' \in BOOLEAN
  OBVIOUS
<1>1. (bearer' \in BOOLEAN \/ bearer' = bearer) /\ (wanted' \in BOOLEAN \/ wanted' = wanted)
  BY Zenon DEF TokensNext, tokenVars, CloudChanges, BearerExpires, ServerStarts, Authorises,
     TokensArrive, DisconnectsDrive, CloudAnswers, CloudRefuses, ReturnsFromConsent, TaskRefreshes,
     GatewayCalls, ExchangesCode, StoresGrantedTokens, GatewayRefreshes, Renewed, ProviderAnswers,
     StopsWaiting, AsksServer, EndpointStores, StoresRefreshed
<1>2. QED
  BY <1>1, Zenon

LEMMA TokensTypesInit ==
  TokensInit => TokensTypes /\ bearer \in BOOLEAN /\ wanted \in BOOLEAN
<1> SUFFICES ASSUME TokensInit
             PROVE  TokensTypes /\ bearer \in BOOLEAN /\ wanted \in BOOLEAN
  OBVIOUS
<1>1. bearer \in BOOLEAN /\ wanted \in BOOLEAN
  BY Zenon DEF TokensInit
<1>2. Being({"seen"}) = {} /\ Being(Calling) = {}
  BY DEF TokensInit, Being, Free, Calling
<1>3. Cardinality(Being({"seen"})) = 0 /\ Cardinality(Being(Calling)) = 0
  BY <1>2, FS_EmptySet
<1>4. TokensTypes
  BY <1>3, TokenAssumption DEF TokensInit, TokensTypes
<1>5. QED
  BY <1>1, <1>4

LEMMA TokensAreTyped ==
  TokenInv /\ TokensTypes /\ bearer \in BOOLEAN /\ wanted \in BOOLEAN => TokensTypeOK
<1> SUFFICES ASSUME TokenInv, TokensTypes, bearer \in BOOLEAN, wanted \in BOOLEAN
             PROVE  TokensTypeOK
  OBVIOUS
<1>1. owed \in [Drives -> 0..(2 * MaxCalls)]
  <2>1. ASSUME NEW d \in Drives PROVE owed[d] \in 0..(2 * MaxCalls)
    <3>1. /\ owed[d] + Cardinality(Being({"seen"})) + Cardinality(Being(Calling)) <= 2 * calls
          /\ owed[d] \in Nat /\ calls \in 0..MaxCalls
      BY DEF TokensTypes
    <3>2. QED
      BY <3>1, AskersCounted, TokenAssumption
  <2>2. QED
    BY <2>1 DEF TokensTypes
<1>2. /\ row \in [Drives -> Tokens] /\ linked \in [Drives -> BOOLEAN]
      /\ pending \in [Drives \X {"result", "error"} -> Askers \cup {Nobody}]
      /\ asker \in [Askers -> AskerShape]
  BY DEF TokenInv, RequestsMind, KeysFit, RowsAreTheirs
<1>3. QED
  BY <1>1, <1>2, Zenon DEF TokensTypeOK, TokensTypes, AskerShape, Steps

\* The flags, which keep their type on their own.
BearerTypes == bearer \in BOOLEAN /\ wanted \in BOOLEAN

LEMMA TokensAlwaysTyped == TokensInit /\ [][TokensNext]_tokenVars => []TokensTypeOK
<1>1. TokensInit => BearerTypes
  BY TokensTypesInit DEF BearerTypes
<1>2. BearerTypes /\ [TokensNext]_tokenVars => BearerTypes'
  BY BearerFlags DEF BearerTypes
<1>3. TokenInv /\ TokensTypes /\ BearerTypes => TokensTypeOK
  BY TokensAreTyped DEF BearerTypes
<1>4. TokensInit => TokensTypes
  BY TokensTypesInit
<1>5. QED
  BY <1>1, <1>2, <1>3, <1>4, TokenInitInv, TokenStepInv, TokensTypesStep, PTL

\* The types of what the owner does, but for the Booleans.
MailTypes == unreads \in [Mails -> 0..MaxUnreads] /\ jams \in 0..MaxJams

\* A message that is marked unread once more is still within the bound.
LEMMA UnreadsCounted ==
  ASSUME MailTypes, NEW m \in Mails PROVE Unreads \in Nat /\ unreads[m] <= Unreads
<1> DEFINE used == {k \in Mails \X (1..MaxUnreads) : k[2] <= unreads[k[1]]}
           mine == 1..unreads[m]
           f    == [i \in mine |-> <<m, i>>]
<1>1. IsFiniteSet(used)
  <2>1. IsFiniteSet(Mails) /\ IsFiniteSet(1..MaxUnreads)
    BY MailAssumption, FS_Interval
  <2>2. IsFiniteSet(Mails \X (1..MaxUnreads))
    BY <2>1, FS_Product
  <2>3. QED
    BY <2>2, FS_Subset
<1>2. unreads[m] \in Nat /\ unreads[m] <= MaxUnreads /\ MaxUnreads \in Nat
  BY MailAssumption DEF MailTypes
<1>3. f \in Injection(mine, used)
  <2>1. \A i \in mine : <<m, i>> \in used
    BY <1>2
  <2>2. QED
    BY <2>1 DEF Injection, IsInjective
<1>4. Cardinality(mine) = unreads[m]
  BY <1>2, FS_Interval
<1> HIDE DEF used, mine, f
<1>5. Cardinality(mine) <= Cardinality(used)
  BY <1>1, <1>3, FS_Injection
<1>6. QED
  BY <1>1, <1>4, <1>5, FS_CardinalityType DEF used, Unreads

LEMMA MailTypesStep == MailTypes /\ [MailNext]_mailVars => MailTypes'
<1> SUFFICES ASSUME MailTypes, [MailNext]_mailVars PROVE MailTypes'
  OBVIOUS
<1>1. jams' = jams \/ Jam
  BY DEF MailNext, Arrives, OwnerReads, OwnerUnreads, Configures, Connects, ChecksMail, Wakes,
     FetchesMail, MissesMail, CreatesFromMail, FailsToCreate, MarksSeen, EndsListing, StopsPolling,
     mailVars
<1>2. \/ unreads' = unreads
      \/ \E m \in Mails : Unreads < MaxUnreads /\ unreads' = [unreads EXCEPT ![m] = @ + 1]
  BY DEF MailNext, Arrives, OwnerReads, OwnerUnreads, Configures, Connects, ChecksMail, Wakes,
     FetchesMail, MissesMail, CreatesFromMail, FailsToCreate, MarksSeen, EndsListing, StopsPolling,
     mailVars
<1>3. unreads' \in [Mails -> 0..MaxUnreads]
  <2>1. ASSUME NEW m \in Mails, Unreads < MaxUnreads, unreads' = [unreads EXCEPT ![m] = @ + 1]
        PROVE  unreads' \in [Mails -> 0..MaxUnreads]
    <3>1. unreads[m] \in Nat /\ unreads[m] < MaxUnreads
      BY <2>1, UnreadsCounted, MailAssumption DEF MailTypes
    <3>2. unreads[m] + 1 \in 0..MaxUnreads
      BY <3>1, MailAssumption
    <3>3. QED
      BY <2>1, <3>2 DEF MailTypes
  <2>2. QED
    BY <1>2, <2>1 DEF MailTypes
<1>4. jams' \in 0..MaxJams
  BY <1>1, MailAssumption DEF MailTypes, Jam
<1>5. QED
  BY <1>3, <1>4 DEF MailTypes

LEMMA MailFlags ==
  addressed \in BOOLEAN /\ generating \in BOOLEAN /\ [MailNext]_mailVars
  => addressed' \in BOOLEAN /\ generating' \in BOOLEAN
<1> SUFFICES ASSUME addressed \in BOOLEAN, generating \in BOOLEAN, [MailNext]_mailVars
             PROVE  addressed' \in BOOLEAN /\ generating' \in BOOLEAN
  OBVIOUS
<1>1. (addressed' = ~addressed \/ addressed' = addressed)
      /\ (generating' = ~generating \/ generating' = generating)
  BY Zenon DEF MailNext, Arrives, OwnerReads, OwnerUnreads, Configures, Connects, ChecksMail, Wakes,
     FetchesMail, MissesMail, CreatesFromMail, FailsToCreate, MarksSeen, EndsListing, StopsPolling,
     mailVars
<1>2. \A b : (~b) \in BOOLEAN
  BY Zenon
<1>3. QED
  BY <1>1, <1>2, Zenon

LEMMA MailTypesInit == MailInit => MailTypes /\ addressed \in BOOLEAN /\ generating \in BOOLEAN
<1> SUFFICES ASSUME MailInit PROVE MailTypes /\ addressed \in BOOLEAN /\ generating \in BOOLEAN
  OBVIOUS
<1>1. addressed \in BOOLEAN /\ generating \in BOOLEAN
  BY Zenon DEF MailInit
<1>2. MailTypes
  BY MailAssumption DEF MailInit, MailTypes
<1>3. QED
  BY <1>1, <1>2

LEMMA MailIsTyped ==
  MailInv /\ MailTypes /\ addressed \in BOOLEAN /\ generating \in BOOLEAN => MailTypeOK
<1> SUFFICES ASSUME MailInv, MailTypes, addressed \in BOOLEAN, generating \in BOOLEAN
             PROVE  MailTypeOK
  OBVIOUS
<1>1. ASSUME NEW m \in Mails, NEW p \in Pollers
      PROVE  mailed[<<m, p>>] \in 0..(MaxUnreads + 1)
  <2>1. mailed[<<m, p>>] \in Nat /\ mailed[<<m, p>>] <= unreads[m] + 1
    BY DEF MailInv, MailShape, WithinBudget, Budget
  <2>2. unreads[m] \in 0..MaxUnreads
    BY DEF MailTypes
  <2>3. QED
    BY <2>1, <2>2, MailAssumption
<1>2. mailed \in [Mails \X Pollers -> 0..(MaxUnreads + 1)]
  BY <1>1 DEF MailInv, MailShape
<1>3. /\ mailbox \in [Mails -> {"absent", "unseen", "seen"}]
      /\ poller \in [Pollers ->
           [step : {"off", "checking", "waiting", "listed", "fetched", "created"},
            listed : SUBSET Mails, mail : Mails \cup {NoMail},
            then : {"off", "checking", "waiting"}]]
      /\ unreads \in [Mails -> 0..MaxUnreads] /\ jams \in 0..MaxJams
  BY DEF MailInv, MailShape, MailTypes
<1>4. QED
  BY <1>2, <1>3, Zenon DEF MailTypeOK

\* The flags, which keep their type on their own.
MailSwitches == addressed \in BOOLEAN /\ generating \in BOOLEAN

LEMMA MailAlwaysTyped == MailInit /\ [][MailNext]_mailVars => []MailTypeOK
<1>1. MailInit => MailSwitches
  BY MailTypesInit DEF MailSwitches
<1>2. MailSwitches /\ [MailNext]_mailVars => MailSwitches'
  BY MailFlags DEF MailSwitches
<1>3. MailInv /\ MailTypes /\ MailSwitches => MailTypeOK
  BY MailIsTyped DEF MailSwitches
<1>4. MailInit => MailTypes
  BY MailTypesInit
<1>5. QED
  BY <1>1, <1>2, <1>3, <1>4, MailInitInv, MailStepInv, MailTypesStep, PTL

-----------------------------------------------------------------------------
(* Subscriptions and their forwarders                                      *)

Live == stage \in {"registering", "receiving", "proxying", "leaving"}

TunnelShape ==
  /\ stage \in {"off", "down", "registering", "receiving", "proxying", "leaving", "closing"}
  /\ conn \in Nat /\ conn <= MaxLinks /\ since \in 0..conn
  /\ subscribed \in [Channels -> Nat] /\ net \in [Channels -> Nat]
  /\ task \in [Channels -> Links \cup {NoTask}]
  /\ forwarders \in [Channels \X Links -> Nat]

\* The channels of a message still to be left, each once.
Elements(cs) == {cs[i] : i \in DOMAIN cs}
Left == Elements(leaving)
Short(cs) == \/ cs = <<>>
             \/ \E c \in Channels : cs = <<c>>
             \/ \E c, d \in Channels : c # d /\ cs = <<c, d>>
LeavesShort ==
  /\ Short(leaving)
  /\ leaving # <<>> => stage = "leaving"
  /\ stage = "leaving" => leaving # <<>>

\* A forwarder of this client's is for the connection that is open, and cancelled with
\* its task.
ForwardersAreTasks ==
  /\ \A c \in Channels, k \in Links : k > conn => forwarders[<<c, k>>] = 0
  /\ stage # "off" => \A c \in Channels, k \in Links :
       k > since /\ forwarders[<<c, k>>] # 0 => k = conn /\ task[c] = k /\ stage # "down"
  /\ stage \notin {"off", "down"} => since < conn

\* What the desktop is subscribed to once the message is done.
Remains(c) == IF c \in Left /\ subscribed[c] > 0 THEN subscribed[c] - 1 ELSE subscribed[c]

\* The count is not below the desktop's, and the same unless an exception came between;
\* a count of none has no forwarder.
CountsAgree ==
  Live => /\ stage = "registering" => \A c \in Channels : subscribed[c] = 0
          /\ \A c \in Channels :
               /\ net[c] <= Remains(c)
               /\ subscribed[c] = 0 => forwarders[<<c, conn>>] = 0
               /\ c \notin failed => /\ net[c] = Remains(c)
                                     /\ subscribed[c] > 0 => forwarders[<<c, conn>>] = 1

\* The inductive invariant.
TunnelInv == TunnelShape /\ LeavesShort /\ ForwardersAreTasks /\ CountsAgree

LEMMA ShortElements ==
  /\ Elements(<<>>) = {}
  /\ \A c : Elements(<<c>>) = {c}
  /\ \A c, d : Elements(<<c, d>>) = {c, d}
<1>1. Elements(<<>>) = {}
  BY DEF Elements
<1>2. \A c : Elements(<<c>>) = {c}
  <2>1. \A c : DOMAIN <<c>> = {1}
    OBVIOUS
  <2>2. QED
    BY <2>1 DEF Elements
<1>3. \A c, d : Elements(<<c, d>>) = {c, d}
  <2>1. \A c, d : DOMAIN <<c, d>> = {1, 2} /\ <<c, d>>[1] = c /\ <<c, d>>[2] = d
    OBVIOUS
  <2>2. QED
    BY <2>1 DEF Elements
<1>4. QED
  BY <1>1, <1>2, <1>3

\* The message goes on with its next channel.
LEMMA NextLeft ==
  ASSUME LeavesShort, stage = "leaving"
  PROVE  /\ Head(leaving) \in Channels /\ Short(Tail(leaving)) /\ Head(leaving) \in Left
         /\ Elements(Tail(leaving)) = Left \ {Head(leaving)}
<1>1. CASE \E c \in Channels : leaving = <<c>>
  <2>1. PICK c \in Channels : leaving = <<c>>
    BY <1>1
  <2>2. Head(leaving) = c /\ Tail(leaving) = <<>>
    BY <2>1
  <2>3. QED
    BY <2>1, <2>2, ShortElements DEF Left, Short
<1>2. CASE \E c, d \in Channels : c # d /\ leaving = <<c, d>>
  <2>1. PICK c, d \in Channels : c # d /\ leaving = <<c, d>>
    BY <1>2
  <2>2. Head(leaving) = c /\ Tail(leaving) = <<d>>
    BY <2>1
  <2>3. QED
    BY <2>1, <2>2, ShortElements DEF Left, Short
<1>3. QED
  BY <1>1, <1>2 DEF LeavesShort, Short

LEMMA TunnelInitInv == TunnelInit => TunnelInv
<1> SUFFICES ASSUME TunnelInit PROVE TunnelInv
  OBVIOUS
<1>1. TunnelShape /\ LeavesShort
  BY TunnelAssumption DEF TunnelInit, TunnelShape, LeavesShort, Short, NoSubscriptions, NoTask
<1>2. ForwardersAreTasks /\ CountsAgree
  BY DEF TunnelInit, ForwardersAreTasks, CountsAgree, Live
<1>3. QED
  BY <1>1, <1>2 DEF TunnelInv

\* Steps that leave subscriptions alone while the connection lives or ends.
LEMMA QuietSteps ==
  ASSUME TunnelInv, EndsRegistration \/ LosesTunnel \/ StopsClient \/ Proxies
                    \/ (\E paid \in BOOLEAN : Alerts(paid)) \/ UNCHANGED tunnelVars
  PROVE  TunnelInv'
<1>1. UNCHANGED <<conn, since, subscribed, task, forwarders, leaving, net, failed>>
  BY DEF EndsRegistration, LosesTunnel, StopsClient, Proxies, Alerts, tunnelVars
<1>2. /\ stage' \in {"off", "down", "registering", "receiving", "proxying", "leaving", "closing"}
      /\ stage' = "leaving" <=> stage = "leaving"
      /\ stage = "off" => stage' = "off"
      /\ stage = "down" => stage' \in {"off", "down"}
      /\ stage # "down" /\ stage' = "down" => stage = "registering"
      /\ Live' => Live /\ (stage' = "registering" => stage = "registering")
  BY DEF EndsRegistration, LosesTunnel, StopsClient, Proxies, Alerts, tunnelVars, TunnelInv,
     TunnelShape, Live
<1>3. TunnelShape' /\ LeavesShort'
  BY <1>1, <1>2 DEF TunnelInv, TunnelShape, LeavesShort
<1>4. ForwardersAreTasks'
  <2>1. stage' = "down" => \A c \in Channels, k \in Links : k > since => forwarders[<<c, k>>] = 0
    <3>1. CASE stage = "registering"
      BY <3>1 DEF TunnelInv, ForwardersAreTasks, CountsAgree, Live
    <3>2. CASE stage = "down"
      BY <3>2 DEF TunnelInv, ForwardersAreTasks
    <3>3. QED
      BY <3>1, <3>2, <1>2
  <2>2. QED
    BY <1>1, <1>2, <2>1 DEF TunnelInv, ForwardersAreTasks
<1>5. CountsAgree'
  BY <1>1, <1>2 DEF TunnelInv, CountsAgree, Remains, Left, Elements, Live
<1>6. QED
  BY <1>3, <1>4, <1>5 DEF TunnelInv

\* A new connection or a new client.
LEMMA FreshSteps ==
  ASSUME TunnelInv, OpensTunnel \/ StartsClient
  PROVE  TunnelInv'
<1>1. CASE OpensTunnel
  <2>1. /\ stage = "down" /\ stage' = "registering" /\ conn' = conn + 1 /\ conn + 1 <= MaxLinks
        /\ conn \in Nat /\ since \in Nat /\ since <= conn /\ leaving = <<>> /\ failed' = {}
        /\ subscribed' = [c \in Channels |-> 0] /\ net' = [c \in Channels |-> 0]
        /\ UNCHANGED <<since, task, forwarders, leaving>>
    BY <1>1, TunnelAssumption DEF OpensTunnel, AtConnect, NoSubscriptions, TunnelInv,
       TunnelShape, LeavesShort
  <2>2. TunnelShape' /\ LeavesShort'
    BY <2>1, TunnelAssumption DEF TunnelInv, TunnelShape, LeavesShort
  <2>3. \A c \in Channels, k \in Links : k > since => forwarders[<<c, k>>] = 0
    BY <2>1 DEF TunnelInv, ForwardersAreTasks
  <2>4. ForwardersAreTasks'
    BY <2>1, <2>3 DEF TunnelInv, ForwardersAreTasks, Links
  <2>5. CountsAgree'
    BY <2>1, <2>3, TunnelAssumption DEF CountsAgree, Remains, Left, Elements, Links
  <2>6. QED
    BY <2>2, <2>4, <2>5 DEF TunnelInv
<1>2. CASE StartsClient
  <2>1. /\ stage = "off" /\ stage' = "down" /\ since' = conn
        /\ subscribed' = [c \in Channels |-> 0] /\ task' = [c \in Channels |-> NoTask]
        /\ UNCHANGED <<conn, forwarders, leaving, net, failed>>
    BY <1>2 DEF StartsClient, NoSubscriptions
  <2>2. TunnelShape' /\ LeavesShort' /\ ForwardersAreTasks' /\ CountsAgree'
    BY <2>1 DEF TunnelInv, TunnelShape, LeavesShort, ForwardersAreTasks, CountsAgree, Live
  <2>3. QED
    BY <2>2 DEF TunnelInv
<1>3. QED
  BY <1>1, <1>2

\* Cancelled forwarders are none.
LEMMA CancelledIs ==
  \A cs : \A c \in Channels, k \in Links :
    Cancelled(cs)[<<c, k>>] = IF c \in cs /\ k = task[c] THEN 0 ELSE forwarders[<<c, k>>]
<1> SUFFICES ASSUME NEW cs, NEW c \in Channels, NEW k \in Links
             PROVE  Cancelled(cs)[<<c, k>>] =
                      IF c \in cs /\ k = task[c] THEN 0 ELSE forwarders[<<c, k>>]
  OBVIOUS
<1> DEFINE p == <<c, k>>
<1>1. p \in Channels \X Links /\ p[1] = c /\ p[2] = k
  OBVIOUS
<1>2. Cancelled(cs)[p] = IF p[1] \in cs /\ p[2] = task[p[1]] THEN 0 ELSE forwarders[p]
  BY <1>1 DEF Cancelled
<1>3. QED
  BY <1>1, <1>2

LEMMA CancelledType ==
  ASSUME TunnelShape PROVE \A cs : Cancelled(cs) \in [Channels \X Links -> Nat]
BY DEF Cancelled, TunnelShape

LEMMA TunnelCleanUpStep ==
  ASSUME TunnelInv, CleansUp
  PROVE  TunnelInv'
<1>1. /\ stage = "closing" /\ stage' \in {"down", "off"} /\ forwarders' = Cancelled(Tasks)
      /\ UNCHANGED <<conn, since, leaving, net, failed>>
      /\ \/ subscribed' = [c \in Channels |-> 0] /\ task' = [c \in Channels |-> NoTask]
         \/ UNCHANGED <<subscribed, task>>
  BY DEF CleansUp, NoSubscriptions
<1>2. TunnelShape' /\ LeavesShort' /\ CountsAgree'
  <2>1. Cancelled(Tasks) \in [Channels \X Links -> Nat]
    BY CancelledType DEF TunnelInv
  <2>2. subscribed' \in [Channels -> Nat] /\ task' \in [Channels -> Links \cup {NoTask}]
    BY <1>1 DEF TunnelInv, TunnelShape
  <2>3. QED
    BY <1>1, <2>1, <2>2 DEF TunnelInv, TunnelShape, LeavesShort, CountsAgree, Live
<1>3. ASSUME NEW c \in Channels, NEW k \in Links
      PROVE  /\ forwarders[<<c, k>>] = 0 => forwarders'[<<c, k>>] = 0
             /\ k > since => forwarders'[<<c, k>>] = 0
  <2>1. forwarders'[<<c, k>>] = IF c \in Tasks /\ k = task[c] THEN 0 ELSE forwarders[<<c, k>>]
    <3>1. \A cs : cs = Tasks => Cancelled(cs)[<<c, k>>] =
                     IF c \in cs /\ k = task[c] THEN 0 ELSE forwarders[<<c, k>>]
      BY CancelledIs
    <3>2. Cancelled(Tasks)[<<c, k>>] = IF c \in Tasks /\ k = task[c] THEN 0 ELSE forwarders[<<c, k>>]
      BY <3>1
    <3>3. QED
      BY <1>1, <3>2
  <2>2. k > since /\ forwarders[<<c, k>>] # 0 => task[c] = k
    BY <1>1 DEF TunnelInv, ForwardersAreTasks
  <2>3. task[c] = k => c \in Tasks
    BY TunnelAssumption DEF Tasks, Links, NoTask
  <2>4. QED
    BY <2>1, <2>2, <2>3
<1>4. ForwardersAreTasks'
  BY <1>1, <1>3 DEF TunnelInv, ForwardersAreTasks
<1>5. QED
  BY <1>2, <1>4 DEF TunnelInv

\* The first subscription of a channel starts its forwarder.
LEMMA SubscribeStep ==
  ASSUME TunnelInv, NEW cs \in SUBSET Channels, Subscribes(cs)
  PROVE  TunnelInv'
<1> DEFINE first == {c \in cs : subscribed[c] = 0}
<1>1. /\ stage \in {"registering", "receiving"} /\ Live /\ stage' = "receiving" /\ leaving = <<>>
      /\ conn \in Links /\ conn \in Nat /\ since \in Nat /\ since < conn
      /\ UNCHANGED <<conn, since, leaving>>
  BY TunnelAssumption DEF Subscribes, Live, TunnelInv, TunnelShape, LeavesShort,
     ForwardersAreTasks, Links
<1>2. \A c \in Channels :
        /\ subscribed[c] \in Nat /\ net[c] \in Nat
        /\ subscribed'[c] = subscribed[c] + (IF c \in cs THEN 1 ELSE 0)
        /\ net'[c] = net[c] + (IF c \in cs THEN 1 ELSE 0)
        /\ task'[c] = IF c \in first THEN conn ELSE task[c]
  BY DEF Subscribes, TunnelInv, TunnelShape
<1>3. \/ /\ failed' = failed
         /\ \A c \in Channels, k \in Links :
              forwarders'[<<c, k>>] = forwarders[<<c, k>>] + (IF c \in first /\ k = conn THEN 1 ELSE 0)
      \/ forwarders' = forwarders /\ failed' = failed \cup first
  BY DEF Subscribes
<1>4. TunnelShape' /\ LeavesShort'
  <2>1. /\ subscribed' \in [Channels -> Nat] /\ net' \in [Channels -> Nat]
        /\ task' \in [Channels -> Links \cup {NoTask}]
    BY <1>1, <1>2 DEF Subscribes, TunnelInv, TunnelShape
  <2>2. forwarders' \in [Channels \X Links -> Nat]
    BY DEF Subscribes, TunnelInv, TunnelShape
  <2>3. QED
    BY <1>1, <2>1, <2>2 DEF TunnelInv, TunnelShape, LeavesShort
<1>5. \A c \in Channels, k \in Links : k # conn => forwarders'[<<c, k>>] = forwarders[<<c, k>>]
  <2>1. \A c \in Channels, k \in Links : forwarders[<<c, k>>] \in Nat
    BY DEF TunnelInv, TunnelShape
  <2>2. QED
    BY <1>3, <2>1
<1>6. \A c \in Channels : forwarders'[<<c, conn>>] # 0 => task'[c] = conn
  BY <1>1, <1>2, <1>3 DEF TunnelInv, TunnelShape, ForwardersAreTasks
<1>7. ForwardersAreTasks'
  <2>1. \A c \in Channels, k \in Links : k > conn => forwarders'[<<c, k>>] = 0
    BY <1>1, <1>5 DEF TunnelInv, ForwardersAreTasks, Links
  <2>2. \A c \in Channels, k \in Links : k > since /\ forwarders'[<<c, k>>] # 0 => k = conn
    BY <1>1, <1>5 DEF TunnelInv, ForwardersAreTasks
  <2>3. QED
    BY <1>1, <1>6, <2>1, <2>2 DEF ForwardersAreTasks
<1>8. CountsAgree'
  <2>1. Left = {} /\ Left' = {}
    BY <1>1, ShortElements DEF Left
  <2>2. \A c \in Channels : /\ Remains(c) = subscribed[c]
                            /\ (c \notin Left' /\ subscribed'[c] \in Nat)
    BY <2>1, <1>2 DEF Remains
  <2>3. ASSUME NEW c \in Channels
        PROVE  /\ net'[c] <= subscribed'[c]
               /\ subscribed'[c] = 0 => forwarders'[<<c, conn>>] = 0
               /\ c \notin failed' => /\ net'[c] = subscribed'[c]
                                      /\ subscribed'[c] > 0 => forwarders'[<<c, conn>>] = 1
    <3>1. /\ net[c] <= subscribed[c] /\ forwarders[<<c, conn>>] \in Nat
          /\ subscribed[c] = 0 => forwarders[<<c, conn>>] = 0
          /\ c \notin failed => /\ net[c] = subscribed[c]
                                /\ subscribed[c] > 0 => forwarders[<<c, conn>>] = 1
      BY <1>1, <2>2 DEF TunnelInv, TunnelShape, CountsAgree
    <3>2. CASE c \in first
      BY <3>1, <3>2, <1>1, <1>2, <1>3
    <3>3. CASE c \notin first
      <4>1. forwarders'[<<c, conn>>] = forwarders[<<c, conn>>] /\ (c \in failed' <=> c \in failed)
        BY <3>1, <3>3, <1>1, <1>3
      <4>2. c \in cs => subscribed[c] > 0
        BY <3>3, <1>2
      <4>3. QED
        BY <3>1, <4>1, <4>2, <1>2
    <3>4. QED
      BY <3>2, <3>3
  <2>4. QED
    BY <1>1, <2>1, <2>3 DEF CountsAgree, Remains
<1>9. QED
  BY <1>4, <1>7, <1>8 DEF TunnelInv

\* The last subscription of a channel ends its forwarder.
LEMMA LeaveStep ==
  ASSUME TunnelInv, LeavesChannel
  PROVE  TunnelInv'
<1> DEFINE c == Head(leaving)
           rest == Tail(leaving)
           skipped == Elements(rest)
<1>1. /\ stage = "leaving" /\ Live /\ c \in Channels /\ Short(rest) /\ Short(<<>>)
      /\ c \in Left /\ Elements(rest) = Left \ {c} /\ Elements(<<>>) = {}
  BY NextLeft, ShortElements DEF LeavesChannel, TunnelInv, Live, Short
<1>2. /\ conn \in Links /\ conn \in Nat /\ since < conn /\ since \in Nat
      /\ UNCHANGED <<conn, since, net>>
      /\ \A d \in Channels : subscribed[d] \in Nat /\ net[d] \in Nat
  BY <1>1, TunnelAssumption DEF LeavesChannel, TunnelInv, TunnelShape, ForwardersAreTasks, Links
<1>3. /\ leaving' \in {rest, <<>>}
      /\ stage' = IF leaving' = <<>> THEN "receiving" ELSE "leaving"
  BY DEF LeavesChannel, Continues
<1>4. /\ subscribed' = [subscribed EXCEPT ![c] = IF @ > 0 THEN @ - 1 ELSE 0]
      /\ \A d \in Channels : subscribed'[d] =
           IF d = c /\ subscribed[c] > 0 THEN subscribed[c] - 1 ELSE subscribed[d]
  <2>1. subscribed' = [subscribed EXCEPT ![c] = IF @ > 0 THEN @ - 1 ELSE 0]
    BY DEF LeavesChannel
  <2>2. QED
    BY <2>1, <1>1, <1>2 DEF TunnelInv, TunnelShape
<1>5. /\ \A d \in Channels : d # c => task'[d] = task[d]
      /\ subscribed[c] # 1 => UNCHANGED <<task, forwarders, failed>> /\ leaving' = rest
      /\ subscribed[c] = 1 => /\ forwarders' = Cancelled({c})
                             /\ \/ leaving' = rest /\ failed' = failed \ {c}
                                \/ leaving' = <<>> /\ failed' = (failed \ {c}) \cup skipped
      /\ task' \in [Channels -> Links \cup {NoTask}]
  BY DEF LeavesChannel, Continues, TunnelInv, TunnelShape, Elements
<1>6. \A d \in Channels, k \in Links :
        forwarders'[<<d, k>>] = IF subscribed[c] = 1 /\ d = c /\ k = task[c] THEN 0
                                ELSE forwarders[<<d, k>>]
  <2> SUFFICES ASSUME NEW d \in Channels, NEW k \in Links
               PROVE  forwarders'[<<d, k>>] =
                        IF subscribed[c] = 1 /\ d = c /\ k = task[c] THEN 0
                        ELSE forwarders[<<d, k>>]
    OBVIOUS
  <2>1. Cancelled({c})[<<d, k>>] = IF d \in {c} /\ k = task[d] THEN 0 ELSE forwarders[<<d, k>>]
    <3>1. \A cs : cs = {c} => Cancelled(cs)[<<d, k>>] =
                     IF d \in cs /\ k = task[d] THEN 0 ELSE forwarders[<<d, k>>]
      BY CancelledIs
    <3>2. QED
      BY <3>1
  <2>2. CASE subscribed[c] = 1
    BY <2>1, <2>2, <1>5
  <2>3. CASE subscribed[c] # 1
    BY <2>3, <1>5
  <2>4. QED
    BY <2>2, <2>3
<1>7. TunnelShape' /\ LeavesShort'
  <2>1. forwarders' \in [Channels \X Links -> Nat]
    BY <1>5, CancelledType DEF TunnelInv, TunnelShape
  <2>2. subscribed' \in [Channels -> Nat]
    BY <1>1, <1>2, <1>4 DEF TunnelInv, TunnelShape
  <2>3. QED
    BY <1>1, <1>2, <1>3, <1>5, <2>1, <2>2 DEF TunnelInv, TunnelShape, LeavesShort
<1>8. forwarders[<<c, conn>>] # 0 => task[c] = conn
  BY <1>1, <1>2 DEF TunnelInv, ForwardersAreTasks
<1>9. ForwardersAreTasks'
  <2>1. ASSUME NEW d \in Channels, NEW k \in Links, k > since, forwarders'[<<d, k>>] # 0
        PROVE  k = conn /\ task'[d] = k
    <3>1. forwarders[<<d, k>>] # 0 /\ ~(subscribed[c] = 1 /\ d = c /\ k = task[c])
      BY <2>1, <1>6
    <3>2. k = conn /\ task[d] = k
      BY <3>1, <2>1, <1>1 DEF TunnelInv, ForwardersAreTasks
    <3>3. QED
      BY <3>1, <3>2, <1>5
  <2>2. \A d \in Channels, k \in Links : k > conn => forwarders'[<<d, k>>] = 0
    BY <1>6 DEF TunnelInv, ForwardersAreTasks
  <2>3. QED
    BY <1>2, <1>3, <2>1, <2>2 DEF ForwardersAreTasks
<1>10. CountsAgree'
  <2>1. Left' = IF leaving' = rest THEN Left \ {c} ELSE {}
    BY <1>1, <1>3 DEF Left
  <2>2. ASSUME NEW d \in Channels
        PROVE  /\ net[d] <= Remains(d)'
               /\ subscribed'[d] = 0 => forwarders'[<<d, conn>>] = 0
               /\ d \notin failed' => /\ net[d] = Remains(d)'
                                      /\ subscribed'[d] > 0 => forwarders'[<<d, conn>>] = 1
    <3>1. /\ net[d] <= Remains(d) /\ net[d] \in Nat /\ subscribed[d] \in Nat
          /\ subscribed[d] = 0 => forwarders[<<d, conn>>] = 0
          /\ d \notin failed => /\ net[d] = Remains(d)
                                /\ subscribed[d] > 0 => forwarders[<<d, conn>>] = 1
      BY <1>1, <1>2 DEF TunnelInv, CountsAgree
    <3>2. CASE d = c
      <4>1. /\ Remains(d)' = subscribed'[c]
            /\ Remains(d) = IF subscribed[c] > 0 THEN subscribed[c] - 1 ELSE 0
            /\ subscribed'[c] = IF subscribed[c] > 0 THEN subscribed[c] - 1 ELSE 0
        BY <3>1, <3>2, <2>1, <1>1, <1>4 DEF Remains
      <4>2. CASE subscribed[c] = 1
        <5>1. forwarders'[<<c, conn>>] = 0
          BY <4>2, <1>1, <1>2, <1>6, <1>8
        <5>2. QED
          BY <3>1, <3>2, <4>1, <4>2, <5>1, <1>5
      <4>3. CASE subscribed[c] # 1
        BY <3>1, <3>2, <4>1, <4>3, <1>2, <1>5
      <4>4. QED
        BY <4>2, <4>3
    <3>3. CASE d # c
      <4>1. /\ subscribed'[d] = subscribed[d] /\ forwarders'[<<d, conn>>] = forwarders[<<d, conn>>]
        BY <3>3, <1>1, <1>2, <1>4, <1>6
      <4>2. CASE leaving' = rest
        <5>1. Remains(d)' = Remains(d)
          BY <3>3, <4>1, <4>2, <2>1 DEF Remains
        <5>2. d \notin failed' => d \notin failed
          BY <3>3, <1>5
        <5>3. QED
          BY <3>1, <4>1, <5>1, <5>2
      <4>3. CASE leaving' # rest
        <5>1. /\ Remains(d)' = subscribed[d] /\ Remains(d) <= subscribed[d]
              /\ d \notin Left => Remains(d) = subscribed[d]
          BY <3>1, <4>1, <4>3, <2>1 DEF Remains
        <5>2. d \notin failed' => d \notin failed /\ d \notin Left
          BY <3>3, <4>3, <1>1, <1>5
        <5>3. Remains(d) \in Nat
          BY <3>1 DEF Remains
        <5>4. QED
          BY <3>1, <4>1, <5>1, <5>2, <5>3
      <4>4. QED
        BY <4>2, <4>3
    <3>4. QED
      BY <3>2, <3>3
  <2>3. QED
    BY <2>2, <1>2, <1>3 DEF CountsAgree
<1>11. QED
  BY <1>7, <1>9, <1>10 DEF TunnelInv

\* A forwarder that ends on the open connection puts its channel out of step.
LEMMA EndStep ==
  ASSUME TunnelInv, NEW c \in Channels, NEW k \in Links, ForwarderEnds(c, k)
  PROVE  TunnelInv'
<1>1. /\ forwarders[<<c, k>>] \in Nat /\ forwarders[<<c, k>>] > 0
      /\ forwarders' = [forwarders EXCEPT ![<<c, k>>] = @ - 1]
      /\ UNCHANGED <<stage, conn, since, subscribed, task, leaving, net>>
      /\ failed \subseteq failed'
      /\ Alive(k) => c \in failed'
  BY DEF ForwarderEnds, TunnelInv, TunnelShape
<1>2. /\ forwarders' \in [Channels \X Links -> Nat]
      /\ \A d \in Channels, j \in Links :
           /\ <<d, j>> # <<c, k>> => forwarders'[<<d, j>>] = forwarders[<<d, j>>]
           /\ forwarders[<<d, j>>] = 0 => forwarders'[<<d, j>>] = 0
  BY <1>1 DEF TunnelInv, TunnelShape
<1>3. TunnelShape' /\ LeavesShort'
  BY <1>1, <1>2 DEF TunnelInv, TunnelShape, LeavesShort
<1>4. ForwardersAreTasks'
  BY <1>1, <1>2 DEF TunnelInv, ForwardersAreTasks
<1>5. CountsAgree'
  <2> SUFFICES ASSUME Live
               PROVE  \A d \in Channels :
                        /\ subscribed[d] = 0 => forwarders'[<<d, conn>>] = 0
                        /\ d \notin failed' /\ subscribed[d] > 0 =>
                             forwarders'[<<d, conn>>] = 1
    BY <1>1 DEF TunnelInv, CountsAgree, Remains, Left, Live
  <2>1. conn \in Links
    BY TunnelAssumption DEF Live, TunnelInv, TunnelShape, ForwardersAreTasks, Links
  <2>2. \A d \in Channels \ failed' : <<d, conn>> # <<c, k>>
    BY <1>1 DEF Alive, Live
  <2>3. QED
    BY <1>1, <1>2, <2>1, <2>2 DEF TunnelInv, CountsAgree
<1>6. QED
  BY <1>3, <1>4, <1>5 DEF TunnelInv

LEMMA TunnelStepInv == TunnelInv /\ [TunnelNext]_tunnelVars => TunnelInv'
<1> SUFFICES ASSUME TunnelInv, [TunnelNext]_tunnelVars PROVE TunnelInv'
  OBVIOUS
<1>1. ASSUME NEW c \in Channels, NEW d \in Channels,
             Unsubscribes(IF c = d THEN <<c>> ELSE <<c, d>>)
      PROVE  TunnelInv'
  <2> DEFINE cs == IF c = d THEN <<c>> ELSE <<c, d>>
  <2>1. /\ stage = "receiving" /\ stage' = "leaving" /\ leaving' = cs /\ leaving = <<>>
        /\ net' = [e \in Channels |->
              IF (\E i \in DOMAIN cs : cs[i] = e) /\ net[e] > 0 THEN net[e] - 1 ELSE net[e]]
        /\ UNCHANGED <<conn, since, subscribed, task, forwarders, failed>>
    BY <1>1 DEF Unsubscribes, TunnelInv, LeavesShort
  <2>2. Short(cs) /\ cs # <<>>
    BY DEF Short
  <2>3. \A e : (\E i \in DOMAIN cs : cs[i] = e) <=> e \in Elements(cs)
    BY DEF Elements
  <2> HIDE DEF cs
  <2>4. \A e \in Channels : /\ net'[e] = IF e \in Left' /\ net[e] > 0 THEN net[e] - 1 ELSE net[e]
                            /\ net[e] \in Nat /\ subscribed[e] \in Nat
    BY <2>1, <2>3 DEF Left, TunnelInv, TunnelShape
  <2>5. TunnelShape' /\ LeavesShort'
    <3>1. net' \in [Channels -> Nat]
      BY <2>1, <2>4 DEF TunnelInv, TunnelShape
    <3>2. QED
      BY <2>1, <2>2, <3>1 DEF TunnelInv, TunnelShape, LeavesShort
  <2>6. ForwardersAreTasks'
    BY <2>1 DEF TunnelInv, ForwardersAreTasks
  <2>7. Left = {}
    BY <2>1, ShortElements DEF Left
  <2>8. CountsAgree'
    <3>1. \A e \in Channels : net[e] <= subscribed[e] /\ (e \notin failed => net[e] = subscribed[e])
      BY <2>1, <2>7 DEF TunnelInv, CountsAgree, Live, Remains
    <3>2. \A e \in Channels : net'[e] <= Remains(e)' /\ (e \notin failed => net'[e] = Remains(e)')
      BY <3>1, <2>1, <2>4 DEF Remains
    <3>3. QED
      BY <2>1, <3>2 DEF TunnelInv, CountsAgree, Live
  <2>9. QED
    BY <2>5, <2>6, <2>8 DEF TunnelInv
<1>2. QED
  BY <1>1, QuietSteps, FreshSteps, TunnelCleanUpStep, SubscribeStep, LeaveStep, EndStep DEF TunnelNext

\* A channel that is subscribed is forwarded once and any other not at all
\* (_handle_subscribe, _handle_unsubscribe, _cleanup), for any number of channels,
\* connections and clean-ups that are broken off.
THEOREM SubscriptionsAreForwarded == TunnelSpec => []SubscribedIsForwarded
<1>1. TunnelInv => SubscribedIsForwarded
  <2> SUFFICES ASSUME TunnelInv PROVE SubscribedIsForwarded
    OBVIOUS
  <2>1. stage = "receiving" => \A c \in Channels : Remains(c) = subscribed[c]
    BY ShortElements DEF TunnelInv, LeavesShort, Remains, Left
  <2>2. QED
    BY <2>1 DEF TunnelInv, TunnelShape, CountsAgree, ForwardersAreTasks, Live,
       SubscribedIsForwarded
<1>2. QED
  BY <1>1, TunnelInitInv, TunnelStepInv, PTL DEF TunnelSpec

\* The types that the invariant above leaves open; every count is one of messages.
TunnelTypes ==
  /\ messages \in 0..MaxMessages /\ hitches \in 0..MaxHitches
  /\ \A c \in Channels : subscribed[c] <= messages /\ net[c] <= messages
  /\ \A k \in Channels \X Links : forwarders[k] <= messages
  /\ soured \in SUBSET (Channels \X Links)
  /\ failed \in SUBSET Channels

LEMMA TunnelTypesInit == TunnelInit => TunnelTypes /\ warning \in BOOLEAN
<1> SUFFICES ASSUME TunnelInit PROVE TunnelTypes /\ warning \in BOOLEAN
  OBVIOUS
<1>1. warning \in BOOLEAN
  BY Zenon DEF TunnelInit
<1>2. TunnelTypes
  BY TunnelAssumption DEF TunnelInit, TunnelTypes, NoSubscriptions
<1>3. QED
  BY <1>1, <1>2

LEMMA ShortIsSeq == ASSUME NEW cs, Short(cs) PROVE cs \in Seq(Channels)
<1>1. CASE cs = <<>>
  BY <1>1
<1>2. ASSUME NEW c \in Channels, cs = <<c>> PROVE cs \in Seq(Channels)
  <2>1. <<c>> \in Seq(Channels)
    OBVIOUS
  <2>2. QED
    BY <1>2, <2>1
<1>3. ASSUME NEW c \in Channels, NEW d \in Channels, cs = <<c, d>>
      PROVE  cs \in Seq(Channels)
  <2>1. <<c, d>> \in Seq(Channels)
    OBVIOUS
  <2>2. QED
    BY <1>3, <2>1
<1>4. QED
  BY <1>1, <1>2, <1>3 DEF Short

\* The steps that only end or cancel something.
LEMMA FallingCounts ==
  ASSUME TunnelShape, TunnelTypes, UNCHANGED messages, hitches' \in {hitches} \/ Hitch,
         \A c \in Channels : subscribed'[c] <= subscribed[c] /\ net'[c] <= net[c],
         subscribed' \in [Channels -> Nat], net' \in [Channels -> Nat],
         forwarders' \in [Channels \X Links -> Nat],
         \A k \in Channels \X Links : forwarders'[k] <= forwarders[k],
         soured' \in SUBSET (Channels \X Links), failed' \in SUBSET Channels
  PROVE  TunnelTypes'
<1>1. messages \in Nat /\ hitches' \in 0..MaxHitches
  BY TunnelAssumption DEF TunnelTypes, Hitch
<1>2. \A c \in Channels : subscribed[c] \in Nat /\ subscribed[c] <= messages
                          /\ net[c] \in Nat /\ net[c] <= messages
  BY DEF TunnelShape, TunnelTypes
<1>3. ASSUME NEW k \in Channels \X Links PROVE forwarders'[k] <= messages
  BY <1>1 DEF TunnelShape, TunnelTypes
<1>4. \A c \in Channels : subscribed'[c] <= messages /\ net'[c] <= messages
  BY <1>1, <1>2
<1>5. messages' \in 0..MaxMessages /\ messages' = messages
  BY DEF TunnelTypes
<1>6. QED
  BY <1>1, <1>3, <1>4, <1>5 DEF TunnelTypes

LEMMA TunnelTypesStep == TunnelInv /\ TunnelTypes /\ [TunnelNext]_tunnelVars => TunnelTypes'
<1> SUFFICES ASSUME TunnelInv, TunnelTypes, [TunnelNext]_tunnelVars PROVE TunnelTypes'
  OBVIOUS
<1>0. /\ TunnelShape /\ MaxMessages \in Nat /\ messages \in Nat
      /\ soured \in SUBSET (Channels \X Links) /\ failed \in SUBSET Channels
      /\ forwarders \in [Channels \X Links -> Nat] /\ subscribed \in [Channels -> Nat]
      /\ net \in [Channels -> Nat] /\ task \in [Channels -> Links \cup {NoTask}]
  BY TunnelAssumption DEF TunnelInv, TunnelShape, TunnelTypes
<1>1. CASE UNCHANGED tunnelVars
  BY <1>1 DEF tunnelVars, TunnelTypes
<1>2. CASE OpensTunnel
  BY <1>0, <1>2, FallingCounts DEF OpensTunnel, AtConnect, NoSubscriptions
<1>3. CASE EndsRegistration \/ LosesTunnel \/ StopsClient \/ Proxies
  BY <1>3 DEF EndsRegistration, LosesTunnel, StopsClient, Proxies, TunnelTypes
<1>4. CASE CleansUp
  <2>1. /\ UNCHANGED <<messages, net, failed>> /\ (hitches' \in {hitches} \/ Hitch)
        /\ subscribed' \in {subscribed, NoSubscriptions} /\ forwarders' = Cancelled(Tasks)
    BY <1>4 DEF CleansUp
  <2>2. soured' \in SUBSET (Channels \X Links)
    <3>1. \A c \in Tasks : c \in Channels /\ task[c] \in Links
      BY <1>0 DEF Tasks
    <3>2. \/ soured' = soured
          \/ \E c \in Tasks : soured' = soured \cup {<<c, task[c]>>}
      BY <1>4 DEF CleansUp
    <3>3. QED
      BY <1>0, <3>1, <3>2
  <2>3. /\ forwarders' \in [Channels \X Links -> Nat]
        /\ \A k \in Channels \X Links : forwarders'[k] <= forwarders[k]
    BY <1>0, <2>1 DEF Cancelled
  <2>4. QED
    BY <1>0, <2>1, <2>2, <2>3, FallingCounts DEF NoSubscriptions
<1>5. CASE StartsClient
  BY <1>0, <1>5, FallingCounts DEF StartsClient, NoSubscriptions
<1>6. CASE LeavesChannel
  <2>1. /\ UNCHANGED <<messages, net, soured>> /\ (hitches' \in {hitches} \/ Hitch)
        /\ subscribed' = [subscribed EXCEPT ![Head(leaving)] = IF @ > 0 THEN @ - 1 ELSE 0]
        /\ forwarders' \in {forwarders, Cancelled({Head(leaving)})}
    BY <1>6 DEF LeavesChannel
  <2>2. \A c \in Channels : subscribed'[c] <= subscribed[c]
    BY <1>0, <2>1
  <2>3. /\ forwarders' \in [Channels \X Links -> Nat]
        /\ \A k \in Channels \X Links : forwarders'[k] <= forwarders[k]
    BY <1>0, <2>1 DEF Cancelled
  <2>4. failed' \in SUBSET Channels
    <3>1. stage = "leaving" /\ LeavesShort
      BY <1>6 DEF LeavesChannel, TunnelInv
    <3>2. Elements(Tail(leaving)) \subseteq Channels
      <4>1. Short(Tail(leaving))
        BY <3>1, NextLeft
      <4>2. Tail(leaving) \in Seq(Channels)
        BY <4>1, ShortIsSeq
      <4>3. \A i \in DOMAIN Tail(leaving) : Tail(leaving)[i] \in Channels
        BY <4>2
      <4>4. QED
        BY <4>3 DEF Elements
    <3>3. failed' \subseteq failed \cup Elements(Tail(leaving))
      BY <1>6 DEF LeavesChannel, Elements
    <3>4. QED
      BY <1>0, <3>2, <3>3
  <2>5. subscribed' \in [Channels -> Nat] /\ \A c \in Channels : net'[c] <= net[c]
    <3>1. Head(leaving) \in Channels
      BY <1>6, NextLeft DEF LeavesChannel, TunnelInv
    <3>2. subscribed' \in [Channels -> Nat]
      BY <1>0, <2>1, <3>1
    <3>3. net' = net
      BY <2>1
    <3>4. \A c \in Channels : net[c] <= net[c]
      BY <1>0
    <3>5. QED
      BY <3>2, <3>3, <3>4
  <2>6. QED
    BY <1>0, <2>1, <2>2, <2>3, <2>4, <2>5, FallingCounts
<1>7. ASSUME NEW cs \in SUBSET Channels, Subscribes(cs) PROVE TunnelTypes'
  <2>1. /\ messages < MaxMessages /\ messages' = messages + 1 /\ UNCHANGED soured
        /\ subscribed' = [c \in Channels |-> subscribed[c] + (IF c \in cs THEN 1 ELSE 0)]
        /\ net' = [c \in Channels |-> net[c] + (IF c \in cs THEN 1 ELSE 0)]
        /\ hitches' = hitches \/ Hitch
        /\ failed' \subseteq failed \cup cs
    BY <1>7 DEF Subscribes
  <2>2. \A k \in Channels \X Links : forwarders'[k] \in {forwarders[k], forwarders[k] + 1}
    BY <1>0, <1>7 DEF Subscribes
  <2>3. \A c \in Channels : subscribed'[c] <= messages' /\ net'[c] <= messages'
    BY <1>0, <2>1 DEF TunnelTypes
  <2>4. \A k \in Channels \X Links : forwarders'[k] <= messages'
    BY <1>0, <2>1, <2>2 DEF TunnelTypes
  <2>5. hitches' \in 0..MaxHitches
    BY <2>1, TunnelAssumption DEF Hitch, TunnelTypes
  <2>6. QED
    BY <1>0, <2>1, <2>3, <2>4, <2>5 DEF TunnelTypes
<1>8. ASSUME NEW cs, Unsubscribes(cs) PROVE TunnelTypes'
  <2>1. /\ messages < MaxMessages /\ messages' = messages + 1
        /\ UNCHANGED <<subscribed, forwarders, soured, failed, hitches>>
        /\ \A c \in Channels : net'[c] \in {net[c], net[c] - 1}
    BY <1>0, <1>8 DEF Unsubscribes
  <2>2. QED
    BY <1>0, <2>1 DEF TunnelTypes
<1>9. ASSUME NEW paid \in BOOLEAN, Alerts(paid) PROVE TunnelTypes'
  BY <1>0, <1>9, FallingCounts DEF Alerts
<1>10. ASSUME NEW c \in Channels, NEW k \in Links, ForwarderEnds(c, k) PROVE TunnelTypes'
  <2>1. /\ UNCHANGED <<messages, subscribed, net>> /\ (hitches' \in {hitches} \/ Hitch)
        /\ failed' \subseteq failed \cup {c} /\ soured' \subseteq soured \cup {<<c, k>>}
        /\ forwarders[<<c, k>>] > 0 /\ forwarders' = [forwarders EXCEPT ![<<c, k>>] = @ - 1]
    BY <1>10 DEF ForwarderEnds
  <2>2. /\ forwarders' \in [Channels \X Links -> Nat]
        /\ \A i \in Channels \X Links : forwarders'[i] <= forwarders[i]
    BY <1>0, <2>1
  <2>3. QED
    BY <1>0, <2>1, <2>2, FallingCounts
<1>11. QED
  BY <1>1, <1>2, <1>3, <1>4, <1>5, <1>6, <1>7, <1>8, <1>9, <1>10 DEF TunnelNext

LEMMA WarningIsBoolean == warning \in BOOLEAN /\ [TunnelNext]_tunnelVars => warning' \in BOOLEAN
<1> SUFFICES ASSUME warning \in BOOLEAN, [TunnelNext]_tunnelVars PROVE warning' \in BOOLEAN
  OBVIOUS
<1>1. warning' = warning \/ \E paid \in BOOLEAN : warning' = ~paid
  BY Zenon DEF TunnelNext, tunnelVars, OpensTunnel, EndsRegistration, LosesTunnel, CleansUp,
     StopsClient, StartsClient, Proxies, LeavesChannel, Subscribes, Unsubscribes, Alerts,
     ForwarderEnds
<1>2. \A b : (~b) \in BOOLEAN
  BY Zenon
<1>3. QED
  BY <1>1, <1>2, Zenon

LEMMA TunnelIsTyped == TunnelInv /\ TunnelTypes /\ warning \in BOOLEAN => TunnelTypeOK
<1> SUFFICES ASSUME TunnelInv, TunnelTypes, warning \in BOOLEAN PROVE TunnelTypeOK
  OBVIOUS
<1>1. /\ stage \in {"off", "down", "registering", "receiving", "proxying", "leaving", "closing"}
      /\ conn \in 0..MaxLinks /\ since \in 0..conn
      /\ task \in [Channels -> Links \cup {NoTask}]
  BY TunnelAssumption DEF TunnelInv, TunnelShape
<1>2. /\ subscribed \in [Channels -> 0..MaxMessages] /\ net \in [Channels -> 0..MaxMessages]
      /\ forwarders \in [Channels \X Links -> 0..MaxMessages]
  BY TunnelAssumption DEF TunnelInv, TunnelShape, TunnelTypes
<1>3. leaving \in Seq(Channels) /\ (leaving = <<>> <=> stage # "leaving")
  <2>1. Short(leaving) /\ (leaving = <<>> <=> stage # "leaving")
    BY DEF TunnelInv, LeavesShort
  <2>2. QED
    BY <2>1, ShortIsSeq
<1>4. QED
  BY <1>1, <1>2, <1>3, Zenon DEF TunnelTypeOK, TunnelTypes

\* The flags, which keep their type on their own.
WarningType == warning \in BOOLEAN

LEMMA TunnelAlwaysTyped == TunnelInit /\ [][TunnelNext]_tunnelVars => []TunnelTypeOK
<1>1. TunnelInit => WarningType
  BY TunnelTypesInit DEF WarningType
<1>2. WarningType /\ [TunnelNext]_tunnelVars => WarningType'
  BY WarningIsBoolean DEF WarningType
<1>3. TunnelInv /\ TunnelTypes /\ WarningType => TunnelTypeOK
  BY TunnelIsTyped DEF WarningType
<1>4. TunnelInit => TunnelTypes
  BY TunnelTypesInit
<1>5. QED
  BY <1>1, <1>2, <1>3, <1>4, TunnelInitInv, TunnelStepInv, TunnelTypesStep, PTL

-----------------------------------------------------------------------------
(* Providers, scans and clients                                            *)

ProviderRecords == [source: Sources, place: Ports \cup {Elsewhere}, key: Credentials,
                    default: BOOLEAN]
ScanRecords ==
  [step: {"off", "probing", "establishing", "listing", "writing"}, left: SUBSET Ports,
   known: [Ports -> Providers \cup {NoProvider}], keys: [Ports -> Credentials],
   present: SUBSET Ports, listed: SUBSET Ports, chose: BOOLEAN,
   mine: Providers \cup {NoProvider}, early: BOOLEAN, silent: SUBSET Ports]
RequestRecords ==
  [kind: {"none", "create", "edit", "delete", "select"}, id: Providers \cup {NoProvider},
   place: Ports \cup {Elsewhere}, key: Credentials, claim: BOOLEAN]

ProvidersShape ==
  /\ ProvidersTypeOK /\ scan \in ScanRecords /\ request \in RequestRecords
  /\ request.kind \in {"edit", "delete", "select"} => request.id \in Providers

\* A scan has heard of every runtime that was there all the time, and knows of
\* a choice made early enough: it is not about to write over one.
ScanIsFair ==
  /\ scan.step = "probing" =>
       /\ \A e \in Ports : runtime[e] = "silent" => e \in scan.silent
       /\ \A e \in Ports \ scan.left : e \in scan.present \cup scan.silent
  /\ scan.step = "establishing" /\ scan.early => scan.chose \/ AnyRoleSet
  /\ scan.step = "listing" => ~scan.chose /\ (scan.early => AnyRoleSet)
  /\ scan.step = "writing" => ~scan.early

\* A client made while its row was being edited is known to be.
ClientIsFresh ==
  ~torn => /\ request.kind = "edit" /\ request.id = Pooled => pool = NoCredential
           /\ Pooled \in Rows => pool \in {NoCredential, provider[Pooled].key}

OneDefault ==
  rivals \/ \A p, q \in Providers :
              /\ p \in Rows /\ provider[p].default
              /\ q \in Rows /\ provider[q].default
              => p = q

ProvidersInv ==
  ProvidersShape /\ ScansAreHarmless /\ ScanIsFair /\ ClientIsFresh /\ OneDefault

LEMMA BlankRecords ==
  NoRow \in ProviderRecords /\ NoScan \in ScanRecords /\ NoEdit \in RequestRecords
BY DEF NoRow, NoScan, NoEdit, ProviderRecords, ScanRecords, RequestRecords, Sources, Credentials,
       Elsewhere

LEMMA ProvidersInvInit == ProvidersInit => ProvidersInv
<1> SUFFICES ASSUME ProvidersInit PROVE ProvidersInv
  OBVIOUS
<1>1. provider \in [Providers -> ProviderRecords] /\ scan \in ScanRecords /\ request \in RequestRecords
  BY BlankRecords DEF ProvidersInit
<1>2. scans \in 0..MaxScans /\ asked \in 0..MaxAsked /\ whims \in 0..MaxWhims
  BY ProvidersAssumption DEF ProvidersInit
<1>3. ProvidersTypeOK
  BY <1>1, <1>2 DEF ProvidersInit, ProvidersTypeOK, ProviderRecords, NoScan, NoEdit
<1>4. ProvidersShape
  BY <1>1, <1>3 DEF ProvidersShape, ProvidersInit, NoEdit
<1>5. Rows = {}
  BY DEF ProvidersInit, Rows, NoRow
<1>6. ScanIsFair /\ ClientIsFresh /\ OneDefault /\ ScansAreHarmless
  BY <1>5 DEF ProvidersInit, ScanIsFair, ClientIsFresh, OneDefault, ScansAreHarmless, NoScan, NoEdit
<1>7. QED
  BY <1>4, <1>6 DEF ProvidersInv

LEMMA ShapeIsTyped ==
  ASSUME ProvidersShape
  PROVE  /\ provider \in [Providers -> ProviderRecords] /\ role \in [Roles -> Providers \cup {NoProvider, OwnModel}]
         /\ pool \in Credentials \cup {NoCredential}
         /\ runtime \in [Ports -> {"silent", "open", "locked", "broken"}]
         /\ scan \in ScanRecords /\ scan.listed \subseteq scan.present /\ request \in RequestRecords
         /\ scans \in 0..MaxScans /\ asked \in 0..MaxAsked /\ whims \in 0..MaxWhims
         /\ MaxScans \in Nat /\ MaxAsked \in Nat /\ MaxWhims \in Nat
BY ProvidersAssumption DEF ProvidersShape, ProvidersTypeOK, ProviderRecords

\* What a step has to show for the types.
LEMMA ShapeThen ==
  ASSUME ProvidersShape, provider' \in [Providers -> ProviderRecords],
         role' \in [Roles -> Providers \cup {NoProvider, OwnModel}],
         pool' \in Credentials \cup {NoCredential},
         runtime' \in [Ports -> {"silent", "open", "locked", "broken"}],
         scan' \in ScanRecords, scan'.listed \subseteq scan'.present,
         request' \in RequestRecords,
         request'.kind \in {"edit", "delete", "select"} => request'.id \in Providers,
         UNCHANGED counts \/ Scanned \/ Asked \/ Whim, torn' \in BOOLEAN, rivals' \in BOOLEAN,
         spoilt' \in SUBSET {"choice", "present"}
  PROVE  ProvidersShape'
<1>1. scans' \in 0..MaxScans /\ asked' \in 0..MaxAsked /\ whims' \in 0..MaxWhims
  <2>1. CASE UNCHANGED counts
    BY <2>1, ShapeIsTyped DEF counts
  <2>2. CASE Scanned
    BY <2>2, ShapeIsTyped DEF Scanned
  <2>3. CASE Asked
    BY <2>3, ShapeIsTyped DEF Asked
  <2>4. CASE Whim
    BY <2>4, ShapeIsTyped DEF Whim
  <2>5. QED
    BY <2>1, <2>2, <2>3, <2>4
<1>2. QED
  BY <1>1, ShapeIsTyped DEF ProvidersShape, ProvidersTypeOK, ProviderRecords, ScanRecords, RequestRecords

LEMMA GhostsAreTyped ==
  ASSUME ProvidersShape
  PROVE  torn \in BOOLEAN /\ rivals \in BOOLEAN /\ spoilt \in SUBSET {"choice", "present"}
BY DEF ProvidersShape, ProvidersTypeOK

\* Roles without the rows that go keep their types.
LEMMA RolesStayTyped ==
  ASSUME ProvidersShape, NEW gone
  PROVE  RolesWithout(gone) \in [Roles -> Providers \cup {NoProvider, OwnModel}]
BY ShapeIsTyped DEF RolesWithout

\* A step that leaves rows, client and request alone.
LEMMA ClientsRest ==
  ASSUME UNCHANGED <<provider, pool, request, torn>>, ClientIsFresh
  PROVE  ClientIsFresh'
BY DEF ClientIsFresh, Rows

LEMMA DefaultRests ==
  ASSUME UNCHANGED <<provider, rivals>>, OneDefault
  PROVE  OneDefault'
BY DEF OneDefault, Rows

LEMMA FairRests ==
  ASSUME UNCHANGED <<scan, runtime, role>>, ScanIsFair
  PROVE  ScanIsFair'
BY DEF ScanIsFair, AnyRoleSet

LEMMA ScanStartsStep ==
  ASSUME ProvidersInv, ScanStarts
  PROVE  ProvidersInv'
<1> USE DEF ProvidersInv
<1>1. PICK one \in [Ports -> Providers \cup {NoProvider}] :
        /\ \A e \in Ports : IF DetectedAt(e) = {} THEN one[e] = NoProvider
                                                  ELSE one[e] \in DetectedAt(e)
        /\ scan' = [NoScan EXCEPT
             !.step = "probing", !.left = Ports, !.known = one,
             !.keys = [e \in Ports |-> IF one[e] = NoProvider THEN "sentinel"
                                       ELSE provider[one[e]].key],
             !.chose = AnyRoleSet, !.early = AnyRoleSet,
             !.silent = {e \in Ports : runtime[e] = "silent"}]
  BY DEF ScanStarts
<1>2. UNCHANGED <<provider, role, pool, runtime, request, torn, spoilt, rivals>> /\ Scanned
  BY DEF ScanStarts
<1>3. \A e \in Ports : one[e] # NoProvider => one[e] \in Providers
  BY <1>1
<1>4. [e \in Ports |-> IF one[e] = NoProvider THEN "sentinel" ELSE provider[one[e]].key]
        \in [Ports -> Credentials]
  BY <1>3, ShapeIsTyped DEF ProviderRecords, Credentials
<1>5. AnyRoleSet \in BOOLEAN
  BY DEF AnyRoleSet
<1>6. scan' \in ScanRecords /\ scan'.listed \subseteq scan'.present
  BY <1>1, <1>4, <1>5, BlankRecords DEF ScanRecords, NoScan
<1>7. ProvidersShape'
  BY <1>2, <1>6, ShapeIsTyped, GhostsAreTyped, ShapeThen DEF ProvidersShape
<1>8. /\ scan'.step = "probing" /\ scan'.left = Ports
      /\ scan'.silent = {e \in Ports : runtime[e] = "silent"}
  BY <1>1 DEF NoScan
<1>9. ScanIsFair'
  BY <1>2, <1>8 DEF ScanIsFair
<1>10. QED
  BY <1>2, <1>7, <1>9, ClientsRest, DefaultRests DEF ScansAreHarmless

LEMMA ScanProbesStep ==
  ASSUME ProvidersInv, NEW e \in Ports, ScanProbes(e)
  PROVE  ProvidersInv'
<1> USE DEF ProvidersInv
<1>1. UNCHANGED <<provider, role, pool, runtime, request, counts, torn, spoilt, rivals>>
  BY DEF ScanProbes
<1>2. scan' \in ScanRecords /\ scan'.listed \subseteq scan'.present
  <2>1. Lists(e, scan.keys[e]) => Hears(e, scan.keys[e])
    BY DEF Lists, Hears
  <2>2. QED
    BY <2>1, ShapeIsTyped DEF ScanProbes, ScanRecords
<1>3. ProvidersShape'
  BY <1>1, <1>2, ShapeIsTyped, GhostsAreTyped, ShapeThen DEF ProvidersShape
<1>4. ScanIsFair'
  BY <1>1, ShapeIsTyped DEF ScanProbes, ScanIsFair, Hears, ScanRecords
<1>5. QED
  BY <1>1, <1>3, <1>4, ClientsRest, DefaultRests DEF ScansAreHarmless

LEMMA EstablishSteps ==
  ASSUME ProvidersInv, AsksForModels \/ ReadsRolesAgain \/ Establishes
  PROVE  ProvidersInv'
<1> USE DEF ProvidersInv
<1>1. UNCHANGED <<provider, pool, runtime, request, counts, torn, rivals>>
  BY DEF AsksForModels, ReadsRolesAgain, Establishes
<1>2. scan' \in {NoScan, [scan EXCEPT !.step = "listing"], [scan EXCEPT !.step = "writing"]}
  BY DEF AsksForModels, ReadsRolesAgain, Establishes
<1>3. scan' \in ScanRecords /\ scan'.listed \subseteq scan'.present
  <2>1. NoScan.listed \subseteq NoScan.present
    BY DEF NoScan
  <2>2. QED
    BY <1>2, <2>1, ShapeIsTyped, BlankRecords DEF ScanRecords
<1>4. role' \in [Roles -> Providers \cup {NoProvider, OwnModel}]
  BY ShapeIsTyped DEF AsksForModels, ReadsRolesAgain, Establishes, ScanRecords
<1>5. spoilt' = {}
  BY DEF AsksForModels, ReadsRolesAgain, Establishes, ScansAreHarmless, ScanIsFair
<1>6. ProvidersShape'
  BY <1>1, <1>3, <1>4, <1>5, ShapeIsTyped, GhostsAreTyped, ShapeThen DEF ProvidersShape
<1>7. ScanIsFair'
  <2>1. CASE AsksForModels
    BY <2>1, ShapeIsTyped DEF AsksForModels, ScanIsFair, Undecided, AnyRoleSet, ScanRecords, NoScan
  <2>2. CASE ReadsRolesAgain
    BY <2>2, ShapeIsTyped DEF ReadsRolesAgain, ScanIsFair, AnyRoleSet, ScanRecords, NoScan
  <2>3. CASE Establishes
    BY <2>3 DEF Establishes, ScanIsFair, NoScan
  <2>4. QED
    BY <2>1, <2>2, <2>3
<1>8. QED
  BY <1>1, <1>5, <1>6, <1>7, ClientsRest, DefaultRests DEF ScansAreHarmless

\* The rows after a scan: gone, registered, or as they were.
LEMMA ReconciledRow ==
  ASSUME ProvidersShape, NEW fresh \in SUBSET Ports, NEW new \in [fresh -> Providers],
         NEW gone \in SUBSET Providers, NEW p \in Providers
  PROVE  /\ Reconciled(new, gone)[p] \in ProviderRecords
         /\ p \in gone => Reconciled(new, gone)[p] = NoRow
         /\ p \notin gone /\ p \in Image(new) =>
              \E e \in fresh : /\ new[e] = p
                               /\ Reconciled(new, gone)[p].default <=>
                                    (ClaimsDefault /\ \A o \in fresh : e <= o)
         /\ p \notin gone \cup Image(new) => Reconciled(new, gone)[p] = provider[p]
<1>1. DOMAIN new = fresh
  OBVIOUS
<1>2. provider[p] \in ProviderRecords
  BY ShapeIsTyped
<1>3. CASE p \in gone
  BY <1>3, BlankRecords DEF Reconciled
<1>4. CASE p \notin gone /\ \E e \in fresh : new[e] = p
  <2> DEFINE at == CHOOSE o \in fresh : new[o] = p
  <2> DEFINE entry == [source |-> "detected", place |-> at, key |-> "sentinel",
                     default |-> ClaimsDefault /\ \A o \in fresh : at <= o]
  <2>1. at \in fresh /\ new[at] = p
    BY <1>4
  <2>2. Reconciled(new, gone)[p] = entry
    BY <1>4, <1>1 DEF Reconciled
  <2>3. (ClaimsDefault /\ \A o \in fresh : at <= o) \in BOOLEAN
    OBVIOUS
  <2>4. entry \in ProviderRecords
    <3> HIDE DEF at
    <3>1. QED
      BY <2>1, <2>3 DEF ProviderRecords, Sources, Credentials
  <2>5. entry.default = (ClaimsDefault /\ \A o \in fresh : at <= o)
    BY DEF entry
  <2> HIDE DEF at, entry
  <2>6. entry.default <=> ClaimsDefault /\ \A o \in fresh : at <= o
    BY <2>5
  <2>7. \E x \in fresh : new[x] = p /\ (entry.default <=> ClaimsDefault /\ \A o \in fresh : x <= o)
    BY <2>1, <2>6
  <2>8. p \in Image(new)
    BY <1>1, <2>1 DEF Image
  <2>9. QED
    BY <2>2, <2>4, <2>7, <2>8, <1>4
<1>5. CASE p \notin gone /\ ~\E e \in fresh : new[e] = p
  BY <1>5, <1>1, <1>2 DEF Reconciled, Image
<1>6. QED
  BY <1>3, <1>4, <1>5

\* What a scan's reconciliation did, when no row it knew was deleted.
LEMMA ScanReconcilesStep ==
  ASSUME ProvidersInv, ScanReconciles
  PROVE  ProvidersInv'
<1> USE DEF ProvidersInv
<1> DEFINE fresh == {e \in scan.listed : scan.known[e] = NoProvider}
           known == {scan.known[e] : e \in scan.listed \ fresh}
           gone  == UNION {DetectedAt(e) : e \in Ports \ scan.present}
<1>1. UNCHANGED <<runtime, request, counts, torn>> /\ scan.step = "probing" /\ scan.left = {}
  BY DEF ScanReconciles
<1>2. fresh \in SUBSET Ports /\ gone \in SUBSET Providers
  BY ShapeIsTyped DEF ScanRecords, DetectedAt, Rows
<1>3. \A e \in Ports \ scan.silent : DetectedAt(e) \cap gone = {}
  <2> SUFFICES ASSUME NEW e \in Ports \ scan.silent, NEW x \in DetectedAt(e), x \in gone
               PROVE  FALSE
    OBVIOUS
  <2>1. PICK o \in Ports \ scan.present : x \in DetectedAt(o)
    OBVIOUS
  <2>2. o = e
    BY <2>1 DEF DetectedAt
  <2>3. e \in scan.present \cup scan.silent
    BY <1>1 DEF ScanIsFair
  <2>4. QED
    BY <2>1, <2>2, <2>3
<1>4. CASE known \subseteq Rows
  <2>1. PICK new \in [fresh -> Unused] : provider' = Reconciled(new, gone)
    BY <1>4 DEF ScanReconciles
  <2>2. /\ role' = RolesWithout(gone) /\ Evict(known \cup gone)
        /\ rivals' = (rivals \/ (request.claim /\ ClaimsDefault /\ fresh # {}))
        /\ spoilt' = IF \A e \in Ports \ scan.silent : DetectedAt(e) \cap gone = {}
                     THEN spoilt ELSE spoilt \cup {"present"}
    BY <1>4 DEF ScanReconciles
  <2>3. \/ scan' = NoScan
        \/ \E p \in Providers :
             scan' = [scan EXCEPT !.step = "establishing", !.mine = p,
                        !.early = (@ /\ scan.chose) \/ \E r \in Roles : role'[r] # NoProvider]
    BY <1>4 DEF ScanReconciles
  <2>4. new \in [fresh -> Providers]
    BY DEF Unused
  <2>5. provider' \in [Providers -> ProviderRecords]
    <3>1. \A p \in Providers : Reconciled(new, gone)[p] \in ProviderRecords
      BY <1>2, <2>4, ReconciledRow
    <3>2. Reconciled(new, gone) = [p \in Providers |-> Reconciled(new, gone)[p]]
      BY DEF Reconciled
    <3> HIDE DEF fresh, gone
    <3>3. QED
      BY <2>1, <3>1, <3>2
  <2>6. pool' \in {pool, NoCredential}
    BY <2>2 DEF Evict
  <2>7. spoilt' = spoilt
    BY <1>3, <2>2
  <2>8. scan' \in ScanRecords /\ scan'.listed \subseteq scan'.present
    <3>1. CASE scan' = NoScan
      BY <3>1, BlankRecords DEF NoScan
    <3>2. CASE scan' # NoScan
      <4>1. PICK p \in Providers : 
              scan' = [scan EXCEPT !.step = "establishing", !.mine = p,
                         !.early = (@ /\ scan.chose) \/ \E r \in Roles : role'[r] # NoProvider]
        BY <2>3, <3>2
      <4>2. ((scan.early /\ scan.chose) \/ \E r \in Roles : role'[r] # NoProvider) \in BOOLEAN
        OBVIOUS
      <4>3. QED
        BY <4>1, <4>2, ShapeIsTyped DEF ScanRecords
    <3>3. QED
      BY <3>1, <3>2
  <2>9. rivals' \in BOOLEAN
    BY <2>2, GhostsAreTyped
  <2>10. ProvidersShape'
    BY <1>1, <1>2, <2>2, <2>5, <2>6, <2>7, <2>8, <2>9, ShapeIsTyped, GhostsAreTyped, ShapeThen,
       RolesStayTyped DEF ProvidersShape
  <2>11. ScanIsFair'
    <3>1. CASE scan' = NoScan
      BY <3>1 DEF ScanIsFair, NoScan
    <3>2. CASE scan' # NoScan
      <4>1. PICK p \in Providers : 
              scan' = [scan EXCEPT !.step = "establishing", !.mine = p,
                         !.early = (@ /\ scan.chose) \/ \E r \in Roles : role'[r] # NoProvider]
        BY <2>3, <3>2
      <4>2. /\ scan'.step = "establishing" /\ scan'.chose = scan.chose
            /\ scan'.early = ((scan.early /\ scan.chose) \/ \E r \in Roles : role'[r] # NoProvider)
        BY <4>1, ShapeIsTyped DEF ScanRecords
      <4>3. QED
        BY <4>2 DEF ScanIsFair, AnyRoleSet
    <3>3. QED
      BY <3>1, <3>2
  <2>12. ClientIsFresh'
    <3> SUFFICES ASSUME ~torn, ~(request.kind = "edit" /\ request.id = Pooled) \/ pool = NoCredential,
                        Pooled \in Rows => pool \in {NoCredential, provider[Pooled].key}
                 PROVE  Pooled \in Rows' => pool' \in {NoCredential, provider'[Pooled].key}
      BY <1>1, <2>6 DEF ClientIsFresh
    <3>0. Pooled \in Providers
      BY ProvidersAssumption
    <3>1. CASE Pooled \in gone
      <4>1. provider'[Pooled] = NoRow
        <5> HIDE DEF fresh, gone
        <5>1. QED
          BY <3>0, <3>1, <1>2, <2>1, <2>4, ReconciledRow
      <4>2. QED
        BY <4>1 DEF Rows, NoRow
    <3>2. CASE Pooled \in Image(new)
      <4>1. Pooled \in Unused
        BY <3>2 DEF Image
      <4>2. QED
        BY <4>1, <2>6 DEF Unused
    <3>3. CASE Pooled \notin gone \cup Image(new)
      <4>1. provider'[Pooled] = provider[Pooled]
        BY <3>0, <3>3, <1>2, <2>1, <2>4, ReconciledRow
      <4>2. QED
        BY <3>0, <4>1, <2>6 DEF Rows
    <3>4. QED
      BY <3>1, <3>2, <3>3
  <2>13. OneDefault'
    <3> SUFFICES ASSUME ~rivals', NEW p \in Providers, NEW q \in Providers,
                        p \in Rows', provider'[p].default, q \in Rows', provider'[q].default
                 PROVE  p = q
      BY DEF OneDefault
    <3>1. ~rivals
      BY <2>2
    <3>2. p \notin gone /\ q \notin gone
      <4> HIDE DEF fresh, gone
      <4>1. \A x \in gone : x \in Providers => provider'[x] = NoRow
        BY <1>2, <2>1, <2>4, ReconciledRow
      <4>2. QED
        BY <4>1 DEF Rows, NoRow
    <3>3. CASE ClaimsDefault
      <4>1. \A x \in Providers : provider[x].source = "absent"
        BY <3>3 DEF ClaimsDefault, Rows
      <4>2. p \in Image(new) /\ q \in Image(new)
        BY <3>2, <4>1, <1>2, <2>1, <2>4, ReconciledRow DEF Rows
      <4>3. PICK a \in fresh : new[a] = p /\ \A o \in fresh : a <= o
        <5> HIDE DEF fresh, gone
        <5>1. QED
        BY <3>2, <4>2, <1>2, <2>1, <2>4, ReconciledRow
      <4>4. PICK b \in fresh : new[b] = q /\ \A o \in fresh : b <= o
        <5> HIDE DEF fresh, gone
        <5>1. QED
        BY <3>2, <4>2, <1>2, <2>1, <2>4, ReconciledRow
      <4>5. a \in Nat /\ b \in Nat /\ a <= b /\ b <= a
        <5> HIDE DEF fresh
        <5>1. QED
          BY <1>2, <4>3, <4>4, ProvidersAssumption
      <4>6. a = b
        <5> HIDE DEF fresh
        <5>1. QED
          BY <4>5
      <4>7. QED
        BY <4>3, <4>4, <4>6
    <3>4. CASE ~ClaimsDefault
      <4>1. p \notin Image(new) /\ q \notin Image(new)
        <5> HIDE DEF fresh, gone
        <5>1. QED
        BY <3>2, <3>4, <1>2, <2>1, <2>4, ReconciledRow
      <4>2. provider'[p] = provider[p] /\ provider'[q] = provider[q]
        BY <3>2, <4>1, <1>2, <2>1, <2>4, ReconciledRow
      <4>3. QED
        BY <3>1, <4>2 DEF OneDefault, Rows
    <3>5. QED
      BY <3>3, <3>4
  <2>14. QED
    BY <2>7, <2>10, <2>11, <2>12, <2>13 DEF ScansAreHarmless
<1>5. CASE ~(known \subseteq Rows)
  <2>1. scan' = NoScan /\ UNCHANGED <<provider, role, pool, spoilt, rivals>>
    BY <1>5 DEF ScanReconciles
  <2>2. scan' \in ScanRecords /\ scan'.listed \subseteq scan'.present
    BY <2>1, BlankRecords DEF NoScan
  <2>3. ProvidersShape'
    BY <1>1, <2>1, <2>2, ShapeIsTyped, GhostsAreTyped, ShapeThen DEF ProvidersShape
  <2>4. ScanIsFair'
    BY <2>1 DEF ScanIsFair, NoScan
  <2>5. QED
    BY <1>1, <2>1, <2>3, <2>4, ClientsRest, DefaultRests DEF ScansAreHarmless
<1>6. QED
  BY <1>4, <1>5

-----------------------------------------------------------------------------
(* Requests, clients, runtimes and restarts                                *)

\* What a step of a request that leaves the scan alone still owes.
LEMMA CreatesStep ==
  ASSUME ProvidersInv, Creates
  PROVE  ProvidersInv'
<1> USE DEF ProvidersInv
<1>1. PICK p \in Unused :
        provider' = [provider EXCEPT ![p] =
          [source |-> IF request.place \in Ports THEN "detected" ELSE "database",
           place |-> request.place, key |-> request.key, default |-> request.claim]]
  BY DEF Creates
<1>2. /\ UNCHANGED <<role, pool, runtime, scan, counts, torn, spoilt>> /\ request' = NoEdit
      /\ rivals' = (rivals \/ (request.claim /\ Rows # {}))
  BY DEF Creates
<1>3. p \in Providers /\ (p = Pooled => pool = NoCredential) /\ p \notin Rows
  BY <1>1 DEF Unused, Rows
<1>4. provider' \in [Providers -> ProviderRecords]
  BY <1>1, <1>3, ShapeIsTyped DEF ProviderRecords, RequestRecords, Sources
<1>5. request' \in RequestRecords /\ request'.kind = "none"
  BY <1>2, BlankRecords DEF NoEdit
<1>6. rivals' \in BOOLEAN
  BY <1>2, GhostsAreTyped
<1>7. ProvidersShape'
  BY <1>2, <1>4, <1>5, <1>6, ShapeIsTyped, GhostsAreTyped, ShapeThen
<1>8. ClientIsFresh'
  BY <1>1, <1>2, <1>3, <1>5, ShapeIsTyped DEF ClientIsFresh, Rows
<1>9. OneDefault'
  <2> SUFFICES ASSUME ~rivals', NEW a \in Providers, NEW b \in Providers,
                      a \in Rows', provider'[a].default, b \in Rows', provider'[b].default
               PROVE  a = b
    BY DEF OneDefault
  <2>1. ~rivals /\ (request.claim => Rows = {})
    BY <1>2
  <2>2. \A x \in Providers \ {p} : provider'[x] = provider[x]
    BY <1>1, ShapeIsTyped
  <2>3. provider'[p].default = request.claim
    BY <1>1, <1>3, ShapeIsTyped
  <2>4. \A x \in Providers : x \in Rows' <=> provider'[x].source # "absent"
    BY DEF Rows
  <2>5. QED
    BY <2>1, <2>2, <2>3, <2>4 DEF OneDefault, Rows
<1>10. QED
  BY <1>2, <1>7, <1>8, <1>9, FairRests DEF ScansAreHarmless

LEMMA AskingSteps ==
  ASSUME ProvidersInv,
         \/ \E e \in Ports : AsksToCreate(e, "right")
         \/ AsksToCreate(Elsewhere, "wrong")
         \/ \E p \in Providers : AsksToEdit(p, "right") \/ AsksToDelete(p) \/ AsksToSelect(p)
  PROVE  ProvidersInv'
<1> USE DEF ProvidersInv
<1>1. UNCHANGED <<provider, role, runtime, scan, torn, spoilt, rivals>> /\ Asked
  BY DEF AsksToCreate, AsksToEdit, AsksToDelete, AsksToSelect
<1>2. pool' \in {pool, NoCredential}
  BY DEF AsksToCreate, AsksToEdit, AsksToDelete, AsksToSelect, Evict
<1>3. ClaimsDefault \in BOOLEAN
  BY DEF ClaimsDefault
<1>4. /\ request' \in RequestRecords
      /\ request'.kind \in {"edit", "delete", "select"} => request'.id \in Providers
      /\ request'.kind = "edit" /\ request'.id = Pooled => pool' = NoCredential
  <2>1. ASSUME NEW e \in Ports \cup {Elsewhere}, NEW k \in Credentials, AsksToCreate(e, k)
        PROVE  request' \in RequestRecords /\ request'.kind = "create"
    BY <2>1, <1>3, BlankRecords DEF AsksToCreate, RequestRecords, NoEdit
  <2>2. "right" \in Credentials /\ "wrong" \in Credentials
    BY DEF Credentials
  <2>3. ASSUME NEW p \in Providers, AsksToEdit(p, "right")
        PROVE  /\ request' \in RequestRecords /\ request'.kind = "edit" /\ request'.id = p
               /\ p = Pooled => pool' = NoCredential
    BY <2>2, <2>3, BlankRecords DEF AsksToEdit, RequestRecords, NoEdit, Evict
  <2>4. ASSUME NEW p \in Providers, AsksToDelete(p) \/ AsksToSelect(p)
        PROVE  request' \in RequestRecords /\ request'.kind \in {"delete", "select"} /\ request'.id = p
    BY <2>4, BlankRecords DEF AsksToDelete, AsksToSelect, RequestRecords, NoEdit
  <2>5. CASE \E e \in Ports : AsksToCreate(e, "right")
    BY <2>1, <2>2, <2>5
  <2>6. CASE AsksToCreate(Elsewhere, "wrong")
    BY <2>1, <2>2, <2>6
  <2>7. CASE \E p \in Providers : AsksToEdit(p, "right")
    BY <2>3, <2>7
  <2>8. CASE \E p \in Providers : AsksToDelete(p) \/ AsksToSelect(p)
    BY <2>4, <2>8
  <2>9. QED
    BY <2>5, <2>6, <2>7, <2>8
<1>5. ProvidersShape'
  BY <1>1, <1>2, <1>4, ShapeIsTyped, GhostsAreTyped, ShapeThen
<1>6. ClientIsFresh'
  BY <1>1, <1>2, <1>4 DEF ClientIsFresh, Rows
<1>7. QED
  BY <1>1, <1>5, <1>6, FairRests, DefaultRests DEF ScansAreHarmless

LEMMA EditsStep ==
  ASSUME ProvidersInv, Edits
  PROVE  ProvidersInv'
<1> USE DEF ProvidersInv
<1>1. UNCHANGED <<role, pool, runtime, scan, counts, torn, spoilt, rivals>> /\ request' = NoEdit
  BY DEF Edits
<1>2. request' \in RequestRecords /\ request'.kind = "none"
  BY <1>1, BlankRecords DEF NoEdit
<1>3. request.kind = "edit" /\ request.id \in Providers
  BY DEF Edits, ProvidersShape
<1>4. /\ provider' \in [Providers -> ProviderRecords]
      /\ \A p \in Providers : provider'[p].source = provider[p].source
      /\ \A p \in Providers : provider'[p].default = provider[p].default
      /\ \A p \in Providers \ {request.id} : provider'[p].key = provider[p].key
  BY <1>3, ShapeIsTyped DEF Edits, ProviderRecords, RequestRecords
<1>5. Rows' = Rows
  BY <1>4 DEF Rows
<1>6. ProvidersShape'
  BY <1>1, <1>2, <1>4, ShapeIsTyped, GhostsAreTyped, ShapeThen
<1>7. ClientIsFresh'
  BY <1>1, <1>2, <1>3, <1>4, <1>5, ProvidersAssumption DEF ClientIsFresh
<1>8. OneDefault'
  BY <1>1, <1>4, <1>5 DEF OneDefault
<1>9. QED
  BY <1>1, <1>6, <1>7, <1>8, FairRests DEF ScansAreHarmless

LEMMA DeletesStep ==
  ASSUME ProvidersInv, DeletesProvider
  PROVE  ProvidersInv'
<1> USE DEF ProvidersInv
<1>1. UNCHANGED <<pool, runtime, counts, torn, spoilt, rivals>> /\ request' = NoEdit
      /\ role' = RolesWithout({request.id}) /\ provider' = [provider EXCEPT ![request.id] = NoRow]
  BY DEF DeletesProvider
<1>2. request' \in RequestRecords /\ request'.kind = "none"
  BY <1>1, BlankRecords DEF NoEdit
<1>3. request.id \in Providers
  BY DEF DeletesProvider, ProvidersShape
<1>4. /\ provider' \in [Providers -> ProviderRecords] /\ provider'[request.id].source = "absent"
      /\ \A p \in Providers \ {request.id} : provider'[p] = provider[p]
  <2>1. NoRow.source = "absent"
    BY DEF NoRow
  <2>2. QED
    BY <1>1, <1>3, <2>1, ShapeIsTyped, BlankRecords
<1>5. scan' = [scan EXCEPT !.early = @ /\ AnyRoleSet']
  BY DEF DeletesProvider, AnyRoleSet
<1>6. AnyRoleSet' \in BOOLEAN
  BY DEF AnyRoleSet
<1>7. /\ scan' \in ScanRecords /\ scan'.listed \subseteq scan'.present
      /\ scan'.step = scan.step /\ scan'.left = scan.left /\ scan'.present = scan.present
      /\ scan'.silent = scan.silent /\ scan'.chose = scan.chose
      /\ scan'.early = (scan.early /\ AnyRoleSet')
  <2>1. (scan.early /\ AnyRoleSet') \in BOOLEAN
    OBVIOUS
  <2>2. QED
    BY <1>5, <2>1, ShapeIsTyped DEF ScanRecords
<1>8. ProvidersShape'
  BY <1>1, <1>2, <1>4, <1>7, ShapeIsTyped, GhostsAreTyped, ShapeThen, RolesStayTyped
<1>9. ScanIsFair'
  BY <1>1, <1>7 DEF ScanIsFair
<1>10. ClientIsFresh'
  BY <1>1, <1>2, <1>4 DEF ClientIsFresh, Rows
<1>11. OneDefault'
  BY <1>1, <1>4 DEF OneDefault, Rows
<1>12. QED
  BY <1>1, <1>8, <1>9, <1>10, <1>11 DEF ScansAreHarmless

LEMMA SetsDefaultStep ==
  ASSUME ProvidersInv, NEW p \in Providers, SetsDefault(p)
  PROVE  ProvidersInv'
<1> USE DEF ProvidersInv
<1>1. UNCHANGED <<role, pool, runtime, scan, request, torn, spoilt, rivals>> /\ Asked
      /\ provider' = [q \in Providers |-> [provider[q] EXCEPT !.default = q = p]]
  BY DEF SetsDefault
<1>2. /\ provider' \in [Providers -> ProviderRecords]
      /\ \A q \in Providers : provider'[q].default = (q = p)
      /\ \A q \in Providers : provider'[q].source = provider[q].source /\ provider'[q].key = provider[q].key
  BY <1>1, ShapeIsTyped DEF ProviderRecords
<1>3. Rows' = Rows
  BY <1>2 DEF Rows
<1>4. ProvidersShape'
  BY <1>1, <1>2, ShapeIsTyped, GhostsAreTyped, ShapeThen DEF ProvidersShape
<1>5. ClientIsFresh'
  BY <1>1, <1>2, <1>3, ProvidersAssumption DEF ClientIsFresh
<1>6. OneDefault'
  BY <1>2 DEF OneDefault
<1>7. QED
  BY <1>1, <1>4, <1>5, <1>6, FairRests DEF ScansAreHarmless

\* A choice is made after the scan's reading, or before it and respected.
LEMMA ChooseSteps ==
  ASSUME ProvidersInv, Selects \/ \E r \in Roles : SetsRole(r, OwnModel)
  PROVE  ProvidersInv'
<1> USE DEF ProvidersInv
<1>1. /\ UNCHANGED <<provider, pool, runtime, torn, spoilt, rivals>>
      /\ scan' = [scan EXCEPT !.early = @ \/ scan.step \in {"establishing", "listing"}]
      /\ UNCHANGED counts \/ Asked
  BY DEF Selects, SetsRole, Chooses
<1>2. role' \in [Roles -> Providers \cup {NoProvider, OwnModel}] /\ AnyRoleSet'
  <2>1. CASE Selects
    <3>1. role' = [r \in Roles |-> request.id] /\ request.id \in Providers
      BY <2>1 DEF Selects, Chooses, ProvidersShape
    <3>2. QED
      BY <3>1, ProvidersAssumption DEF AnyRoleSet, Roles
  <2>2. CASE \E r \in Roles : SetsRole(r, OwnModel)
    <3>1. PICK r \in Roles : role' = [role EXCEPT ![r] = OwnModel]
      BY <2>2 DEF SetsRole, Chooses
    <3>2. QED
      BY <3>1, ShapeIsTyped, ProvidersAssumption DEF AnyRoleSet
  <2>3. QED
    BY <2>1, <2>2
<1>3. /\ request' \in RequestRecords
      /\ request'.kind \in {"edit", "delete", "select"} => request'.id \in Providers
      /\ request' # request => request'.kind = "none"
  <2>1. NoEdit.kind = "none"
    BY DEF NoEdit
  <2>2. QED
    BY <2>1, BlankRecords, ShapeIsTyped DEF Selects, SetsRole, ProvidersShape
<1>4. /\ scan' \in ScanRecords /\ scan'.listed \subseteq scan'.present
      /\ scan'.step = scan.step /\ scan'.left = scan.left /\ scan'.present = scan.present
      /\ scan'.silent = scan.silent /\ scan'.chose = scan.chose
      /\ scan.step = "writing" => scan'.early = scan.early
  BY <1>1, ShapeIsTyped DEF ScanRecords
<1>5. ProvidersShape'
  BY <1>1, <1>2, <1>3, <1>4, ShapeIsTyped, GhostsAreTyped, ShapeThen
<1>6. ScanIsFair'
  BY <1>1, <1>2, <1>4 DEF ScanIsFair
<1>7. ClientIsFresh'
  BY <1>1, <1>3 DEF ClientIsFresh, Rows
<1>8. QED
  BY <1>1, <1>5, <1>6, <1>7, DefaultRests DEF ScansAreHarmless

LEMMA UsesClientStep ==
  ASSUME ProvidersInv, UsesClient
  PROVE  ProvidersInv'
<1> USE DEF ProvidersInv
<1>1. /\ UNCHANGED <<provider, role, runtime, scan, request, counts, spoilt, rivals>>
      /\ pool' = provider[Pooled].key
      /\ torn' = (torn \/ (request.id = Pooled /\ request.kind \in {"edit", "delete"}))
  BY DEF UsesClient
<1>2. pool' \in Credentials
  BY <1>1, ShapeIsTyped, ProvidersAssumption DEF ProviderRecords
<1>3. torn' \in BOOLEAN
  BY <1>1, GhostsAreTyped
<1>4. ProvidersShape'
  BY <1>1, <1>2, <1>3, ShapeIsTyped, GhostsAreTyped, ShapeThen DEF ProvidersShape
<1>5. ClientIsFresh'
  BY <1>1 DEF ClientIsFresh, Rows
<1>6. QED
  BY <1>1, <1>4, <1>5, FairRests, DefaultRests DEF ScansAreHarmless

LEMMA RuntimeChangesStep ==
  ASSUME ProvidersInv, NEW e \in Ports, NEW s \in {"silent", "open", "locked", "broken"},
         RuntimeChanges(e, s)
  PROVE  ProvidersInv'
<1> USE DEF ProvidersInv
<1>1. /\ UNCHANGED <<provider, role, pool, request, torn, spoilt, rivals>> /\ Whim
      /\ runtime' = [runtime EXCEPT ![e] = s]
      /\ scan' = [scan EXCEPT !.silent = IF s = "silent" THEN @ \cup {e} ELSE @]
  BY DEF RuntimeChanges
<1>2. runtime' \in [Ports -> {"silent", "open", "locked", "broken"}]
  BY <1>1, ShapeIsTyped
<1>3. scan' \in ScanRecords /\ scan'.listed \subseteq scan'.present
  BY <1>1, ShapeIsTyped DEF ScanRecords
<1>4. ProvidersShape'
  BY <1>1, <1>2, <1>3, ShapeIsTyped, GhostsAreTyped, ShapeThen DEF ProvidersShape
<1>5. ScanIsFair'
  BY <1>1, ShapeIsTyped DEF ScanIsFair, ScanRecords, AnyRoleSet
<1>6. QED
  BY <1>1, <1>4, <1>5, ClientsRest, DefaultRests DEF ScansAreHarmless

LEMMA ServerRestartsStep ==
  ASSUME ProvidersInv, NEW named \in BOOLEAN, ServerRestarts(named)
  PROVE  ProvidersInv'
<1> USE DEF ProvidersInv
<1> DEFINE gone == {p \in Rows : provider[p].source = "env" /\ ~named}
           env  == [NoRow EXCEPT !.source = "env", !.key = "right", !.default = TRUE]
<1>1. /\ UNCHANGED <<runtime, spoilt>> /\ Whim /\ role' = RolesWithout(gone) /\ pool' = NoCredential
      /\ scan' = NoScan /\ request' = NoEdit /\ torn' = FALSE /\ rivals' = (rivals /\ ~named)
      /\ provider' = [p \in Providers |->
           IF p = EnvProvider /\ named THEN env
           ELSE IF p \in gone THEN NoRow
           ELSE [provider[p] EXCEPT !.default = @ /\ ~named]]
  BY DEF ServerRestarts
<1>2. env \in ProviderRecords
  BY BlankRecords DEF ProviderRecords, NoRow, Sources, Credentials
<1>3. \A p \in Providers : /\ [provider[p] EXCEPT !.default = @ /\ ~named] \in ProviderRecords
                           /\ [provider[p] EXCEPT !.default = @ /\ ~named].source = provider[p].source
                           /\ [provider[p] EXCEPT !.default = @ /\ ~named].default
                                => provider[p].default /\ ~named
  <2> TAKE p \in Providers
  <2>1. (provider[p].default /\ ~named) \in BOOLEAN
    OBVIOUS
  <2>2. provider[p] \in ProviderRecords
    BY ShapeIsTyped
  <2>3. QED
    BY <2>1, <2>2 DEF ProviderRecords
<1>4. provider' \in [Providers -> ProviderRecords]
  <2> HIDE DEF gone, env
  <2>1. QED
    BY <1>1, <1>2, <1>3, BlankRecords
<1>5. scan' \in ScanRecords /\ scan'.listed \subseteq scan'.present /\ scan'.step = "off"
  BY <1>1, BlankRecords DEF NoScan
<1>6. request' \in RequestRecords /\ request'.kind = "none"
  BY <1>1, BlankRecords DEF NoEdit
<1>7. torn' \in BOOLEAN /\ rivals' \in BOOLEAN
  BY <1>1, GhostsAreTyped
<1>8. ProvidersShape'
  BY <1>1, <1>4, <1>5, <1>6, <1>7, ShapeIsTyped, GhostsAreTyped, ShapeThen, RolesStayTyped
<1>9. ScanIsFair'
  BY <1>5 DEF ScanIsFair
<1>10. ClientIsFresh'
  BY <1>1, <1>6 DEF ClientIsFresh
<1>11. OneDefault'
  <2>1. CASE named
    <3>1. \A p \in Providers : p \in Rows' /\ provider'[p].default => p = EnvProvider
      BY <1>1, <1>3, <2>1 DEF NoRow
    <3>2. QED
      BY <3>1 DEF OneDefault
  <2>2. CASE ~named
    <3>1. \A p \in Providers : p \in Rows' /\ provider'[p].default => p \in Rows /\ provider[p].default
      <4> HIDE DEF gone
      <4>1. \A p \in Providers : p \in Rows' <=> provider'[p].source # "absent"
        BY DEF Rows
      <4>2. \A p \in Providers : p \notin gone => provider'[p] = [provider[p] EXCEPT !.default = @ /\ ~named]
        BY <1>1, <2>2
      <4>3. \A p \in Providers : p \in gone => provider'[p].source = "absent"
        BY <1>1, <2>2 DEF NoRow
      <4>4. QED
        BY <4>1, <4>2, <4>3, <1>3 DEF Rows
    <3>2. rivals' = rivals
      BY <1>1, <2>2, GhostsAreTyped
    <3>3. QED
      BY <3>1, <3>2 DEF OneDefault
  <2>3. QED
    BY <2>1, <2>2
<1>12. QED
  BY <1>1, <1>8, <1>9, <1>10, <1>11 DEF ScansAreHarmless

LEMMA ProvidersInvStep == ProvidersInv /\ [ProvidersNext]_providerVars => ProvidersInv'
<1> SUFFICES ASSUME ProvidersInv, [ProvidersNext]_providerVars PROVE ProvidersInv'
  OBVIOUS
<1>1. CASE ScanStarts \/ ScanReconciles \/ \E e \in Ports : ScanProbes(e)
  BY <1>1, ScanStartsStep, ScanReconcilesStep, ScanProbesStep
<1>2. CASE AsksForModels \/ ReadsRolesAgain \/ Establishes
  BY <1>2, EstablishSteps
<1>3. CASE \/ \E e \in Ports : AsksToCreate(e, "right")
           \/ AsksToCreate(Elsewhere, "wrong")
           \/ \E p \in Providers : AsksToEdit(p, "right") \/ AsksToDelete(p) \/ AsksToSelect(p)
  BY <1>3, AskingSteps
<1>4. CASE Creates \/ Edits \/ DeletesProvider
  BY <1>4, CreatesStep, EditsStep, DeletesStep
<1>5. CASE Selects \/ \E r \in Roles : SetsRole(r, OwnModel)
  BY <1>5, ChooseSteps
<1>6. CASE \E p \in Providers : SetsDefault(p)
  BY <1>6, SetsDefaultStep
<1>7. CASE UsesClient
  BY <1>7, UsesClientStep
<1>8. CASE \E e \in Ports, s \in {"silent", "open", "locked", "broken"} : RuntimeChanges(e, s)
  BY <1>8, RuntimeChangesStep
<1>9. CASE \E named \in BOOLEAN : ServerRestarts(named)
  BY <1>9, ServerRestartsStep
<1>10. CASE UNCHANGED providerVars
  <2>1. UNCHANGED <<provider, role, pool, runtime, scan, request, counts, torn, spoilt, rivals>>
    BY <1>10 DEF providerVars
  <2>2. ProvidersShape'
    BY <2>1 DEF ProvidersInv, ProvidersShape, ProvidersTypeOK, counts
  <2>3. QED
    BY <2>1, <2>2, ClientsRest, DefaultRests, FairRests DEF ProvidersInv, ScansAreHarmless
<1>11. QED
  BY <1>1, <1>2, <1>3, <1>4, <1>5, <1>6, <1>7, <1>8, <1>9, <1>10 DEF ProvidersNext

LEMMA DefaultIsAlone ==
  ASSUME OneDefault, ~rivals
  PROVE  Cardinality({p \in Rows : provider[p].default}) <= 1
<1> DEFINE D == {p \in Rows : provider[p].default}
<1>1. \A p, q \in D : p = q
  BY DEF OneDefault, Rows
<1>2. CASE D = {}
  BY <1>2, FS_EmptySet
<1>3. CASE D # {}
  <2>1. PICK p : p \in D
    BY <1>3
  <2>2. D = {p}
    BY <1>1, <2>1
  <2> HIDE DEF D
  <2>3. Cardinality(D) = 1
    BY <2>2, FS_Singleton
  <2>4. QED
    BY <2>3 DEF D
<1>4. QED
  BY <1>2, <1>3

\* scan_local_ai changes no provider that an administrator has made, leaves one
\* default and never two, and a cached client speaks to the server its row names,
\* wherever a scan waits while rows are created, edited, chosen and deleted, for any
\* set of ports and providers; the exceptions are those the property names.
THEOREM ProvidersAreSound == ProvidersSpec => []ProvidersSound
<1>1. ProvidersInv => ProvidersSound
  BY DefaultIsAlone DEF ProvidersInv, ProvidersSound, ProvidersAgree, ClientIsFresh
<1>2. QED
  BY <1>1, ProvidersInvInit, ProvidersInvStep, PTL DEF ProvidersSpec

-----------------------------------------------------------------------------
(* What a profile leaves a task                                            *)

\* A merge takes something that is offered, and nothing only when its order has
\* nothing of what is offered.
LEMMA FirstIsOffered ==
  ASSUME NEW order, DOMAIN order = 1..5, NEW offered
  PROVE  IF \E i \in 1..5 : order[i] \in offered
         THEN FirstOffered(order, offered) \in offered
         ELSE FirstOffered(order, offered) = "nothing"
<1> DEFINE First(i) == i \in DOMAIN order /\ order[i] \in offered
                       /\ \A j \in 1..(i - 1) : order[j] \notin offered
<1>1. CASE ~\E i \in 1..5 : order[i] \in offered
  BY <1>1 DEF FirstOffered
<1>2. CASE \E i \in 1..5 : order[i] \in offered
  <2>1. \E i \in DOMAIN order : /\ order[i] \in offered
                               /\ \A j \in 1..(i - 1) : order[j] \notin offered
    <3>1. CASE order[1] \in offered
      BY <3>1
    <3>2. CASE order[1] \notin offered /\ order[2] \in offered
      BY <3>2
    <3>3. CASE order[1] \notin offered /\ order[2] \notin offered /\ order[3] \in offered
      BY <3>3
    <3>4. CASE order[1] \notin offered /\ order[2] \notin offered /\ order[3] \notin offered
               /\ order[4] \in offered
      BY <3>4
    <3>5. CASE order[1] \notin offered /\ order[2] \notin offered /\ order[3] \notin offered
               /\ order[4] \notin offered /\ order[5] \in offered
      BY <3>5
    <3>6. QED
      BY <1>2, <3>1, <3>2, <3>3, <3>4, <3>5
  <2> DEFINE k == CHOOSE i \in DOMAIN order : /\ order[i] \in offered
                                              /\ \A j \in 1..(i - 1) : order[j] \notin offered
  <2>2. order[k] \in offered
    BY <2>1
  <2>3. FirstOffered(order, offered) = order[k]
    BY <1>2 DEF FirstOffered
  <2>4. QED
    BY <1>2, <2>2, <2>3
<1>3. QED
  BY <1>1, <1>2

LEMMA SkillIsOffered ==
  ASSUME NEW offered \in SUBSET SkillSources
  PROVE  IF offered = {} THEN MergedSkill(offered) = "nothing" ELSE MergedSkill(offered) \in offered
<1> DEFINE order == <<"db", "plugin", "git", "gws", "baseline">>
<1>1. DOMAIN order = 1..5 /\ SkillSources = {order[i] : i \in 1..5}
  BY DEF SkillSources
<1>2. (\E i \in 1..5 : order[i] \in offered) <=> offered # {}
  BY <1>1
<1>3. MergedSkill(offered) = FirstOffered(order, offered)
  BY DEF MergedSkill
<1> HIDE DEF order
<1>4. QED
  BY <1>1, <1>2, <1>3, FirstIsOffered

LEMMA ServerIsOffered ==
  ASSUME NEW offered \in SUBSET ServerSources
  PROVE  LET s == FirstOffered(<<"onedrive", "configured", "builtin", "litellm", "plugin">>, offered)
         IN IF offered = {} THEN s = "nothing" ELSE s \in offered
<1> DEFINE order == <<"onedrive", "configured", "builtin", "litellm", "plugin">>
<1>1. DOMAIN order = 1..5 /\ ServerSources = {order[i] : i \in 1..5}
  BY DEF ServerSources
<1> HIDE DEF order
<1>2. (\E i \in 1..5 : order[i] \in offered) <=> offered # {}
  BY <1>1
<1>3. IF offered = {} THEN FirstOffered(order, offered) = "nothing"
                      ELSE FirstOffered(order, offered) \in offered
  BY <1>1, <1>2, FirstIsOffered
<1>4. QED
  BY <1>3 DEF order

\* What is settled for a profile obeys it, whatever there is.
LEMMA SettledIsObeyed ==
  ASSUME NEW p \in Plans, Settles(p)
  PROVE  ProfileIsObeyed'
<1>1. question' = p /\ granted' = Granted(p)
  BY DEF Settles
<1>2. CASE p \in SkillPlans
  <2> DEFINE s == MergedSkill(Offered(p))
  <2>1. /\ p.about = "skill" /\ p.offers \in SUBSET SkillSources /\ p.profile \in Profiles
        /\ p.lists \in BOOLEAN /\ p.external \in BOOLEAN /\ p.filters \in BOOLEAN
        /\ p.enables \in BOOLEAN
    BY <1>2 DEF SkillPlans
  <2>2. granted' = IF s = "nothing" \/ (Filtered(p) /\ ~Spares(p, s)) THEN "nothing" ELSE s
    BY <1>1, <2>1 DEF Granted, SkillGranted
  <2>3. /\ Offered(p) \in SUBSET SkillSources
        /\ "plugin" \in Offered(p) => p.profile = "kept" /\ p.enables
        /\ p.offers \ {"plugin"} \subseteq Offered(p) /\ Offered(p) \subseteq p.offers
    BY <2>1 DEF Offered, Obeys
  <2>4. IF Offered(p) = {} THEN s = "nothing" ELSE s \in Offered(p)
    BY <2>3, SkillIsOffered
  <2>5. "nothing" \notin SkillSources
    BY DEF SkillSources
  <2> HIDE DEF s
  <2>6. granted' = "plugin" => p.profile = "kept" /\ p.enables
    BY <2>2, <2>3, <2>4
  <2>7. p.profile # "kept" /\ p.offers \ {"plugin"} # {} => granted' # "nothing"
    BY <2>2, <2>3, <2>4, <2>5 DEF Filtered, Obeys
  <2>8. p.profile = "kept" /\ p.filters /\ ~p.lists =>
          granted' \notin {"db", "configured", "onedrive"}
    <3>1. s \notin {"configured", "onedrive"}
      BY <2>3, <2>4 DEF SkillSources
    <3>2. QED
      BY <2>2, <3>1 DEF Filtered, Obeys, Spares
  <2>9. p.profile = "kept" /\ p.filters /\ ~p.external => granted' \notin {"plugin", "git", "gws"}
    BY <2>2 DEF Filtered, Obeys, Spares
  <2>10. p.offers = {"baseline"} => granted' = "baseline"
    <3>1. p.offers = {"baseline"} => s = "baseline"
      BY <2>3, <2>4
    <3>2. QED
      BY <2>2, <3>1 DEF Spares
  <2>11. QED
    BY <1>1, <2>1, <2>6, <2>7, <2>8, <2>9, <2>10 DEF ProfileIsObeyed
<1>3. CASE p \in ServerPlans
  <2> DEFINE withheld == IF Filtered(p) /\ ~p.lists THEN {"configured", "onedrive"} ELSE {}
             left == Offered(p) \ withheld
  <2>1. /\ p.about = "server" /\ p.offers \in SUBSET ServerSources /\ p.profile \in Profiles
        /\ p.lists \in BOOLEAN /\ p.filters \in BOOLEAN /\ p.enables \in BOOLEAN
    BY <1>3 DEF ServerPlans
  <2>2. left = IF Filtered(p) /\ ~p.lists THEN Offered(p) \ {"configured", "onedrive"}
                                          ELSE Offered(p)
    OBVIOUS
  <2>3. granted' = FirstOffered(<<"onedrive", "configured", "builtin", "litellm", "plugin">>, left)
    BY <1>1, <2>1, <2>2 DEF Granted, ServerGranted
  <2>4. /\ left \in SUBSET ServerSources
        /\ "plugin" \in left => p.profile = "kept" /\ p.enables
        /\ p.profile # "kept" => left = p.offers \ {"plugin"}
        /\ p.profile = "kept" /\ p.filters /\ ~p.lists => left \cap {"configured", "onedrive"} = {}
    BY <2>1 DEF Offered, Obeys, Filtered
  <2> HIDE DEF left
  <2>5. IF left = {} THEN granted' = "nothing" ELSE granted' \in left
    BY <2>3, <2>4, ServerIsOffered
  <2>6. {"nothing", "db"} \cap ServerSources = {}
    BY DEF ServerSources
  <2>7. /\ granted' = "plugin" => p.profile = "kept" /\ p.enables
        /\ p.profile # "kept" /\ p.offers \ {"plugin"} # {} => granted' # "nothing"
        /\ p.profile = "kept" /\ p.filters /\ ~p.lists =>
             granted' \notin {"db", "configured", "onedrive"}
    BY <2>4, <2>5, <2>6
  <2>8. QED
    BY <1>1, <2>1, <2>7 DEF ProfileIsObeyed
<1>4. CASE p \in MountPlans
  <2>1. p.about = "mount" /\ p.profile \in Profiles
    BY <1>4 DEF MountPlans
  <2>2. granted' \in {"nothing"} \cup (IF p.profile = "kept" THEN {p.wants} ELSE {})
    BY <1>1, <2>1 DEF Granted, MountGranted, Obeys
  <2>3. QED
    BY <1>1, <2>1, <2>2 DEF ProfileIsObeyed
<1>5. CASE p \in TimeoutPlans
  <2>1. p.about = "timeout" /\ p.profile \in Profiles
    BY <1>5 DEF TimeoutPlans
  <2>2. /\ p.profile = "kept" /\ p.theirs # Unset => granted' = p.theirs
        /\ p.profile # "kept" /\ p.global # Unset => granted' = p.global
    BY <1>1, <2>1 DEF Granted, TimeoutGranted, Obeys
  <2>3. QED
    BY <1>1, <2>1, <2>2 DEF ProfileIsObeyed
<1>6. QED
  BY <1>2, <1>3, <1>4, <1>5 DEF Plans

LEMMA GrantsStepInv == ProfileIsObeyed /\ [GrantsNext]_grantVars => ProfileIsObeyed'
<1> SUFFICES ASSUME ProfileIsObeyed, [GrantsNext]_grantVars PROVE ProfileIsObeyed'
  OBVIOUS
<1>1. CASE UNCHANGED grantVars
  BY <1>1 DEF grantVars, ProfileIsObeyed
<1>2. QED
  BY <1>1, SettledIsObeyed DEF GrantsNext

LEMMA GrantsInitInv == GrantsInit => ProfileIsObeyed
BY DEF GrantsInit, ProfileIsObeyed

\* A task is prepared with what its profile allows and nothing else: _resolve_profile,
\* the choice of model, servers, skills and timeouts, for any set of profiles.
THEOREM ProfilesAreObeyed == GrantsSpec => []ProfileIsObeyed
BY GrantsInitInv, GrantsStepInv, PTL DEF GrantsSpec

Answers == SkillSources \cup ServerSources \cup {"nothing", "all", "part"}

\* The type of an answer.
LEMMA SettledIsTyped ==
  ASSUME NEW p \in Plans
  PROVE  IF p.about = "timeout" THEN Granted(p) \in 1..(MaxTimeout + LocalTimeout)
                                ELSE Granted(p) \in Answers
<1>1. CASE p \in SkillPlans
  <2> DEFINE s == MergedSkill(Offered(p))
  <2>1. p.about = "skill" /\ Offered(p) \in SUBSET SkillSources
    BY <1>1 DEF SkillPlans, Offered
  <2>2. s \in SkillSources \cup {"nothing"}
    BY <2>1, SkillIsOffered
  <2>3. Granted(p) \in {s, "nothing"}
    BY <2>1 DEF Granted, SkillGranted
  <2> HIDE DEF s
  <2>4. QED
    BY <2>1, <2>2, <2>3 DEF Answers
<1>2. CASE p \in ServerPlans
  <2> DEFINE left == IF Filtered(p) /\ ~p.lists THEN Offered(p) \ {"configured", "onedrive"}
                                                ELSE Offered(p)
             s == FirstOffered(<<"onedrive", "configured", "builtin", "litellm", "plugin">>, left)
  <2>1. p.about = "server" /\ left \in SUBSET ServerSources
    BY <1>2 DEF ServerPlans, Offered
  <2>2. Granted(p) = s
    BY <2>1 DEF Granted, ServerGranted
  <2> HIDE DEF left
  <2>3. s \in ServerSources \cup {"nothing"}
    BY <2>1, ServerIsOffered
  <2> HIDE DEF s
  <2>4. QED
    BY <2>1, <2>2, <2>3 DEF Answers
<1>3. CASE p \in MountPlans
  <2>1. p.about = "mount" /\ p.wants \in {"no", "all", "part"}
    BY <1>3 DEF MountPlans
  <2>2. Granted(p) \in {"nothing", "all", "part"}
    BY <2>1 DEF Granted, MountGranted
  <2>3. QED
    BY <2>1, <2>2 DEF Answers
<1>4. CASE p \in TimeoutPlans
  <2>1. /\ p.about = "timeout" /\ p.theirs \in 0..MaxTimeout /\ p.global \in 0..MaxTimeout
    BY <1>4 DEF TimeoutPlans, Timeouts, Unset
  <2>2. Granted(p) = TimeoutGranted(p)
    BY <2>1 DEF Granted
  <2>3. \/ Granted(p) \in {p.theirs, p.global} \ {0}
        \/ Granted(p) \in {LocalTimeout, OurTimeout}
    BY <2>2 DEF TimeoutGranted, Unset
  <2>4. QED
    BY <2>1, <2>3, GrantsAssumption
<1>5. QED
  BY <1>1, <1>2, <1>3, <1>4 DEF Plans

LEMMA GrantsTypesInit == GrantsInit => GrantsTypeOK
BY DEF GrantsInit, GrantsTypeOK

LEMMA GrantsTypesStep == GrantsTypeOK /\ [GrantsNext]_grantVars => GrantsTypeOK'
<1> SUFFICES ASSUME GrantsTypeOK, [GrantsNext]_grantVars PROVE GrantsTypeOK'
  OBVIOUS
<1>1. CASE UNCHANGED grantVars
  BY <1>1 DEF grantVars, GrantsTypeOK
<1>2. ASSUME NEW p \in Plans, Settles(p) PROVE GrantsTypeOK'
  BY <1>2, SettledIsTyped DEF Settles, GrantsTypeOK, Answers
<1>3. QED
  BY <1>1, <1>2 DEF GrantsNext

LEMMA GrantsAlwaysTyped == GrantsInit /\ [][GrantsNext]_grantVars => []GrantsTypeOK
BY GrantsTypesInit, GrantsTypesStep, PTL
=============================================================================
