----------------------------- MODULE StorageTokens -----------------------------
(***************************************************************************)
(* The OAuth tokens of Google Drive and OneDrive: the two ways a user       *)
(* connects one, the refreshes on behalf of tasks and of the gateway, the   *)
(* answers of errand-cloud they wait for, and the gateway's bearer.         *)
(* A token is known by the drive it opens.                                  *)
(***************************************************************************)
EXTENDS Naturals, FiniteSets

CONSTANTS
  Drives, Askers,  \* providers, and the requests that may run at once
  NoToken, Nobody,
  MaxCalls         \* bound on authorisations and refreshes in one behaviour

ASSUME TokenAssumption ==
  /\ NoToken \notin Drives /\ Nobody \notin Askers /\ IsFiniteSet(Askers)
  /\ MaxCalls \in Nat

VARIABLES
  row,          \* PlatformCredential of every drive
  linked,       \* ghost: the user's last act on a drive was to connect it
  authorising,  \* oauth_state:* and the way the user was sent
  local,        \* drives with client credentials in the environment
  cloud,        \* no cloud credential, no connection, connected
  pending,      \* _pending_responses
  owed,         \* refreshes errand-cloud has been asked for
  asker,        \* requests under way
  bearer,       \* the gateway's bearer is in Valkey
  wanted,       \* ghost: the last server to start had the workspace enabled
  calls

tokenVars == <<row, linked, authorising, local, cloud, pending, owed, asker,
               bearer, wanted, calls>>

-----------------------------------------------------------------------------
Tokens == [access : Drives \cup {NoToken}, refresh : Drives \cup {NoToken}]
Blank  == [access |-> NoToken, refresh |-> NoToken]
Free   == [step |-> "free", drive |-> NoToken, own |-> Blank,
           first |-> NoToken, answer |-> NoToken]

TokensTypeOK ==
  /\ row \in [Drives -> Tokens]
  /\ linked \in [Drives -> BOOLEAN]
  /\ authorising \in SUBSET (Drives \X {"direct", "cloud"})
  /\ local \in SUBSET Drives
  /\ cloud \in {"off", "down", "up"}
  /\ pending \in [Drives \X {"result", "error"} -> Askers \cup {Nobody}]
  /\ owed \in [Drives -> 0..(2 * MaxCalls)]
  /\ asker \in [Askers ->
       [step : {"free", "exchanging", "naming", "seen", "posting", "awaiting",
                "asking", "relayed", "relaying", "storing"},
        drive : Drives \cup {NoToken}, own : Tokens, first : Drives \cup {NoToken},
        answer : Drives \cup {NoToken, "refused"}]]
  /\ bearer \in BOOLEAN /\ wanted \in BOOLEAN
  /\ calls \in 0..MaxCalls

TokensInit ==
  /\ row = [d \in Drives |-> Blank]
  /\ linked = [d \in Drives |-> FALSE]
  /\ authorising = {}
  /\ local \in SUBSET Drives
  /\ cloud = "off"
  /\ pending = [k \in Drives \X {"result", "error"} |-> Nobody]
  /\ owed = [d \in Drives |-> 0]
  /\ asker = [c \in Askers |-> Free]
  /\ bearer = FALSE /\ wanted = FALSE
  /\ calls = 0

Connected(d) == row[d] # Blank

\* Wrong: a row of its own.
Upserts(d, tokens) == [row EXCEPT ![d] = tokens]
\* The commit of a refresh changes a row that is there.
Updates(d, tokens) ==
  IF Connected(d) THEN [row EXCEPT ![d] = tokens] ELSE row

-----------------------------------------------------------------------------
(* Connecting and disconnecting                                            *)

\* _authorize_provider: by way of the cloud if there is a cloud credential.
Authorises(d) ==
  /\ calls < MaxCalls /\ calls' = calls + 1
  /\ \/ cloud = "up" /\ authorising' = authorising \cup {<<d, "cloud">>}
     \/ cloud = "off" /\ d \in local
        /\ authorising' = authorising \cup {<<d, "direct">>}
  /\ UNCHANGED <<row, linked, local, cloud, pending, owed, asker, bearer, wanted>>

LinksDrive(d, tokens) ==
  /\ row' = [row EXCEPT ![d] = tokens]
  /\ linked' = [linked EXCEPT ![d] = TRUE]

\* callback, from the state to the token exchange.
ReturnsFromConsent(c, d) ==
  /\ asker[c] = Free /\ <<d, "direct">> \in authorising
  /\ authorising' = authorising \ {<<d, "direct">>}
  /\ asker' = [asker EXCEPT ![c] = [Free EXCEPT !.step = "exchanging", !.drive = d]]
  /\ UNCHANGED <<row, linked, local, cloud, pending, owed, bearer, wanted, calls>>

\* Without a refresh token in the answer the stored one is kept.
ExchangesCode(c) ==
  LET d == asker[c].drive IN
  /\ asker[c].step = "exchanging"
  /\ \/ asker' = [asker EXCEPT ![c] = Free]
     \/ \E r \in {d, row[d].refresh} :
          asker' = [asker EXCEPT ![c].step = "naming",
                                 ![c].own = [access |-> d, refresh |-> r]]
  /\ UNCHANGED <<row, linked, authorising, local, cloud, pending, owed, bearer, wanted, calls>>

\* After the user's name is asked for; two at once may clash on the key.
StoresGrantedTokens(c) ==
  /\ asker[c].step = "naming"
  /\ \/ LinksDrive(asker[c].drive, asker[c].own)
     \/ UNCHANGED <<row, linked>>
  /\ asker' = [asker EXCEPT ![c] = Free]
  /\ UNCHANGED <<authorising, local, cloud, pending, owed, bearer, wanted, calls>>

\* _handle_oauth_tokens, with or without a refresh token.
TokensArrive(d) ==
  /\ cloud = "up" /\ <<d, "cloud">> \in authorising
  /\ authorising' = authorising \ {<<d, "cloud">>}
  /\ \E r \in {d, NoToken} : LinksDrive(d, [access |-> d, refresh |-> r])
  /\ UNCHANGED <<local, cloud, pending, owed, asker, bearer, wanted, calls>>

\* _disconnect_provider, by any of its three routes.
DisconnectsDrive(d) ==
  /\ row' = [row EXCEPT ![d] = Blank]
  /\ linked' = [linked EXCEPT ![d] = FALSE]
  /\ UNCHANGED <<authorising, local, cloud, pending, owed, asker, bearer, wanted, calls>>

-----------------------------------------------------------------------------
(* Answers of the cloud                                                    *)

Key(d, kind) == <<d, kind>>

Awaits(c, d) ==
  pending' = [pending EXCEPT ![Key(d, "result")] = c, ![Key(d, "error")] = c]
Forgets(d) ==
  pending' = [pending EXCEPT ![Key(d, "result")] = Nobody, ![Key(d, "error")] = Nobody]

\* A key is its last caller's; an answer for one that gave up finds nobody.
Resolves(key, answer) ==
  /\ pending' = [pending EXCEPT ![key] = Nobody]
  /\ asker' = [c \in Askers |->
       IF c = pending[key] /\ asker[c].answer = NoToken
       THEN [asker[c] EXCEPT !.answer = answer] ELSE asker[c]]

CloudAnswers(d) ==
  /\ cloud = "up" /\ owed[d] > 0 /\ owed' = [owed EXCEPT ![d] = @ - 1]
  /\ Resolves(Key(d, "result"), d)
  /\ UNCHANGED <<row, linked, authorising, local, cloud, bearer, wanted, calls>>

\* oauth_error, of a refresh or of an authorisation.
CloudRefuses(d) ==
  /\ cloud = "up"
  /\ \/ owed[d] > 0 /\ owed' = [owed EXCEPT ![d] = @ - 1] /\ UNCHANGED authorising
     \/ /\ <<d, "cloud">> \in authorising
        /\ authorising' = authorising \ {<<d, "cloud">>} /\ UNCHANGED owed
  /\ Resolves(Key(d, "error"), "refused")
  /\ UNCHANGED <<row, linked, local, cloud, bearer, wanted, calls>>

CloudChanges ==
  /\ cloud' \in {"off", "down", "up"} \ {cloud}
  /\ owed' = [d \in Drives |-> 0]
  /\ UNCHANGED <<row, linked, authorising, local, pending, asker, bearer, wanted, calls>>

-----------------------------------------------------------------------------
(* Refreshing                                                              *)

\* first: the refresh token the caller of the endpoint holds.
Becomes(c, step, d, first, own) ==
  asker' = [asker EXCEPT ![c] =
    [step |-> step, drive |-> d, own |-> own, first |-> first, answer |-> NoToken]]
Gives(c) == asker' = [asker EXCEPT ![c] = Free]

\* send_and_await up to the answer.
Sends(c, step, d, first, own) ==
  /\ Awaits(c, d)
  /\ owed' = [owed EXCEPT ![d] = @ + 1]
  /\ Becomes(c, step, d, first, own)

\* refresh_token_if_needed of the row it has just loaded.
Refreshes(c, d) ==
  LET own == row[d] IN
  CASE own.refresh = NoToken -> Gives(c) /\ UNCHANGED <<pending, owed>>
    [] own.refresh # NoToken /\ d \in local ->
         Becomes(c, "posting", d, own.refresh, own) /\ UNCHANGED <<pending, owed>>
    [] OTHER ->
         \/ cloud = "up" /\ Sends(c, "awaiting", d, own.refresh, own)
         \/ Becomes(c, "asking", d, own.refresh, own) /\ UNCHANGED <<pending, owed>>

\* At a task's start, and for a task's own bearer.
TaskRefreshes(c, d) ==
  /\ asker[c] = Free /\ calls < MaxCalls /\ calls' = calls + 1
  /\ Connected(d) /\ Refreshes(c, d)
  /\ UNCHANGED <<row, linked, authorising, local, cloud, bearer, wanted>>

\* resolve_refresh_caller of the gateway: first read, then renewed.
GatewayCalls(c, d) ==
  /\ asker[c] = Free /\ calls < MaxCalls /\ calls' = calls + 1
  /\ bearer /\ Becomes(c, "seen", d, NoToken, Blank)
  /\ UNCHANGED <<row, linked, authorising, local, cloud, pending, owed, bearer, wanted>>

\* EXPIRE gives a new time to a key that is there.
Renewed == bearer

GatewayRefreshes(c) ==
  /\ asker[c].step = "seen"
  /\ bearer' = Renewed
  /\ IF Connected(asker[c].drive) THEN Refreshes(c, asker[c].drive)
     ELSE Gives(c) /\ UNCHANGED <<pending, owed>>
  /\ UNCHANGED <<row, linked, authorising, local, cloud, wanted, calls>>

\* _direct_refresh; an answer may leave out the refresh token.
ProviderAnswers(c) ==
  LET me == asker[c] IN
  /\ me.step = "posting"
  /\ \/ Gives(c)
     \/ \E r \in {me.drive, me.own.refresh} :
          Becomes(c, "storing", me.drive, me.first, [access |-> me.drive, refresh |-> r])
  /\ UNCHANGED <<row, linked, authorising, local, cloud, pending, owed, bearer, wanted, calls>>

\* The end of send_and_await, by an answer, an error or the time: it forgets
\* the keys, whoever's they are by now.
StopsWaiting(c) ==
  LET me == asker[c] IN
  /\ me.step \in {"awaiting", "relayed"}
  /\ Forgets(me.drive)
  /\ IF me.answer \in {NoToken, "refused"}
     THEN IF me.step = "awaiting" THEN Becomes(c, "asking", me.drive, me.first, me.own)
          ELSE Gives(c)
     ELSE \E r \in {me.answer, me.own.refresh} :
            Becomes(c, IF me.step = "awaiting" THEN "storing" ELSE "relaying",
                    me.drive, me.first, [access |-> me.answer, refresh |-> r])
  /\ UNCHANGED <<row, linked, authorising, local, cloud, owed, bearer, wanted, calls>>

\* The refresh endpoint of the server, with the row as it is there.
AsksServer(c) ==
  LET d == asker[c].drive IN
  /\ asker[c].step = "asking"
  /\ \/ Gives(c) /\ UNCHANGED <<pending, owed>>
     \/ /\ Connected(d) /\ row[d].refresh # NoToken /\ cloud = "up"
        /\ Sends(c, "relayed", d, asker[c].first, row[d])
  /\ UNCHANGED <<row, linked, authorising, local, cloud, bearer, wanted, calls>>

\* The endpoint stores; its caller then stores what it has itself, the access
\* token it was given and the refresh token it read at first.
EndpointStores(c) ==
  LET me == asker[c] IN
  /\ me.step = "relaying"
  /\ row' = Updates(me.drive, me.own)
  /\ \/ Gives(c)
     \/ Becomes(c, "storing", me.drive, me.first, [me.own EXCEPT !.refresh = me.first])
  /\ UNCHANGED <<linked, authorising, local, cloud, pending, owed, bearer, wanted, calls>>

StoresRefreshed(c) ==
  /\ asker[c].step = "storing"
  /\ row' = Updates(asker[c].drive, asker[c].own)
  /\ Gives(c)
  /\ UNCHANGED <<linked, authorising, local, cloud, pending, owed, bearer, wanted, calls>>

-----------------------------------------------------------------------------
(* Time and restarts                                                       *)

\* A server starts, one of several: it registers the bearer it is configured
\* with or revokes every one.
ServerStarts(on) ==
  /\ bearer' = on /\ wanted' = on
  /\ UNCHANGED <<row, linked, authorising, local, cloud, pending, owed, asker, calls>>

BearerExpires ==
  /\ bearer /\ bearer' = FALSE
  /\ UNCHANGED <<row, linked, authorising, local, cloud, pending, owed, asker, wanted, calls>>

TokensNext ==
  \/ \E d \in Drives :
       \/ Authorises(d) \/ TokensArrive(d) \/ DisconnectsDrive(d)
       \/ CloudAnswers(d) \/ CloudRefuses(d)
       \/ \E c \in Askers : ReturnsFromConsent(c, d) \/ TaskRefreshes(c, d) \/ GatewayCalls(c, d)
  \/ \E c \in Askers :
       \/ ExchangesCode(c) \/ StoresGrantedTokens(c) \/ GatewayRefreshes(c)
       \/ ProviderAnswers(c) \/ StopsWaiting(c) \/ AsksServer(c)
       \/ EndpointStores(c) \/ StoresRefreshed(c)
  \/ CloudChanges \/ BearerExpires
  \/ \E on \in BOOLEAN : ServerStarts(on)

-----------------------------------------------------------------------------
\* A drive has tokens if and only if connecting it was the last thing its user
\* did, whatever refreshes were under way (_direct_refresh,
\* _apply_refresh_result); the tokens are that drive's, whichever caller an
\* answer of the cloud went to (_resolve_pending_response); and a bearer that
\* was revoked between a request's two looks at it stays so
\* (renew_workspace_bearer).
DisconnectedStaysSo ==
  /\ \A d \in Drives :
       /\ linked[d] <=> Connected(d)
       /\ Connected(d) => /\ row[d].access = d
                          /\ row[d].refresh \in {d, NoToken}
  /\ bearer => wanted

TokensSpec == TokensInit /\ [][TokensNext]_tokenVars
=============================================================================
