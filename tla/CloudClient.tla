------------------------------ MODULE CloudClient ------------------------------
(***************************************************************************)
(* The connection to errand-cloud and the credential it lives on.  One     *)
(* client dials, registers, receives and reconnects; its close codes stop  *)
(* it, refresh the token or back off.  A timer refreshes the same token.   *)
(* A device grant stores a new credential and restarts both; a disconnect  *)
(* deletes it.                                                             *)
(*                                                                         *)
(* A token is a session (one per grant) and a number; the cloud accepts    *)
(* the last one it issued in a session and rotates it at every refresh.    *)
(***************************************************************************)
EXTENDS Naturals

CONSTANTS
  MaxEvictions,   \* MAX_CONSECUTIVE_EVICTIONS
  MaxGrants,      \* bound: device grants in one behaviour
  MaxRotations,   \* bound: tokens a session issues
  MaxDrops        \* bound: connections and calls that fail

ASSUME ClientAssumption ==
  /\ MaxEvictions \in Nat \ {0}
  /\ MaxGrants \in Nat /\ MaxRotations \in Nat /\ MaxDrops \in Nat

VARIABLES
  cred,        \* the "cloud" PlatformCredential
  latest,      \* the token number the cloud accepts, per session
  phase,       \* where CloudWebSocketClient.run is
  evictions,   \* _consecutive_evictions
  refresh,     \* _try_refresh_token, by the client and by the timer
  timerOn,     \* _refresh_task exists
  grant,       \* the device grant's poller, and the generation it has
  generation,  \* _cloud_device_generation
  drops,       \* failures so far
  mislaid      \* ghost: sessions whose last token nobody stored

clientVars == <<cred, latest, phase, evictions, refresh, timerOn, grant,
                generation, drops, mislaid>>

-----------------------------------------------------------------------------
Refreshers == {"client", "timer"}
NoCred     == [status |-> "none", session |-> 0, token |-> 0]
NoRefresh  == [step |-> "idle", session |-> 0, token |-> 0]
NoGrant    == [step |-> "none", session |-> 0]
Phases     == {"stopped", "loading", "dialing", "sending", "registering",
               "receiving", "refreshing", "failing", "backoff"}

ClientTypeOK ==
  /\ cred \in [status: {"none", "connected", "error"}, session: 0..MaxGrants,
               token: 0..MaxRotations]
  /\ latest \in [1..MaxGrants -> 0..MaxRotations]
  /\ phase \in Phases
  /\ evictions \in 0..MaxEvictions
  /\ refresh \in [Refreshers -> [step: {"idle", "asking", "storing", "failed"},
                    session: 0..MaxGrants, token: 0..MaxRotations]]
  /\ timerOn \in BOOLEAN
  /\ grant \in [step: {"none", "polling", "storing", "starting", "started"},
                session: 0..MaxGrants]
  /\ generation \in 0..MaxGrants
  /\ drops \in 0..MaxDrops
  /\ mislaid \in SUBSET (0..MaxGrants)

ClientInit ==
  /\ cred = NoCred
  /\ latest = [s \in 1..MaxGrants |-> 0]
  /\ phase = "stopped" /\ evictions = 0
  /\ refresh = [r \in Refreshers |-> NoRefresh]
  /\ timerOn = FALSE
  /\ grant = NoGrant /\ generation = 0
  /\ drops = 0 /\ mislaid = {}

Drop == drops < MaxDrops /\ drops' = drops + 1

-----------------------------------------------------------------------------
(* run and _connect_and_receive                                            *)

\* Without a usable credential the client stops for good.
LoadCredential ==
  /\ phase = "loading"
  /\ phase' = IF cred.status = "connected" THEN "dialing" ELSE "stopped"
  /\ UNCHANGED <<cred, latest, evictions, refresh, timerOn, grant, generation,
                 drops, mislaid>>

\* Accepted, refused with 401, or unreachable.
Dial ==
  /\ phase = "dialing"
  /\ \/ phase' = "sending" /\ UNCHANGED drops
     \/ Drop /\ phase' \in {"refreshing", "backoff"}
  /\ UNCHANGED <<cred, latest, evictions, refresh, timerOn, grant, generation,
                 mislaid>>

SendRegister ==
  /\ phase = "sending"
  /\ phase' = "registering"
  /\ UNCHANGED <<cred, latest, evictions, refresh, timerOn, grant, generation,
                 drops, mislaid>>

\* The acknowledgement, another message or a timeout all let it proceed; a
\* connection that closes meanwhile does not, whatever its code.
Registered ==
  /\ phase = "registering"
  /\ \/ phase' = "receiving" /\ evictions' = 0 /\ UNCHANGED drops
     \/ phase' = "backoff" /\ Drop /\ UNCHANGED evictions
  /\ UNCHANGED <<cred, latest, refresh, timerOn, grant, generation, mislaid>>

Open == phase \in {"sending", "receiving"}

\* _handle_close: superseded by another instance, the fifth time for good.
Evicted ==
  /\ Open /\ Drop
  /\ evictions' = evictions + 1
  /\ phase' = IF evictions' >= MaxEvictions THEN "stopped" ELSE "backoff"
  /\ UNCHANGED <<cred, latest, refresh, timerOn, grant, generation, mislaid>>

\* Authentication expired; tenant disabled; any other code or the watchdog.
Closed ==
  /\ Open /\ Drop
  /\ phase' \in {"refreshing", "failing", "backoff"}
  /\ UNCHANGED <<cred, latest, evictions, refresh, timerOn, grant, generation,
                 mislaid>>

Backoff ==
  /\ phase = "backoff" /\ phase' = "loading"
  /\ UNCHANGED <<cred, latest, evictions, refresh, timerOn, grant, generation,
                 drops, mislaid>>

\* _set_credential_status, on whatever row there is by now, and the end of run.
FailCredential ==
  /\ phase = "failing" /\ phase' = "stopped"
  /\ cred' = IF cred = NoCred THEN cred ELSE [cred EXCEPT !.status = "error"]
  /\ UNCHANGED <<latest, evictions, refresh, timerOn, grant, generation, drops,
                 mislaid>>

-----------------------------------------------------------------------------
(* _try_refresh_token, by the client and by _run_token_refresh_loop        *)

Wants(r) == IF r = "client" THEN phase = "refreshing"
                            ELSE timerOn /\ cred.status = "connected"

RefreshRead(r) ==
  /\ Wants(r) /\ refresh[r].step = "idle"
  /\ refresh' = [refresh EXCEPT ![r] =
       IF cred = NoCred THEN [NoRefresh EXCEPT !.step = "failed"]
       ELSE [step |-> "asking", session |-> cred.session, token |-> cred.token]]
  /\ UNCHANGED <<cred, latest, phase, evictions, timerOn, grant, generation,
                 drops, mislaid>>

\* The cloud answers with the next token, or its answer is lost; it rejects a
\* token that is not the last, or whose session has come to its end.
RefreshAsk(r) ==
  /\ refresh[r].step = "asking"
  /\ LET s == refresh[r].session
         n == refresh[r].token
     IN \/ /\ n = latest[s] /\ n < MaxRotations
           /\ latest' = [latest EXCEPT ![s] = n + 1]
           /\ \/ /\ refresh' = [refresh EXCEPT ![r].step = "storing",
                                               ![r].token = n + 1]
                 /\ UNCHANGED <<drops, mislaid>>
              \/ /\ refresh' = [refresh EXCEPT ![r].step = "failed"]
                 /\ mislaid' = mislaid \cup {s}
                 /\ Drop
        \/ /\ n # latest[s] \/ n = MaxRotations
           /\ refresh' = [refresh EXCEPT ![r].step = "failed"]
           /\ UNCHANGED <<latest, drops, mislaid>>
  /\ UNCHANGED <<cred, phase, evictions, timerOn, grant, generation>>

\* Wrong: the rotated refresh token is not kept.
KeepsOld(r) == [cred EXCEPT !.session = refresh[r].session]
\* The whole credential as read, with the new tokens; the status stays.
Refreshed(r) == [cred EXCEPT !.session = refresh[r].session,
                             !.token = refresh[r].token]

\* A row deleted meanwhile fails the commit.
RefreshStore(r) ==
  /\ refresh[r].step = "storing"
  /\ \/ /\ cred # NoCred
        /\ cred' = Refreshed(r)
        /\ refresh' = [refresh EXCEPT ![r] = NoRefresh]
        /\ phase' = IF r = "client" THEN "backoff" ELSE phase
     \/ /\ cred = NoCred
        /\ refresh' = [refresh EXCEPT ![r].step = "failed"]
        /\ UNCHANGED <<cred, phase>>
  /\ UNCHANGED <<latest, evictions, timerOn, grant, generation, drops, mislaid>>

\* Wrong: the client tries again with what it has.
RefreshRetried(r) ==
  /\ refresh[r].step = "failed"
  /\ refresh' = [refresh EXCEPT ![r] = NoRefresh]
  /\ UNCHANGED <<cred, latest, phase, evictions, timerOn, grant, generation,
                 drops, mislaid>>
\* The client gives up; the timer only reports.
RefreshFailed(r) ==
  /\ refresh[r].step = "failed"
  /\ refresh' = [refresh EXCEPT ![r] = NoRefresh]
  /\ phase' = IF r = "client" THEN "failing" ELSE phase
  /\ UNCHANGED <<cred, latest, evictions, timerOn, grant, generation, drops,
                 mislaid>>

-----------------------------------------------------------------------------
(* The device grant                                                        *)

\* A second initiation cancels the first poller, wherever it is.
GrantBegin ==
  /\ generation < MaxGrants
  /\ generation' = generation + 1
  /\ grant' = [step |-> "polling", session |-> generation + 1]
  /\ UNCHANGED <<cred, latest, phase, evictions, refresh, timerOn, drops, mislaid>>

\* Approved, or denied, expired or failed.
GrantResolved ==
  /\ grant.step = "polling"
  /\ \/ grant' = [grant EXCEPT !.step = "storing"]
     \/ grant' = NoGrant
  /\ UNCHANGED <<cred, latest, phase, evictions, refresh, timerOn, generation,
                 drops, mislaid>>

GrantStore ==
  /\ grant.step = "storing"
  /\ cred' = [status |-> "connected", session |-> grant.session, token |-> 0]
  /\ grant' = [grant EXCEPT !.step = "starting"]
  /\ UNCHANGED <<latest, phase, evictions, refresh, timerOn, generation, drops,
                 mislaid>>

\* stop_cloud_client cancels both tasks at whatever await they are; a token
\* that was on its way is nobody's.
StopTasks ==
  /\ phase' = "stopped" /\ evictions' = 0
  /\ refresh' = [r \in Refreshers |-> NoRefresh]
  /\ timerOn' = FALSE
  /\ \E cut \in SUBSET {r \in Refreshers : refresh[r].step = "asking"
                          /\ refresh[r].token = latest[refresh[r].session]
                          /\ refresh[r].token < MaxRotations} :
       /\ latest' = [s \in 1..MaxGrants |->
            IF \E r \in cut : refresh[r].session = s THEN latest[s] + 1
                                                     ELSE latest[s]]
       /\ mislaid' = mislaid \cup {refresh[r].session : r \in cut}
                     \cup {refresh[r].session :
                            r \in {q \in Refreshers : refresh[q].step = "storing"}}

\* start_cloud_client, of a grant or of the process: stop, then two new tasks.
GrantStop ==
  /\ grant.step = "starting"
  /\ StopTasks
  /\ grant' = [grant EXCEPT !.step = "started"]
  /\ UNCHANGED <<cred, generation, drops>>

StartTasks ==
  /\ grant.step = "started"
  /\ phase' = "loading" /\ timerOn' = TRUE
  /\ grant' = NoGrant
  /\ UNCHANGED <<cred, latest, evictions, refresh, generation, drops, mislaid>>

\* cloud_auth_disconnect: both tasks stop, later the row is deleted.
DisconnectStop ==
  /\ cred # NoCred /\ (phase # "stopped" \/ timerOn)
  /\ StopTasks
  /\ UNCHANGED <<cred, grant, generation, drops>>

DisconnectDelete ==
  /\ cred # NoCred /\ phase = "stopped" /\ ~timerOn
  /\ cred' = NoCred
  /\ UNCHANGED <<latest, phase, evictions, refresh, timerOn, grant, generation,
                 drops, mislaid>>

-----------------------------------------------------------------------------
ClientWork ==
  \/ LoadCredential \/ Dial \/ SendRegister \/ Registered \/ Backoff
  \/ FailCredential
  \/ RefreshRead("client") \/ RefreshAsk("client") \/ RefreshStore("client")
  \/ RefreshFailed("client")

TimerWork ==
  \/ RefreshRead("timer") \/ RefreshAsk("timer") \/ RefreshStore("timer")
  \/ RefreshFailed("timer")

GrantWork == GrantStore \/ GrantStop \/ StartTasks

ClientNext ==
  \/ ClientWork \/ TimerWork \/ GrantWork
  \/ Evicted \/ Closed
  \/ GrantBegin \/ GrantResolved \/ DisconnectStop \/ DisconnectDelete

ClientSpec == /\ ClientInit /\ [][ClientNext]_clientVars
              /\ WF_clientVars(ClientWork) /\ WF_clientVars(GrantWork)

-----------------------------------------------------------------------------
(* Properties                                                              *)

InFlight(s) == \E r \in Refreshers : refresh[r].session = s /\
                                     refresh[r].step = "storing"

\* The stored refresh token is one the cloud still accepts, although two tasks
\* refresh it, a grant replaces it and a disconnect deletes it meanwhile; lost
\* are only tokens whose answer was lost or whose task was cancelled.
StoredTokenUsable ==
  LET s == cred.session IN
  cred # NoCred /\ ~InFlight(s) /\ s \notin mislaid => cred.token = latest[s]

\* Whatever closes, fails or expires, a client that runs is connected again or
\* has stopped: none of its error paths leaves it waiting.
ClientSettles == phase # "stopped" ~> phase \in {"receiving", "stopped"}
=============================================================================
