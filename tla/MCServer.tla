------------------------------ MODULE MCServer -------------------------------
(***************************************************************************)
(* The parts of the server around the task lifecycle, composed the way      *)
(* MCServices composes the services: they share no variable, a behaviour    *)
(* picks one part and explores it whole while the others rest.              *)
(***************************************************************************)
EXTENDS TaskDrafts, LogStream, LlmProviders, PluginInstalls, TaskPreparation,
        ProfileGrants, EmailPoller, StorageTokens, CloudTunnel, EvalRuns

VARIABLE part

Parts == {"drafts", "logs", "providers", "plugins", "preparation", "grants",
          "mail", "tokens", "tunnel", "evals"}

\* Of a resting part one initial state will do; of the two ports of the host the
\* first is open, the other wants a key; one drive at most has its own client.
AtRest ==
  /\ runtime = [e \in Ports |-> IF e = 1 THEN "open" ELSE "locked"]
  /\ part # "preparation" => limit = 1 /\ maker = "manual" /\ ~hostNetwork
  /\ local = {} \/ (part = "tokens" /\ local = {CHOOSE d \in Drives : TRUE})

ServerInit ==
  /\ part \in Parts
  /\ DraftInit /\ LogInit /\ ProvidersInit /\ PluginsInit /\ PreparationInit
  /\ GrantsInit /\ MailInit /\ TokensInit /\ TunnelInit /\ EvalInit
  /\ AtRest

\* The other parts rest.
Only(p) ==
  /\ part = p /\ UNCHANGED part
  /\ IF p = "drafts" THEN TRUE ELSE UNCHANGED draftVars
  /\ IF p = "logs" THEN TRUE ELSE UNCHANGED logVars
  /\ IF p = "providers" THEN TRUE ELSE UNCHANGED providerVars
  /\ IF p = "plugins" THEN TRUE ELSE UNCHANGED pluginVars
  /\ IF p = "preparation" THEN TRUE ELSE UNCHANGED preparationVars
  /\ IF p = "grants" THEN TRUE ELSE UNCHANGED grantVars
  /\ IF p = "mail" THEN TRUE ELSE UNCHANGED mailVars
  /\ IF p = "tokens" THEN TRUE ELSE UNCHANGED tokenVars
  /\ IF p = "tunnel" THEN TRUE ELSE UNCHANGED tunnelVars
  /\ IF p = "evals" THEN TRUE ELSE UNCHANGED evalVars

DraftsMove == Only("drafts") /\ DraftNext
LogsMove == Only("logs") /\ LogNext
ProvidersMove == Only("providers") /\ ProvidersNext
PluginsMove == Only("plugins") /\ PluginsNext
PreparationMoves == Only("preparation") /\ PreparationNext
GrantsMove == Only("grants") /\ GrantsNext
MailMoves == Only("mail") /\ MailNext
TokensMove == Only("tokens") /\ TokensNext
TunnelMoves == Only("tunnel") /\ TunnelNext
EvalsMove == Only("evals") /\ EvalNext

ServerNext ==
  \/ DraftsMove \/ LogsMove \/ ProvidersMove \/ PluginsMove \/ PreparationMoves
  \/ GrantsMove \/ MailMoves \/ TokensMove \/ TunnelMoves \/ EvalsMove

serverVars ==
  <<part, draftVars, logVars, providerVars, pluginVars, preparationVars,
    grantVars, mailVars, tokenVars, tunnelVars, evalVars>>

\* Requests on drafts and the log stream's coroutines are fair (each module says
\* why); a part that rests has none of their actions enabled.
ServerSpec ==
  /\ ServerInit /\ [][ServerNext]_serverVars
  /\ WF_draftVars(part = "drafts" /\ Sweep)
  /\ WF_draftVars(part = "drafts" /\ Age)
  /\ \A q \in Requests : WF_draftVars(part = "drafts" /\ Served(q))
  /\ WF_logVars(part = "logs" /\ Push)
  /\ WF_logVars(part = "logs" /\ EndStream)
  /\ WF_logVars(part = "logs" /\ DeleteBuffer)
  /\ WF_logVars(part = "logs" /\ MoveRow)
  /\ WF_logVars(part = "logs" /\ Recover)
  /\ WF_logVars(part = "logs" /\ Subscribe)
  /\ WF_logVars(part = "logs" /\ Replay)
  /\ WF_logVars(part = "logs" /\ Deliver)

\* Every part's variables have their types.
ServerTypeOK ==
  /\ part = "drafts" => DraftsTypeOK
  /\ part = "logs" => LogsTypeOK
  /\ part = "providers" => ProvidersTypeOK
  /\ part = "plugins" => PluginsTypeOK
  /\ part = "preparation" => PreparationTypeOK
  /\ part = "grants" => GrantsTypeOK
  /\ part = "mail" => MailTypeOK
  /\ part = "tokens" => TokensTypeOK
  /\ part = "tunnel" => TunnelTypeOK
  /\ part = "evals" => EvalTypeOK
=============================================================================
