----------------------------- MODULE MCServices ------------------------------
(***************************************************************************)
(* The services beside the task lifecycle.  They share no variable, so      *)
(* interleaving them would only multiply their states: a behaviour picks    *)
(* one part and explores it whole, the others rest in an initial state.     *)
(***************************************************************************)
EXTENDS CloudEndpoints, CloudClient, WebhookDelivery, ReplicaLocks,
        CacheReconcile, GatewayRefresher, MCRunnerContext, RunnerLoop,
        RunnerTools, ResultCallback, PodRun

VARIABLE part

Parts == {"endpoints", "client", "delivery", "locks", "reconcile", "refresher",
          "context", "runner", "tools", "callback", "pod"}

\* Of a resting part one initial state will do.
AtRest ==
  /\ part # "endpoints" => trigger = [t \in Triggers |-> BlankRow]
  /\ part # "locks" => lock = "scheduler"
  /\ part # "refresher" => \A p \in Paths : \A n \in Sizes : size[p] <= n
  /\ part # "context" => ~configured

ServicesInit ==
  /\ part \in Parts
  /\ EndpointInit /\ ClientInit /\ DeliveryInit /\ LocksInit /\ ReconcileInit
  /\ RefresherInit /\ ContextInit /\ RunnerInit /\ ToolsInit /\ CallbackInit
  /\ PodInit
  /\ AtRest

\* The other parts rest.
Only(p) ==
  /\ part = p /\ UNCHANGED part
  /\ IF p = "endpoints" THEN TRUE ELSE UNCHANGED endpointVars
  /\ IF p = "client" THEN TRUE ELSE UNCHANGED clientVars
  /\ IF p = "delivery" THEN TRUE ELSE UNCHANGED deliveryVars
  /\ IF p = "locks" THEN TRUE ELSE UNCHANGED lockVars
  /\ IF p = "reconcile" THEN TRUE ELSE UNCHANGED reconcileVars
  /\ IF p = "refresher" THEN TRUE ELSE UNCHANGED refresherVars
  /\ IF p = "context" THEN TRUE ELSE UNCHANGED contextVars
  /\ IF p = "runner" THEN TRUE ELSE UNCHANGED runnerVars
  /\ IF p = "tools" THEN TRUE ELSE UNCHANGED toolVars
  /\ IF p = "callback" THEN TRUE ELSE UNCHANGED callbackVars
  /\ IF p = "pod" THEN TRUE ELSE UNCHANGED podVars

EndpointsMove == Only("endpoints") /\ EndpointNext
ClientMoves == Only("client") /\ ClientNext
DeliveryMoves == Only("delivery") /\ DeliveryNext
LocksMove == Only("locks") /\ LocksNext
ReconcileMoves == Only("reconcile") /\ ReconcileNext
RefresherMoves == Only("refresher") /\ RefresherNext
ContextMoves == Only("context") /\ ContextNext
RunnerMoves == Only("runner") /\ RunnerNext
ToolsMove == Only("tools") /\ ToolsNext
CallbackMoves == Only("callback") /\ CallbackNext
PodMoves == Only("pod") /\ PodNext

ServicesNext ==
  \/ EndpointsMove \/ ClientMoves \/ DeliveryMoves \/ LocksMove
  \/ ReconcileMoves \/ RefresherMoves \/ ContextMoves \/ RunnerMoves
  \/ ToolsMove \/ CallbackMoves \/ PodMoves

servicesVars ==
  <<part, endpointVars, clientVars, deliveryVars, lockVars, reconcileVars,
    refresherVars, contextVars, runnerVars, toolVars, callbackVars, podVars>>

\* The fairness of the parts, each where it is the one that moves.
ServicesSpec ==
  /\ ServicesInit /\ [][ServicesNext]_servicesVars
  /\ WF_clientVars(part = "client" /\ ClientWork)
  /\ WF_clientVars(part = "client" /\ GrantWork)
  /\ WF_deliveryVars(part = "delivery" /\ RelayWork)
  /\ WF_runnerVars(part = "runner" /\ RunnerNext)

\* Every part's variables have their types.
ServicesTypeOK ==
  /\ part = "endpoints" => EndpointsTypeOK
  /\ part = "client" => ClientTypeOK
  /\ part = "delivery" => DeliveryTypeOK
  /\ part = "locks" => LocksTypeOK
  /\ part = "reconcile" => ReconcileTypeOK
  /\ part = "refresher" => RefresherTypeOK
  /\ part = "context" => ContextTypeOK
  /\ part = "runner" => RunnerTypeOK
  /\ part = "tools" => ToolsTypeOK
  /\ part = "callback" => CallbackTypeOK
  /\ part = "pod" => PodTypeOK
=============================================================================
