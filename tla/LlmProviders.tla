------------------------------ MODULE LlmProviders ------------------------------
(***************************************************************************)
(* The providers of language models: rows that administrators create and   *)
(* edit, that the environment names at start-up, and that a scan of the    *)
(* container host's well-known ports registers and removes again; the      *)
(* model roles that refer to them; and the pool of clients made from them. *)
(*                                                                         *)
(* A scan and one other request run at a time, each reading at one moment  *)
(* and writing at a later one.  Names and types of providers are left out, *)
(* and so are requests refused because a name is taken.                    *)
(***************************************************************************)
EXTENDS Naturals, FiniteSets

CONSTANTS
  Ports,          \* of the container host, in the order they are probed
  Providers,      \* ids rows may get
  EnvProvider,    \* the one LLM_PROVIDER_0_* names, when it is set
  Pooled,         \* the one whose client is looked at, the others' being alike
  NoProvider, OwnModel,  \* a role that is unset; one that names no provider
  MaxScans, MaxAsked, MaxWhims  \* bounds: scans, requests that change something,
                                \* and counts of a runtime or restarts

ASSUME ProvidersAssumption ==
  /\ Ports \subseteq Nat \ {0}
  /\ EnvProvider \in Providers /\ Pooled \in Providers
  /\ NoProvider \notin Providers /\ OwnModel \notin Providers \cup {NoProvider}
  /\ MaxScans \in Nat /\ MaxAsked \in Nat /\ MaxWhims \in Nat

VARIABLES
  provider,       \* llm_providers: a row's source, place, key and is_default
  role,           \* MODEL_ROLE_SETTINGS: the provider each role names
  pool,           \* _clients[Pooled]: the key the client was made with
  runtime,        \* what listens on a port
  scan,           \* scan_local_ai; ghosts: a choice made early enough to be
                  \* respected, and ports that were silent meanwhile
  request,        \* the other request
  scans, asked, whims,
  torn,           \* ghost: it was made while an edit of the row was being
                  \* committed
  spoilt,         \* ghost: what a scan did that it must not
  rivals          \* ghost: two creations claimed an empty installation

counts == <<scans, asked, whims>>
providerVars ==
  <<provider, role, pool, runtime, scan, request, counts,
    torn, spoilt, rivals>>

-----------------------------------------------------------------------------
Elsewhere == 0     \* the place of a provider that is not on the host
Roles     == {"llm_model", "task_processing_model"}
Sources   == {"absent", "env", "database", "detected"}
Credentials == {"sentinel", "right", "wrong"}
NoCredential == "nokey"
Image(f) == {f[x] : x \in DOMAIN f}
NoRow  == [source |-> "absent", place |-> Elsewhere, key |-> "sentinel",
           default |-> FALSE]
NoScan == [step |-> "off", left |-> {}, known |-> [e \in Ports |-> NoProvider],
           keys |-> [e \in Ports |-> "sentinel"], present |-> {},
           listed |-> {}, chose |-> FALSE, mine |-> NoProvider, early |-> FALSE,
           silent |-> {}]
NoEdit == [kind |-> "none", id |-> NoProvider, place |-> Elsewhere,
              key |-> "sentinel", claim |-> FALSE]

Rows   == {p \in Providers : provider[p].source # "absent"}
\* Ids are not used again: none that something still refers to.
Unused == {p \in Providers \ {EnvProvider} :
             /\ provider[p].source = "absent"
             /\ p = Pooled => pool = NoCredential
             /\ p \notin {scan.mine, request.id}
             /\ p \notin Image(role) \cup Image(scan.known)}
DetectedAt(e) == {p \in Rows : provider[p].source = "detected"
                                  /\ provider[p].place = e}
\* any_role_configured: somebody chose something, whether it resolves or not.
AnyRoleSet == \E r \in Roles : role[r] # NoProvider
\* _clear_model_settings_for_provider.
RolesWithout(gone) == [r \in Roles |-> IF role[r] \in gone THEN NoProvider
                                                          ELSE role[r]]
\* Wrong: a client lives as long as the server.
EvictNobody(ids) == pool' = pool
Evict(ids) == pool' = IF Pooled \in ids THEN NoCredential ELSE pool
Scanned ==
  /\ scans < MaxScans /\ scans' = scans + 1
  /\ asked < MaxAsked /\ asked' = asked + 1
  /\ UNCHANGED whims
Asked == asked < MaxAsked /\ asked' = asked + 1 /\ UNCHANGED <<scans, whims>>
Whim == whims < MaxWhims /\ whims' = whims + 1 /\ UNCHANGED <<scans, asked>>

ProvidersTypeOK ==
  /\ provider \in [Providers -> [source: Sources, place: Ports \cup {Elsewhere},
                                 key: Credentials, default: BOOLEAN]]
  /\ role \in [Roles -> Providers \cup {NoProvider, OwnModel}]
  /\ pool \in Credentials \cup {NoCredential}
  /\ runtime \in [Ports -> {"silent", "open", "locked", "broken"}]
  /\ scan.step \in {"off", "probing", "establishing", "listing", "writing"}
  /\ scan.left \in SUBSET Ports /\ scan.listed \subseteq scan.present
  /\ scan.known \in [Ports -> Providers \cup {NoProvider}]
  /\ scan.mine \in Providers \cup {NoProvider}
  /\ request.kind \in {"none", "create", "edit", "delete", "select"}
  /\ request.id \in Providers \cup {NoProvider}
  /\ scans \in 0..MaxScans /\ asked \in 0..MaxAsked /\ whims \in 0..MaxWhims
  /\ torn \in BOOLEAN /\ spoilt \in SUBSET {"choice", "present"}
  /\ rivals \in BOOLEAN

ProvidersInit ==
  /\ provider = [p \in Providers |-> NoRow]
  /\ role = [r \in Roles |-> NoProvider]
  /\ pool = NoCredential
  /\ runtime \in [Ports -> {"open", "locked"}]  \* something listens at first
  /\ scan = NoScan /\ request = NoEdit
  /\ scans = 0 /\ asked = 0 /\ whims = 0
  /\ torn = FALSE /\ spoilt = {} /\ rivals = FALSE

-----------------------------------------------------------------------------
(* Probing                                                                 *)

\* Wrong: what refuses the key is not there.
HearsOnly(e, k) == runtime[e] \in {"open", "broken"}
                   \/ (runtime[e] = "locked" /\ k = "right")
\* Only silence means absence.
Hears(e, k) == runtime[e] # "silent"
\* A listing was read.
Lists(e, k) == runtime[e] = "open" \/ (runtime[e] = "locked" /\ k = "right")

\* _claim_default: the first provider of an empty installation.
ClaimsDefault == Rows = {}

-----------------------------------------------------------------------------
(* scan_local_ai                                                           *)

\* The rows, their keys and whether anybody chose a model are read first; of
\* rows with one place, the earliest counts.
ScanStarts ==
  /\ scan.step = "off" /\ Scanned
  /\ \E one \in [Ports -> Providers \cup {NoProvider}] :
       /\ \A e \in Ports : IF DetectedAt(e) = {} THEN one[e] = NoProvider
                                                 ELSE one[e] \in DetectedAt(e)
       /\ scan' = [NoScan EXCEPT
            !.step = "probing", !.left = Ports, !.known = one,
            !.keys = [e \in Ports |-> IF one[e] = NoProvider THEN "sentinel"
                                      ELSE provider[one[e]].key],
            !.chose = AnyRoleSet, !.early = AnyRoleSet,
            !.silent = {e \in Ports : runtime[e] = "silent"}]
  /\ UNCHANGED <<provider, role, pool, runtime, request, torn, spoilt, rivals>>

\* One port after the other, each with its own provider's key.
ScanProbes(e) ==
  /\ scan.step = "probing" /\ e \in scan.left
  /\ \A o \in scan.left : e <= o
  /\ scan' = [scan EXCEPT
       !.left = @ \ {e},
       !.present = IF Hears(e, scan.keys[e]) THEN @ \cup {e} ELSE @,
       !.listed = IF Lists(e, scan.keys[e]) THEN @ \cup {e} ELSE @]
  /\ UNCHANGED <<provider, role, pool, runtime, request, counts, torn, spoilt,
                 rivals>>

\* The rows as the scan leaves them, new[e] registered for a port e that it
\* did not know, the first one claiming the default.
Reconciled(new, gone) ==
  [p \in Providers |->
     IF p \in gone THEN NoRow
     ELSE IF \E e \in DOMAIN new : new[e] = p
     THEN LET e == CHOOSE o \in DOMAIN new : new[o] = p IN
          [source |-> "detected", place |-> e, key |-> "sentinel",
           default |-> ClaimsDefault /\ \A o \in DOMAIN new : e <= o]
     ELSE provider[p]]

\* One commit: what answered is registered or refreshed, what fell silent goes
\* with its roles, also a row adopted since the probe.  A row deleted since it
\* was read makes the scan fail.
ScanReconciles ==
  LET fresh == {e \in scan.listed : scan.known[e] = NoProvider}
      known == {scan.known[e] : e \in scan.listed \ fresh}
      gone  == UNION {DetectedAt(e) : e \in Ports \ scan.present}
  IN
  /\ scan.step = "probing" /\ scan.left = {}
  /\ \/ /\ known \subseteq Rows
        /\ \E new \in [fresh -> Unused] :
             /\ \A a, b \in fresh : new[a] = new[b] => a = b
             /\ provider' = Reconciled(new, gone)
        /\ role' = RolesWithout(gone)
        /\ Evict(known \cup gone)
        /\ rivals' = (rivals \/ (request.claim /\ ClaimsDefault /\ fresh # {}))
        /\ spoilt' = IF \A e \in Ports \ scan.silent : DetectedAt(e) \cap gone = {}
                     THEN spoilt ELSE spoilt \cup {"present"}
        /\ IF scan.listed = {}
             THEN scan' = NoScan
             ELSE \E p \in Providers :
                    /\ provider'[p].source = "detected"
                    /\ \A e \in scan.listed : provider'[p].place <= e
                    /\ provider'[p].place \in scan.listed
                    /\ scan' = [scan EXCEPT !.step = "establishing", !.mine = p,
                         !.early = (@ /\ scan.chose)
                                   \/ \E r \in Roles : role'[r] # NoProvider]
     \/ /\ ~ known \subseteq Rows
        /\ scan' = NoScan
        /\ UNCHANGED <<provider, role, pool, spoilt, rivals>>
  /\ UNCHANGED <<runtime, request, counts, torn>>

\* Wrong: a role that the scan itself has emptied is as good as unset.
NobodyChose == ~AnyRoleSet
\* Nobody had chosen a model before the scan, nor has since.
Undecided == ~scan.chose /\ ~AnyRoleSet

\* establish_model_settings_if_unset, and the listing of the provider's models:
\* only a sole one is taken.
AsksForModels ==
  /\ scan.step = "establishing"
  /\ \/ Undecided /\ scan' = [scan EXCEPT !.step = "listing"]
     \/ scan' = NoScan
  /\ UNCHANGED <<provider, role, pool, runtime, request, counts, torn, spoilt,
                 rivals>>

\* The roles are read again after the listing.
ReadsRolesAgain ==
  /\ scan.step = "listing"
  /\ scan' = IF AnyRoleSet THEN NoScan ELSE [scan EXCEPT !.step = "writing"]
  /\ UNCHANGED <<provider, role, pool, runtime, request, counts, torn, spoilt,
                 rivals>>

Establishes ==
  /\ scan.step = "writing"
  /\ role' = [r \in Roles |-> scan.mine]
  /\ spoilt' = IF scan.early THEN spoilt \cup {"choice"} ELSE spoilt
  /\ scan' = NoScan
  /\ UNCHANGED <<provider, pool, runtime, request, counts, torn, rivals>>

-----------------------------------------------------------------------------
(* Administrators                                                          *)

\* create_provider, and adopt_local_runtime: a place nobody holds, where the
\* key was accepted.  Whether it will be the first is counted now.
AsksToCreate(e, k) ==
  /\ request = NoEdit /\ Unused # {} /\ Asked
  /\ e \in Ports => Lists(e, k) /\ \A p \in Rows : provider[p].place # e
  /\ request' = [NoEdit EXCEPT !.kind = "create", !.place = e, !.key = k,
                                     !.claim = ClaimsDefault]
  /\ UNCHANGED <<provider, role, pool, runtime, scan, torn, spoilt, rivals>>

Creates ==
  /\ request.kind = "create"
  /\ \E p \in Unused :
       provider' = [provider EXCEPT ![p] =
         [source |-> IF request.place \in Ports THEN "detected" ELSE "database",
          place |-> request.place, key |-> request.key, default |-> request.claim]]
  /\ rivals' = (rivals \/ (request.claim /\ Rows # {}))
  /\ request' = NoEdit
  /\ UNCHANGED <<role, pool, runtime, scan, counts, torn, spoilt>>

\* update_provider and delete_provider evict the client before they commit.
AsksToEdit(p, k) ==
  /\ request = NoEdit /\ Asked
  /\ provider[p].source \in {"database", "detected"}
  /\ request' = [NoEdit EXCEPT !.kind = "edit", !.id = p, !.key = k]
  /\ Evict({p})
  /\ UNCHANGED <<provider, role, runtime, scan, torn, spoilt, rivals>>

Edits ==
  /\ request.kind = "edit"
  /\ provider' = IF request.id \in Rows
                 THEN [provider EXCEPT ![request.id].key = request.key]
                 ELSE provider
  /\ request' = NoEdit
  /\ UNCHANGED <<role, pool, runtime, scan, counts, torn, spoilt, rivals>>

AsksToDelete(p) ==
  /\ request = NoEdit /\ Asked
  /\ provider[p].source \in {"database", "detected"} /\ ~provider[p].default
  /\ request' = [NoEdit EXCEPT !.kind = "delete", !.id = p]
  /\ Evict({p})
  /\ UNCHANGED <<provider, role, runtime, scan, torn, spoilt, rivals>>

DeletesProvider ==
  LET gone == {request.id} IN
  /\ request.kind = "delete"
  /\ provider' = [provider EXCEPT ![request.id] = NoRow]
  /\ role' = RolesWithout(gone)
  /\ scan' = [scan EXCEPT !.early = @ /\ \E r \in Roles : role'[r] # NoProvider]
  /\ request' = NoEdit
  /\ UNCHANGED <<pool, runtime, counts, torn, spoilt, rivals>>

\* set_default_provider: every row, then this one, in one transaction.
SetsDefault(p) ==
  /\ p \in Rows /\ Asked
  /\ provider' = [q \in Providers |-> [provider[q] EXCEPT !.default = q = p]]
  /\ UNCHANGED <<role, pool, runtime, scan, request, torn, spoilt, rivals>>

\* A choice: of a row for both roles, checked against its listing, or, through
\* the settings, of something else for one of them.
Chooses(to) ==
  /\ role' = to
  /\ scan' = [scan EXCEPT !.early = @ \/ scan.step \in {"establishing", "listing"}]
  /\ UNCHANGED <<provider, pool, runtime, torn, spoilt, rivals>>

AsksToSelect(p) ==
  /\ request = NoEdit /\ p \in Rows /\ Asked
  /\ request' = [NoEdit EXCEPT !.kind = "select", !.id = p]
  /\ UNCHANGED <<provider, role, pool, runtime, scan, torn, spoilt, rivals>>

Selects ==
  /\ request.kind = "select"
  /\ Chooses([r \in Roles |-> request.id])
  /\ request' = NoEdit
  /\ UNCHANGED counts

SetsRole(r, v) ==
  /\ Asked
  /\ Chooses([role EXCEPT ![r] = v])
  /\ UNCHANGED request

-----------------------------------------------------------------------------
(* Clients, runtimes and restarts                                          *)

\* get_client_for_provider: pooled, or made from the row as it is.
UsesClient ==
  /\ Pooled \in Rows /\ pool = NoCredential
  /\ pool' = provider[Pooled].key
  /\ torn' = (torn \/ (request.id = Pooled /\ request.kind \in {"edit", "delete"}))
  /\ UNCHANGED <<provider, role, runtime, scan, request, counts, spoilt, rivals>>

RuntimeChanges(e, s) ==
  /\ runtime[e] # s /\ Whim
  /\ runtime' = [runtime EXCEPT ![e] = s]
  /\ scan' = [scan EXCEPT !.silent = IF s = "silent" THEN @ \cup {e} ELSE @]
  /\ UNCHANGED <<provider, role, pool, request, torn, spoilt, rivals>>

\* scan_env_providers: the named provider takes the default from all others;
\* one that is named no longer goes.
ServerRestarts(named) ==
  LET gone == {p \in Rows : provider[p].source = "env" /\ ~named} IN
  /\ Whim
  /\ provider' = [p \in Providers |->
       IF p = EnvProvider /\ named
       THEN [NoRow EXCEPT !.source = "env", !.key = "right", !.default = TRUE]
       ELSE IF p \in gone THEN NoRow
       ELSE [provider[p] EXCEPT !.default = @ /\ ~named]]
  /\ role' = RolesWithout(gone)
  /\ pool' = NoCredential
  /\ scan' = NoScan /\ request' = NoEdit /\ torn' = FALSE
  /\ rivals' = (rivals /\ ~named)
  /\ UNCHANGED <<runtime, spoilt>>

ProvidersNext ==
  \/ ScanStarts \/ (\E e \in Ports : ScanProbes(e)) \/ ScanReconciles
  \/ AsksForModels \/ ReadsRolesAgain \/ Establishes
  \/ \E e \in Ports : AsksToCreate(e, "right")
  \/ AsksToCreate(Elsewhere, "wrong")
  \/ Creates \/ Edits \/ DeletesProvider \/ Selects
  \/ \E p \in Providers :
       \/ AsksToEdit(p, "right") \/ AsksToDelete(p) \/ SetsDefault(p)
       \/ AsksToSelect(p)
  \/ UsesClient
  \/ \E r \in Roles : SetsRole(r, OwnModel)
  \/ \E e \in Ports, s \in {"silent", "open", "locked", "broken"} :
       RuntimeChanges(e, s)
  \/ \E named \in BOOLEAN : ServerRestarts(named)

ProvidersSpec == ProvidersInit /\ [][ProvidersNext]_providerVars

-----------------------------------------------------------------------------
(* Properties                                                              *)

\* A scan takes nothing from anybody: it removes no provider whose runtime
\* listened from its start to its end, whatever it said and whatever key it
\* wants, and never puts a model it found where somebody had chosen one, not
\* even where it emptied that choice itself.
ScansAreHarmless == spoilt = {}

\* A pooled client has its row's credentials, but for one made while an edit
\* of the row was being committed; and one provider is the default, but for
\* two that were created first at the same time.
ProvidersAgree ==
  /\ torn \/ Pooled \notin Rows \/ pool \in {NoCredential, provider[Pooled].key}
  /\ rivals \/ Cardinality({p \in Rows : provider[p].default}) <= 1

\* What start-up scans, discoveries and the settings pages owe each other while
\* they overlap: nothing of the other's is undone, and what the pool, the rows
\* and the default say agrees.
ProvidersSound == ScansAreHarmless /\ ProvidersAgree
=============================================================================
