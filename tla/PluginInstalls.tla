---------------------------- MODULE PluginInstalls ----------------------------
(***************************************************************************)
(* One plugin of one marketplace: the row, the directories its files are   *)
(* fetched into, the administrators' requests, the poller, and the warming *)
(* of the cache after a restart.  A request reads the row, awaits a        *)
(* download, swaps directories and only then commits; two may overlap.     *)
(* Direct installs, which differ in where the source comes from, and what  *)
(* a manifest says besides a version, are left out.                        *)
(***************************************************************************)
EXTENDS Naturals

CONSTANTS
  Admins,         \* requests in progress at a time, numbered as they begin
  MaxVersion,     \* versions the source offers, by and by
  MaxInstalls,    \* rows created
  MaxPatches,     \* requests that begin
  MaxWoes         \* failures, restarts, renames and deletions

ASSUME PluginsAssumption ==
  /\ Admins \subseteq Nat \ {0}
  /\ MaxVersion \in Nat \ {0}
  /\ {MaxInstalls, MaxPatches, MaxWoes} \subseteq Nat

VARIABLES
  plugin,         \* the row; id 0: there is none
  market,         \* the marketplace: its name and the version in the cached
                  \* manifest, 0: the plugin is not in it
  files,          \* the directory of a scope and a version
  admin,          \* the request each one makes
  warmer,         \* warm_plugin_caches, and sync_marketplace before it
  installs, patches, woes,
  ruined          \* ghost: directories that a failure, a removal or an
                  \* overlapping request left in disorder

pluginVars == <<plugin, market, files, admin, warmer,
                installs, patches, woes, ruined>>

-----------------------------------------------------------------------------
Scopes   == {"one", "two", "manual"}
Vers     == 0..MaxVersion
\* What fetch_marketplace may find of the plugin: a version, or 0.
Manifests == Vers
Dirs     == Scopes \X Vers
NoPlugin == [id |-> 0, linked |-> FALSE, installed |-> 0, latest |-> 0,
             enabled |-> FALSE]
Idle     == [kind |-> "idle", step |-> "none", id |-> 0, scope |-> "one",
             from |-> 0, to |-> 0]
Cold     == [step |-> "off", scope |-> "one", to |-> 0]

\* plugin_install_dir, for the row as it is now.
Scope  == IF plugin.linked THEN market.name ELSE "manual"
RowDir == <<Scope, plugin.installed>>
To(a)   == <<admin[a].scope, admin[a].to>>
From(a) == <<admin[a].scope, admin[a].from>>
\* Who is writing a directory (0: the warmer), or has and has not committed yet.
Writing(d) ==
  {a \in Admins : admin[a].step = "fetching" /\ To(a) = d}
  \cup {w \in {0} : warmer.step = "fetching" /\ <<warmer.scope, warmer.to>> = d}
Holding(d) == Writing(d) \cup {a \in Admins : admin[a].step \in {"fetched", "swapped"}
                                              /\ To(a) = d}
Leaving(d) == {a \in Admins : \/ admin[a].step = "swapped" /\ From(a) = d
                              \/ admin[a].step = "removed" /\ To(a) = d}
Woe   == woes < MaxWoes /\ woes' = woes + 1

PluginsTypeOK ==
  /\ plugin \in [id: 0..MaxInstalls, linked: BOOLEAN, installed: Vers,
                 latest: Vers, enabled: BOOLEAN]
  /\ market \in [name: Scopes, there: BOOLEAN, lists: Vers]
  /\ files \in [Dirs -> {"none", "half", "whole"}]
  /\ admin \in [Admins ->
       [kind: {"idle", "install", "update", "uninstall"},
        step: {"none", "fetching", "fetched", "swapped", "read", "removed"},
        id: 0..MaxInstalls, scope: Scopes, from: Vers, to: Vers]]
  /\ warmer \in [step: {"off", "syncing", "synced", "fetching"}, scope: Scopes,
                 to: Vers]
  /\ installs \in 0..MaxInstalls /\ patches \in 0..MaxPatches
  /\ woes \in 0..MaxWoes /\ ruined \subseteq Dirs

PluginsInit ==
  /\ plugin = NoPlugin
  /\ market = [name |-> "one", there |-> TRUE, lists |-> 1]
  /\ files = [d \in Dirs |-> "none"]
  /\ admin = [a \in Admins |-> Idle]
  /\ warmer = Cold
  /\ installs = 0 /\ patches = 0 /\ woes = 0
  /\ ruined = {}

-----------------------------------------------------------------------------
(* Marketplaces                                                            *)

\* sync_marketplace; one that fails leaves the manifest it had.
Synced(v) == market.there /\ v \in Manifests /\ market' = [market EXCEPT !.lists = v]

\* update_latest_versions_from_manifest.
SeesLatest(v) ==
  plugin' = IF plugin.linked /\ v # 0 THEN [plugin EXCEPT !.latest = v]
                                      ELSE plugin

\* resync_marketplace, and one pass of run_marketplace_poller, which an
\* administrator may disable.
Resyncs(v) ==
  /\ Synced(v) /\ SeesLatest(v)
  /\ UNCHANGED <<files, admin, warmer, installs, patches,
                 woes, ruined>>

\* patch_marketplace: a changed source is synced too, but versions are not
\* compared; a new name moves the scope away from what is on disk.
PatchesSource(v) ==
  /\ Synced(v)
  /\ UNCHANGED <<plugin, files, admin, warmer, installs,
                 patches, woes, ruined>>

Renames ==
  /\ market.there /\ market.name = "one" /\ Woe
  /\ market' = [market EXCEPT !.name = "two"]
  /\ ruined' = ruined \cup ({"two"} \X Vers)
  /\ UNCHANGED <<plugin, files, admin, warmer, installs,
                 patches>>

\* delete_marketplace: the row stays, no longer linked to it.
DeletesMarket ==
  /\ market.there /\ Woe
  /\ market' = [market EXCEPT !.there = FALSE]
  /\ plugin' = [plugin EXCEPT !.linked = FALSE]
  /\ ruined' = ruined \cup ({"manual"} \X Vers)
  /\ UNCHANGED <<files, admin, warmer, installs, patches>>

-----------------------------------------------------------------------------
(* _fetch_plugin_into: what is there is removed first                      *)

FetchBegins(d) ==
  /\ files' = [files EXCEPT ![d] = "half"]
  /\ ruined' = IF Writing(d) = {} THEN ruined \ {d} ELSE ruined \cup {d}

FetchEnds(d) ==
  /\ files' = [files EXCEPT ![d] = "whole"]
  /\ UNCHANGED <<ruined, woes>>

FetchFails(d) ==
  /\ Woe
  /\ \E left \in {"none", "half"} : files' = [files EXCEPT ![d] = left]
  /\ ruined' = ruined \cup {d}

\* A directory goes: in order only if it is the row's, and nobody else's.
Removes(d, mine) ==
  /\ files' = [files EXCEPT ![d] = "none"]
  /\ ruined' = IF mine /\ Holding(d) = {} THEN ruined ELSE ruined \cup {d}

-----------------------------------------------------------------------------
(* Plugins                                                                 *)

Begins(a) ==
  /\ admin[a] = Idle /\ \A b \in Admins : b < a => admin[b] # Idle
  /\ patches < MaxPatches /\ patches' = patches + 1
  /\ UNCHANGED <<plugin, market, warmer, installs, woes>>

\* install_plugin does not look whether the plugin is installed.
BeginsInstall(a) ==
  /\ Begins(a)
  /\ market.there /\ market.lists # 0
  /\ admin' = [admin EXCEPT ![a] = [Idle EXCEPT
       !.kind = "install", !.step = "fetching", !.scope = market.name,
       !.to = market.lists]]
  /\ FetchBegins(<<market.name, market.lists>>)

\* update_plugin.
BeginsUpdate(a) ==
  /\ Begins(a)
  /\ plugin.id # 0 /\ plugin.latest # plugin.installed
  /\ plugin.linked /\ market.lists # 0
  /\ admin' = [admin EXCEPT ![a] = [Idle EXCEPT
       !.kind = "update", !.step = "fetching", !.id = plugin.id, !.scope = Scope,
       !.from = plugin.installed, !.to = plugin.latest]]
  /\ FetchBegins(<<Scope, plugin.latest>>)

BeginsUninstall(a) ==
  /\ Begins(a)
  /\ plugin.id # 0
  /\ admin' = [admin EXCEPT ![a] = [Idle EXCEPT
       !.kind = "uninstall", !.step = "read", !.id = plugin.id, !.scope = Scope,
       !.to = plugin.installed]]
  /\ UNCHANGED <<files, ruined>>

Fetches(a) ==
  /\ admin[a].step = "fetching"
  /\ \/ FetchEnds(To(a)) /\ admin' = [admin EXCEPT ![a].step = "fetched"]
     \/ FetchFails(To(a)) /\ admin' = [admin EXCEPT ![a] = Idle]
  /\ UNCHANGED <<plugin, market, warmer, installs, patches>>

\* Files fetched under a name the marketplace has no longer are not found.
Lands(a) ==
  ruined' = IF admin[a].scope = market.name THEN ruined
            ELSE ruined \cup {<<market.name, admin[a].to>>}

\* uq_plugins_marketplace_name refuses a second row, the foreign key one of a
\* marketplace that is gone: the files have been replaced by then.
CommitsInstall(a) ==
  /\ admin[a].kind = "install" /\ admin[a].step = "fetched"
  /\ IF market.there /\ plugin.id = 0
       THEN /\ installs < MaxInstalls /\ installs' = installs + 1
            /\ plugin' = [NoPlugin EXCEPT !.id = installs', !.linked = TRUE,
                            !.installed = admin[a].to, !.latest = admin[a].to]
       ELSE UNCHANGED <<plugin, installs>>
  /\ Lands(a)
  /\ admin' = [admin EXCEPT ![a] = Idle]
  /\ UNCHANGED <<market, files, warmer, patches, woes>>

\* The old directory goes before the row is committed.
Swaps(a) ==
  /\ admin[a].kind = "update" /\ admin[a].step = "fetched"
  /\ Removes(From(a), plugin.id = admin[a].id)
  /\ admin' = [admin EXCEPT ![a].step = "swapped"]
  /\ UNCHANGED <<plugin, market, warmer, installs, patches,
                 woes>>

\* Wrong: the version that is the latest by now.
LatestVersion(a) == plugin.latest
NewVersion(a) == admin[a].to

\* A row deleted meanwhile makes the commit fail; another failure leaves the
\* old version in the row, without its files.
CommitsUpdate(a) ==
  /\ admin[a].step = "swapped"
  /\ \/ /\ plugin' = IF plugin.id = admin[a].id
                     THEN [plugin EXCEPT !.installed = NewVersion(a)] ELSE plugin
        /\ Lands(a) /\ UNCHANGED woes
     \/ Woe /\ ruined' = ruined \cup {From(a)} /\ UNCHANGED plugin
  /\ admin' = [admin EXCEPT ![a] = Idle]
  /\ UNCHANGED <<market, files, warmer, installs, patches>>

\* uninstall_plugin.
RemovesFiles(a) ==
  /\ admin[a].step = "read"
  /\ Removes(To(a), plugin.id = admin[a].id)
  /\ admin' = [admin EXCEPT ![a].step = "removed"]
  /\ UNCHANGED <<plugin, market, warmer, installs, patches,
                 woes>>

CommitsUninstall(a) ==
  /\ admin[a].step = "removed"
  /\ \/ /\ plugin' = IF plugin.id = admin[a].id THEN NoPlugin ELSE plugin
        /\ UNCHANGED <<ruined, woes>>
     \/ Woe /\ ruined' = ruined \cup {To(a)} /\ UNCHANGED plugin
  /\ admin' = [admin EXCEPT ![a] = Idle]
  /\ UNCHANGED <<market, files, warmer, installs, patches>>

\* patch_plugin.
Enables ==
  /\ plugin.id # 0
  /\ plugin' = [plugin EXCEPT !.enabled = ~@]
  /\ UNCHANGED <<market, files, admin, warmer, installs,
                 patches, woes, ruined>>

-----------------------------------------------------------------------------
(* Restarts                                                                *)

\* In the same container, or in a new one whose cache is empty.
Restarts(fresh) ==
  /\ Woe
  /\ files' = IF fresh THEN [d \in Dirs |-> "none"] ELSE files
  /\ ruined' = IF fresh THEN Dirs
               ELSE ruined \cup {d \in Dirs : Writing(d) \cup Leaving(d) # {}}
  /\ admin' = [a \in Admins |-> Idle]
  /\ warmer' = [Cold EXCEPT !.step = "syncing"]
  /\ UNCHANGED <<plugin, market, installs, patches>>

\* _warm_plugin_caches_bg: enabled marketplaces first.
WarmerSyncs ==
  /\ warmer.step = "syncing"
  /\ warmer' = [warmer EXCEPT !.step = "synced"]
  /\ \/ market' = market
     \/ \E v \in Manifests : Synced(v)
  /\ UNCHANGED <<plugin, files, admin, installs, patches,
                 woes, ruined>>

\* warm_plugin_caches, of an enabled plugin: whatever is in the directory will
\* do, and nothing can be done for one that is in no manifest.
Warms ==
  /\ warmer.step = "synced"
  /\ IF plugin.enabled /\ files[RowDir] = "none" /\ plugin.linked /\ market.lists # 0
       THEN /\ warmer' = [step |-> "fetching", scope |-> Scope,
                          to |-> plugin.installed]
            /\ FetchBegins(RowDir)
       ELSE /\ warmer' = Cold /\ UNCHANGED <<files, ruined>>
  /\ UNCHANGED <<plugin, market, admin, installs, patches, woes>>

WarmerFetches ==
  LET d == <<warmer.scope, warmer.to>> IN
  /\ warmer.step = "fetching"
  /\ FetchEnds(d) \/ FetchFails(d)
  /\ warmer' = Cold
  /\ UNCHANGED <<plugin, market, admin, installs, patches>>

PluginsNext ==
  \/ \E v \in Manifests : Resyncs(v) \/ PatchesSource(v)
  \/ \E fresh \in BOOLEAN : Restarts(fresh)
  \/ Renames \/ DeletesMarket \/ Enables
  \/ \E a \in Admins :
       \/ BeginsInstall(a) \/ BeginsUpdate(a) \/ BeginsUninstall(a)
       \/ Fetches(a) \/ CommitsInstall(a) \/ Swaps(a) \/ CommitsUpdate(a)
       \/ RemovesFiles(a) \/ CommitsUninstall(a)
  \/ WarmerSyncs \/ Warms \/ WarmerFetches

PluginsSpec == PluginsInit /\ [][PluginsNext]_pluginVars

-----------------------------------------------------------------------------
(* Properties                                                              *)

\* An installed plugin has the files of the version its row names, however
\* requests, the poller and the warmer interleave, but while a request is at
\* them, and where one failed, took away what another was fetching, or wrote
\* what another was writing.
RowsHaveTheirFiles ==
  \/ plugin.id = 0 \/ RowDir \in ruined
  \/ Writing(RowDir) \cup Leaving(RowDir) # {}
  \/ files[RowDir] = "whole"
=============================================================================
