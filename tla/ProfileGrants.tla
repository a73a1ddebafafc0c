----------------------------- MODULE ProfileGrants -----------------------------
(***************************************************************************)
(* What a task's profile leaves it of the skills, MCP servers, workspace    *)
(* and limits the deployment has: _resolve_profile and what _process_task   *)
(* makes of it.  One name is looked at, others of its kind do not touch it; *)
(* a step settles one question for one profile.                             *)
(***************************************************************************)
EXTENDS Naturals, Sequences

CONSTANTS MaxTimeout, OurTimeout, LocalTimeout
\* seconds; ours is the default, a detected provider's is larger

ASSUME GrantsAssumption ==
  /\ MaxTimeout \in Nat \ {0} /\ OurTimeout \in Nat \ {0}
  /\ LocalTimeout \in Nat /\ LocalTimeout > OurTimeout

VARIABLES
  question,   \* the question: what there is, and what the profile says of it
  granted     \* the answer

grantVars == <<question, granted>>

-----------------------------------------------------------------------------
SkillSources  == {"db", "plugin", "git", "gws", "baseline"}
ServerSources == {"configured", "builtin", "litellm", "plugin", "onedrive"}
Profiles == {"none", "deleted", "kept"}
Unset    == 0
Timeouts == Unset..MaxTimeout

\* filters: the profile has a list; lists: the name is on it; external: its
\* include_git_skills; enables: the plugin is in its enabled_plugins.
SkillPlans ==
  [about: {"skill"}, profile: Profiles, offers: SUBSET SkillSources,
   filters: BOOLEAN, lists: BOOLEAN, external: BOOLEAN, enables: BOOLEAN]
ServerPlans ==
  [about: {"server"}, profile: Profiles, offers: SUBSET ServerSources,
   filters: BOOLEAN, lists: BOOLEAN, enables: BOOLEAN]
MountPlans ==
  [about: {"mount"}, profile: Profiles, wants: {"no", "all", "part"},
   source: {"off", "claim", "path", "volume"}]
TimeoutPlans ==
  [about: {"timeout"}, profile: Profiles, theirs: Timeouts, global: Timeouts,
   detected: BOOLEAN]
Plans == SkillPlans \cup ServerPlans \cup MountPlans \cup TimeoutPlans

GrantsTypeOK ==
  /\ question \in Plans \cup {[about |-> "none"]}
  /\ IF question.about = "timeout" THEN granted \in 1..(MaxTimeout + LocalTimeout)
     ELSE granted \in SkillSources \cup ServerSources
                        \cup {"nothing", "all", "part"}

GrantsInit == question = [about |-> "none"] /\ granted = "nothing"

-----------------------------------------------------------------------------
\* A deleted profile is no profile.
Obeys(p) == p.profile = "kept"
Filtered(p) == Obeys(p) /\ p.filters

\* Plugins only come by the profile's enabled_plugins.
Offered(p) == IF Obeys(p) /\ p.enables THEN p.offers ELSE p.offers \ {"plugin"}

FirstOffered(order, offered) ==
  IF \E i \in DOMAIN order : order[i] \in offered
  THEN order[CHOOSE i \in DOMAIN order :
         order[i] \in offered /\ \A j \in 1..(i - 1) : order[j] \notin offered]
  ELSE "nothing"

\* merge_skills_with_plugins: of one name the first source wins.
MergedSkill(offered) ==
  FirstOffered(<<"db", "plugin", "git", "gws", "baseline">>, offered)

\* Wrong: the flag of external skills goes for the baseline too.
SparesListed(p, s) == IF s = "db" THEN p.lists ELSE p.external
\* The profile's filter, after the merge.
Spares(p, s) ==
  IF s = "db" THEN p.lists ELSE p.external \/ s = "baseline"

SkillGranted(p) ==
  LET s == MergedSkill(Offered(p)) IN
  IF s = "nothing" \/ (Filtered(p) /\ ~Spares(p, s)) THEN "nothing" ELSE s

\* The configured servers are filtered first; OneDrive is put over what is
\* there, all others give way.
ServerGranted(p) ==
  FirstOffered(<<"onedrive", "configured", "builtin", "litellm", "plugin">>,
    IF Filtered(p) /\ ~p.lists THEN Offered(p) \ {"configured", "onedrive"}
                               ELSE Offered(p))

\* _resolve_workspace_mounts: a volume has no parts.
MountGranted(p) ==
  IF \/ ~Obeys(p) \/ p.wants = "no" \/ p.source = "off"
     \/ p.source = "volume" /\ p.wants = "part"
  THEN "nothing" ELSE p.wants

\* The profile's, the deployment's, or a default: what is set is never raised.
TimeoutGranted(p) ==
  IF Obeys(p) /\ p.theirs # Unset THEN p.theirs
  ELSE IF p.global # Unset THEN p.global
  ELSE IF p.detected THEN LocalTimeout ELSE OurTimeout

Granted(p) == CASE p.about = "skill"   -> SkillGranted(p)
                [] p.about = "server"  -> ServerGranted(p)
                [] p.about = "mount"   -> MountGranted(p)
                [] p.about = "timeout" -> TimeoutGranted(p)

Settles(p) ==
  /\ question.about = "none"
  /\ question' = p /\ granted' = Granted(p)

GrantsNext == \E p \in Plans : Settles(p)

-----------------------------------------------------------------------------
\* A task gets what its profile allows, no more and no less: what a kept profile
\* does not list is withheld, whatever shadows what in the merge; a baseline
\* skill comes unless another of its name hides it; without a profile nothing is
\* filtered, and neither plugin nor workspace is given; half of a workspace never
\* turns into all of it; a timeout somebody set is the one in force
\* (the merge, the filters and the mounts of _process_task).
ProfileIsObeyed ==
  /\ question.about \in {"skill", "server"} =>
       /\ granted = "plugin" => question.profile = "kept" /\ question.enables
       /\ question.profile # "kept" /\ question.offers \ {"plugin"} # {} =>
            granted # "nothing"
       /\ question.profile = "kept" /\ question.filters /\ ~question.lists =>
            granted \notin {"db", "configured", "onedrive"}
  /\ question.about = "skill" =>
       /\ question.profile = "kept" /\ question.filters /\ ~question.external =>
            granted \notin {"plugin", "git", "gws"}
       /\ question.offers = {"baseline"} => granted = "baseline"
  /\ question.about = "mount" =>
       granted \in {"nothing"} \cup (IF question.profile = "kept" THEN {question.wants} ELSE {})
  /\ question.about = "timeout" =>
       /\ question.profile = "kept" /\ question.theirs # Unset => granted = question.theirs
       /\ question.profile # "kept" /\ question.global # Unset => granted = question.global

GrantsSpec == GrantsInit /\ [][GrantsNext]_grantVars
=============================================================================
