--------------------------- MODULE TemplateCatalog ---------------------------
(***************************************************************************)
(* The template operations of internal/adapter/opensandbox/adapter.go over *)
(* the in-memory store of memory_store.go.  A store method runs under the  *)
(* store's lock and is one step; an adapter operation is a sequence of     *)
(* store methods, and the operations of concurrent clients interleave      *)
(* between them.                                                           *)
(*                                                                         *)
(* Template and build IDs carry a random suffix and are never used twice.  *)
(* Of a template's metadata the model keeps the current build ID.  A       *)
(* template's alias and tag lists hold no duplicates and are sets here.    *)
(***************************************************************************)
EXTENDS FiniteSets

CONSTANTS
  Templates, Builds, Aliases, Tags, Clients,
  NoTemplate, NoBuild, NoArg

ASSUME CatalogAssumption ==
  NoTemplate \notin Templates /\ NoBuild \notin Builds

VARIABLES
  templates,       \* s.templates: the current build of each, NoBuild if absent
  builds,          \* s.builds: the IDs present
  templateBuilds,  \* s.templateBuilds
  aliases,         \* s.aliases
  aliasReverse,    \* s.aliasReverse, NoTemplate where it has no entry
  tags,            \* s.tags
  pc, on, arg,     \* per client: its next store call, and that call's arguments
  used,            \* history: the template and build IDs generated so far
  raced            \* history: templates deleted while being created or changed

storeVars == <<templates, builds, templateBuilds, aliases, aliasReverse, tags>>
callVars == <<pc, on, arg>>
vars == <<storeVars, callVars, used, raced>>

Init ==
  /\ templates = [t \in Templates |-> NoBuild]
  /\ builds = {}
  /\ templateBuilds = [t \in Templates |-> {}]
  /\ aliases = [t \in Templates |-> {}]
  /\ aliasReverse = [a \in Aliases |-> NoTemplate]
  /\ tags = [t \in Templates |-> {}]
  /\ pc = [c \in Clients |-> "idle"]
  /\ on = [c \in Clients |-> NoTemplate]
  /\ arg = [c \in Clients |-> NoArg]
  /\ used = {}
  /\ raced = {}

-----------------------------------------------------------------------------
Present(t) == templates[t] # NoBuild
Adding == {"saveBuild", "addAlias", "saveTag"}
Deleting == {"deleteTags", "deleteBuilds", "deleteTemplate"}
Busy(t, calls) == \E c \in Clients : on[c] = t /\ pc[c] \in calls

(* A client goes on to the store call `next`, or is done.                  *)
Goto(c, next, t, x) ==
  /\ pc' = [pc EXCEPT ![c] = next]
  /\ on' = [on EXCEPT ![c] = t]
  /\ arg' = [arg EXCEPT ![c] = x]
Return(c) == Goto(c, "idle", NoTemplate, NoArg)

Race(t, calls) == raced' = IF Busy(t, calls) THEN raced \union {t} ELSE raced

-----------------------------------------------------------------------------
(* Store methods that change several maps.                                 *)

SaveBuild(t, b) ==
  /\ builds' = builds \union {b}
  /\ templateBuilds' = [templateBuilds EXCEPT ![t] = @ \union {b}]

DeleteBuilds(t) ==
  /\ builds' = builds \ templateBuilds[t]
  /\ templateBuilds' = [templateBuilds EXCEPT ![t] = {}]

(* Adding an alias another template lists takes it over in the reverse map.*)
AddAlias(t, a) ==
  IF a \in aliases[t] THEN UNCHANGED <<aliases, aliasReverse>>
  ELSE /\ aliases' = [aliases EXCEPT ![t] = @ \union {a}]
       /\ aliasReverse' = [aliasReverse EXCEPT ![a] = t]

RemoveAlias(t, a) ==
  /\ a \in aliases[t]
  /\ aliases' = [aliases EXCEPT ![t] = @ \ {a}]
  /\ aliasReverse' = [aliasReverse EXCEPT ![a] = NoTemplate]

DeleteAliasesMut(t) ==
  /\ aliases' = [aliases EXCEPT ![t] = {}]
  /\ UNCHANGED aliasReverse

DeleteAliases(t) ==
  /\ aliasReverse' = [a \in Aliases |-> IF a \in aliases[t] THEN NoTemplate ELSE aliasReverse[a]]
  /\ aliases' = [aliases EXCEPT ![t] = {}]

-----------------------------------------------------------------------------
(* Adapter operations.  A call that finds no template (or no such alias or *)
(* tag) returns an error and changes nothing.                              *)

(* CreateTemplate: the store's CreateTemplate, then SaveBuild.             *)
CreateTemplate(c, t, b) ==
  /\ pc[c] = "idle" /\ {t, b} \intersect used = {}
  /\ templates' = [templates EXCEPT ![t] = b]
  /\ used' = used \union {t, b}
  /\ Goto(c, "saveBuild", t, b)
  /\ UNCHANGED <<builds, templateBuilds, aliases, aliasReverse, tags, raced>>

(* TriggerBuild: UpdateTemplate, then SaveBuild.                           *)
TriggerBuildMut(c, t, b) ==
  /\ pc[c] = "idle" /\ t \in used /\ b \notin used
  /\ Present(t)
  /\ templates' = [templates EXCEPT ![t] = b]
  /\ used' = used \union {b}
  /\ UNCHANGED <<callVars, builds, templateBuilds, aliases, aliasReverse, tags, raced>>

TriggerBuild(c, t, b) ==
  /\ pc[c] = "idle" /\ t \in used /\ b \notin used
  /\ Present(t)
  /\ templates' = [templates EXCEPT ![t] = b]
  /\ used' = used \union {b}
  /\ Goto(c, "saveBuild", t, b)
  /\ Race(t, Deleting)
  /\ UNCHANGED <<builds, templateBuilds, aliases, aliasReverse, tags>>

FinishBuild(c) ==
  /\ pc[c] = "saveBuild"
  /\ SaveBuild(on[c], arg[c])
  /\ Return(c)
  /\ UNCHANGED <<templates, aliases, aliasReverse, tags, used, raced>>

(* CreateAlias: GetTemplate, then AddAlias.                                *)
CreateAliasMut(c, t, a) ==
  /\ pc[c] = "idle" /\ t \in used
  /\ Goto(c, "addAlias", t, a)
  /\ Race(t, Deleting)
  /\ UNCHANGED <<storeVars, used>>

CreateAlias(c, t, a) ==
  /\ pc[c] = "idle" /\ t \in used
  /\ Present(t)
  /\ Goto(c, "addAlias", t, a)
  /\ Race(t, Deleting)
  /\ UNCHANGED <<storeVars, used>>

FinishAlias(c) ==
  /\ pc[c] = "addAlias"
  /\ AddAlias(on[c], arg[c])
  /\ Return(c)
  /\ UNCHANGED <<templates, builds, templateBuilds, tags, used, raced>>

DeleteAlias(c, t, a) ==
  /\ pc[c] = "idle" /\ RemoveAlias(t, a)
  /\ UNCHANGED <<templates, builds, templateBuilds, tags, callVars, used, raced>>

(* CreateTag: GetTemplate, then SaveTag, which replaces a tag of that name.*)
CreateTag(c, t, g) ==
  /\ pc[c] = "idle" /\ t \in used
  /\ Present(t)
  /\ Goto(c, "saveTag", t, g)
  /\ Race(t, Deleting)
  /\ UNCHANGED <<storeVars, used>>

FinishTag(c) ==
  /\ pc[c] = "saveTag"
  /\ tags' = [tags EXCEPT ![on[c]] = @ \union {arg[c]}]
  /\ Return(c)
  /\ UNCHANGED <<templates, builds, templateBuilds, aliases, aliasReverse, used, raced>>

DeleteTag(c, t, g) ==
  /\ pc[c] = "idle" /\ g \in tags[t]
  /\ tags' = [tags EXCEPT ![t] = @ \ {g}]
  /\ UNCHANGED <<templates, builds, templateBuilds, aliases, aliasReverse, callVars, used, raced>>

(* DeleteTemplate: DeleteAliases, DeleteTags, DeleteBuilds and, whatever   *)
(* these found, the store's DeleteTemplate.                                *)
DeleteTemplate(c, t) ==
  /\ pc[c] = "idle" /\ t \in used
  /\ DeleteAliases(t)
  /\ Goto(c, "deleteTags", t, NoArg)
  /\ Race(t, Adding)
  /\ UNCHANGED <<templates, builds, templateBuilds, tags, used>>

DeleteTemplateTags(c) ==
  /\ pc[c] = "deleteTags"
  /\ tags' = [tags EXCEPT ![on[c]] = {}]
  /\ Goto(c, "deleteBuilds", on[c], NoArg)
  /\ UNCHANGED <<templates, builds, templateBuilds, aliases, aliasReverse, used, raced>>

DeleteTemplateBuilds(c) ==
  /\ pc[c] = "deleteBuilds"
  /\ DeleteBuilds(on[c])
  /\ Goto(c, "deleteTemplate", on[c], NoArg)
  /\ UNCHANGED <<templates, aliases, aliasReverse, tags, used, raced>>

DeleteTemplateEntry(c) ==
  /\ pc[c] = "deleteTemplate"
  /\ templates' = [templates EXCEPT ![on[c]] = NoBuild]
  /\ Return(c)
  /\ UNCHANGED <<builds, templateBuilds, aliases, aliasReverse, tags, used, raced>>

-----------------------------------------------------------------------------
Next ==
  \E c \in Clients :
    \/ \E t \in Templates, b \in Builds : CreateTemplate(c, t, b) \/ TriggerBuild(c, t, b)
    \/ \E t \in Templates, a \in Aliases : CreateAlias(c, t, a) \/ DeleteAlias(c, t, a)
    \/ \E t \in Templates, g \in Tags : CreateTag(c, t, g) \/ DeleteTag(c, t, g)
    \/ \E t \in Templates : DeleteTemplate(c, t)
    \/ FinishBuild(c) \/ FinishAlias(c) \/ FinishTag(c)
    \/ DeleteTemplateTags(c) \/ DeleteTemplateBuilds(c) \/ DeleteTemplateEntry(c)

Spec == Init /\ [][Next]_vars

-----------------------------------------------------------------------------
StoreOK ==
  /\ templates \in [Templates -> Builds \union {NoBuild}]
  /\ builds \subseteq Builds
  /\ templateBuilds \in [Templates -> SUBSET Builds]
  /\ aliases \in [Templates -> SUBSET Aliases]
  /\ aliasReverse \in [Aliases -> Templates \union {NoTemplate}]
  /\ tags \in [Templates -> SUBSET Tags]
CallsOK ==
  /\ pc \in [Clients -> {"idle"} \union Adding \union Deleting]
  /\ on \in [Clients -> Templates \union {NoTemplate}]
  /\ arg \in [Clients -> Builds \union Aliases \union Tags \union {NoArg}]
  /\ \A c \in Clients :
       /\ pc[c] # "idle" => on[c] \in Templates
       /\ pc[c] = "saveBuild" => arg[c] \in Builds
       /\ pc[c] = "addAlias" => arg[c] \in Aliases
       /\ pc[c] = "saveTag" => arg[c] \in Tags

(* Types of the store's maps, and of the arguments each client carries to  *)
(* its next store call.                                                    *)
TypeOK == StoreOK /\ CallsOK /\ used \subseteq Templates \union Builds /\ raced \subseteq Templates

(* Whatever an alias resolves to lists it, although aliases are taken over *)
(* and removed through either template that lists them: CreateSandbox      *)
(* never resolves an alias to a template that gave it up.                  *)
AliasIndex ==
  \A a \in Aliases : aliasReverse[a] # NoTemplate => a \in aliases[aliasReverse[a]]

(* The build map holds exactly the builds some template lists, each listed *)
(* by one template: DeleteBuilds of one template never takes a build from  *)
(* another, and leaves none behind.                                        *)
BuildIndex ==
  /\ builds = UNION {templateBuilds[t] : t \in Templates}
  /\ \A t, u \in Templates : t # u => templateBuilds[t] \intersect templateBuilds[u] = {}

(* The indexes of the store agree with the lists they are built from.      *)
IndexesAgree == AliasIndex /\ BuildIndex

(* DeleteTemplate leaves nothing of a template behind, unless a creating   *)
(* call on the same template overlapped it.                                *)
CleanDelete ==
  \A t \in Templates \ raced :
    ~Present(t) =>
      /\ aliases[t] = {} /\ tags[t] = {} /\ templateBuilds[t] = {}
      /\ \A a \in Aliases : aliasReverse[a] # t

(* Once no call on it is under way, a template's current build ID names a  *)
(* stored build, however creates, builds and deletes overlapped: a client  *)
(* that polls the build it was given never gets "not found".               *)
CurrentBuildStored ==
  \A t \in Templates :
    Present(t) /\ ~Busy(t, {"saveBuild"} \union Deleting) => templates[t] \in builds

=============================================================================
