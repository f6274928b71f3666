---------------------------- MODULE RedisCatalog -----------------------------
(***************************************************************************)
(* The template operations of internal/adapter/opensandbox/adapter.go over *)
(* the Redis store of redis_store.go, called by several gateway instances. *)
(* Redis runs one command at a time; a Pipeline sends its commands without *)
(* MULTI, so other clients' commands run between them, and so do they      *)
(* between the commands of one store method.  A client's next command is   *)
(* its pc.  A command may fail: the method returns the error, and whatever *)
(* it did before stays done.                                               *)
(***************************************************************************)
EXTENDS Naturals, FiniteSets

CONSTANTS
  Templates, Builds, Aliases, Tags, Clients,
  NoTemplate, NoBuild, NoArg,
  MaxFailures   \* bound on the commands that fail

VARIABLES
  templates,        \* the hash "templates": the entry's build, NoBuild if absent
  builds,           \* the fields of the hash "builds"
  templateBuilds,   \* the sets "template_builds:<id>"
  aliases,          \* the hash "aliases", NoTemplate where it has no field
  templateAliases,  \* the sets "template_aliases:<id>"
  tags,             \* the fields of the hashes "tags:<id>"
  failures,         \* how many commands have failed so far
  pc, on, arg,      \* per client: its next command and that command's arguments
  used,             \* history: the IDs generated so far
  faulty,           \* history: clients whose current DeleteTemplate met a failure
  cleared,          \* history: templates a DeleteTemplate went through without one
  raced             \* history: templates deleted while being created or changed

redisVars == <<templates, builds, templateBuilds, aliases, templateAliases, tags>>
callVars == <<pc, on, arg>>
delVars == <<faulty, cleared>>
vars == <<redisVars, failures, callVars, used, delVars, raced>>

Init ==
  /\ templates = [t \in Templates |-> NoBuild]
  /\ builds = {}
  /\ templateBuilds = [t \in Templates |-> {}]
  /\ aliases = [a \in Aliases |-> NoTemplate]
  /\ templateAliases = [t \in Templates |-> {}]
  /\ tags = [t \in Templates |-> {}]
  /\ failures = 0
  /\ pc = [c \in Clients |-> "idle"]
  /\ on = [c \in Clients |-> NoTemplate]
  /\ arg = [c \in Clients |-> NoArg]
  /\ used = {} /\ raced = {}
  /\ faulty = {} /\ cleared = {}

-----------------------------------------------------------------------------
Present(t) == templates[t] # NoBuild
Adding == {"hsetTemplate", "hsetBuild", "saddBuild", "hsetnxAlias", "saddAlias", "hsetTag"}
Deleting == {"hdelAliases", "delAliasSet", "delTags", "smembersBuilds", "hdelBuilds",
             "delBuildSet", "hdelTemplate"}
Busy(t, calls) == \E c \in Clients : on[c] = t /\ pc[c] \in calls
Race(t, calls) == raced' = IF Busy(t, calls) THEN raced \union {t} ELSE raced

Goto(c, next, t, x) ==
  /\ pc' = [pc EXCEPT ![c] = next]
  /\ on' = [on EXCEPT ![c] = t]
  /\ arg' = [arg EXCEPT ![c] = x]
Fail == failures < MaxFailures /\ failures' = failures + 1
Return(c) == Goto(c, "idle", NoTemplate, NoArg)

-----------------------------------------------------------------------------
(* CreateTemplate: HSETNX of the entry, then SaveBuild.                    *)
CreateTemplate(c, t, b) ==
  /\ pc[c] = "idle" /\ {t, b} \intersect used = {}
  /\ templates' = [templates EXCEPT ![t] = b]
  /\ used' = used \union {t, b}
  /\ Goto(c, "hsetBuild", t, b)
  /\ UNCHANGED <<builds, templateBuilds, aliases, templateAliases, tags, delVars, raced>>

(* TriggerBuild: UpdateTemplate is HGET and then HSET, without a lock ...  *)
TriggerBuild(c, t, b) ==
  /\ pc[c] = "idle" /\ t \in used /\ b \notin used
  /\ Present(t)
  /\ used' = used \union {b}
  /\ Goto(c, "hsetTemplate", t, b)
  /\ Race(t, Deleting)
  /\ UNCHANGED <<redisVars, delVars>>

UpdateTemplateMut(c) ==
  /\ pc[c] = "hsetTemplate"
  /\ templates' = [templates EXCEPT ![on[c]] = arg[c]]
  /\ Return(c)
  /\ UNCHANGED <<builds, templateBuilds, aliases, templateAliases, tags, used, delVars, raced>>

UpdateTemplate(c) ==
  /\ pc[c] = "hsetTemplate"
  /\ templates' = [templates EXCEPT ![on[c]] = arg[c]]
  /\ Goto(c, "hsetBuild", on[c], arg[c])
  /\ UNCHANGED <<builds, templateBuilds, aliases, templateAliases, tags, used, delVars, raced>>

(* ... and SaveBuild a pipeline of HSET and SADD.                          *)
SaveBuild(c) ==
  \/ /\ pc[c] = "hsetBuild"
     /\ builds' = builds \union {arg[c]}
     /\ Goto(c, "saddBuild", on[c], arg[c])
     /\ UNCHANGED <<templates, templateBuilds, aliases, templateAliases, tags, used, delVars, raced>>
  \/ /\ pc[c] = "saddBuild"
     /\ templateBuilds' = [templateBuilds EXCEPT ![on[c]] = @ \union {arg[c]}]
     /\ Return(c)
     /\ UNCHANGED <<templates, builds, aliases, templateAliases, tags, used, delVars, raced>>

(* CreateAlias: HGET of the template, then the pipeline HSETNX and SADD.   *)
CreateAliasMut(c, t, a) ==
  /\ pc[c] = "idle" /\ t \in used
  /\ Goto(c, "hsetnxAlias", t, a)
  /\ Race(t, Deleting)
  /\ UNCHANGED <<redisVars, used, delVars>>

CreateAlias(c, t, a) ==
  /\ pc[c] = "idle" /\ t \in used
  /\ Present(t)
  /\ Goto(c, "hsetnxAlias", t, a)
  /\ Race(t, Deleting)
  /\ UNCHANGED <<redisVars, used, delVars>>

AddAlias(c) ==
  \/ /\ pc[c] = "hsetnxAlias"
     /\ aliases' = [aliases EXCEPT ![arg[c]] = IF @ = NoTemplate THEN on[c] ELSE @]
     /\ Goto(c, "saddAlias", on[c], arg[c])
     /\ UNCHANGED <<templates, builds, templateBuilds, templateAliases, tags, used, delVars, raced>>
  \/ /\ pc[c] = "saddAlias"
     /\ templateAliases' = [templateAliases EXCEPT ![on[c]] = @ \union {arg[c]}]
     /\ Return(c)
     /\ UNCHANGED <<templates, builds, templateBuilds, aliases, tags, used, delVars, raced>>

(* DeleteAlias: SREM, and HDEL when it removed something.                  *)
RemoveAlias(c, t, a) ==
  /\ pc[c] = "idle" /\ a \in templateAliases[t]
  /\ templateAliases' = [templateAliases EXCEPT ![t] = @ \ {a}]
  /\ Goto(c, "hdelAlias", t, a)
  /\ UNCHANGED <<templates, builds, templateBuilds, aliases, tags, used, delVars, raced>>

RemoveAliasReverse(c) ==
  /\ pc[c] = "hdelAlias"
  /\ aliases' = [aliases EXCEPT ![arg[c]] = NoTemplate]
  /\ Return(c)
  /\ UNCHANGED <<templates, builds, templateBuilds, templateAliases, tags, used, delVars, raced>>

(* CreateTag: HGET of the template, then HSET; DeleteTag: HDEL.            *)
CreateTag(c, t, g) ==
  /\ pc[c] = "idle" /\ t \in used
  /\ Present(t)
  /\ Goto(c, "hsetTag", t, g)
  /\ Race(t, Deleting)
  /\ UNCHANGED <<redisVars, used, delVars>>

SaveTag(c) ==
  /\ pc[c] = "hsetTag"
  /\ tags' = [tags EXCEPT ![on[c]] = @ \union {arg[c]}]
  /\ Return(c)
  /\ UNCHANGED <<templates, builds, templateBuilds, aliases, templateAliases, used, delVars, raced>>

DeleteTag(c, t, g) ==
  /\ pc[c] = "idle" /\ g \in tags[t]
  /\ tags' = [tags EXCEPT ![t] = @ \ {g}]
  /\ UNCHANGED <<templates, builds, templateBuilds, aliases, templateAliases, callVars, used, delVars, raced>>

-----------------------------------------------------------------------------
(* DeleteTemplate: DeleteAliases, DeleteTags, DeleteBuilds and             *)
(* DeleteTemplate of the store.  DeleteAliases reads the set with SMEMBERS *)
(* and, unless it is empty, sends HDEL of those aliases and DEL of the     *)
(* set; arg holds what SMEMBERS returned.                                  *)
DeleteTemplate(c, t) ==
  /\ pc[c] = "idle" /\ t \in used
  /\ \/ /\ IF templateAliases[t] = {} THEN Goto(c, "delTags", t, NoArg)
           ELSE Goto(c, "hdelAliases", t, templateAliases[t])
        /\ faulty' = faulty \ {c}
        /\ UNCHANGED failures
     \/ /\ Fail
        /\ Goto(c, "delTags", t, NoArg)
        /\ faulty' = faulty \union {c}
  /\ Race(t, Adding)
  /\ UNCHANGED <<redisVars, used, cleared>>

DeleteAliases(c) ==
  \/ /\ pc[c] = "hdelAliases"
     /\ aliases' = [a \in Aliases |-> IF a \in arg[c] THEN NoTemplate ELSE aliases[a]]
     /\ Goto(c, "delAliasSet", on[c], NoArg)
     /\ UNCHANGED <<templates, builds, templateBuilds, templateAliases, tags, used, delVars, raced>>
  \/ /\ pc[c] = "delAliasSet"
     /\ templateAliases' = [templateAliases EXCEPT ![on[c]] = {}]
     /\ Goto(c, "delTags", on[c], NoArg)
     /\ UNCHANGED <<templates, builds, templateBuilds, aliases, tags, used, delVars, raced>>

DeleteTags(c) ==
  /\ pc[c] = "delTags"
  /\ tags' = [tags EXCEPT ![on[c]] = {}]
  /\ Goto(c, "smembersBuilds", on[c], NoArg)
  /\ UNCHANGED <<templates, builds, templateBuilds, aliases, templateAliases, used, delVars, raced>>

DeleteBuilds(c) ==
  \/ /\ pc[c] = "smembersBuilds"
     /\ IF templateBuilds[on[c]] = {} THEN Goto(c, "hdelTemplate", on[c], NoArg)
        ELSE Goto(c, "hdelBuilds", on[c], templateBuilds[on[c]])
     /\ UNCHANGED <<redisVars, used, delVars, raced>>
  \/ /\ pc[c] = "hdelBuilds"
     /\ builds' = builds \ arg[c]
     /\ Goto(c, "delBuildSet", on[c], NoArg)
     /\ UNCHANGED <<templates, templateBuilds, aliases, templateAliases, tags, used, delVars, raced>>
  \/ /\ pc[c] = "delBuildSet"
     /\ templateBuilds' = [templateBuilds EXCEPT ![on[c]] = {}]
     /\ Goto(c, "hdelTemplate", on[c], NoArg)
     /\ UNCHANGED <<templates, builds, aliases, templateAliases, tags, used, delVars, raced>>

DeleteTemplateEntry(c) ==
  /\ pc[c] = "hdelTemplate"
  /\ templates' = [templates EXCEPT ![on[c]] = NoBuild]
  /\ cleared' = IF c \notin faulty THEN cleared \union {on[c]} ELSE cleared
  /\ faulty' = faulty \ {c}
  /\ Return(c)
  /\ UNCHANGED <<builds, templateBuilds, aliases, templateAliases, tags, used, raced>>

(* A failed command ends its store method; DeleteTemplate ignores the      *)
(* errors of its first three methods and goes on with the next.            *)
AfterFailure(call) ==
  CASE call \in {"hdelAliases", "delAliasSet"} -> "delTags"
    [] call = "delTags" -> "smembersBuilds"
    [] call \in {"smembersBuilds", "hdelBuilds", "delBuildSet"} -> "hdelTemplate"
    [] OTHER -> "idle"

CommandFails(c) ==
  /\ pc[c] # "idle" /\ Fail
  /\ \/ AfterFailure(pc[c]) = "idle" /\ Return(c) /\ faulty' = faulty \ {c}
     \/ /\ AfterFailure(pc[c]) # "idle"
        /\ Goto(c, AfterFailure(pc[c]), on[c], NoArg)
        /\ faulty' = faulty \union {c}
  /\ UNCHANGED <<redisVars, used, cleared, raced>>

-----------------------------------------------------------------------------
Step(c) ==
  \/ \E t \in Templates, b \in Builds : CreateTemplate(c, t, b) \/ TriggerBuild(c, t, b)
  \/ \E t \in Templates, a \in Aliases : CreateAlias(c, t, a) \/ RemoveAlias(c, t, a)
  \/ \E t \in Templates, g \in Tags : CreateTag(c, t, g) \/ DeleteTag(c, t, g)
  \/ UpdateTemplate(c) \/ SaveBuild(c) \/ AddAlias(c) \/ RemoveAliasReverse(c) \/ SaveTag(c)
  \/ DeleteAliases(c) \/ DeleteTags(c) \/ DeleteBuilds(c) \/ DeleteTemplateEntry(c)

Next ==
  \E c \in Clients :
    \/ Step(c) /\ UNCHANGED failures
    \/ \E t \in Templates : DeleteTemplate(c, t)
    \/ CommandFails(c)

Spec == Init /\ [][Next]_vars

-----------------------------------------------------------------------------
(* Types of the Redis keys and of the clients' next commands.              *)
TypeOK ==
  /\ templates \in [Templates -> Builds \union {NoBuild}]
  /\ builds \subseteq Builds
  /\ templateBuilds \in [Templates -> SUBSET Builds]
  /\ aliases \in [Aliases -> Templates \union {NoTemplate}]
  /\ templateAliases \in [Templates -> SUBSET Aliases]
  /\ tags \in [Templates -> SUBSET Tags]
  /\ pc \in [Clients -> {"idle", "hdelAlias"} \union Adding \union Deleting]

(* Every build a template names is stored, as long as no command fails:    *)
(* its current build, once no call on it is under way, whatever overlapped *)
(* the unlocked read-modify-write of UpdateTemplate; and the builds it     *)
(* lists, except while a DeleteBuilds is between its HDEL and its DEL.     *)
NamedBuildsStored ==
  \A t \in Templates : failures = 0 =>
    /\ Present(t) /\ ~Busy(t, Adding \union Deleting) => templates[t] \in builds
    /\ ~Busy(t, {"delBuildSet"}) => templateBuilds[t] \subseteq builds

(* A DeleteTemplate that no creating call on the template overlapped and   *)
(* none of whose commands failed leaves the template with no entry, no     *)
(* listed alias or build and no tag, even when it retries one that failed  *)
(* midway; and no alias resolves to it if no command ever failed.          *)
CleanDelete ==
  \A t \in cleared \ raced :
    ~Busy(t, Deleting \union {"hdelAlias"}) =>
      /\ ~Present(t) /\ templateAliases[t] = {} /\ tags[t] = {} /\ templateBuilds[t] = {}
      /\ (failures = 0 => \A a \in Aliases : aliases[a] # t)

=============================================================================
