---------------------- MODULE TemplateCatalogProofs -----------------------
(***************************************************************************)
(* Type correctness of TemplateCatalog, the consistency of the store's     *)
(* alias and build maps, and what DeleteTemplate and TriggerBuild promise  *)
(* about a template, for any number of templates, builds, aliases, tags    *)
(* and concurrent clients.                                                 *)
(***************************************************************************)
EXTENDS TemplateCatalog, TLAPS

(* IDs are fresh: a build about to be saved is stored nowhere, and no two  *)
(* clients are about to save the same one.                                 *)
FreshBuilds ==
  /\ \A t \in Templates : templateBuilds[t] \subseteq used
  /\ \A c \in Clients : pc[c] = "saveBuild" =>
       arg[c] \in used /\ \A t \in Templates : arg[c] \notin templateBuilds[t]
  /\ \A c, d \in Clients :
       pc[c] = "saveBuild" /\ pc[d] = "saveBuild" /\ c # d => arg[c] # arg[d]

Empty(t) == aliases[t] = {} /\ tags[t] = {} /\ templateBuilds[t] = {}

(* Nothing is known of a template whose ID was not generated yet.          *)
FreshTemplates ==
  \A t \in Templates : t \notin used =>
    /\ ~Present(t) /\ Empty(t)
    /\ \A c \in Clients : on[c] # t

(* Without a race, a deletion has the template to itself, what it has      *)
(* deleted stays deleted, and an absent template is left alone.            *)
DeleteProgress ==
  \A t \in Templates : t \notin raced =>
    /\ \A c, d \in Clients : on[c] = t /\ on[d] = t => ~(pc[c] \in Adding /\ pc[d] \in Deleting)
    /\ \A c \in Clients : on[c] = t =>
         /\ pc[c] \in Deleting => aliases[t] = {}
         /\ pc[c] \in {"deleteBuilds", "deleteTemplate"} => tags[t] = {}
         /\ pc[c] = "deleteTemplate" => templateBuilds[t] = {}
    /\ ~Present(t) => Empty(t) /\ \A c \in Clients : on[c] = t => pc[c] \notin Adding

(* The current build of a template is stored, about to be, or the template *)
(* is about to go.                                                         *)
BuildPending ==
  \A t \in Templates : Present(t) =>
    \/ templates[t] \in templateBuilds[t]
    \/ \E c \in Clients : on[c] = t /\ pc[c] = "saveBuild" /\ arg[c] = templates[t]
    \/ \E c \in Clients : on[c] = t /\ pc[c] = "deleteTemplate"

IInv == TypeOK /\ AliasIndex /\ BuildIndex /\ FreshBuilds /\ FreshTemplates
        /\ DeleteProgress /\ BuildPending

(* Every step keeps the types.                                             *)
LEMMA TypeStep == TypeOK /\ [Next]_vars => TypeOK'
<1> SUFFICES ASSUME TypeOK, [Next]_vars PROVE TypeOK'
  OBVIOUS
<1> USE CatalogAssumption DEF TypeOK, StoreOK, CallsOK, Adding, Deleting, storeVars, callVars
<1>1. ASSUME NEW c \in Clients, NEW t \in Templates, NEW b \in Builds, CreateTemplate(c, t, b) PROVE TypeOK'
  BY <1>1 DEF CreateTemplate, Goto
<1>2. ASSUME NEW c \in Clients, NEW t \in Templates, NEW b \in Builds, TriggerBuild(c, t, b) PROVE TypeOK'
  BY <1>2 DEF TriggerBuild, Goto, Race
<1>3. ASSUME NEW c \in Clients, NEW t \in Templates, NEW a \in Aliases, CreateAlias(c, t, a) PROVE TypeOK'
  BY <1>3 DEF CreateAlias, Goto, Race
<1>4. ASSUME NEW c \in Clients, NEW t \in Templates, NEW a \in Aliases, DeleteAlias(c, t, a) PROVE TypeOK'
  BY <1>4 DEF DeleteAlias, RemoveAlias
<1>5. ASSUME NEW c \in Clients, NEW t \in Templates, NEW g \in Tags, CreateTag(c, t, g) PROVE TypeOK'
  BY <1>5 DEF CreateTag, Goto, Race
<1>6. ASSUME NEW c \in Clients, NEW t \in Templates, NEW g \in Tags, DeleteTag(c, t, g) PROVE TypeOK'
  BY <1>6 DEF DeleteTag
<1>7. ASSUME NEW c \in Clients, NEW t \in Templates, DeleteTemplate(c, t) PROVE TypeOK'
  BY <1>7 DEF DeleteTemplate, DeleteAliases, Goto, Race
<1>8. ASSUME NEW c \in Clients, FinishBuild(c) PROVE TypeOK'
  BY <1>8 DEF FinishBuild, SaveBuild, Return, Goto
<1>9. ASSUME NEW c \in Clients, FinishAlias(c) PROVE TypeOK'
  BY <1>9 DEF FinishAlias, AddAlias, Return, Goto
<1>10. ASSUME NEW c \in Clients, FinishTag(c) PROVE TypeOK'
  BY <1>10 DEF FinishTag, Return, Goto
<1>11. ASSUME NEW c \in Clients, DeleteTemplateTags(c) PROVE TypeOK'
  BY <1>11 DEF DeleteTemplateTags, Goto
<1>12. ASSUME NEW c \in Clients, DeleteTemplateBuilds(c) PROVE TypeOK'
  BY <1>12 DEF DeleteTemplateBuilds, DeleteBuilds, Goto
<1>13. ASSUME NEW c \in Clients, DeleteTemplateEntry(c) PROVE TypeOK'
  BY <1>13 DEF DeleteTemplateEntry, Return, Goto
<1>14. CASE UNCHANGED vars
  BY <1>14 DEF vars
<1>15. QED
  BY <1>1, <1>2, <1>3, <1>4, <1>5, <1>6, <1>7, <1>8, <1>9, <1>10, <1>11, <1>12, <1>13, <1>14 DEF Next

(* AddAlias, RemoveAlias and DeleteAliases keep the alias index.           *)
LEMMA AliasStep == TypeOK /\ AliasIndex /\ [Next]_vars => AliasIndex'
<1> SUFFICES ASSUME TypeOK, AliasIndex, [Next]_vars PROVE AliasIndex'
  OBVIOUS
<1> USE CatalogAssumption DEF TypeOK, StoreOK, CallsOK, AliasIndex, storeVars
<1>1. ASSUME NEW c \in Clients, NEW t \in Templates, NEW a \in Aliases, DeleteAlias(c, t, a) PROVE AliasIndex'
  BY <1>1 DEF DeleteAlias, RemoveAlias
<1>2. ASSUME NEW c \in Clients, NEW t \in Templates, DeleteTemplate(c, t) PROVE AliasIndex'
  BY <1>2 DEF DeleteTemplate, DeleteAliases, Goto, Race
<1>3. ASSUME NEW c \in Clients, FinishAlias(c) PROVE AliasIndex'
  BY <1>3 DEF FinishAlias, AddAlias, Return, Goto
<1>4. CASE UNCHANGED <<aliases, aliasReverse>>
  BY <1>4
<1>5. QED
  BY <1>1, <1>2, <1>3, <1>4 DEF Next, vars,
     CreateTemplate, TriggerBuild, CreateAlias, CreateTag, DeleteTag,
     FinishBuild, FinishTag, DeleteTemplateTags, DeleteTemplateBuilds, DeleteTemplateEntry

(* SaveBuild and DeleteBuilds keep the build index, as build IDs are fresh.*)
LEMMA BuildStep == TypeOK /\ FreshBuilds /\ BuildIndex /\ [Next]_vars => BuildIndex'
<1> SUFFICES ASSUME TypeOK, FreshBuilds, BuildIndex, [Next]_vars PROVE BuildIndex'
  OBVIOUS
<1> USE CatalogAssumption DEF TypeOK, StoreOK, CallsOK, FreshBuilds, BuildIndex, storeVars
<1>1. ASSUME NEW c \in Clients, FinishBuild(c) PROVE BuildIndex'
  BY <1>1 DEF FinishBuild, SaveBuild, Return, Goto
<1>2. ASSUME NEW c \in Clients, DeleteTemplateBuilds(c) PROVE BuildIndex'
  BY <1>2 DEF DeleteTemplateBuilds, DeleteBuilds, Goto
<1>3. CASE UNCHANGED <<builds, templateBuilds>>
  BY <1>3
<1>4. QED
  BY <1>1, <1>2, <1>3 DEF Next, vars,
     CreateTemplate, TriggerBuild, CreateAlias, DeleteAlias, CreateTag,
     DeleteTag, DeleteTemplate, FinishAlias, FinishTag, DeleteTemplateTags, DeleteTemplateEntry

(* Build IDs stay fresh.                                                   *)
LEMMA FreshBuildsStep == TypeOK /\ FreshBuilds /\ [Next]_vars => FreshBuilds'
<1> SUFFICES ASSUME TypeOK, FreshBuilds, [Next]_vars PROVE FreshBuilds'
  OBVIOUS
<1> USE CatalogAssumption DEF TypeOK, StoreOK, CallsOK, FreshBuilds, storeVars, callVars
<1>1. ASSUME NEW c \in Clients, NEW t \in Templates, NEW b \in Builds, CreateTemplate(c, t, b) PROVE FreshBuilds'
  BY <1>1 DEF CreateTemplate, Goto
<1>2. ASSUME NEW c \in Clients, NEW t \in Templates, NEW b \in Builds, TriggerBuild(c, t, b) PROVE FreshBuilds'
  BY <1>2 DEF TriggerBuild, Goto, Race
<1>3. ASSUME NEW c \in Clients, NEW t \in Templates, NEW a \in Aliases, CreateAlias(c, t, a) PROVE FreshBuilds'
  BY <1>3 DEF CreateAlias, Goto, Race
<1>4. ASSUME NEW c \in Clients, NEW t \in Templates, NEW a \in Aliases, DeleteAlias(c, t, a) PROVE FreshBuilds'
  BY <1>4 DEF DeleteAlias, RemoveAlias
<1>5. ASSUME NEW c \in Clients, NEW t \in Templates, NEW g \in Tags, CreateTag(c, t, g) PROVE FreshBuilds'
  BY <1>5 DEF CreateTag, Goto, Race
<1>6. ASSUME NEW c \in Clients, NEW t \in Templates, NEW g \in Tags, DeleteTag(c, t, g) PROVE FreshBuilds'
  BY <1>6 DEF DeleteTag
<1>7. ASSUME NEW c \in Clients, NEW t \in Templates, DeleteTemplate(c, t) PROVE FreshBuilds'
  BY <1>7 DEF DeleteTemplate, DeleteAliases, Goto, Race
<1>8. ASSUME NEW c \in Clients, FinishBuild(c) PROVE FreshBuilds'
  BY <1>8 DEF FinishBuild, SaveBuild, Return, Goto
<1>9. ASSUME NEW c \in Clients, FinishAlias(c) PROVE FreshBuilds'
  BY <1>9 DEF FinishAlias, AddAlias, Return, Goto
<1>10. ASSUME NEW c \in Clients, FinishTag(c) PROVE FreshBuilds'
  BY <1>10 DEF FinishTag, Return, Goto
<1>11. ASSUME NEW c \in Clients, DeleteTemplateTags(c) PROVE FreshBuilds'
  BY <1>11 DEF DeleteTemplateTags, Goto
<1>12. ASSUME NEW c \in Clients, DeleteTemplateBuilds(c) PROVE FreshBuilds'
  BY <1>12 DEF DeleteTemplateBuilds, DeleteBuilds, Goto
<1>13. ASSUME NEW c \in Clients, DeleteTemplateEntry(c) PROVE FreshBuilds'
  BY <1>13 DEF DeleteTemplateEntry, Return, Goto
<1>14. CASE UNCHANGED vars
  BY <1>14 DEF vars
<1>15. QED
  BY <1>1, <1>2, <1>3, <1>4, <1>5, <1>6, <1>7, <1>8, <1>9, <1>10, <1>11, <1>12, <1>13, <1>14 DEF Next

(* So do template IDs.                                                     *)
LEMMA FreshTemplatesStep == TypeOK /\ FreshTemplates /\ [Next]_vars => FreshTemplates'
<1> SUFFICES ASSUME TypeOK, FreshTemplates, [Next]_vars PROVE FreshTemplates'
  OBVIOUS
<1> USE CatalogAssumption DEF TypeOK, StoreOK, CallsOK, FreshTemplates, Present, Empty, Adding, Deleting, storeVars, callVars
<1>1. ASSUME NEW c \in Clients, NEW t \in Templates, NEW b \in Builds, CreateTemplate(c, t, b) PROVE FreshTemplates'
  BY <1>1 DEF CreateTemplate, Goto
<1>2. ASSUME NEW c \in Clients, NEW t \in Templates, NEW b \in Builds, TriggerBuild(c, t, b) PROVE FreshTemplates'
  BY <1>2 DEF TriggerBuild, Goto, Race
<1>3. ASSUME NEW c \in Clients, NEW t \in Templates, NEW a \in Aliases, CreateAlias(c, t, a) PROVE FreshTemplates'
  BY <1>3 DEF CreateAlias, Goto, Race
<1>4. ASSUME NEW c \in Clients, NEW t \in Templates, NEW a \in Aliases, DeleteAlias(c, t, a) PROVE FreshTemplates'
  BY <1>4 DEF DeleteAlias, RemoveAlias
<1>5. ASSUME NEW c \in Clients, NEW t \in Templates, NEW g \in Tags, CreateTag(c, t, g) PROVE FreshTemplates'
  BY <1>5 DEF CreateTag, Goto, Race
<1>6. ASSUME NEW c \in Clients, NEW t \in Templates, NEW g \in Tags, DeleteTag(c, t, g) PROVE FreshTemplates'
  BY <1>6 DEF DeleteTag
<1>7. ASSUME NEW c \in Clients, NEW t \in Templates, DeleteTemplate(c, t) PROVE FreshTemplates'
  BY <1>7 DEF DeleteTemplate, DeleteAliases, Goto, Race
<1>8. ASSUME NEW c \in Clients, FinishBuild(c) PROVE FreshTemplates'
  BY <1>8 DEF FinishBuild, SaveBuild, Return, Goto
<1>9. ASSUME NEW c \in Clients, FinishAlias(c) PROVE FreshTemplates'
  BY <1>9 DEF FinishAlias, AddAlias, Return, Goto
<1>10. ASSUME NEW c \in Clients, FinishTag(c) PROVE FreshTemplates'
  BY <1>10 DEF FinishTag, Return, Goto
<1>11. ASSUME NEW c \in Clients, DeleteTemplateTags(c) PROVE FreshTemplates'
  BY <1>11 DEF DeleteTemplateTags, Goto
<1>12. ASSUME NEW c \in Clients, DeleteTemplateBuilds(c) PROVE FreshTemplates'
  BY <1>12 DEF DeleteTemplateBuilds, DeleteBuilds, Goto
<1>13. ASSUME NEW c \in Clients, DeleteTemplateEntry(c) PROVE FreshTemplates'
  BY <1>13 DEF DeleteTemplateEntry, Return, Goto
<1>14. CASE UNCHANGED vars
  BY <1>14 DEF vars
<1>15. QED
  BY <1>1, <1>2, <1>3, <1>4, <1>5, <1>6, <1>7, <1>8, <1>9, <1>10, <1>11, <1>12, <1>13, <1>14 DEF Next

(* A deletion that is not raced keeps what it has deleted deleted.         *)
LEMMA DeleteStep == TypeOK /\ FreshTemplates /\ DeleteProgress /\ [Next]_vars => DeleteProgress'
<1> SUFFICES ASSUME TypeOK, FreshTemplates, DeleteProgress, [Next]_vars PROVE DeleteProgress'
  OBVIOUS
<1> USE CatalogAssumption DEF TypeOK, StoreOK, CallsOK, FreshTemplates, DeleteProgress, Present, Empty, Busy, Adding, Deleting, storeVars, callVars
<1>1. ASSUME NEW c \in Clients, NEW t \in Templates, NEW b \in Builds, CreateTemplate(c, t, b) PROVE DeleteProgress'
  BY <1>1 DEF CreateTemplate, Goto
<1>2. ASSUME NEW c \in Clients, NEW t \in Templates, NEW b \in Builds, TriggerBuild(c, t, b) PROVE DeleteProgress'
  BY <1>2 DEF TriggerBuild, Goto, Race
<1>3. ASSUME NEW c \in Clients, NEW t \in Templates, NEW a \in Aliases, CreateAlias(c, t, a) PROVE DeleteProgress'
  BY <1>3 DEF CreateAlias, Goto, Race
<1>4. ASSUME NEW c \in Clients, NEW t \in Templates, NEW a \in Aliases, DeleteAlias(c, t, a) PROVE DeleteProgress'
  BY <1>4 DEF DeleteAlias, RemoveAlias
<1>5. ASSUME NEW c \in Clients, NEW t \in Templates, NEW g \in Tags, CreateTag(c, t, g) PROVE DeleteProgress'
  BY <1>5 DEF CreateTag, Goto, Race
<1>6. ASSUME NEW c \in Clients, NEW t \in Templates, NEW g \in Tags, DeleteTag(c, t, g) PROVE DeleteProgress'
  BY <1>6 DEF DeleteTag
<1>7. ASSUME NEW c \in Clients, NEW t \in Templates, DeleteTemplate(c, t) PROVE DeleteProgress'
  BY <1>7 DEF DeleteTemplate, DeleteAliases, Goto, Race
<1>8. ASSUME NEW c \in Clients, FinishBuild(c) PROVE DeleteProgress'
  BY <1>8 DEF FinishBuild, SaveBuild, Return, Goto
<1>9. ASSUME NEW c \in Clients, FinishAlias(c) PROVE DeleteProgress'
  BY <1>9 DEF FinishAlias, AddAlias, Return, Goto
<1>10. ASSUME NEW c \in Clients, FinishTag(c) PROVE DeleteProgress'
  BY <1>10 DEF FinishTag, Return, Goto
<1>11. ASSUME NEW c \in Clients, DeleteTemplateTags(c) PROVE DeleteProgress'
  BY <1>11 DEF DeleteTemplateTags, Goto
<1>12. ASSUME NEW c \in Clients, DeleteTemplateBuilds(c) PROVE DeleteProgress'
  BY <1>12 DEF DeleteTemplateBuilds, DeleteBuilds, Goto
<1>13. ASSUME NEW c \in Clients, DeleteTemplateEntry(c) PROVE DeleteProgress'
  BY <1>13 DEF DeleteTemplateEntry, Return, Goto
<1>14. CASE UNCHANGED vars
  BY <1>14 DEF vars
<1>15. QED
  BY <1>1, <1>2, <1>3, <1>4, <1>5, <1>6, <1>7, <1>8, <1>9, <1>10, <1>11, <1>12, <1>13, <1>14 DEF Next

(* A template's current build is never forgotten.                          *)
LEMMA PendingStep == TypeOK /\ BuildPending /\ [Next]_vars => BuildPending'
<1> SUFFICES ASSUME TypeOK, BuildPending, [Next]_vars PROVE BuildPending'
  OBVIOUS
<1> USE CatalogAssumption DEF TypeOK, StoreOK, CallsOK, BuildPending, Present, storeVars, callVars
<1>1. ASSUME NEW c \in Clients, NEW t \in Templates, NEW b \in Builds, CreateTemplate(c, t, b) PROVE BuildPending'
  BY <1>1 DEF CreateTemplate, Goto
<1>2. ASSUME NEW c \in Clients, NEW t \in Templates, NEW b \in Builds, TriggerBuild(c, t, b) PROVE BuildPending'
  BY <1>2 DEF TriggerBuild, Goto, Race
<1>3. ASSUME NEW c \in Clients, NEW t \in Templates, NEW a \in Aliases, CreateAlias(c, t, a) PROVE BuildPending'
  BY <1>3 DEF CreateAlias, Goto, Race
<1>4. ASSUME NEW c \in Clients, NEW t \in Templates, NEW a \in Aliases, DeleteAlias(c, t, a) PROVE BuildPending'
  BY <1>4 DEF DeleteAlias, RemoveAlias
<1>5. ASSUME NEW c \in Clients, NEW t \in Templates, NEW g \in Tags, CreateTag(c, t, g) PROVE BuildPending'
  BY <1>5 DEF CreateTag, Goto, Race
<1>6. ASSUME NEW c \in Clients, NEW t \in Templates, NEW g \in Tags, DeleteTag(c, t, g) PROVE BuildPending'
  BY <1>6 DEF DeleteTag
<1>7. ASSUME NEW c \in Clients, NEW t \in Templates, DeleteTemplate(c, t) PROVE BuildPending'
  BY <1>7 DEF DeleteTemplate, DeleteAliases, Goto, Race
<1>8. ASSUME NEW c \in Clients, FinishBuild(c) PROVE BuildPending'
  BY <1>8 DEF FinishBuild, SaveBuild, Return, Goto
<1>9. ASSUME NEW c \in Clients, FinishAlias(c) PROVE BuildPending'
  BY <1>9 DEF FinishAlias, AddAlias, Return, Goto
<1>10. ASSUME NEW c \in Clients, FinishTag(c) PROVE BuildPending'
  BY <1>10 DEF FinishTag, Return, Goto
<1>11. ASSUME NEW c \in Clients, DeleteTemplateTags(c) PROVE BuildPending'
  BY <1>11 DEF DeleteTemplateTags, Goto
<1>12. ASSUME NEW c \in Clients, DeleteTemplateBuilds(c) PROVE BuildPending'
  BY <1>12 DEF DeleteTemplateBuilds, DeleteBuilds, Goto
<1>13. ASSUME NEW c \in Clients, DeleteTemplateEntry(c) PROVE BuildPending'
  BY <1>13 DEF DeleteTemplateEntry, Return, Goto
<1>14. CASE UNCHANGED vars
  BY <1>14 DEF vars
<1>15. QED
  BY <1>1, <1>2, <1>3, <1>4, <1>5, <1>6, <1>7, <1>8, <1>9, <1>10, <1>11, <1>12, <1>13, <1>14 DEF Next

(* A new store, with nothing in it, satisfies the invariant.               *)
LEMMA InitIInv == Init => IInv
  BY CatalogAssumption
  DEF Init, IInv, TypeOK, StoreOK, CallsOK, AliasIndex, BuildIndex, FreshBuilds,
      FreshTemplates, DeleteProgress, BuildPending, Present, Empty, Adding, Deleting

(* IInv is an invariant of the catalog.                                    *)
THEOREM Inductive == Spec => []IInv
<1>1. IInv /\ [Next]_vars => IInv'
  BY TypeStep, AliasStep, BuildStep, FreshBuildsStep, FreshTemplatesStep, DeleteStep,
     PendingStep DEF IInv
<1>2. QED
  BY <1>1, InitIInv, PTL DEF Spec

(* Every store map and every client's call keeps its type.                 *)
THEOREM TypeCorrect == Spec => []TypeOK
<1>1. IInv => TypeOK
  BY DEF IInv
<1>2. QED
  BY <1>1, Inductive, PTL

(* What an alias resolves to lists the alias, and the build map is the     *)
(* disjoint union of the templates' builds: memory_store.go:137-247.       *)
THEOREM IndexesHold == Spec => []IndexesAgree
<1>1. IInv => IndexesAgree
  BY DEF IInv, IndexesAgree
<1>2. QED
  BY <1>1, Inductive, PTL

(* A deletion that no creating call overlapped leaves nothing behind:      *)
(* adapter.go:725-733.                                                     *)
THEOREM CleanDeleteHolds == Spec => []CleanDelete
<1>1. IInv => CleanDelete
  BY CatalogAssumption
  DEF IInv, TypeOK, StoreOK, DeleteProgress, AliasIndex, CleanDelete, Empty, Present
<1>2. QED
  BY <1>1, Inductive, PTL

(* A template at rest names a stored build: adapter.go:680-773.            *)
THEOREM CurrentBuildHolds == Spec => []CurrentBuildStored
<1>1. IInv => CurrentBuildStored
  BY DEF IInv, BuildPending, BuildIndex, CurrentBuildStored, Busy, Deleting
<1>2. QED
  BY <1>1, Inductive, PTL

=============================================================================
