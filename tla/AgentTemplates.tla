--------------------------- MODULE AgentTemplates ---------------------------
(***************************************************************************)
(* Templates of the agent-sandbox adapter: SandboxTemplate resources whose *)
(* annotations hold the current build and the aliases.  TriggerBuild,      *)
(* CreateAlias and DeleteAlias Get the resource, change the copy and       *)
(* Update it; the API server refuses an Update of a version that is no     *)
(* longer current.  Several gateways may do so at once.                    *)
(***************************************************************************)
EXTENDS Naturals, Sequences

CONSTANTS Templates, Aliases, Editors, Builds,
          NoResource,
          MaxVersion    \* bound: versions of a resource

VARIABLES
    crd,        \* template -> its resource, or NoResource
    gone,       \* templates deleted; their IDs are not used again
    step, tmpl, edit, arg, copy,   \* per editor: its step, template, change,
                \* alias or build, and the copy its Get returned
    ledger      \* template -> the aliases and build that the accepted
                \* changes add up to

editor == <<step, tmpl, edit, arg, copy>>
templateVars == <<crd, gone, editor, ledger>>

NoLedger == [aliases |-> {}, build |-> NoResource]
Listed(t) == {crd[t].aliases[i] : i \in 1..Len(crd[t].aliases)}
BuildsUsed == {arg[e] : e \in Editors} \cup {crd[t].build : t \in {t \in Templates : crd[t] # NoResource}}

TemplatesInit ==
    /\ crd = [t \in Templates |-> NoResource] /\ gone = {}
    /\ step = [e \in Editors |-> "idle"]
    /\ tmpl = [e \in Editors |-> NoResource] /\ edit = [e \in Editors |-> NoResource]
    /\ arg = [e \in Editors |-> NoResource] /\ copy = [e \in Editors |-> NoResource]
    /\ ledger = [t \in Templates |-> NoLedger]

\* CreateTemplate: one Create, with the first build's annotation.
CreateTemplate(t) ==
    \E b \in Builds \ BuildsUsed :
        /\ crd[t] = NoResource /\ t \notin gone
        /\ crd' = [crd EXCEPT ![t] = [version |-> 1, aliases |-> <<>>, build |-> b]]
        /\ ledger' = [ledger EXCEPT ![t] = [aliases |-> {}, build |-> b]]
        /\ UNCHANGED <<gone, editor>>

\* DeleteTemplate: one Delete, whatever the version.
DeleteTemplate(t) ==
    /\ crd[t] # NoResource
    /\ crd' = [crd EXCEPT ![t] = NoResource] /\ gone' = gone \cup {t}
    /\ ledger' = [ledger EXCEPT ![t] = NoLedger]
    /\ UNCHANGED editor

\* The Get of a call that changes the resource.  CreateAlias ends here when
\* the alias is there, DeleteAlias when it is not, each when the Get fails.
Get(e, t, kind, a) ==
    /\ step[e] = "idle" /\ crd[t] # NoResource
    /\ kind = "CreateAlias" => a \notin Listed(t)
    /\ kind = "DeleteAlias" => a \in Listed(t)
    /\ copy' = [copy EXCEPT ![e] = crd[t]]
    /\ step' = [step EXCEPT ![e] = "update"]
    /\ tmpl' = [tmpl EXCEPT ![e] = t]
    /\ edit' = [edit EXCEPT ![e] = kind] /\ arg' = [arg EXCEPT ![e] = a]
    /\ UNCHANGED <<crd, gone, ledger>>

TriggerBuild(e, t) == \E b \in Builds \ BuildsUsed : Get(e, t, "TriggerBuild", b)
CreateAlias(e, t) == \E a \in Aliases : Get(e, t, "CreateAlias", a)
DeleteAlias(e, t) == \E a \in Aliases : Get(e, t, "DeleteAlias", a)

\* The copy with the change made.
Edited(e) ==
    LET c == copy[e]  NotArg(x) == x # arg[e] IN
    CASE edit[e] = "TriggerBuild" -> [c EXCEPT !.build = arg[e]]
      [] edit[e] = "CreateAlias" -> [c EXCEPT !.aliases = Append(@, arg[e])]
      [] edit[e] = "DeleteAlias" -> [c EXCEPT !.aliases = SelectSeq(@, NotArg)]

\* The change as the client means it.
Meant(e, l) ==
    CASE edit[e] = "TriggerBuild" -> [l EXCEPT !.build = arg[e]]
      [] edit[e] = "CreateAlias" -> [l EXCEPT !.aliases = @ \cup {arg[e]}]
      [] edit[e] = "DeleteAlias" -> [l EXCEPT !.aliases = @ \ {arg[e]}]

Accept(e) ==
    /\ crd' = [crd EXCEPT ![tmpl[e]] = [Edited(e) EXCEPT !.version = crd[tmpl[e]].version + 1]]
    /\ ledger' = [ledger EXCEPT ![tmpl[e]] = Meant(e, @)]

Current(e) == crd[tmpl[e]] # NoResource /\ crd[tmpl[e]].version = copy[e].version

\* The Update: accepted when the copy's resourceVersion is the stored one,
\* otherwise a conflict, which the client is told of.
UpdateWith(e, accepted) ==
    /\ step[e] = "update"
    /\ IF accepted THEN crd[tmpl[e]].version < MaxVersion /\ Accept(e)
                   ELSE UNCHANGED <<crd, ledger>>
    /\ step' = [step EXCEPT ![e] = "idle"]
    /\ tmpl' = [tmpl EXCEPT ![e] = NoResource] /\ edit' = [edit EXCEPT ![e] = NoResource]
    /\ arg' = [arg EXCEPT ![e] = NoResource] /\ copy' = [copy EXCEPT ![e] = NoResource]
    /\ UNCHANGED gone

UpdateMut(e) == UpdateWith(e, step[e] = "update" /\ crd[tmpl[e]] # NoResource)
Update(e) == UpdateWith(e, step[e] = "update" /\ Current(e))

\* Every template has been created and deleted.
Emptied == gone = Templates /\ (\A e \in Editors : step[e] = "idle") /\ UNCHANGED templateVars

TemplatesNext ==
    \/ \E t \in Templates : CreateTemplate(t) \/ DeleteTemplate(t)
    \/ \E e \in Editors, t \in Templates :
        TriggerBuild(e, t) \/ CreateAlias(e, t) \/ DeleteAlias(e, t)
    \/ \E e \in Editors : Update(e)
    \/ Emptied

-----------------------------------------------------------------------------
(* Property.                                                               *)

\* No accepted change is lost: each template has exactly the aliases, once
\* each, and the build that the accepted calls of all gateways add up to.
NoLostUpdate ==
    \A t \in Templates : crd[t] # NoResource =>
        /\ Listed(t) = ledger[t].aliases
        /\ \A i, j \in 1..Len(crd[t].aliases) : crd[t].aliases[i] = crd[t].aliases[j] => i = j
        /\ crd[t].build = ledger[t].build

=============================================================================
