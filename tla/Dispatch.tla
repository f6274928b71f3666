------------------------------ MODULE Dispatch ------------------------------
(***************************************************************************)
(* The REST handlers that find a backend by trying every adapter of the    *)
(* registry in turn (internal/api/v1/handlers.go).  registry.List() copies *)
(* a Go map, so each request meets the adapters in an arbitrary order; the *)
(* first one that answers without an error decides the reply, and the list *)
(* handlers merge what all of them answer.  Handlers that look the owner   *)
(* up in the sandbox mapping instead are in SandboxLifecycle.              *)
(*                                                                         *)
(* A backend holds sandboxes, templates and warm pools.  It serves a call  *)
(* on what it holds, unless its adapter does not support the call, and     *)
(* refuses the others, except that some adapters answer some calls for an  *)
(* id they have never seen (an empty list, a synthetic template).  A call  *)
(* can fail, and it can take effect and fail to say so.                    *)
(***************************************************************************)
EXTENDS Naturals, FiniteSets

CONSTANTS
    Backends,      \* names of the adapters
    Registered,    \* bound: how many of them are configured
    Sandboxes,
    Templates,
    Pools,         \* warm pools
    Handlers,      \* goroutines serving requests
    Nobody,        \* a request that no backend answered
    MaxServed      \* bound: requests served

VARIABLES
    registry,      \* the configured adapters
    has,           \* what each backend holds
    used,          \* ids given out so far
    req,           \* the request of each handler
    served         \* number of requests begun

vars == <<registry, has, used, req, served>>

Objects == Sandboxes \cup Templates \cup Pools

\* The adapters by what they lack (their "not supported" methods).
Unpooled == {"opensandbox", "agentsandbox"}
Untagged == {"agentsandbox"}

Modes == {"read", "use", "delete", "create", "list"}

\* body: whether the uploaded file can still be read from its start; applied:
\* backends on which the request took effect; lost: those of them that
\* reported an error all the same; failed: backends whose list call failed;
\* by: the backend whose answer was returned; met: what was held at some
\* time in the request; kept: what was held throughout a list request.
NoRequest ==
    [mode |-> "idle", objs |-> {}, refuse |-> {}, lax |-> {}, todo |-> {},
     upload |-> FALSE, body |-> TRUE, applied |-> {}, lost |-> {}, failed |-> {},
     got |-> {}, by |-> Nobody, kept |-> {}, met |-> {}]

Pairs(h, objs) == UNION {{b} \X (h[b] \cap objs) : b \in Backends}

Init ==
    /\ registry \in {bs \in SUBSET Backends : Cardinality(bs) = Registered}
    /\ has \in [Backends -> SUBSET Objects]
    /\ \A b \in Backends \ registry : has[b] = {}
    /\ \A o \in Objects : Cardinality({b \in Backends : o \in has[b]}) <= 1
    /\ \A b \in Backends \cap Unpooled : has[b] \cap Pools = {}
    /\ used = UNION {has[b] : b \in Backends}
    /\ req = [r \in Handlers |-> NoRequest]
    /\ served = 0

----------------------------------------------------------------------------
(* Requests arrive: one definition per handler.                            *)

\* A handler decodes its request and copies the registry.  objs: what the
\* request is about; refuse: adapters that do not support the call; lax:
\* adapters that answer it for any id.
Begin(r, mode, objs, refuse, lax, upload) ==
    /\ req[r].mode = "idle"
    /\ served < MaxServed
    /\ served' = served + 1
    /\ req' = [req EXCEPT ![r] =
                  [NoRequest EXCEPT !.mode = mode, !.objs = objs, !.refuse = refuse,
                                    !.lax = lax, !.todo = registry, !.upload = upload,
                                    !.kept = IF mode = "list" THEN Pairs(has, objs) ELSE {},
                                    !.met = Pairs(has, objs)]]
    /\ UNCHANGED <<registry, has, used>>

Scan(r, mode, o, refuse, lax) == Begin(r, mode, {o}, refuse, lax, FALSE)

PauseSandboxHandler(r, s) == Scan(r, "use", s, {}, {})
ResumeSandboxHandler(r, s) == Scan(r, "use", s, {}, {})
SetTimeoutHandler(r, s) == Scan(r, "use", s, {}, {})
StartExecutionHandler(r, s) == Scan(r, "use", s, {}, {})
WriteFileHandler(r, s) == Scan(r, "use", s, {}, {})
ReadFileHandler(r, s) == Scan(r, "read", s, {}, {})
DownloadFileHandler(r, s) == Scan(r, "read", s, {}, {})
ListFilesHandler(r, s) == Scan(r, "read", s, {}, {})
MakeDirHandler(r, s) == Scan(r, "use", s, {}, {})
RemoveFileHandler(r, s) == Scan(r, "use", s, {}, {})
MoveFileHandler(r, s) == Scan(r, "use", s, {}, {})
ListProcessesHandler(r, s) == Scan(r, "read", s, {}, {})
KillProcessHandler(r, s) == Scan(r, "use", s, {}, {})
SendStdinHandler(r, s) == Scan(r, "use", s, Unpooled, {})
CreateSnapshotHandler(r, s) == Scan(r, "use", s, Unpooled, {})

\* The file is uploaded as JSON, held in memory, or as one part of a form,
\* whose reader every adapter is given in turn.
UploadFileHandler(r, s) == \E form \in BOOLEAN : Begin(r, "use", {s}, {}, {}, form)

\* Setting no variables succeeds in opensandbox for any id.
SetEnvsHandler(r, s) == \E lax \in {{}, {"opensandbox"}} : Scan(r, "use", s, {}, lax)

ListSnapshotsHandler(r, s) == Scan(r, "read", s, {}, Unpooled)
ListPortsHandler(r, s) == Scan(r, "read", s, {}, Unpooled)
GetLogsHandler(r, s) == Scan(r, "read", s, {}, Unpooled)

GetTemplateHandler(r, t) == Scan(r, "read", t, {}, {"opensandbox"})
UpdateTemplateHandler(r, t) == Scan(r, "read", t, {}, {"opensandbox"})
DeleteTemplateHandler(r, t) == Scan(r, "delete", t, {}, {})
TriggerBuildHandler(r, t) == Scan(r, "use", t, {}, {})
GetBuildStatusHandler(r, t) == Scan(r, "read", t, {}, {})
CreateAliasHandler(r, t) == Scan(r, "use", t, {}, {})
DeleteAliasHandler(r, t) == Scan(r, "use", t, {}, {})
CreateTagHandler(r, t) == Scan(r, "use", t, Untagged, {})
ListTagsHandler(r, t) == Scan(r, "read", t, {}, Unpooled)
DeleteTagHandler(r, t) == Scan(r, "use", t, Untagged, {})
CreateTemplateHandler(r) == Begin(r, "create", Templates, {}, {}, FALSE)

CreateWarmPoolHandler(r) == Begin(r, "create", Pools, Unpooled, {}, FALSE)
GetWarmPoolHandler(r, p) == Scan(r, "read", p, Unpooled, {})
DeleteWarmPoolHandler(r, p) == Scan(r, "delete", p, Unpooled, {})
UpdateWarmPoolSizeHandler(r, p) == Scan(r, "use", p, Unpooled, {})

ListSandboxesHandler(r) == Begin(r, "list", Sandboxes, {}, {}, FALSE)
ListTemplatesHandler(r) == Begin(r, "list", Templates, {}, {}, FALSE)
ListWarmPoolsHandler(r) == Begin(r, "list", Pools, {}, {}, FALSE)

SandboxRequest(r) ==
    \E s \in Sandboxes :
        \/ PauseSandboxHandler(r, s) \/ ResumeSandboxHandler(r, s) \/ SetTimeoutHandler(r, s)
        \/ StartExecutionHandler(r, s) \/ WriteFileHandler(r, s) \/ ReadFileHandler(r, s)
        \/ UploadFileHandler(r, s) \/ DownloadFileHandler(r, s) \/ ListFilesHandler(r, s)
        \/ MakeDirHandler(r, s) \/ RemoveFileHandler(r, s) \/ MoveFileHandler(r, s)
        \/ ListProcessesHandler(r, s) \/ KillProcessHandler(r, s) \/ SendStdinHandler(r, s)
        \/ CreateSnapshotHandler(r, s) \/ ListSnapshotsHandler(r, s) \/ ListPortsHandler(r, s)
        \/ SetEnvsHandler(r, s) \/ GetLogsHandler(r, s)

TemplateRequest(r) ==
    \E t \in Templates :
        \/ GetTemplateHandler(r, t) \/ UpdateTemplateHandler(r, t) \/ DeleteTemplateHandler(r, t)
        \/ TriggerBuildHandler(r, t) \/ GetBuildStatusHandler(r, t) \/ CreateAliasHandler(r, t)
        \/ DeleteAliasHandler(r, t) \/ CreateTagHandler(r, t) \/ ListTagsHandler(r, t)
        \/ DeleteTagHandler(r, t)

PoolRequest(r) ==
    \E p \in Pools :
        GetWarmPoolHandler(r, p) \/ DeleteWarmPoolHandler(r, p) \/ UpdateWarmPoolSizeHandler(r, p)

----------------------------------------------------------------------------
(* The loop over the adapters.                                             *)

\* The backends hold h from now on.
Holds(h, rs) ==
    /\ has' = h
    /\ req' = [r \in Handlers |->
                  IF rs[r].mode = "idle" THEN rs[r]
                  ELSE [rs[r] EXCEPT !.kept = @ \cap Pairs(h, rs[r].objs),
                                     !.met = @ \cup Pairs(h, rs[r].objs)]]

Holder(r, b) == req[r].objs \cap has[b] # {} /\ b \notin req[r].refuse

\* Where a request that backend b serves takes effect.
Effect(r, b) ==
    CASE req[r].mode = "create" ->
             {[has EXCEPT ![b] = @ \cup {o}] : o \in req[r].objs \ used}
      [] req[r].mode = "delete" -> {[has EXCEPT ![b] = @ \ req[r].objs]}
      [] OTHER -> {has}

Done == [r \in Handlers |-> req[r].mode \in Modes /\ (req[r].todo = {} \/ req[r].by # Nobody)]

Try(r, b) == req[r].mode \in Modes \ {"list"} /\ ~Done[r] /\ b \in req[r].todo

\* A loop that does not return after the adapter that answered.
ServeMut(r, b, lost) ==
    /\ Try(r, b)
    /\ Holder(r, b) \/ (req[r].mode = "create" /\ b \notin req[r].refuse)
    /\ \E h \in Effect(r, b) :
           /\ Holds(h, [req EXCEPT ![r].todo = @ \ {b},
                                   ![r].applied = @ \cup {b},
                                   ![r].lost = IF lost THEN @ \cup {b} ELSE @])
           /\ used' = used \cup UNION {h[c] : c \in Backends}
    /\ UNCHANGED <<registry, served>>

\* The adapter serves the call; when its answer is lost on the way back
\* (lost = TRUE), the loop goes on to the next adapter.
Serve(r, b, lost) ==
    /\ Try(r, b)
    /\ Holder(r, b) \/ (req[r].mode = "create" /\ b \notin req[r].refuse)
    /\ \E h \in Effect(r, b) :
           /\ Holds(h, [req EXCEPT ![r].todo = @ \ {b},
                                   ![r].applied = @ \cup {b},
                                   ![r].lost = IF lost THEN @ \cup {b} ELSE @,
                                   ![r].by = IF lost THEN @ ELSE b])
           /\ used' = used \cup UNION {h[c] : c \in Backends}
    /\ UNCHANGED <<registry, served>>

\* The adapter answers for an id it does not know.
AnswerUnknown(r, b) ==
    /\ Try(r, b)
    /\ b \in req[r].lax
    /\ req' = [req EXCEPT ![r].todo = @ \ {b}, ![r].by = b]
    /\ UNCHANGED <<registry, has, used, served>>

\* A loop that takes the first adapter's answer for the reply, error or not.
FailMut(r, b) ==
    /\ Try(r, b)
    /\ req' = [req EXCEPT ![r].todo = @ \ {b}, ![r].by = b]
    /\ UNCHANGED <<registry, has, used, served>>

\* The call fails: the backend does not know the id, the adapter does not
\* support the call, or something broke.  The cloud adapter streams the
\* uploaded part into its request before the service refuses it; the others
\* look the sandbox up before they read.
Fail(r, b) ==
    /\ Try(r, b)
    /\ \E body \in IF req[r].upload /\ b = "e2bcloud" THEN {FALSE, req[r].body} ELSE {req[r].body} :
           req' = [req EXCEPT ![r].todo = @ \ {b}, ![r].body = body]
    /\ UNCHANGED <<registry, has, used, served>>

\* A merge that ends with the first adapter that fails.
ListFromMut(r, b) ==
    /\ req[r].mode = "list" /\ b \in req[r].todo
    /\ \/ req' = [req EXCEPT ![r].todo = @ \ {b}, ![r].got = @ \cup (req[r].objs \cap has[b])]
       \/ req' = [req EXCEPT ![r].todo = {}, ![r].failed = @ \cup {b}]
    /\ UNCHANGED <<registry, has, used, served>>

\* A list handler appends one adapter's answer, or skips the adapter.
ListFrom(r, b) ==
    /\ req[r].mode = "list" /\ b \in req[r].todo
    /\ \/ req' = [req EXCEPT ![r].todo = @ \ {b}, ![r].got = @ \cup (req[r].objs \cap has[b])]
       \/ req' = [req EXCEPT ![r].todo = @ \ {b}, ![r].failed = @ \cup {b}]
    /\ UNCHANGED <<registry, has, used, served>>

\* The reply is written: the answer, or 404 or 503 when no adapter gave one.
Reply(r) ==
    /\ Done[r]
    /\ req' = [req EXCEPT ![r] = NoRequest]
    /\ UNCHANGED <<registry, has, used, served>>

\* Sandboxes start and end on their backend meanwhile.
Upstream ==
    \E b \in registry, s \in Sandboxes :
        /\ \/ s \in has[b] /\ Holds([has EXCEPT ![b] = @ \ {s}], req) /\ UNCHANGED used
           \/ s \notin used /\ Holds([has EXCEPT ![b] = @ \cup {s}], req) /\ used' = used \cup {s}
        /\ UNCHANGED <<registry, served>>

\* All requests are served.
Idle == served = MaxServed /\ (\A r \in Handlers : req[r].mode = "idle") /\ UNCHANGED vars

Next ==
    \/ \E r \in Handlers :
           \/ SandboxRequest(r) \/ TemplateRequest(r) \/ PoolRequest(r)
           \/ CreateTemplateHandler(r) \/ CreateWarmPoolHandler(r)
           \/ ListSandboxesHandler(r) \/ ListTemplatesHandler(r) \/ ListWarmPoolsHandler(r)
           \/ Reply(r)
           \/ \E b \in registry :
                  \/ \E lost \in BOOLEAN : Serve(r, b, lost)
                  \/ AnswerUnknown(r, b) \/ Fail(r, b) \/ ListFrom(r, b)
    \/ Upstream
    \/ Idle

Spec == Init /\ [][Next]_vars

----------------------------------------------------------------------------
\* Backends hold ids given out, and only registered adapters answer.
TypeOK ==
    /\ registry \subseteq Backends
    /\ has \in [Backends -> SUBSET used]
    /\ used \subseteq Objects
    /\ served \in 0..MaxServed
    /\ \A r \in Handlers :
           /\ req[r].mode \in Modes \cup {"idle"}
           /\ req[r].objs \subseteq Objects
           /\ {req[r].by} \subseteq registry \cup {Nobody}
           /\ req[r].todo \cup req[r].applied \cup req[r].failed \subseteq registry

\* Whatever order the adapters are tried in and however their sandboxes come
\* and go, a handler's successful answer about an id comes from a backend
\* that held the id during the request, or from an adapter that answers for
\* any id.
AnsweredByHolder ==
    \A r \in Handlers :
        req[r].mode \in {"read", "use", "delete"} /\ req[r].by # Nobody =>
            req[r].by \in req[r].lax \/ \E o \in req[r].objs : <<req[r].by, o>> \in req[r].met

\* The loop returns at the first success: a request took effect on exactly
\* the backend whose answer the client gets, and one answered 404 or 503 took
\* effect nowhere, but for calls whose answer was lost.
EffectMatchesAnswer ==
    \A r \in Handlers :
        Done[r] /\ req[r].by \notin req[r].lax =>
            req[r].applied \ req[r].lost = {req[r].by} \ {Nobody}

\* A list handler's merged answer has everything that was held throughout the
\* request by a backend whose call did not fail, and nothing that was not held
\* at some time during it.
ListFaithful ==
    \A r \in Handlers :
        req[r].mode = "list" /\ Done[r] =>
            /\ \A p \in req[r].kept : p[1] \notin req[r].failed /\ p[2] \in req[r].objs => p[2] \in req[r].got
            /\ \A o \in req[r].got : \E b \in Backends : <<b, o>> \in req[r].met

\* "UploadFile uploads a file to the sandbox": an upload answered with success
\* gave the sandbox the file, not the rest of a reader already consumed.
UploadWhole ==
    \A r \in Handlers :
        req[r].upload /\ req[r].by # Nobody => req[r].body

=============================================================================
