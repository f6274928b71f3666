------------------------------ MODULE Adapters ------------------------------
(***************************************************************************)
(* The adapters side by side: sandboxes of the OpenSandbox adapter as the  *)
(* handlers use them (SandboxLifecycle), the E2B Cloud client              *)
(* (CloudClient), sandboxes and templates of the agent-sandbox adapter     *)
(* (AgentSandbox, AgentTemplates), commands run through envd               *)
(* (ProcessStream) and the in-memory adapter (MockAdapter).  They share no *)
(* state; a behaviour exercises one of them.                               *)
(***************************************************************************)
EXTENDS SandboxLifecycle

CONSTANTS
  None,
  CloudCalls, MaxRetries,                            \* of CloudClient
  AgentRequests, TTL, MaxLag, MaxMoves, MaxAgentCalls, MaxRestarts,   \* of AgentSandbox
  Templates, Aliases, Editors, Builds, NoResource, MaxVersion,   \* of AgentTemplates
  Codes, MaxOutput,                                  \* of ProcessStream
  Callers, Paths, Labels, MaxMockCalls               \* of MockAdapter

VARIABLES
  part,
  cloud, created, inFlight, cloudMapping, kind, callPc, attempt, victim, reply, ctx,
  claim, running, timed, ip, moves, left, idMap, agentMapping, agentPorts, envd,
  agentPc, name, target, addr, waited, agentCalls, restarts, known, answered,
  agentKilled, agentLate,
  crd, gone, step, tmpl, edit, arg, copy, ledger,
  process, code, wrote, wire, body, reader, readPc, done, stdout, exitCode,
  sawEnd, sawError, result,
  sandboxes, mockMapping, files, envStore, snapshots, tokenCache, reading, templates,
  builds, aliases, tags, warmPools, fresh, mockCalls, made, mockKilled

cloudVars == <<cloud, created, inFlight, cloudMapping, kind, callPc, attempt, victim, reply, ctx>>
agentVars == <<claim, running, timed, ip, moves, left, idMap, agentMapping, agentPorts, envd,
               agentPc, name, target, addr, waited, agentCalls, restarts, known, answered,
               agentKilled, agentLate>>
templateVars == <<crd, gone, step, tmpl, edit, arg, copy, ledger>>
processVars == <<process, code, wrote, wire, body, reader, readPc, done, stdout, exitCode,
                 sawEnd, sawError, result>>
mockVars == <<sandboxes, mockMapping, files, envStore, snapshots, tokenCache, reading,
              templates, builds, aliases, tags, warmPools, fresh, mockCalls, made, mockKilled>>

C == INSTANCE CloudClient WITH Calls <- CloudCalls, late <- inFlight, mapping <- cloudMapping,
       pc <- callPc, target <- victim
A == INSTANCE AgentSandbox WITH Requests <- AgentRequests, MaxCalls <- MaxAgentCalls,
       mapping <- agentMapping, ports <- agentPorts, pc <- agentPc, calls <- agentCalls,
       killed <- agentKilled, late <- agentLate
T == INSTANCE AgentTemplates
P == INSTANCE ProcessStream WITH pc <- readPc
M == INSTANCE MockAdapter WITH MaxCalls <- MaxMockCalls, mapping <- mockMapping,
       calls <- mockCalls, killed <- mockKilled

AdaptersInit ==
  /\ part \in {"opensandbox", "cloud", "agent", "templates", "process", "mock"}
  /\ Init /\ C!Init /\ A!Init /\ T!TemplatesInit /\ P!StreamInit /\ M!MockInit
  /\ part # "process" => reader = "ReadAll"

AdaptersNext ==
  /\ UNCHANGED part
  /\ \/ /\ part = "opensandbox" /\ Next
        /\ UNCHANGED <<cloudVars, agentVars, templateVars, processVars, mockVars>>
     \/ /\ part = "cloud" /\ C!Next
        /\ UNCHANGED <<vars, agentVars, templateVars, processVars, mockVars>>
     \/ /\ part = "agent" /\ A!Next
        /\ UNCHANGED <<vars, cloudVars, templateVars, processVars, mockVars>>
     \/ /\ part = "templates" /\ T!TemplatesNext
        /\ UNCHANGED <<vars, cloudVars, agentVars, processVars, mockVars>>
     \/ /\ part = "process" /\ P!StreamNext
        /\ UNCHANGED <<vars, cloudVars, agentVars, templateVars, mockVars>>
     \/ /\ part = "mock" /\ M!MockNext
        /\ UNCHANGED <<vars, cloudVars, agentVars, templateVars, processVars>>

AdaptersSpec ==
  AdaptersInit
  /\ [][AdaptersNext]_<<part, vars, cloudVars, agentVars, templateVars, processVars, mockVars>>

-----------------------------------------------------------------------------
(* Properties of the adapters, stated in their modules.                    *)

\* A sandbox whose creation was answered stays in the registry's mapping for
\* as long as its backend has it: OpenSandbox, E2B Cloud, agent-sandbox.
AnsweredMapped == MappedWhileKnown /\ C!AnsweredMapped /\ A!AnsweredMapped

\* Agent-sandbox: no call goes to an address the pod left too long ago.
FreshAddress == A!FreshAddress

\* A kill that was answered with success is done: the sandbox is gone and
\* nothing of it is left in the adapter or the mapping, save what a request
\* overlapping the kill entered later.  OpenSandbox, agent-sandbox, E2B Cloud.
KillsHold == KillLeavesNothing /\ A!KillLeavesNothing /\ C!KillHonest

\* Updates of a SandboxTemplate by CreateAlias, DeleteAlias and TriggerBuild
\* are never lost to one another.
NoLostUpdate == T!NoLostUpdate

\* What ReadAll and ReadStream return of a command is what happened.
ResultFaithful == P!ResultFaithful

\* In the in-memory adapter a sandbox goes only by a kill, or by a creation
\* after a kill.
MockExact == M!MockExact

=============================================================================
