---------------------------- MODULE ProcessStream ----------------------------
(***************************************************************************)
(* A command run through envd: RunCommand, StartProcessAndWait, Read and   *)
(* ReadAll of internal/envd/process.go over the envelopes of codec.go, or  *)
(* ReadStream of codec.go, and what the agent-sandbox adapter makes of the *)
(* result.  envd and the network between are external: the stream may end  *)
(* at any point, with an error in its trailer, cleanly without one, or     *)
(* broken off.  stdout and stderr are one output.                          *)
(***************************************************************************)
EXTENDS Integers, Sequences, SequencesExt

CONSTANTS
  Codes,      \* exit codes
  MaxOutput   \* bound: data events of the process

VARIABLES
  process,    \* in the sandbox: "none", "running" or "ended"
  code,       \* the exit code of a process that ended
  wrote,      \* data events envd has sent
  wire,       \* envelopes sent and not yet read
  body,       \* the response body: "open", "eof" or "broken"
  reader,     \* "ReadAll" or "ReadStream"
  pc,         \* "call", "read" or "returned"
  done,       \* s.done
  stdout,     \* what s.stdout has been given
  exitCode,   \* s.exitCode
  sawEnd,     \* history: the End event was read
  sawError,   \* history: a trailer with an error was read
  result      \* what was returned: [out, code, err]

envd == <<process, code, wrote, wire, body>>
stream == <<done, stdout, exitCode, sawEnd, sawError>>
streamVars == <<envd, stream, reader, pc, result>>

NoResult == [out |-> <<>>, code |-> 0, err |-> FALSE]

StreamInit ==
  /\ process = "none" /\ code = 0 /\ wrote = 0 /\ wire = <<>> /\ body = "open"
  /\ reader \in {"ReadAll", "ReadStream"} /\ pc = "call"
  /\ done = FALSE /\ stdout = <<>> /\ exitCode = 0
  /\ sawEnd = FALSE /\ sawError = FALSE
  /\ result = NoResult

Return(out, c, err) ==
  /\ pc' = "returned"
  /\ result' = [out |-> out, code |-> c, err |-> err]

-----------------------------------------------------------------------------
(* envd and the network.                                                   *)

Event(kind) == [kind |-> kind, n |-> 0, failed |-> FALSE]
Send(env) == wire' = Append(wire, env)

Spawn ==
  /\ pc # "call" /\ process = "none" /\ body = "open"
  /\ process' = "running" /\ Send(Event("start"))
  /\ UNCHANGED <<code, wrote, body, stream, reader, pc, result>>

Output ==
  /\ process = "running" /\ body = "open" /\ wrote < MaxOutput
  /\ wrote' = wrote + 1
  /\ Send([Event("data") EXCEPT !.n = wrote + 1])
  /\ UNCHANGED <<process, code, body, stream, reader, pc, result>>

\* The process ends; envd says with which code, or that it went wrong.
ProcessEnds ==
  /\ process = "running"
  /\ process' = "ended"
  /\ \E c \in Codes, failed \in BOOLEAN :
       /\ code' = c
       /\ IF body = "open" THEN Send([kind |-> "end", n |-> c, failed |-> failed]) ELSE UNCHANGED wire
  /\ UNCHANGED <<wrote, body, stream, reader, pc, result>>

\* The trailer that ends a stream: after the End event, or with the error that
\* ends it early, before the process was started or while it runs.
Trailer ==
  /\ pc # "call" /\ body = "open"
  /\ Send([Event("trailer") EXCEPT !.failed = (process # "ended")])
  /\ body' = "eof"
  /\ UNCHANGED <<process, code, wrote, stream, reader, pc, result>>

\* The response ends without a trailer: cleanly between two envelopes, or in
\* the middle of one, with the connection or at the client's timeout.
Cut ==
  /\ pc # "call" /\ body = "open"
  /\ \E keep \in 0..Len(wire) : wire' = SubSeq(wire, 1, keep)
  /\ body' \in {"eof", "broken"}
  /\ UNCHANGED <<process, code, wrote, stream, reader, pc, result>>

-----------------------------------------------------------------------------
(* The client.                                                             *)

\* doConnectRPCStream: the request fails, the status is not 200, or the body
\* is handed to the reader.
StartProcess ==
  /\ pc = "call"
  /\ \/ pc' = "read" /\ UNCHANGED result
     \/ Return(<<>>, -1, TRUE)
  /\ UNCHANGED <<envd, stream, reader>>

\* A round of ReadAll that reads an envelope.  Read takes a trailer for an
\* empty response, whatever is in it, and remembers that the stream is done.
ReadEvent ==
  /\ reader = "ReadAll" /\ pc = "read" /\ ~done /\ wire # <<>>
  /\ wire' = Tail(wire)
  /\ LET env == Head(wire) IN
       /\ done' = (env.kind = "trailer")
       /\ sawError' = (env.kind = "trailer" /\ env.failed)
       /\ stdout' = IF env.kind = "data" THEN Append(stdout, env.n) ELSE stdout
       /\ sawEnd' = (sawEnd \/ env.kind = "end")
       /\ exitCode' = IF env.kind = "end" THEN env.n ELSE exitCode
       /\ IF env.kind = "end" /\ env.failed
          THEN Return(stdout, env.n, TRUE) ELSE UNCHANGED <<pc, result>>
  /\ UNCHANGED <<process, code, wrote, body, reader>>

ReadAllMut ==
  /\ reader = "ReadAll" /\ pc = "read"
  /\ done \/ (wire = <<>> /\ body # "open")
  /\ Return(stdout, exitCode, FALSE)
  /\ UNCHANGED <<envd, stream, reader>>

\* ReadAll returns: Read reports io.EOF once the stream is done or the body
\* has ended cleanly, and any other error of DecodeEnvelope as it is.
ReadAll ==
  /\ reader = "ReadAll" /\ pc = "read"
  /\ \/ /\ done \/ (wire = <<>> /\ body = "eof")
        /\ Return(stdout, exitCode, FALSE)
     \/ ~done /\ wire = <<>> /\ body = "broken" /\ Return(<<>>, -1, TRUE)
  /\ UNCHANGED <<envd, stream, reader>>

\* ReadStream: the handler is given every envelope; the error of a trailer is
\* the result.
ReadStream ==
  /\ reader = "ReadStream" /\ pc = "read"
  /\ IF wire # <<>>
     THEN LET env == Head(wire) IN
       /\ wire' = Tail(wire)
       /\ stdout' = IF env.kind = "data" THEN Append(stdout, env.n) ELSE stdout
       /\ sawEnd' = (sawEnd \/ env.kind = "end")
       /\ exitCode' = IF env.kind = "end" THEN env.n ELSE exitCode
       /\ sawError' = (env.kind = "trailer" /\ env.failed)
       /\ IF env.kind = "trailer" THEN Return(stdout, exitCode, env.failed)
          ELSE UNCHANGED <<pc, result>>
     ELSE /\ body # "open" /\ Return(stdout, exitCode, body = "broken")
          /\ UNCHANGED <<wire, stdout, sawEnd, exitCode, sawError>>
  /\ UNCHANGED <<process, code, wrote, body, reader, done>>

\* Nothing is left to happen.
StreamOver == pc = "returned" /\ body # "open" /\ process # "running" /\ UNCHANGED streamVars

StreamNext ==
  \/ StreamOver
  \/ Spawn \/ Output \/ ProcessEnds \/ Trailer \/ Cut
  \/ StartProcess \/ ReadEvent \/ ReadAll \/ ReadStream

StreamSpec == StreamInit /\ [][StreamNext]_streamVars

-----------------------------------------------------------------------------
(* Properties.                                                             *)

\* What a caller is told is what happened: the output is what the process
\* wrote, in order and from its beginning; where the End event was read it is
\* all of it, with the exit code; and where there was no End event a success
\* was preceded by a clean end of the stream.  An error hides no success:
\* without the process's own error it comes from a body that broke off, a
\* request that failed or, in ReadStream, a trailer.
ResultFaithful ==
  pc = "returned" =>
    /\ result.out = [i \in 1..Len(result.out) |-> i] /\ Len(result.out) <= wrote
    /\ sawEnd /\ result.code # -1 => result.code = code /\ Len(result.out) = wrote
    /\ ~result.err => result.code = exitCode /\ body = "eof"
    /\ reader = "ReadStream" /\ sawError => result.err

\* "StartProcessAndWait starts a process and waits for it to complete": a
\* success reported once the stream has been read to its trailer is that of a
\* process that has ended.
WaitsForEnd ==
  reader = "ReadAll" /\ pc = "returned" /\ done /\ ~result.err => process = "ended"

=============================================================================
