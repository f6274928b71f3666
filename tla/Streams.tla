------------------------------ MODULE Streams ------------------------------
(***************************************************************************)
(* The streaming parts of the gateway beside each other: the relay between *)
(* two frame senders (Relay) and the WebSocket endpoint (WSHandler) of     *)
(* internal/streaming, and the E2B Cloud WebSocket proxy (WSProxy).  They  *)
(* share no state; a behaviour exercises one of them, and in the others,   *)
(* still in their initial state, nothing is waiting to be scheduled.  Each *)
(* of them implements a LossyChannel in every direction.                   *)
(***************************************************************************)
EXTENDS Relay

CONSTANTS
  Callers, Runner, QueueCap, MaxSent, MaxQueued, MaxMessages,   \* of WSHandler
  MaxProxied                                                    \* of WSProxy

VARIABLES
  part,                                    \* the part exercised
  serve, conn, known, closeCh, timeout,    \* of WSHandler
  readPump, messages, readCh, writePump, held, writeCh, wire,
  call, sent, late, lateTaken, queue, queued, run, done,
  proxy, pconn, said, inbox, copy, pheld, written, errCh, abnormal   \* of WSProxy

wsVars ==
  <<serve, conn, known, closeCh, timeout, readPump, messages, readCh,
    writePump, held, writeCh, wire, call, sent, late, lateTaken, queue, queued, run, done>>
proxyVars == <<proxy, pconn, said, inbox, copy, pheld, written, errCh, abnormal>>

W == INSTANCE WSHandler
P == INSTANCE WSProxy WITH MaxMessages <- MaxProxied, conn <- pconn, held <- pheld

StreamsInit ==
  /\ Init
  /\ W!WSInit
  /\ P!ProxyInit
  /\ part \in {"relay", "websocket", "proxy"}
  /\ part # "websocket" => ~timeout

StreamsNext ==
  /\ \/ part = "relay" /\ Next /\ UNCHANGED <<wsVars, proxyVars>>
     \/ part = "websocket" /\ W!WSNext /\ UNCHANGED <<vars, proxyVars>>
     \/ part = "proxy" /\ P!ProxyNext /\ UNCHANGED <<vars, wsVars>>
  /\ UNCHANGED part

StreamsSpec ==
  /\ StreamsInit
  /\ [][StreamsNext]_<<part, vars, wsVars, proxyVars>>
  /\ Fairness
  /\ W!WSFairness
  /\ P!ProxyFairness

-----------------------------------------------------------------------------
(* The abstract channels.                                                  *)

Relayed(s) ==
  INSTANCE LossyChannel
    WITH accepted <- accepted[s], pending <- from[s], delivered <- delivered[Peer(s)]

\* The numbers of sender x's frames in q.
Numbers(q, x) ==
  LET mine == SelectSeq(q, LAMBDA f : f[1] = x) IN [i \in DOMAIN mine |-> mine[i][2]]

Senders == Callers \cup {Runner}

Calling(x) == IF call[x] = "idle" THEN <<>> ELSE <<sent[x]>>

Sent(x) ==
  INSTANCE LossyChannel
    WITH accepted <- sent[x], pending <- Numbers(held \o writeCh, x) \o Calling(x),
         delivered <- Numbers(wire, x)

Proxied(e) ==
  INSTANCE LossyChannel
    WITH accepted <- said[e], pending <- pheld[e] \o inbox[e], delivered <- written[e]

\* Whatever is started, stopped, closed, canceled or fails, each direction of
\* the relay, each sender on the WebSocket endpoint and each direction of the
\* proxy is a channel that keeps the order of its frames, duplicates none and
\* invents none: the conjunction of the channels' specifications.
ChannelsImplemented ==
  /\ \A s \in Sides : Relayed(s)!Init /\ Proxied(s)!Init
  /\ \A x \in Senders : Sent(x)!Init
  /\ [][/\ part = "relay" => \A s \in Sides : [Relayed(s)!Next]_(Relayed(s)!vars)
        /\ part = "websocket" => \A x \in Senders : [Sent(x)!Next]_(Sent(x)!vars)
        /\ part = "proxy" => \A e \in Sides : [Proxied(e)!Next]_(Proxied(e)!vars)
       ]_<<part, vars, wsVars, proxyVars>>

-----------------------------------------------------------------------------
\* Without a write timeout a SendFrame begun after the close fails.
LateSendRefused == W!LateSendRefused

\* Everything winds down: Stop and Start of the relay return, a closed
\* WebSocket handler's ServeHTTP returns and its pumps end, and the proxy
\* returns once one of its directions has ended.
StreamsEnd == ShutdownCompletes /\ W!ConnectionEnds /\ P!ProxyEnds

=============================================================================
