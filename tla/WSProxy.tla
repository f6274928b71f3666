------------------------------- MODULE WSProxy -------------------------------
(***************************************************************************)
(* The E2B Cloud WebSocket proxy (internal/adapter/e2bcloud/websocket.go): *)
(* ProxyCodeStream, and the two goroutines with which relay copies         *)
(* messages between the client's and the backend's connection.             *)
(*                                                                         *)
(* The messages of a side are numbered in the order the side sent them.    *)
(* What ReadMessage and WriteMessage do on a connection that is no longer  *)
(* open is taken from gorilla/websocket: buffered messages may still be    *)
(* read, a write may still be accepted by the kernel until the proxy       *)
(* itself has closed the connection, and a read that fails says whether    *)
(* the peer closed normally.                                               *)
(***************************************************************************)
EXTENDS Naturals, Sequences

CONSTANT MaxMessages   \* bound: messages of each side

Ends == {"client", "backend"}
Other(e) == IF e = "client" THEN "backend" ELSE "client"
ErrCap == 2            \* capacity of errCh

VARIABLES
  proxy,     \* pc of ProxyCodeStream
  conn,      \* per end: "none", "open", "normal" or "lost" by the peer, "closed" by the proxy
  said,      \* per end: how many messages the peer sent
  inbox,     \* per end: messages not yet read
  copy,      \* per end: pc of the goroutine that reads from it
  held,      \* per end: the message that goroutine has read and not written
  written,   \* per end: messages of that end written to the other
  errCh,     \* how many values errCh holds
  abnormal   \* ends whose goroutine reported an error

copyVars == <<said, inbox, copy, held, written>>
proxyVars == <<proxy, conn, copyVars, errCh, abnormal>>

ProxyInit ==
  /\ proxy = "token"
  /\ conn = [e \in Ends |-> "none"]
  /\ said = [e \in Ends |-> 0]
  /\ inbox = [e \in Ends |-> <<>>]
  /\ copy = [e \in Ends |-> "none"]
  /\ held = [e \in Ends |-> <<>>]
  /\ written = [e \in Ends |-> <<>>]
  /\ errCh = 0
  /\ abnormal = {}

-----------------------------------------------------------------------------
(* The peers.                                                              *)

PeerSends(e) ==
  /\ conn[e] = "open" /\ said[e] < MaxMessages
  /\ said' = [said EXCEPT ![e] = @ + 1]
  /\ inbox' = [inbox EXCEPT ![e] = Append(@, said[e] + 1)]
  /\ UNCHANGED <<proxy, conn, copy, held, written, errCh, abnormal>>

PeerCloses(e) ==
  /\ conn[e] = "open"
  /\ \E how \in {"normal", "lost"} : conn' = [conn EXCEPT ![e] = how]
  /\ UNCHANGED <<proxy, copyVars, errCh, abnormal>>

-----------------------------------------------------------------------------
(* ProxyCodeStream.                                                        *)

GetAccessToken ==
  /\ proxy = "token"
  /\ proxy' \in {"upgrade", "returned"}
  /\ UNCHANGED <<conn, copyVars, errCh, abnormal>>

UpgradeClient ==
  /\ proxy = "upgrade"
  /\ \/ proxy' = "dial" /\ conn' = [conn EXCEPT !["client"] = "open"]
     \/ proxy' = "returned" /\ UNCHANGED conn
  /\ UNCHANGED <<copyVars, errCh, abnormal>>

\* A failed dial leaves only the client's connection to close.
Dial ==
  /\ proxy = "dial"
  /\ \/ /\ proxy' = "relay"
        /\ conn' = [conn EXCEPT !["backend"] = "open"]
        /\ copy' = [e \in Ends |-> "read"]
     \/ proxy' = "closeClient" /\ UNCHANGED <<conn, copy>>
  /\ UNCHANGED <<said, inbox, held, written, errCh, abnormal>>

\* "Wait for either direction to finish."
RelayWait ==
  /\ proxy = "relay" /\ errCh > 0
  /\ errCh' = errCh - 1
  /\ proxy' = "closeBackend"
  /\ UNCHANGED <<conn, copyVars, abnormal>>

\* The deferred closes, the backend's first.
DeferredClose ==
  /\ \/ /\ proxy = "closeBackend" /\ proxy' = "closeClient"
        /\ conn' = [conn EXCEPT !["backend"] = "closed"]
     \/ /\ proxy = "closeClient" /\ proxy' = "returned"
        /\ conn' = [conn EXCEPT !["client"] = "closed"]
  /\ UNCHANGED <<copyVars, errCh, abnormal>>

-----------------------------------------------------------------------------
(* The goroutine that copies from end e.                                   *)

ReadMessage(e) ==
  /\ copy[e] = "read" /\ inbox[e] # <<>>
  /\ held' = [held EXCEPT ![e] = <<Head(inbox[e])>>]
  /\ inbox' = [inbox EXCEPT ![e] = Tail(@)]
  /\ copy' = [copy EXCEPT ![e] = "write"]
  /\ UNCHANGED <<proxy, conn, said, written, errCh, abnormal>>

\* A normal close comes after every message of the peer; any other end of the
\* connection can lose messages on the way.
ReadFails(e) ==
  /\ copy[e] = "read"
  /\ \/ conn[e] = "normal" /\ inbox[e] = <<>> /\ copy' = [copy EXCEPT ![e] = "sendNil"]
     \/ conn[e] \in {"lost", "closed"} /\ copy' = [copy EXCEPT ![e] = "sendErr"]
  /\ UNCHANGED <<proxy, conn, said, inbox, held, written, errCh, abnormal>>

WriteMessage(e) ==
  /\ copy[e] = "write" /\ conn[Other(e)] # "closed"
  /\ written' = [written EXCEPT ![e] = @ \o held[e]]
  /\ held' = [held EXCEPT ![e] = <<>>]
  /\ copy' = [copy EXCEPT ![e] = "read"]
  /\ UNCHANGED <<proxy, conn, said, inbox, errCh, abnormal>>

WriteFails(e) ==
  /\ copy[e] = "write" /\ conn[Other(e)] # "open"
  /\ held' = [held EXCEPT ![e] = <<>>]
  /\ copy' = [copy EXCEPT ![e] = "sendErr"]
  /\ UNCHANGED <<proxy, conn, said, inbox, written, errCh, abnormal>>

\* errCh takes the error, if there is one, and then the deferred nil; either
\* send blocks while errCh is full.
SendErrCh(e) ==
  /\ copy[e] \in {"sendErr", "sendNil"} /\ errCh < ErrCap
  /\ errCh' = errCh + 1
  /\ copy' = [copy EXCEPT ![e] = IF @ = "sendErr" THEN "sendNil" ELSE "done"]
  /\ abnormal' = IF copy[e] = "sendErr" THEN abnormal \cup {e} ELSE abnormal
  /\ UNCHANGED <<proxy, conn, said, inbox, held, written>>

-----------------------------------------------------------------------------
ProxyMain == GetAccessToken \/ UpgradeClient \/ Dial \/ RelayWait \/ DeferredClose
Copier(e) ==
  ReadMessage(e) \/ ReadFails(e) \/ WriteMessage(e) \/ WriteFails(e) \/ SendErrCh(e)

ProxyNext ==
  \/ ProxyMain
  \/ \E e \in Ends : PeerSends(e) \/ PeerCloses(e) \/ Copier(e)

\* A read waits for its peer, and a write to an open connection may block on a
\* peer that does not read; what a closed connection, a message or room in
\* errCh makes possible is done.
ProxyFairness ==
  /\ WF_proxyVars(RelayWait \/ DeferredClose)
  /\ \A e \in Ends :
       WF_proxyVars(ReadMessage(e) \/ ReadFails(e) \/ WriteFails(e) \/ SendErrCh(e))

ProxySpec == ProxyInit /\ [][ProxyNext]_proxyVars

-----------------------------------------------------------------------------
\* Types of the connections, the goroutines and their channel.
ProxyTypeOK ==
  /\ proxy \in {"token", "upgrade", "dial", "relay", "closeBackend", "closeClient", "returned"}
  /\ conn \in [Ends -> {"none", "open", "normal", "lost", "closed"}]
  /\ said \in [Ends -> 0..MaxMessages]
  /\ copy \in [Ends -> {"none", "read", "write", "sendErr", "sendNil", "done"}]
  /\ \A e \in Ends : held[e] # <<>> <=> copy[e] = "write"
  /\ errCh \in 0..ErrCap
  /\ abnormal \subseteq Ends

Ending(e) == copy[e] \in {"sendErr", "sendNil", "done"}

\* The goroutine is left behind in its deferred send: both directions ended
\* with an error, so errCh gets four values, of which it holds two and relay
\* takes one.
LeftBehind(e) == copy[e] = "sendNil" /\ errCh = ErrCap /\ abnormal = Ends

\* As soon as one direction ends, by a close of either peer or an error, the
\* proxy returns with both connections closed, and both goroutines end, but
\* that one of them may be left behind.
ProxyEnds ==
  (\E e \in Ends : Ending(e)) ~>
    /\ proxy = "returned"
    /\ \A e \in Ends : conn[e] = "closed"
    /\ \E e \in Ends : copy[e] = "done" /\ (copy[Other(e)] = "done" \/ LeftBehind(Other(e)))

=============================================================================
