---------------------------- MODULE UdpAssociate -----------------------------
(***************************************************************************)
(* The loop of handleUDPAssociate (internal/socks5/server.go): a reader    *)
(* goroutine for the local relay socket and for each upstream socket, a    *)
(* goroutine that watches the TCP connection, workers that resolve and     *)
(* forward requests, and the loop that receives from all of them.  What    *)
(* matters about a datagram is its body: a request for an IPv4 or an IPv6  *)
(* address, for a name, an unusable one ("bad"), or a response.            *)
(***************************************************************************)
EXTENDS Naturals, Sequences, FiniteSets, Socks5Conn

CONSTANTS
  Networks,       \* networks the VPN session can have a datagram socket for
  Workers,        \* 4 in the code
  QueueSize,      \* 64 in the code
  Bodies,         \* bodies of requests that arrive, a subset of Requests
  MaxRequests,    \* bound on the datagrams of the client
  MaxResponses,   \* bound on those of each upstream socket
  Nobody          \* no worker

Sources == {"local"} \cup Networks
Requests == {"udp4", "udp6", "name", "bad"}

ASSUME AssociateAssumption ==
  /\ "udp4" \in Networks /\ Networks \subseteq {"udp4", "udp6"}
  /\ QueueSize \in Nat \ {0} /\ MaxRequests \in Nat /\ MaxResponses \in Nat
  /\ IsFiniteSet(Workers) /\ Bodies \subseteq Requests /\ Nobody \notin Workers

VARIABLES
  assoc,       \* "off", "loop", "close" (the deferred function) or "returned"
  upstreams,   \* networks with an open upstream socket at the start
  sockets,     \* "none", or whether the relay and upstream sockets are open
  arrived,     \* datagrams a socket has received
  reader,      \* what each reader goroutine does: "none", "read", "done" or
               \* the body it posts ("error": its read failed)
  packets,     \* the channel of datagrams, of capacity len(upstreams) + 1
  requests,    \* the channel of requests
  worker,      \* where each worker is, and the network it sends on
  writeMu,     \* the holder of udpUpstream.writeMu
  deadline,    \* the worker whose write deadline the socket has, during a write
  control      \* the goroutine that watches the TCP connection

udpVars == <<assoc, upstreams, sockets, arrived, reader, packets, requests, worker,
             writeMu, deadline, control>>

At(place, net) == [place |-> place, net |-> net]
Places == {"none", "wait", "resolve", "lock", "deadline", "write", "done"}

UdpInit ==
  /\ assoc = "off" /\ upstreams = {} /\ sockets = "none"
  /\ arrived = [s \in Sources |-> 0] /\ reader = [s \in Sources |-> "none"]
  /\ packets = <<>> /\ requests = <<>>
  /\ worker = [w \in Workers |-> At("none", "udp4")]
  /\ writeMu = [n \in Networks |-> Nobody] /\ deadline = [n \in Networks |-> Nobody]
  /\ control = "none"

Datagram == [source : Sources, body : Requests \cup {"response"} \cup {"error"}]
UdpTypeOK ==
  /\ assoc \in {"off", "loop", "close", "returned"} /\ upstreams \subseteq Networks
  /\ sockets \in {"none", "open", "closed"} /\ arrived \in [Sources -> Nat]
  /\ reader \in [Sources -> {"none", "read", "done", "error"} \cup Requests \cup {"response"}]
  /\ packets \in Seq(Datagram) /\ Len(packets) <= Cardinality(upstreams) + 1
  /\ requests \in Seq(Requests) /\ Len(requests) <= QueueSize
  /\ worker \in [Workers -> [place : Places, net : Networks]]
  /\ writeMu \in [Networks -> Workers \cup {Nobody}]
  /\ deadline \in [Networks -> Workers \cup {Nobody}]
  /\ control \in {"none", "copy", "done"}

\* The goroutines start with the sockets of the networks nets.
StartAssociation(nets) ==
  /\ assoc' = "loop" /\ upstreams' = nets /\ sockets' = "open" /\ control' = "copy"
  /\ reader' = [s \in Sources |-> IF s \in {"local"} \cup nets THEN "read" ELSE "none"]
  /\ worker' = [w \in Workers |-> At("wait", "udp4")]
  /\ UNCHANGED <<arrived, packets, requests, writeMu, deadline>>

\* The context of the association is done.
Canceled == ctxDone \/ assoc = "close"
-----------------------------------------------------------------------------
(* readPackets and the goroutine of the control connection.                 *)

readerOnly == <<conn, assoc, upstreams, sockets, requests, worker, writeMu, deadline,
                control>>

Arrive(s) ==
  /\ reader[s] = "read" /\ sockets = "open"
  /\ arrived[s] < (IF s = "local" THEN MaxRequests ELSE MaxResponses)
  /\ arrived' = [arrived EXCEPT ![s] = @ + 1]
  /\ \E body \in (IF s = "local" THEN Bodies ELSE {"response"}) :
       reader' = [reader EXCEPT ![s] = body]
  /\ UNCHANGED <<readerOnly, packets>>

\* The socket is closed by us or by the end of the VPN session.
ReadFails(s) ==
  /\ reader[s] = "read"
  /\ reader' = [reader EXCEPT ![s] = "error"]
  /\ UNCHANGED <<readerOnly, arrived, packets>>

Post(s) ==
  /\ reader[s] \notin {"none", "read", "done"}
  /\ \/ /\ Len(packets) < Cardinality(upstreams) + 1
        /\ packets' = Append(packets, [source |-> s, body |-> reader[s]])
        /\ reader' = [reader EXCEPT ![s] = IF @ = "error" THEN "done" ELSE "read"]
     \/ /\ Canceled
        /\ reader' = [reader EXCEPT ![s] = "done"] /\ UNCHANGED packets
  /\ UNCHANGED <<readerOnly, arrived>>

\* io.Copy on the TCP connection ends: the client closed it, or we did.
ControlCloses ==
  /\ control = "copy" /\ control' = "done"
  /\ UNCHANGED <<conn, assoc, upstreams, sockets, arrived, reader, packets, requests,
                 worker, writeMu, deadline>>
-----------------------------------------------------------------------------
(* The workers and forwardUDPRequest.                                       *)

workerOnly == <<conn, assoc, upstreams, sockets, arrived, reader, packets, control>>
Step(w, place, net) == worker' = [worker EXCEPT ![w] = At(place, net)]

\* Parsing and choosing the socket take no time; an error ends the request.
Forwarded(body) ==
  IF body = "name" THEN At("resolve", "udp4")
  ELSE IF body \in upstreams THEN At("lock", body) ELSE At("wait", "udp4")

TakeRequest(w) ==
  /\ worker[w].place = "wait" /\ requests # <<>>
  /\ requests' = Tail(requests)
  /\ worker' = [worker EXCEPT ![w] = IF Canceled THEN At("done", "udp4")
                                     ELSE Forwarded(Head(requests))]
  /\ UNCHANGED <<workerOnly, writeMu, deadline>>

WorkerStops(w) ==
  /\ worker[w].place = "wait" /\ Canceled
  /\ Step(w, "done", "udp4")
  /\ UNCHANGED <<workerOnly, requests, writeMu, deadline>>

\* ResolveIPv4 answers, or fails: no answer, or the context of the request.
Resolve(w) ==
  /\ worker[w].place = "resolve"
  /\ Step(w, "lock", "udp4") \/ Step(w, "wait", "udp4")
  /\ UNCHANGED <<workerOnly, requests, writeMu, deadline>>

\* Mutant: the write lock is not waited for.
LockFree(w) ==
  /\ worker[w].place = "lock"
  /\ LET n == worker[w].net
     IN \/ writeMu' = [writeMu EXCEPT ![n] = w] /\ Step(w, "deadline", n)
        \/ Step(w, "wait", "udp4") /\ UNCHANGED writeMu
  /\ UNCHANGED <<workerOnly, requests, deadline>>

\* The request may have expired while it waited for the lock.
Lock(w) ==
  /\ worker[w].place = "lock" /\ writeMu[worker[w].net] = Nobody
  /\ LET n == worker[w].net
     IN \/ ~Canceled /\ writeMu' = [writeMu EXCEPT ![n] = w] /\ Step(w, "deadline", n)
        \/ Step(w, "wait", "udp4") /\ UNCHANGED writeMu
  /\ UNCHANGED <<workerOnly, requests, deadline>>

Unlock(w, n) ==
  /\ writeMu' = [writeMu EXCEPT ![n] = Nobody] /\ deadline' = [deadline EXCEPT ![n] = Nobody]
  /\ Step(w, "wait", "udp4")

SetWriteDeadline(w) ==
  /\ worker[w].place = "deadline"
  /\ LET n == worker[w].net
     IN IF sockets = "open"
        THEN /\ deadline' = [deadline EXCEPT ![n] = w] /\ Step(w, "write", n)
             /\ UNCHANGED writeMu
        ELSE Unlock(w, n)
  /\ UNCHANGED <<workerOnly, requests>>

\* The write ends: sent, expired, or the socket was closed.
WriteTo(w) ==
  /\ worker[w].place = "write"
  /\ Unlock(w, worker[w].net)
  /\ UNCHANGED <<workerOnly, requests>>
-----------------------------------------------------------------------------
(* The loop and the deferred function.                                      *)

CloseAll ==
  /\ assoc' = "close" /\ CloseClient /\ sockets' = "closed"
  /\ UNCHANGED <<ctxDone, phase>>

\* The context, the control connection or the idle timer ends the loop.
AssociationEnds ==
  /\ assoc = "loop" /\ CloseAll
  /\ UNCHANGED <<upstreams, arrived, reader, packets, requests, worker, writeMu,
                 deadline, control>>

\* Mutant: the loop waits for a worker that is free.
TakePacketBlocking ==
  /\ assoc = "loop" /\ packets # <<>>
  /\ packets' = Tail(packets)
  /\ LET p == Head(packets)
     IN \/ p.body = "error" /\ CloseAll /\ UNCHANGED requests
        \/ /\ p.body # "error" /\ p.source = "local" /\ requests = <<>>
           /\ \E w \in Workers : worker[w].place = "wait"
           /\ requests' = <<p.body>>
           /\ UNCHANGED <<conn, assoc, sockets>>
        \/ /\ p.body # "error" /\ p.source # "local"
           /\ UNCHANGED <<conn, assoc, sockets, requests>>
  /\ UNCHANGED <<upstreams, arrived, reader, worker, writeMu, deadline, control>>

\* A request that finds the queue full is dropped.  A response is written to
\* the address of the last request, with a deadline, or dropped while there is
\* none or when its own address is unusable; either way the loop goes on.
TakePacket ==
  /\ assoc = "loop" /\ packets # <<>>
  /\ packets' = Tail(packets)
  /\ LET p == Head(packets)
     IN \/ p.body = "error" /\ CloseAll /\ UNCHANGED requests
        \/ /\ p.body # "error" /\ p.source = "local"
           /\ requests' = IF Len(requests) < QueueSize THEN Append(requests, p.body)
                                                       ELSE requests
           /\ UNCHANGED <<conn, assoc, sockets>>
        \/ /\ p.body # "error" /\ p.source # "local"
           /\ UNCHANGED <<conn, assoc, sockets, requests>>
  /\ UNCHANGED <<upstreams, arrived, reader, worker, writeMu, deadline, control>>

GoroutinesEnded ==
  /\ \A s \in Sources : reader[s] \in {"none", "done"}
  /\ \A w \in Workers : worker[w].place = "done"
  /\ control = "done"

AssociationReturns ==
  /\ assoc = "close" /\ GoroutinesEnded
  /\ assoc' = "returned"
  /\ UNCHANGED <<conn, upstreams, sockets, arrived, reader, packets, requests, worker,
                 writeMu, deadline, control>>

Forward(w) == Lock(w) \/ SetWriteDeadline(w)
Worker(w) == TakeRequest(w) \/ WorkerStops(w) \/ Resolve(w) \/ Forward(w) \/ WriteTo(w)
UdpNext ==
  \/ \E s \in Sources : Arrive(s) \/ ReadFails(s) \/ Post(s)
  \/ \E w \in Workers : Worker(w)
  \/ ControlCloses \/ AssociationEnds \/ TakePacket \/ AssociationReturns

\* A lookup and a write may block for ever while the association lives; once
\* it is cancelled or its sockets are closed they end.
UdpFairness ==
  /\ WF_<<conn, udpVars>>(TakePacket) /\ WF_<<conn, udpVars>>(AssociationReturns)
  /\ WF_<<conn, udpVars>>((ctxDone \/ control = "done") /\ AssociationEnds)
  /\ WF_<<conn, udpVars>>(client # "open" /\ ControlCloses)
  /\ \A s \in Sources :
       WF_<<conn, udpVars>>(Post(s)) /\ WF_<<conn, udpVars>>(sockets = "closed" /\ ReadFails(s))
  /\ \A w \in Workers :
       /\ WF_<<conn, udpVars>>(TakeRequest(w)) /\ WF_<<conn, udpVars>>(WorkerStops(w))
       /\ WF_<<conn, udpVars>>(Forward(w)) /\ WF_<<conn, udpVars>>(Canceled /\ Resolve(w))
       /\ WF_<<conn, udpVars>>(sockets = "closed" /\ WriteTo(w))
=============================================================================
