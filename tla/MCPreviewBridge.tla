--------------------------- MODULE MCPreviewBridge ---------------------------
(* PreviewBridge for TLC: requests and their streams, or the primary port. *)
EXTENDS PreviewBridge

(* A change of the primary port is to a request a registration like any    *)
(* other, and requests of two ports only share the numbers: the primary    *)
(* port is explored without requests, and requests with one port, which    *)
(* may have been the primary one before it had a server.                   *)
Port == CHOOSE p \in Ports : TRUE
About(m) == IF m.type = "server-registered" THEN m.port = Port /\ (m.primary => m.gen = NoServer)
            ELSE IF m.type = "server-unregistered" THEN m.port = Port ELSE TRUE
OneKind == \/ \A r \in Requests : reqs[r].stage = "new"
           \/ /\ primary = 0 /\ host.primary \in {0, Port}
              /\ \A w \in Waits : waits[w].state = "idle"
              /\ \A p \in Ports \ {Port} : servers[p] = 0 /\ p \notin host.ports
              /\ \A c \in Channels : \A m \in ToSet(toWorker[c]) : About(m)
              /\ \A r \in Requests : reqs[r].port \in {0, Port}

(* Requests meet in the numbers they are given, and those of one life of   *)
(* the worker have numbers of their own: at most one is sent in each life, *)
(* and at most one is between its arrival and its end.                     *)
OneAtATime == /\ lastId <= 1
              /\ \A q, r \in Requests : Active(q) /\ Active(r) => q = r

(* What a worker leaves behind meets one registration: a second would be   *)
(* to it what it is to the requests of the worker that lives.              *)
LeftBehind == \/ \E c \in Channels : c # host.chan /\ toPage[c] # << >>
              \/ \E r \in Requests : streams[r].state = "open" /\ ~Active(r)
LateOnce == LeftBehind => gens <= 1
=============================================================================
