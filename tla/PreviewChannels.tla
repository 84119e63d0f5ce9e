--------------------------- MODULE PreviewChannels ---------------------------
(***************************************************************************)
(* What the page's bridge (src/port-bridge.ts) and the service worker      *)
(* (public/__sw__.js) say to each other: one MessageChannel for each time  *)
(* the page introduced itself, each way in order, and two kinds of message *)
(* outside them, the page's `init` and the worker's `sw-needs-init`.       *)
(*                                                                         *)
(* A message names a request by the number its worker gave it.  What is in *)
(* an answer is told apart by the request it answers (`of`), its place in  *)
(* the body (`n`) and the server that made it (`gen`); neither side reads  *)
(* these.                                                                  *)
(***************************************************************************)
EXTENDS Naturals, Sequences, FiniteSets, SequencesExt

CONSTANTS Ports,         \* port numbers
          Requests,      \* 1..n: the requests of the frames, as they come
          MaxChannel,    \* bound: channels the page opens
          MaxGen,        \* bound: registrations of servers
          Chunks,        \* bound: chunks in a server's answer
          QueuedChunks   \* FLOW_QUEUED_CHUNKS

ASSUME PreviewBounds == /\ IsFiniteSet(Ports) /\ Ports \subseteq Nat \ {0}
                        /\ IsFiniteSet(Requests) /\ Requests = 1..Cardinality(Requests)
                        /\ {MaxChannel, QueuedChunks} \subseteq Nat \ {0}
                        /\ {MaxGen, Chunks} \subseteq Nat

VARIABLES toWorker,   \* the channels, towards the worker
          toPage,     \* and towards the page
          open,       \* channels whose worker's end is not closed
          inits,      \* `init` messages on their way
          asks        \* calls of the page's `reinit` on their way

channelVars == <<toWorker, toPage, open, inits, asks>>

Channels == 1..MaxChannel
Ids == Requests

(* The registration of a port that has no server, which the primary may be. *)
NoServer == MaxGen + 1

ChannelsInit == /\ toWorker = [c \in Channels |-> << >>]
                /\ toPage = [c \in Channels |-> << >>]
                /\ open = {1} /\ inits = <<1>> /\ asks = 0

(* A message to an end that is closed goes nowhere; the page never closes its. *)
ToWorker(c, msgs) == IF c \in open THEN [toWorker EXCEPT ![c] = @ \o msgs] ELSE toWorker
ToPage(c, msgs) == [toPage EXCEPT ![c] = @ \o msgs]

(* The page's messages *)
Registered(p, g, primary) ==
  [type |-> "server-registered", port |-> p, gen |-> g, primary |-> primary]
Unregistered(p) == [type |-> "server-unregistered", port |-> p]
MappingCheck(w, p) == [type |-> "port-mapping-check", wait |-> w, port |-> p]
Answer(type, i, r, n, g) == [type |-> type, id |-> i, of |-> r, n |-> n, gen |-> g]

(* The worker's messages *)
Request(i, r, p, kind) ==
  [type |-> "request", id |-> i, of |-> r, port |-> p, kind |-> kind]
StreamPull(i) == [type |-> "stream-pull", id |-> i]
StreamCancel(i) == [type |-> "stream-cancel", id |-> i]
MappingReady(w, p, registered, primary) ==
  [type |-> "port-mapping-ready", wait |-> w, port |-> p,
   registered |-> registered, primary |-> primary]
=============================================================================
