----------------------------- MODULE PreviewPage -----------------------------
(***************************************************************************)
(* The page's side, PortBridge of src/port-bridge.ts: the servers by port, *)
(* the primary one, the channel to the worker, the answers being streamed  *)
(* and the waits for a mapping.                                            *)
(*                                                                         *)
(* A handler runs to its end.  The servers themselves are external: each   *)
(* answers a request with a start, chunks and an end, or fails.            *)
(***************************************************************************)
EXTENDS PreviewChannels

CONSTANTS Waits,         \* calls of waitForPrimaryPortMapping
          Guests,        \* ports whose servers are a guest's own listeners
          MaxNotices     \* bound: messages under way when the primary is set

ASSUME PageBounds == IsFiniteSet(Waits)

VARIABLES servers,       \* port -> the registration there, 0 for none
          gens,          \* how many registrations there were
          primary,       \* primaryPort, 0 for null
          chan,          \* messageChannel
          ready,         \* serviceWorkerReady
          streams,       \* answers under way, by request
          controlled,    \* controlledStreams: id -> request, 0 for none
          waits          \* portMappingWaits

pageVars == <<servers, gens, primary, chan, ready, streams, controlled, waits>>

NoStream == [state |-> "none", kind |-> "none", id |-> 0, chan |-> 0, gen |-> 0,
             started |-> FALSE, made |-> 0, queue |-> << >>, credits |-> 0,
             ended |-> FALSE, paused |-> FALSE, guest |-> FALSE]
NoWait == [state |-> "idle", port |-> 0, chan |-> 0]

PageInit == /\ servers = [p \in Ports |-> 0] /\ gens = 0 /\ primary = 0
            /\ chan = 1 /\ ready = FALSE
            /\ streams = [r \in Requests |-> NoStream]
            /\ controlled = [i \in Ids |-> 0]
            /\ waits = [w \in Waits |-> NoWait]

Held(p) == servers[p] # 0

(* notifyServiceWorker *)
Notify(msgs) == toWorker' = IF ready THEN ToWorker(chan, msgs) ELSE toWorker

(* A wait's finish(error) *)
FinishWaits(W) == [w \in Waits |-> IF w \in W /\ waits[w].state = "asked"
                                   THEN [waits[w] EXCEPT !.state = "failed"]
                                   ELSE waits[w]]

RegisterServer(p) ==
  /\ gens < MaxGen
  /\ gens' = gens + 1
  /\ servers' = [servers EXCEPT ![p] = gens + 1]
  /\ Notify(<<Registered(p, gens + 1, p = primary)>>)
  /\ UNCHANGED <<primary, chan, ready, streams, controlled, waits, toPage, open, inits, asks>>

(* Bound: a port that is nothing to the page is unregistered only while no *)
(* message is on its way.                                                  *)
UnregisterServer(p) ==
  /\ Held(p) \/ primary = p \/ toWorker[chan] = << >>
  /\ servers' = [servers EXCEPT ![p] = 0]
  /\ waits' = FinishWaits({w \in Waits : waits[w].port = p})
  /\ primary' = IF primary = p THEN 0 ELSE primary
  /\ Notify(<<Unregistered(p)>>)
  /\ UNCHANGED <<gens, chan, ready, streams, controlled, toPage, open, inits, asks>>

(* Mutation: a change of the primary port ends no wait. *)
NoneSuperseded(p) == {}

(* The waits a change of the primary port to p ends *)
Superseded(p) == {w \in Waits : waits[w].port # p}

(* Any port, listening or not, or null.  The worker is told of it either way. *)
SetPrimaryPort(p) ==
  /\ Len(toWorker[chan]) <= MaxNotices
  /\ primary' = p
  /\ waits' = FinishWaits(Superseded(p))
  /\ LET previous == IF primary \in Ports \ {p} /\ Held(primary)
                     THEN <<Registered(primary, servers[primary], FALSE)>> ELSE << >>
         new == IF p = 0 THEN << >>
                ELSE <<Registered(p, IF Held(p) THEN servers[p] ELSE NoServer, TRUE)>>
     IN Notify(previous \o new)
  /\ UNCHANGED <<servers, gens, chan, ready, streams, controlled, toPage, open, inits, asks>>

WaitForPrimaryPortMapping(w, p) ==
  /\ waits[w].state = "idle"
  /\ ready /\ Held(p) /\ primary = p
  /\ waits' = [waits EXCEPT ![w] = [state |-> "asked", port |-> p, chan |-> chan]]
  /\ toWorker' = ToWorker(chan, <<MappingCheck(w, p)>>)
  /\ UNCHANGED <<servers, gens, primary, chan, ready, streams, controlled, toPage, open,
                 inits, asks>>

(* The caller's signal ends one wait, close() every one. *)
AbortWaits(W) ==
  /\ \E w \in W : waits[w].state = "asked"
  /\ waits' = FinishWaits(W)
  /\ UNCHANGED <<servers, gens, primary, chan, ready, streams, controlled, channelVars>>

(* Mutation: the primary port is not told again. *)
AnnouncePorts ==
  LET held == SetToSeq({p \in Ports : Held(p)})
  IN [i \in DOMAIN held |-> Registered(held[i], servers[held[i]], FALSE)]

AnnounceServers ==
  LET held == SetToSeq({p \in Ports : Held(p)})
  IN [i \in DOMAIN held |-> Registered(held[i], servers[held[i]], held[i] = primary)]

(* The last lines of initServiceWorker *)
BecomeReady ==
  /\ ~ready
  /\ ready' = TRUE
  /\ toWorker' = ToWorker(chan, AnnounceServers)
  /\ UNCHANGED <<servers, gens, primary, chan, streams, controlled, waits, toPage, open,
                 inits, asks>>

-----------------------------------------------------------------------------
(* A controlled stream's operations.  Each gives the stream after it and   *)
(* the messages it posts.                                                  *)
Said(st, msgs) == [st |-> st, msgs |-> msgs]

(* A stream that is finished: the server may still start its answer. *)
Done(st) == [(IF st.started THEN NoStream ELSE st) EXCEPT !.state = "done",
               !.kind = st.kind, !.started = st.started, !.queue = << >>, !.credits = 0]

(* Mutation: the end goes out when the server ends, chunks waiting or not. *)
FlushEnds(r, st) ==
  LET n == IF st.credits < Len(st.queue) THEN st.credits ELSE Len(st.queue)
      rest == SubSeq(st.queue, n + 1, Len(st.queue))
      sent == [k \in 1..n |-> Answer("stream-chunk", st.id, r, st.queue[k], st.gen)]
  IN IF st.state # "open" THEN Said(st, << >>)
     ELSE IF st.ended
     THEN Said(Done(st), Append(sent, Answer("stream-end", st.id, r, 0, st.gen)))
     ELSE Said([st EXCEPT !.credits = @ - n, !.queue = rest,
                          !.paused = Len(rest) >= QueuedChunks], sent)

(* flush *)
Flush(r, st) ==
  LET n == IF st.credits < Len(st.queue) THEN st.credits ELSE Len(st.queue)
      rest == SubSeq(st.queue, n + 1, Len(st.queue))
      over == st.ended /\ rest = << >>
      sent == [k \in 1..n |-> Answer("stream-chunk", st.id, r, st.queue[k], st.gen)]
  IN IF st.state # "open" THEN Said(st, << >>)
     ELSE IF over
     THEN Said(Done(st), Append(sent, Answer("stream-end", st.id, r, 0, st.gen)))
     ELSE Said([st EXCEPT !.credits = @ - n, !.queue = rest,
                          !.paused = Len(rest) >= QueuedChunks], sent)

(* cancel *)
Cancelled(st) == IF st.state = "open" THEN Done(st) ELSE st

(* finish takes the stream's number out of the table. *)
Finishes(r, st) == streams[r].state = "open" /\ st.state = "done"
Forget(r, st) == IF Finishes(r, st) THEN [controlled EXCEPT ![streams[r].id] = 0]
                 ELSE controlled

(* A step of r's stream whose outcome is `said`, posted on its own channel. *)
StreamStep(r, said) ==
  /\ streams' = [streams EXCEPT ![r] = said.st]
  /\ controlled' = Forget(r, said.st)
  /\ toWorker' = ToWorker(streams[r].chan, said.msgs)
  /\ UNCHANGED <<servers, gens, primary, chan, ready, waits, open, inits, asks>>

(* controlledStream: of what channel it is, the current one says. *)
OpenStream(m) ==
  LET st == [NoStream EXCEPT !.state = "open", !.kind = "controlled", !.id = m.id,
                             !.chan = chan, !.gen = servers[m.port]]
      refusal == <<Answer("stream-start", m.id, m.of, 0, 0),
                   Answer("stream-end", m.id, m.of, 0, 0)>>
  IN /\ streams' = [streams EXCEPT ![m.of] = IF Held(m.port) THEN st
                                             ELSE Done([st EXCEPT !.started = TRUE])]
     /\ controlled' = [controlled EXCEPT ![m.id] = IF Held(m.port) THEN m.of ELSE 0]
     /\ toWorker' = IF Held(m.port) THEN toWorker ELSE ToWorker(chan, refusal)
     /\ UNCHANGED <<servers, gens, primary, chan, ready, waits, open, inits, asks>>

(* A request of the older protocol, buffered or streamed: its answer goes  *)
(* to whatever channel is current then.                                    *)
OpenLegacy(m) ==
  LET st == [NoStream EXCEPT !.state = "open", !.kind = m.kind, !.id = m.id,
                             !.gen = servers[m.port], !.guest = m.port \in Guests]
      refusal == IF m.kind = "buffered" THEN <<Answer("response", m.id, m.of, 0, 0)>>
                 ELSE <<Answer("stream-start", m.id, m.of, 0, 0),
                        Answer("stream-end", m.id, m.of, 0, 0)>>
  IN /\ streams' = [streams EXCEPT ![m.of] = IF Held(m.port) THEN st
                                             ELSE Done([st EXCEPT !.started = TRUE])]
     /\ toWorker' = IF Held(m.port) THEN toWorker ELSE ToWorker(chan, refusal)
     /\ UNCHANGED <<servers, gens, primary, chan, ready, controlled, waits, open, inits, asks>>

(* pull and cancel reach the stream the table has under the number. *)
OnStream(m) ==
  LET r == controlled[m.id]
      st == streams[r]
  IN IF r = 0
     THEN UNCHANGED <<pageVars, toWorker, open, inits, asks>>
     ELSE StreamStep(r, IF m.type = "stream-pull"
                        THEN Flush(r, [st EXCEPT !.credits = @ + 1])
                        ELSE Said(Cancelled(st), << >>))

OnMappingReady(m, c) ==
  LET w == waits[m.wait]
      holds == m.registered /\ m.primary /\ Held(w.port) /\ primary = w.port
  IN /\ waits' = IF w.state = "asked" /\ c = w.chan /\ c = chan
                 THEN [waits EXCEPT ![m.wait].state = IF holds THEN "ok" ELSE "failed"]
                 ELSE waits
     /\ UNCHANGED <<servers, gens, primary, chan, ready, streams, controlled, toWorker,
                    open, inits, asks>>

(* handleServiceWorkerMessage: every channel there was still has it. *)
HandleServiceWorkerMessage(c) ==
  /\ toPage[c] # << >>
  /\ toPage' = [toPage EXCEPT ![c] = Tail(@)]
  /\ LET m == Head(toPage[c])
     IN \/ m.type \in {"stream-pull", "stream-cancel"} /\ OnStream(m)
        \/ m.type = "request" /\ m.kind = "controlled" /\ OpenStream(m)
        \/ m.type = "request" /\ m.kind # "controlled" /\ OpenLegacy(m)
        \/ m.type = "port-mapping-ready" /\ OnMappingReady(m, c)

-----------------------------------------------------------------------------
(* reinit, called by controllerchange and by sw-needs-init once this page  *)
(* listens for them.                                                       *)
Reinit ==
  /\ asks > 0
  /\ asks' = asks - 1
  /\ IF ~ready THEN UNCHANGED <<pageVars, toWorker, open, inits>>
     ELSE LET c == chan + 1
              again == {w \in Waits : waits[w].state = "asked"}
              order == SetToSeq(again)
          IN /\ chan' = c
             /\ streams' = [r \in Requests |->
                  IF \E i \in Ids : controlled[i] = r THEN Cancelled(streams[r])
                  ELSE streams[r]]
             /\ controlled' = [i \in Ids |-> 0]
             /\ open' = open \cup {c}
             /\ inits' = Append(inits, c)
             /\ toWorker' = [toWorker EXCEPT ![c] = AnnounceServers \o
                  [k \in DOMAIN order |-> MappingCheck(order[k], waits[order[k]].port)]]
             /\ waits' = [w \in Waits |-> IF w \in again THEN [waits[w] EXCEPT !.chan = c]
                                          ELSE waits[w]]
             /\ UNCHANGED <<servers, gens, primary, ready>>
  /\ UNCHANGED toPage

-----------------------------------------------------------------------------
(* The callbacks a server's answer makes *)
Upstream(r, kind) == streams[r].state # "none" /\ streams[r].kind = kind /\ ~streams[r].ended

Start(r) ==
  LET st == streams[r] IN
  /\ Upstream(r, "controlled") /\ ~st.started
  /\ StreamStep(r, Said(IF st.state = "done" THEN Done([st EXCEPT !.started = TRUE])
                        ELSE [st EXCEPT !.started = TRUE],
                        <<Answer("stream-start", st.id, r, 0, st.gen)>>))
  /\ UNCHANGED toPage

(* One chunk of the server's, of one to as many pieces as are left. *)
Chunk(r) ==
  LET st == streams[r] IN
  /\ Upstream(r, "controlled") /\ st.started /\ ~st.paused /\ st.state = "open"
  /\ \E n \in 1..(Chunks - st.made) :
       LET pieces == [k \in 1..n |-> st.made + k]
       IN StreamStep(r, Flush(r, [st EXCEPT !.made = @ + n, !.queue = @ \o pieces]))
  /\ UNCHANGED toPage

End(r) ==
  LET st == streams[r] IN
  /\ Upstream(r, "controlled") /\ st.started /\ st.made = Chunks /\ st.state = "open"
  /\ StreamStep(r, Flush(r, [st EXCEPT !.ended = TRUE]))
  /\ UNCHANGED toPage

(* The server throws, or its connection fails. *)
UpstreamFails(r) ==
  LET st == streams[r] IN
  /\ Upstream(r, "controlled") /\ st.state = "open"
  /\ StreamStep(r, Said(Done([st EXCEPT !.started = TRUE]),
                        <<Answer("stream-error", st.id, r, 0, st.gen)>>))
  /\ UNCHANGED toPage

(* A buffered answer, the server's or the 500 of its failure *)
Respond(r) ==
  LET st == streams[r] IN
  /\ Upstream(r, "buffered") /\ st.state = "open"
  /\ streams' = [streams EXCEPT ![r] = Done([st EXCEPT !.started = TRUE])]
  /\ \E g \in {0, st.gen} :
       toWorker' = ToWorker(chan, <<Answer("response", st.id, r, Chunks, g)>>)
  /\ UNCHANGED <<servers, gens, primary, chan, ready, controlled, waits, toPage, open,
                 inits, asks>>

(* streamToServiceWorker: the next of a start, the chunks and an end; or   *)
(* the answer handleServiceWorkerMessage makes of an error.  A guest's     *)
(* chunk is posted as a bare buffer, in which no bytes are found (n = 0).  *)
LegacyStream(r) ==
  LET st == streams[r]
      next == IF ~st.started THEN Answer("stream-start", st.id, r, 0, st.gen)
              ELSE IF st.made < Chunks
              THEN Answer("stream-chunk", st.id, r, IF st.guest THEN 0 ELSE st.made + 1, st.gen)
              ELSE Answer("stream-end", st.id, r, 0, st.gen)
      over == st.started /\ st.made = Chunks
  IN /\ Upstream(r, "streaming") /\ st.state = "open"
     /\ \/ /\ streams' = [streams EXCEPT ![r] =
                  IF over THEN Done(st)
                  ELSE [st EXCEPT !.started = TRUE, !.made = IF st.started THEN @ + 1 ELSE @]]
           /\ toWorker' = ToWorker(chan, <<next>>)
        \/ /\ streams' = [streams EXCEPT ![r] = Done([st EXCEPT !.started = TRUE])]
           /\ toWorker' = ToWorker(chan, <<Answer("response-error", st.id, r, 0, st.gen)>>)
     /\ UNCHANGED <<servers, gens, primary, chan, ready, controlled, waits, toPage, open,
                    inits, asks>>
=============================================================================
