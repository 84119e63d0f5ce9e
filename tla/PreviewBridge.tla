---------------------------- MODULE PreviewBridge ----------------------------
(***************************************************************************)
(* A page's servers previewed through the service worker: the page of      *)
(* PreviewPage and the worker of PreviewWorker over their channels, with   *)
(* worker restarts and replacements at any time.                           *)
(*                                                                         *)
(* MidFlight lets a worker that stops leave something behind: messages     *)
(* that the page takes only after it introduced itself to the next worker, *)
(* or a request of the older protocol that it answers only then.           *)
(***************************************************************************)
EXTENDS PreviewPage, PreviewWorker

CONSTANT MidFlight

vars == <<channelVars, pageVars, workerVars>>

Init == ChannelsInit /\ PageInit /\ WorkerInit

(* Bound: a channel is left for every call of reinit on its way. *)
ChannelLeft == chan + asks < MaxChannel

ServersStep == \/ \E p \in Ports : RegisterServer(p) \/ UnregisterServer(p)
               \/ \E p \in Ports \cup {0} : SetPrimaryPort(p)
MappingStep == \/ \E w \in Waits, p \in Ports : WaitForPrimaryPortMapping(w, p)
               \/ \E W \in {{w} : w \in Waits} \cup {Waits} : AbortWaits(W)
StreamCallback(r) == Start(r) \/ Chunk(r) \/ End(r) \/ Respond(r) \/ LegacyStream(r)
ReaderStep(r) == Pull(r) \/ Cancel(r)
Timeout(r) == AskTimeout(r) \/ HeaderTimeout(r) \/ RequestTimeout(r)
Begin(r) == \E p \in Ports : Fetch(r, p) /\ (host.chan = 0 => ChannelLeft)

(* What a worker leaves behind, for the page to take or to answer later *)
NothingLeft == /\ \A c \in Channels : toPage[c] = << >>
               /\ \A r \in Requests : streams[r].state = "open"
                                         => streams[r].kind = "controlled"
Stop == /\ Restart \/ (Replace /\ ChannelLeft)
        /\ MidFlight \/ NothingLeft

PageStep == /\ \/ ServersStep \/ MappingStep \/ BecomeReady \/ Reinit
               \/ \E c \in Channels : HandleServiceWorkerMessage(c)
               \/ \E r \in Requests : StreamCallback(r) \/ UpstreamFails(r)
            /\ UNCHANGED workerVars
WorkerStep == /\ \/ HandleMainMessage \/ OpenHost \/ Stop
                 \/ \E r \in Requests :
                      \/ Begin(r) \/ HostFound(r) \/ PrepareFails(r) \/ Send(r)
                      \/ ReaderStep(r) \/ Timeout(r)
              /\ UNCHANGED pageVars

Next == PageStep \/ WorkerStep

(* Messages arrive, timers fire, a page that loads becomes ready, a server *)
(* still registered answers, and a reader that has not gone away reads on. *)
Serving(r) == \E p \in Ports : streams[r].gen = servers[p]
Fairness ==
  /\ WF_vars(PageStep /\ (BecomeReady \/ Reinit))
  /\ \A c \in Channels : WF_vars(HandleServiceWorkerMessage(c) /\ UNCHANGED workerVars)
  /\ WF_vars((HandleMainMessage \/ OpenHost) /\ UNCHANGED pageVars)
  /\ \A r \in Requests :
       /\ WF_vars(StreamCallback(r) /\ Serving(r) /\ UNCHANGED workerVars)
       /\ WF_vars((HostFound(r) \/ Send(r) \/ Timeout(r) \/ Pull(r)) /\ UNCHANGED pageVars)

Spec == Init /\ [][Next]_vars /\ Fairness

-----------------------------------------------------------------------------
Answers == [of : Requests, n : 0..Chunks, gen : 0..MaxGen]
Streams == [state : {"none", "open", "done"}, guest : BOOLEAN, started : BOOLEAN,
            kind : {"none", "controlled", "buffered", "streaming"}, ended : BOOLEAN,
            id : Ids \cup {0}, chan : Channels \cup {0}, gen : 0..MaxGen, made : 0..Chunks,
            credits : 0..1, queue : Seq(1..Chunks), paused : BOOLEAN]
WorkerRequests ==
  [stage : {"new", "asking", "preparing", "sent", "stuck", "done"},
   kind : {"none", "legacy", "controlled", "buffered", "streaming"},
   port : Ports \cup {0}, id : Ids \cup {0}, chan : Channels \cup {0}, seen : 0..NoServer,
   stale : BOOLEAN, headed : BOOLEAN, credited : BOOLEAN, got : Seq(Answers),
   result : {"none", "complete", "failed", "invalid"}]

(* The page and the worker keep their state well formed; in particular no  *)
(* stream of the page ever holds more than the one credit a reader has.    *)
TypeOK ==
  /\ servers \in [Ports -> 0..MaxGen] /\ gens \in 0..MaxGen
  /\ primary \in Ports \cup {0} /\ chan \in Channels /\ ready \in BOOLEAN
  /\ streams \in [Requests -> Streams]
  /\ controlled \in [Ids -> Requests \cup {0}]
  /\ waits \in [Waits -> [state : {"idle", "asked", "ok", "failed"},
                          port : Ports \cup {0}, chan : Channels \cup {0}]]
  /\ host \in [chan : Channels \cup {0}, ports : SUBSET Ports,
               flow : [Ports -> 0..NoServer], primary : Ports \cup {0}]
  /\ lastId \in Ids \cup {0} /\ reqs \in [Requests -> WorkerRequests]
  /\ open \subseteq Channels /\ inits \in Seq(Channels) /\ asks \in Nat

(* The request is under flow control and got no piece of another's answer. *)
OwnAnswer(r) == reqs[r].kind = "controlled" /\ \A a \in ToSet(reqs[r].got) : a.of = r

(* What a reader under flow control gets of its own answer comes in order, *)
(* and is all of it when the stream ends normally (flush and pull of       *)
(* controlledStream against the worker's credit).                          *)
BodyIsWhole ==
  \A r \in Requests :
    LET q == reqs[r]
        body == SelectSeq(q.got, LAMBDA a : a.n # 0)
        refused == Len(q.got) > 0 /\ q.got[1].gen = 0
    IN OwnAnswer(r) => /\ \A k \in DOMAIN body : body[k].n = k
                       /\ q.result = "complete" => refused \/ Len(body) = Chunks

(* port-bridge.ts:758: a stream "belongs to the channel it arrived on; a   *)
(* new channel's worker failed it already", so what a reader under flow    *)
(* control gets is its own answer.  It fails: the stream is given the      *)
(* channel that is current when it is opened, and a request that a stopped *)
(* worker left behind is answered to the next one's of the same number.    *)
StreamIsItsOwn == \A r \in Requests : reqs[r].kind = "controlled" => OwnAnswer(r)

(* A flow-controlled answer that ends normally was made by the server the  *)
(* worker knew at the port when it sent the request, not by another bound  *)
(* to the same port since; one sent to a port that had none is refused.    *)
AnsweredByItsServer ==
  \A r \in Requests :
    OwnAnswer(r) /\ reqs[r].result = "complete"
      => \A a \in ToSet(reqs[r].got) :
           a.gen = IF reqs[r].seen = NoServer THEN 0 ELSE reqs[r].seen

(* Nothing is on its way to the worker of the current channel. *)
AllTold == ready /\ host.chan = chan /\ inits = << >> /\ toWorker[chan] = << >>

(* h knows every server of the page as it is, and which of them is the     *)
(* primary one; it keeps no server that is gone.                           *)
Agrees(h) ==
  \A p \in Ports :
    IF Held(p) THEN /\ p \in h.ports /\ h.flow[p] = servers[p]
                    /\ h.primary = p <=> primary = p
    ELSE h.flow[p] \in {0, NoServer}

(* Whenever nothing is on its way, the worker holds the page's servers and *)
(* of them the primary one, whatever restarts, registrations and ports     *)
(* named without a server there were (announceServers and its callers).    *)
RegistrationsAgree == AllTold => Agrees(host)

(* port-bridge.ts:204-205: the primary port is "told to the worker now and *)
(* again whenever the worker is (re)initialized", so the worker serves it  *)
(* once nothing is on its way.  It fails for a port that has no server:    *)
(* announceServers (:265-270) goes through the servers, and a port named   *)
(* before it listens is told to no worker that is initialized after.       *)
PrimaryIsTold == AllTold /\ primary # 0 => host.primary = primary

(* A wait that resolves finds the worker serving its port at the root, if  *)
(* that worker still has the channel the answer came on.                   *)
MappingIsTrue ==
  [][\A w \in Waits :
       waits[w].state = "asked" /\ waits'[w].state = "ok" /\ host.chan = chan
         => host.primary = waits[w].port /\ waits[w].port \in host.ports]_vars

(* Every request of a frame is settled: answered whole, or failed.  The    *)
(* older protocol's streams are the exception (they have no time limit).   *)
EveryRequestSettles ==
  \A r \in Requests :
    [](Active(r) => <>(reqs[r].stage = "done" \/ reqs[r].kind = "streaming"))

(* The page keeps no stream whose reader is gone: each one it opens under  *)
(* flow control is ended or cancelled.                                     *)
StreamsReleased ==
  \A r \in Requests :
    [](streams[r].kind = "controlled" => <>(streams[r].state = "done"))
=============================================================================
