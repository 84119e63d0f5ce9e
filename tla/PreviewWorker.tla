---------------------------- MODULE PreviewWorker ----------------------------
(***************************************************************************)
(* The service worker's side, public/__sw__.js, for one page: its host,    *)
(* and the requests of the page's frames from their arrival to the end of  *)
(* their answer.  `stale` is a registration captured before an await and   *)
(* replaced since: the upload's signal, and the comparison before sending, *)
(* both end a request for it.                                              *)
(***************************************************************************)
EXTENDS PreviewChannels

VARIABLES host,     \* the page's host; on channel 0, none
          lastId,   \* requestId
          reqs      \* the requests, pendingRequests those that are "sent"

workerVars == <<host, lastId, reqs>>

NoHost == [chan |-> 0, ports |-> {}, flow |-> [p \in Ports |-> 0], primary |-> 0]
NewRequest == [stage |-> "new", kind |-> "none", port |-> 0, id |-> 0, chan |-> 0,
               seen |-> 0, stale |-> FALSE, headed |-> FALSE, credited |-> FALSE,
               got |-> << >>, result |-> "none"]

WorkerInit == host = NoHost /\ lastId = 0 /\ reqs = [r \in Requests |-> NewRequest]

Active(r) == reqs[r].stage \in {"asking", "preparing", "sent"}
Controlled(r) == reqs[r].stage = "sent" /\ reqs[r].kind = "controlled"

(* A request ends.  Of its record only the outcome is kept. *)
Over(q, result) ==
  LET whole == result = "complete"
  IN [NewRequest EXCEPT !.stage = "done", !.result = result, !.kind = q.kind,
                        !.seen = IF whole THEN q.seen ELSE 0,
                        !.got = IF whole THEN q.got ELSE << >>]

(* fail: R end, and their hosts are told. *)
Failed(R) == [r \in Requests |-> IF r \in R THEN Over(reqs[r], "failed") ELSE reqs[r]]

(* Mutation: a failed request's host is not told. *)
NoCancels(R) == << >>

Cancels(R) == LET order == SetToSeq(R)
              IN [k \in DOMAIN order |-> StreamCancel(reqs[order[k]].id)]

(* The uploads and other preparations R are for a registration that is gone. *)
Stale(qs, R) == [r \in Requests |->
  IF r \in R THEN [qs[r] EXCEPT !.stale = TRUE] ELSE qs[r]]
Preparing(r) == reqs[r].stage = "preparing" /\ reqs[r].kind = "controlled"

-----------------------------------------------------------------------------
(* handleVirtualRequest *)
Capture(r, p) ==
  reqs' = [reqs EXCEPT ![r] = [@ EXCEPT !.stage = "preparing", !.port = p,
             !.chan = host.chan, !.seen = host.flow[p],
             !.kind = IF host.flow[p] # 0 THEN "controlled" ELSE "legacy"]]

Fetch(r, p) ==
  /\ reqs[r].stage = "new"
  /\ \A q \in Requests : q < r => reqs[q].stage # "new"
  /\ IF host.chan # 0 THEN Capture(r, p) /\ UNCHANGED asks
     ELSE /\ reqs' = [reqs EXCEPT ![r] = [@ EXCEPT !.stage = "asking", !.port = p]]
          /\ asks' = asks + 1
  /\ UNCHANGED <<host, lastId, toWorker, toPage, open, inits>>

(* askForInit's interval finds a host; or its 5 s pass, and a request with *)
(* no host is refused.                                                     *)
HostFound(r) == /\ reqs[r].stage = "asking" /\ host.chan # 0
                /\ Capture(r, reqs[r].port)
                /\ UNCHANGED <<host, lastId, channelVars>>
AskTimeout(r) == /\ reqs[r].stage = "asking" /\ host.chan = 0
                 /\ reqs' = Failed({r})
                 /\ UNCHANGED <<host, lastId, channelVars>>

(* A body over the limit, one that cannot be read, an aborted request *)
PrepareFails(r) == /\ reqs[r].stage = "preparing"
                   /\ reqs' = Failed({r})
                   /\ UNCHANGED <<host, lastId, channelVars>>

(* The next id, and the request posted on the channel of its host.  POST   *)
(* to /api/ is what the older protocol streams.                            *)
Post(r, kind) ==
  LET q == reqs[r] IN
  /\ lastId' = lastId + 1
  /\ reqs' = [reqs EXCEPT ![r] = [@ EXCEPT !.stage = "sent", !.id = lastId + 1, !.kind = kind]]
  /\ toPage' = IF q.chan \in open
               THEN ToPage(q.chan, <<Request(lastId + 1, r, q.port, kind)>>) ELSE toPage
  /\ UNCHANGED <<host, toWorker, open, inits, asks>>

(* The registration captured is still the port's, on the same channel. *)
Registration(r) == ~reqs[r].stale

SendRequest(r) == reqs[r].kind = "legacy" /\ Post(r, "buffered")
SendStreamingRequest(r) == reqs[r].kind = "legacy" /\ Post(r, "streaming")
SendControlledRequest(r) == reqs[r].kind = "controlled" /\ Registration(r) /\ Post(r, "controlled")

Send(r) ==
  /\ reqs[r].stage = "preparing"
  /\ \/ SendRequest(r) \/ SendStreamingRequest(r) \/ SendControlledRequest(r)
     \/ /\ reqs[r].kind = "controlled" /\ ~Registration(r)
        /\ reqs' = Failed({r}) /\ UNCHANGED <<host, lastId, channelVars>>

(* The timers of 30 s: no head yet, no buffered answer yet *)
HeaderTimeout(r) ==
  /\ Controlled(r) /\ ~reqs[r].headed
  /\ reqs' = Failed({r})
  /\ toPage' = ToPage(reqs[r].chan, Cancels({r}))
  /\ UNCHANGED <<host, lastId, toWorker, open, inits, asks>>
RequestTimeout(r) == /\ reqs[r].stage = "sent" /\ reqs[r].kind = "buffered"
                     /\ reqs' = Failed({r})
                     /\ UNCHANGED <<host, lastId, channelVars>>

(* Mutation: a second credit while the first is out *)
PullAgain(r) ==
  /\ Controlled(r) /\ reqs[r].headed /\ Len(toPage[reqs[r].chan]) < 2
  /\ reqs' = [reqs EXCEPT ![r].credited = TRUE]
  /\ toPage' = ToPage(reqs[r].chan, <<StreamPull(reqs[r].id)>>)
  /\ UNCHANGED <<host, lastId, toWorker, open, inits, asks>>

(* The reader asks for the next chunk *)
Pull(r) ==
  /\ Controlled(r) /\ reqs[r].headed /\ ~reqs[r].credited
  /\ reqs' = [reqs EXCEPT ![r].credited = TRUE]
  /\ toPage' = ToPage(reqs[r].chan, <<StreamPull(reqs[r].id)>>)
  /\ UNCHANGED <<host, lastId, toWorker, open, inits, asks>>

(* The reader goes away, or the request is aborted *)
Cancel(r) ==
  /\ reqs[r].stage = "sent" /\ reqs[r].kind # "buffered"
  /\ reqs[r].kind = "streaming" => reqs[r].headed
  /\ reqs' = [reqs EXCEPT ![r] = Over(@, "failed")]
  /\ toPage' = IF Controlled(r) THEN ToPage(reqs[r].chan, Cancels({r})) ELSE toPage
  /\ UNCHANGED <<host, lastId, toWorker, open, inits, asks>>

-----------------------------------------------------------------------------
(* Mutation: a request outlives the registration it was sent under. *)
NoneEnded(p) == {}

(* updateFlowControl: what a change of p's registration ends *)
Ended(p) == {r \in Requests : Controlled(r) /\ reqs[r].chan = host.chan /\ reqs[r].port = p}
Outdated(p) == {r \in Requests : Preparing(r) /\ reqs[r].chan = host.chan /\ reqs[r].port = p}

OnRegistration(m) ==
  LET on == m.type = "server-registered"
      p == m.port
  IN /\ host' = [host EXCEPT
          !.flow[p] = IF on THEN m.gen ELSE 0,
          !.ports = IF on THEN @ \cup {p} ELSE @ \ {p},
          !.primary = IF on /\ m.primary THEN p ELSE IF @ = p THEN 0 ELSE @]
     /\ reqs' = Stale(Failed(Ended(p)), Outdated(p))
     /\ toPage' = ToPage(host.chan, Cancels(Ended(p)))

OnMappingCheck(m) ==
  /\ toPage' = ToPage(host.chan, <<MappingReady(m.wait, m.port, m.port \in host.ports,
                                                host.primary = m.port)>>)
  /\ UNCHANGED <<host, reqs>>

(* A controlled request's message() *)
Message(q, m) ==
  CASE m.type = "stream-start" /\ ~q.headed -> [q EXCEPT !.headed = TRUE]
    [] m.type = "stream-chunk" /\ q.headed /\ q.credited ->
         [q EXCEPT !.credited = FALSE,
                   !.got = Append(@, [of |-> m.of, n |-> m.n, gen |-> m.gen])]
    [] m.type = "stream-end" /\ q.headed -> 
         Over([q EXCEPT !.got = Append(@, [of |-> m.of, n |-> 0, gen |-> m.gen])], "complete")
    [] m.type \in {"stream-error", "response-error"} -> Over(q, "failed")
    [] OTHER -> Over(q, "invalid")

(* The same for a request of the older protocol *)
LegacyMessage(q, m) ==
  LET more == [q EXCEPT !.got = Append(@, [of |-> m.of, n |-> m.n, gen |-> m.gen])]
      streaming == q.kind = "streaming"
  IN CASE m.type = "response" -> Over(more, "complete")
       [] m.type = "response-error" -> IF ~streaming \/ q.headed THEN Over(q, "failed")
                                       ELSE [q EXCEPT !.stage = "stuck"]
       [] m.type = "stream-start" /\ streaming -> [q EXCEPT !.headed = TRUE]
       [] m.type = "stream-chunk" /\ streaming -> IF m.n = 0 THEN q ELSE more
       [] m.type = "stream-end" /\ streaming -> Over(more, "complete")
       [] OTHER -> q

(* An answer finds its request by number, and only on the request's own host. *)
OnAnswer(m) ==
  LET mine == {r \in Requests : /\ reqs[r].stage = "sent" /\ reqs[r].id = m.id
                                /\ reqs[r].chan = host.chan}
      after(r) == IF Controlled(r) THEN Message(reqs[r], m) ELSE LegacyMessage(reqs[r], m)
  IN /\ reqs' = [r \in Requests |-> IF r \in mine THEN after(r) ELSE reqs[r]]
     /\ toPage' = IF \E r \in mine : after(r).result = "invalid"
                  THEN ToPage(host.chan, Cancels(mine)) ELSE toPage
     /\ UNCHANGED host

(* handleMainMessage *)
HandleMainMessage ==
  /\ host.chan # 0 /\ toWorker[host.chan] # << >>
  /\ toWorker' = [toWorker EXCEPT ![host.chan] = Tail(@)]
  /\ LET m == Head(toWorker[host.chan])
     IN \/ m.type \in {"server-registered", "server-unregistered"} /\ OnRegistration(m)
        \/ m.type = "port-mapping-check" /\ OnMappingCheck(m)
        \/ m.type \notin {"server-registered", "server-unregistered", "port-mapping-check"}
             /\ OnAnswer(m)
  /\ UNCHANGED <<lastId, open, inits, asks>>

(* Mutation: the requests of the previous channel are left waiting. *)
NoneReplaced == {}

(* `init`: openHost ends what was under way on the page's previous channel *)
(* and closes it.                                                          *)
Replaced == {r \in Requests : Controlled(r) /\ reqs[r].chan = host.chan}
OpenHost ==
  /\ inits # << >>
  /\ inits' = Tail(inits)
  /\ host' = [NoHost EXCEPT !.chan = Head(inits)]
  /\ reqs' = Stale(Failed(Replaced),
                   {r \in Requests : Preparing(r) /\ reqs[r].chan = host.chan})
  /\ open' = open \ {host.chan}
  /\ toPage' = IF host.chan = 0 THEN toPage ELSE ToPage(host.chan, Cancels(Replaced))
  /\ toWorker' = [c \in Channels |-> IF c = host.chan THEN << >> ELSE toWorker[c]]
  /\ UNCHANGED <<lastId, asks>>

-----------------------------------------------------------------------------
(* The browser's part.  A worker that is idle is stopped, and started      *)
(* again by the next message or request with nothing remembered.           *)
Idle == /\ \A r \in Requests : ~Active(r)
        /\ inits = << >> /\ toWorker[host.chan] = << >>
Restart ==
  /\ host.chan # 0 /\ Idle
  /\ host' = NoHost /\ lastId' = 0 /\ open' = {}
  /\ UNCHANGED <<reqs, toWorker, toPage, inits, asks>>

(* Another deploy's worker takes control: the requests of the old one end  *)
(* with it, and the page is told by controllerchange.                      *)
Replace ==
  /\ host.chan # 0
  /\ host' = NoHost /\ lastId' = 0
  /\ reqs' = Failed({r \in Requests : Active(r)})
  /\ open' = {} /\ inits' = << >> /\ asks' = asks + 1
  /\ toWorker' = [c \in Channels |-> << >>]
  /\ UNCHANGED toPage
=============================================================================
