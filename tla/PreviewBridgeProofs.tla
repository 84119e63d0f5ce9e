-------------------------- MODULE PreviewBridgeProofs --------------------------
(****************************************************************************)
(* The page's servers and the worker's table of them, for any ports, requests *)
(* and waits, any number of channels, registrations and chunks, and a worker  *)
(* that is stopped or replaced at any time, with or without something left    *)
(* behind: the two agree whenever nothing is on its way, and a wait for a     *)
(* mapping resolves only on one the worker has.                               *)
(****************************************************************************)
EXTENDS PreviewBridge, FiniteSetTheorems, TLAPS

----------------------------------------------------------------------------
(* The messages                                                             *)

Registrations == [type : {"server-registered"}, port : Ports, gen : 0 .. NoServer, primary : BOOLEAN]
Removals == [type : {"server-unregistered"}, port : Ports]
Checks == [type : {"port-mapping-check"}, wait : Waits, port : Ports]
AnswerTypes == {"stream-start", "stream-chunk", "stream-end", "stream-error", "response",
                "response-error"}
AnswerMessages ==
  [type : AnswerTypes, id : Ids, of : Requests, n : 0 .. Chunks, gen : 0 .. MaxGen]

\* Of the page's messages, those that say nothing of its servers.
Others == Checks \cup AnswerMessages
PageMessages == Registrations \cup Removals \cup Others

RequestMessages == [type : {"request"}, id : Ids, of : Requests, port : Ports,
                    kind : {"controlled", "buffered", "streaming"}]
StreamMessages == [type : {"stream-pull", "stream-cancel"}, id : Ids]
Readies == [type : {"port-mapping-ready"}, wait : Waits, port : Ports, registered : BOOLEAN,
            primary : BOOLEAN]
Requesting == RequestMessages \cup StreamMessages
WorkerMessages == Requesting \cup Readies

\* A message is told by its type.
LEMMA PageMessageIs ==
  ASSUME NEW m \in PageMessages
  PROVE  /\ m.type = "server-registered" => m \in Registrations
         /\ m.type = "server-unregistered" => m \in Removals
         /\ m.type = "port-mapping-check" => m \in Checks
         /\ m.type \notin {"server-registered", "server-unregistered", "port-mapping-check"}
               => m \in AnswerMessages
  <1>1. CASE m \in Registrations
    BY <1>1 DEF Registrations
  <1>2. CASE m \in Removals
    BY <1>2 DEF Removals
  <1>3. CASE m \in Checks
    BY <1>3 DEF Checks
  <1>4. CASE m \in AnswerMessages
    BY <1>4 DEF AnswerMessages, AnswerTypes
  <1> QED
    BY <1>1, <1>2, <1>3, <1>4 DEF PageMessages, Others

LEMMA WorkerMessageIs ==
  ASSUME NEW m \in WorkerMessages
  PROVE  /\ m.type \in {"stream-pull", "stream-cancel"} => m \in StreamMessages
         /\ m.type = "request" => m \in RequestMessages
         /\ m.type = "port-mapping-ready" => m \in Readies
  <1>1. CASE m \in RequestMessages
    BY <1>1 DEF RequestMessages
  <1>2. CASE m \in StreamMessages
    BY <1>2 DEF StreamMessages
  <1>3. CASE m \in Readies
    BY <1>3 DEF Readies
  <1> QED
    BY <1>1, <1>2, <1>3 DEF WorkerMessages, Requesting

----------------------------------------------------------------------------
(* Sequences                                                                *)

LEMMA TailIs ==
  ASSUME NEW S, NEW s \in Seq(S), s # << >>
  PROVE  /\ Head(s) \in S /\ Head(s) = s[1] /\ Len(s) \in Nat \ {0}
         /\ Tail(s) \in Seq(S) /\ Len(Tail(s)) = Len(s) - 1
         /\ \A i \in 1 .. Len(s) - 1 : Tail(s)[i] = s[i + 1]
  OBVIOUS

LEMMA JoinIs ==
  ASSUME NEW S, NEW s \in Seq(S), NEW t \in Seq(S)
  PROVE  /\ s \o t \in Seq(S) /\ Len(s \o t) = Len(s) + Len(t)
         /\ \A i \in 1 .. Len(s) : (s \o t)[i] = s[i]
         /\ \A i \in 1 .. Len(t) : (s \o t)[Len(s) + i] = t[i]
  OBVIOUS

LEMMA RestIs ==
  ASSUME NEW S, NEW s \in Seq(S), NEW n \in Nat, n <= Len(s)
  PROVE  /\ SubSeq(s, n + 1, Len(s)) \in Seq(S) /\ Len(SubSeq(s, n + 1, Len(s))) = Len(s) - n
         /\ \A i \in 1 .. Len(s) - n : SubSeq(s, n + 1, Len(s))[i] = s[n + i]
  OBVIOUS

LEMMA LenIs ==
  ASSUME NEW S, NEW s \in Seq(S)
  PROVE  /\ Len(s) \in Nat /\ \A i \in 1 .. Len(s) : s[i] \in S
         /\ DOMAIN s = 1 .. Len(s) /\ (s = << >> <=> Len(s) = 0)
  OBVIOUS

LEMMA MadeSeq ==
  ASSUME NEW S, NEW n \in Nat, NEW f, f \in [1 .. n -> S]
  PROVE  f \in Seq(S) /\ Len(f) = n
  OBVIOUS

LEMMA WiderSeq ==
  ASSUME NEW S, NEW T, S \subseteq T, NEW s \in Seq(S)
  PROVE  s \in Seq(T)
  OBVIOUS

LEMMA OneMessage ==
  ASSUME NEW S, NEW m \in S
  PROVE  <<m>> \in Seq(S) /\ Len(<<m>>) = 1 /\ <<m>>[1] = m
  OBVIOUS

\* A place of a sequence joined with another is a place of the one or of the other.
LEMMA JoinPlaces ==
  ASSUME NEW m \in Nat, NEW n \in Nat, NEW i \in 1 .. m + n
  PROVE  i \in 1 .. m \/ (i - m \in 1 .. n /\ i = m + (i - m))
  OBVIOUS

\* What SetToSeq gives of a finite set: each of its elements once.
LEMMA SetToSeqIs ==
  ASSUME NEW S, IsFiniteSet(S)
  PROVE  /\ SetToSeq(S) \in Seq(S)
         /\ \A i, j \in 1 .. Len(SetToSeq(S)) : SetToSeq(S)[i] = SetToSeq(S)[j] => i = j
         /\ \A x \in S : \E i \in 1 .. Len(SetToSeq(S)) : SetToSeq(S)[i] = x
  <1>1. PICK n \in Nat : n = Cardinality(S)
    BY FS_CardinalityType
  <1>2. PICK g : g \in Bijection(1 .. n, S)
    BY <1>1, FS_CardinalityType DEF ExistsBijection
  <1>3. g \in [1 .. n -> S] /\ IsInjective(g)
    BY <1>2 DEF Bijection, Injection
  <1>4. PICK f : f = SetToSeq(S)
    OBVIOUS
  <1>5. f \in [1 .. n -> S] /\ IsInjective(f)
    BY <1>1, <1>3, <1>4 DEF SetToSeq
  <1>6. f \in Injection(1 .. n, S)
    BY <1>5 DEF Injection
  <1>7. IsFiniteSet(1 .. n) /\ Cardinality(1 .. n) = n
    BY FS_Interval
  <1>8. f \in Surjection(1 .. n, S)
    BY <1>1, <1>6, <1>7, FS_Injection
  <1>9. f \in Seq(S) /\ Len(f) = n
    BY <1>5, MadeSeq
  <1>10. \A i, j \in 1 .. n : f[i] = f[j] => i = j
    BY <1>5 DEF IsInjective
  <1>11. \A x \in S : \E i \in 1 .. n : f[i] = x
    BY <1>8 DEF Surjection
  <1> QED
    BY <1>4, <1>9, <1>10, <1>11


----------------------------------------------------------------------------
(* What the page's messages make of the worker's table                      *)

Hosts == [chan : Channels \cup {0}, ports : SUBSET Ports, flow : [Ports -> 0 .. NoServer],
          primary : Ports \cup {0}]
Blank(c) == [chan |-> c, ports |-> {}, flow |-> [p \in Ports |-> 0], primary |-> 0]

Registers(h, m) ==
  [chan |-> h.chan, ports |-> h.ports \cup {m.port}, flow |-> [h.flow EXCEPT ![m.port] = m.gen],
   primary |-> IF m.primary THEN m.port ELSE IF h.primary = m.port THEN 0 ELSE h.primary]
Removes(h, m) ==
  [chan |-> h.chan, ports |-> h.ports \ {m.port}, flow |-> [h.flow EXCEPT ![m.port] = 0],
   primary |-> IF h.primary = m.port THEN 0 ELSE h.primary]
Apply(h, m) == IF m.type = "server-registered" THEN Registers(h, m)
               ELSE IF m.type = "server-unregistered" THEN Removes(h, m) ELSE h

\* The messages s take a table that says b to one that says e.
Replay(b, s, e) ==
  \E f \in [0 .. Len(s) -> Hosts] :
    /\ f[0] = b /\ f[Len(s)] = e
    /\ \A k \in 1 .. Len(s) : f[k] = Apply(f[k - 1], s[k])

LEMMA GensAre == /\ MaxGen \in Nat /\ NoServer \in Nat /\ 0 \in 0 .. MaxGen
                 /\ 0 \in 0 .. NoServer /\ NoServer \in 0 .. NoServer /\ NoServer # 0
                 /\ \A g \in 0 .. MaxGen : g \in 0 .. NoServer
  BY PreviewBounds DEF NoServer

LEMMA BlankIs ==
  ASSUME NEW c \in Channels \cup {0}
  PROVE  Blank(c) \in Hosts /\ Blank(c) = [NoHost EXCEPT !.chan = c]
  <1>1. 0 \in 0 .. NoServer
    BY GensAre
  <1> QED
    BY <1>1 DEF Blank, Hosts, NoHost

LEMMA OthersApply ==
  ASSUME NEW h, NEW m \in Others
  PROVE  Apply(h, m) = h /\ m \in PageMessages
  BY DEF Others, Checks, AnswerMessages, AnswerTypes, Apply, PageMessages

LEMMA AppliedIsHost ==
  ASSUME NEW h \in Hosts, NEW m \in PageMessages
  PROVE  Apply(h, m) \in Hosts
  <1>1. h.chan \in Channels \cup {0} /\ h.ports \in SUBSET Ports /\ h.flow \in [Ports -> 0 .. NoServer]
        /\ h.primary \in Ports \cup {0} /\ 0 \in 0 .. NoServer
    BY GensAre DEF Hosts
  <1>2. CASE m \in Registrations
    <2>1. m.type = "server-registered" /\ m.port \in Ports /\ m.gen \in 0 .. NoServer
      BY <1>2 DEF Registrations
    <2>2. [h.flow EXCEPT ![m.port] = m.gen] \in [Ports -> 0 .. NoServer]
      BY <1>1, <2>1
    <2>3. h.ports \cup {m.port} \in SUBSET Ports
      BY <1>1, <2>1
    <2> QED
      BY <1>1, <2>1, <2>2, <2>3 DEF Apply, Registers, Hosts
  <1>3. CASE m \in Removals
    <2>1. m.type = "server-unregistered" /\ m.port \in Ports
      BY <1>3 DEF Removals
    <2>2. [h.flow EXCEPT ![m.port] = 0] \in [Ports -> 0 .. NoServer]
      BY <1>1, <2>1
    <2>3. h.ports \ {m.port} \in SUBSET Ports
      BY <1>1
    <2> QED
      BY <1>1, <2>1, <2>2, <2>3 DEF Apply, Removes, Hosts
  <1>4. CASE m \in Others
    BY <1>4, OthersApply
  <1> QED
    BY <1>2, <1>3, <1>4 DEF PageMessages

\* updateFlowControl and the tables of handleMainMessage do what Apply says.
LEMMA OnRegistrationIs ==
  ASSUME host \in Hosts, NEW m \in Registrations \cup Removals, OnRegistration(m)
  PROVE  host' = Apply(host, m)
  <1>1. PICK p : p = m.port /\ p \in Ports
    BY DEF Registrations, Removals
  <1>2. CASE m \in Registrations
    <2>1. m.type = "server-registered"
      BY <1>2 DEF Registrations
    <2>2. host' = [host EXCEPT !.flow[p] = m.gen, !.ports = @ \cup {p},
                               !.primary = IF m.primary THEN p ELSE IF @ = p THEN 0 ELSE @]
      BY <1>1, <2>1 DEF OnRegistration
    <2>3. host' = [chan |-> host.chan, ports |-> host.ports \cup {p},
                   flow |-> [host.flow EXCEPT ![p] = m.gen],
                   primary |-> IF m.primary THEN p ELSE IF host.primary = p THEN 0 ELSE host.primary]
      BY <2>2 DEF Hosts
    <2> QED
      BY <1>1, <2>1, <2>3 DEF Apply, Registers
  <1>3. CASE m \in Removals
    <2>1. m.type = "server-unregistered"
      BY <1>3 DEF Removals
    <2>2. host' = [host EXCEPT !.flow[p] = 0, !.ports = @ \ {p}, !.primary = IF @ = p THEN 0 ELSE @]
      BY <1>1, <2>1 DEF OnRegistration
    <2>3. host' = [chan |-> host.chan, ports |-> host.ports \ {p},
                   flow |-> [host.flow EXCEPT ![p] = 0],
                   primary |-> IF host.primary = p THEN 0 ELSE host.primary]
      BY <2>2 DEF Hosts
    <2> QED
      BY <1>1, <2>1, <2>3 DEF Apply, Removes
  <1> QED
    BY <1>2, <1>3

LEMMA ReplayNone ==
  ASSUME NEW b \in Hosts
  PROVE  Replay(b, << >>, b)
  <1>1. PICK f : f = [k \in 0 .. 0 |-> b]
    OBVIOUS
  <1>2. f \in [0 .. 0 -> Hosts] /\ f[0] = b /\ Len(<< >>) = 0
    BY <1>1
  <1> QED
    BY <1>2 DEF Replay

LEMMA ReplayEnds ==
  ASSUME NEW b, NEW e, Replay(b, << >>, e)
  PROVE  b = e
  BY DEF Replay

\* Messages that say nothing of the servers.
LEMMA ReplayOthers ==
  ASSUME NEW b \in Hosts, NEW s \in Seq(Others)
  PROVE  Replay(b, s, b)
  <1>1. PICK f : f = [k \in 0 .. Len(s) |-> b]
    OBVIOUS
  <1>2. /\ Len(s) \in Nat /\ f \in [0 .. Len(s) -> Hosts] /\ \A k \in 0 .. Len(s) : f[k] = b
        /\ \A k \in 1 .. Len(s) : k \in 0 .. Len(s) /\ k - 1 \in 0 .. Len(s) /\ s[k] \in Others
    BY <1>1
  <1>3. \A k \in 1 .. Len(s) : f[k] = Apply(f[k - 1], s[k])
    BY <1>2, OthersApply
  <1>4. f[0] = b /\ f[Len(s)] = b
    BY <1>2
  <1> QED
    BY <1>2, <1>3, <1>4 DEF Replay

LEMMA ReplayOne ==
  ASSUME NEW b \in Hosts, NEW m \in PageMessages
  PROVE  Replay(b, <<m>>, Apply(b, m))
  <1>1. PICK f : f = [k \in 0 .. 1 |-> IF k = 0 THEN b ELSE Apply(b, m)]
    OBVIOUS
  <1>2. f \in [0 .. 1 -> Hosts] /\ f[0] = b /\ f[1] = Apply(b, m)
    BY <1>1, AppliedIsHost
  <1>3. Len(<<m>>) = 1 /\ <<m>>[1] = m
    OBVIOUS
  <1>4. \A k \in 1 .. 1 : f[k] = Apply(f[k - 1], <<m>>[k])
    BY <1>2, <1>3
  <1> QED
    BY <1>2, <1>3, <1>4 DEF Replay

\* One run of messages after another.
LEMMA ReplayJoin ==
  ASSUME NEW b, NEW e, NEW d, NEW s \in Seq(PageMessages), NEW t \in Seq(PageMessages),
         Replay(b, s, e), Replay(e, t, d)
  PROVE  Replay(b, s \o t, d)
  <1>1. PICK m, n, u : m = Len(s) /\ n = Len(t) /\ u = s \o t
    OBVIOUS
  <1>2. /\ m \in Nat /\ n \in Nat /\ Len(u) = m + n
        /\ \A i \in 1 .. m : u[i] = s[i]
        /\ \A i \in 1 .. n : u[m + i] = t[i]
    BY <1>1, JoinIs, LenIs
  <1>3. PICK f \in [0 .. m -> Hosts] : /\ f[0] = b /\ f[m] = e
                                       /\ \A k \in 1 .. m : f[k] = Apply(f[k - 1], s[k])
    BY <1>1 DEF Replay
  <1>4. PICK g \in [0 .. n -> Hosts] : /\ g[0] = e /\ g[n] = d
                                       /\ \A k \in 1 .. n : g[k] = Apply(g[k - 1], t[k])
    BY <1>1 DEF Replay
  <1>5. PICK h : h = [k \in 0 .. m + n |-> IF k <= m THEN f[k] ELSE g[k - m]]
    OBVIOUS
  <1>6. /\ h \in [0 .. m + n -> Hosts]
        /\ \A k \in 0 .. m : h[k] = f[k]
    BY <1>2, <1>5
  <1>7. \A k \in 0 .. n : h[m + k] = g[k]
    <2> SUFFICES ASSUME NEW k \in 0 .. n PROVE h[m + k] = g[k]
      OBVIOUS
    <2>1. CASE k = 0
      <3>1. m + k = m /\ m \in 0 .. m
        BY <1>2, <2>1
      <3> QED
        BY <1>3, <1>4, <1>6, <2>1, <3>1
    <2>2. CASE k # 0
      <3>1. m + k \in 0 .. m + n /\ ~(m + k <= m) /\ (m + k) - m = k
        BY <1>2, <2>2
      <3> QED
        BY <1>5, <3>1
    <2> QED
      BY <2>1, <2>2
  <1>8. ASSUME NEW k \in 1 .. m + n PROVE h[k] = Apply(h[k - 1], u[k])
    <2>1. CASE k \in 1 .. m
      <3>1. k \in 0 .. m /\ k - 1 \in 0 .. m
        BY <1>2, <2>1
      <3> QED
        BY <1>2, <1>3, <1>6, <2>1, <3>1
    <2>2. CASE k - m \in 1 .. n
      <3>1. PICK j : j = k - m
        OBVIOUS
      <3>2. j \in 1 .. n /\ j \in 0 .. n /\ j - 1 \in 0 .. n /\ k = m + j /\ k - 1 = m + (j - 1)
        BY <1>2, <2>2, <3>1
      <3>3. h[k] = g[j] /\ h[k - 1] = g[j - 1] /\ u[k] = t[j]
        BY <1>2, <1>7, <3>2
      <3> QED
        BY <1>4, <3>2, <3>3
    <2> QED
      BY <1>2, <2>1, <2>2, JoinPlaces
  <1>9. h[0] = b /\ h[m + n] = d
    <2>1. 0 \in 0 .. m /\ n \in 0 .. n
      BY <1>2
    <2> QED
      BY <1>3, <1>4, <1>6, <1>7, <2>1
  <1>10. /\ h \in [0 .. Len(u) -> Hosts] /\ h[0] = b /\ h[Len(u)] = d
         /\ \A k \in 1 .. Len(u) : h[k] = Apply(h[k - 1], u[k])
    BY <1>2, <1>6, <1>8, <1>9
  <1>11. Replay(b, u, d)
    BY <1>10 DEF Replay
  <1> QED
    BY <1>1, <1>11

\* The first message is taken.
LEMMA ReplayTail ==
  ASSUME NEW b, NEW e, NEW s \in Seq(PageMessages), s # << >>, Replay(b, s, e)
  PROVE  Replay(Apply(b, Head(s)), Tail(s), e)
  <1>1. PICK n, t : n = Len(s) - 1 /\ t = Tail(s)
    OBVIOUS
  <1>2. /\ n \in Nat /\ Len(s) = n + 1 /\ Len(t) = n /\ Head(s) = s[1]
        /\ \A i \in 1 .. n : t[i] = s[i + 1]
    BY <1>1, TailIs
  <1>3. PICK f \in [0 .. n + 1 -> Hosts] :
          /\ f[0] = b /\ f[n + 1] = e
          /\ \A k \in 1 .. n + 1 : f[k] = Apply(f[k - 1], s[k])
    BY <1>2 DEF Replay
  <1>4. PICK g : g = [k \in 0 .. n |-> f[k + 1]]
    OBVIOUS
  <1>5. g \in [0 .. n -> Hosts] /\ \A k \in 0 .. n : g[k] = f[k + 1]
    BY <1>2, <1>4
  <1>6. g[0] = Apply(b, Head(s)) /\ g[n] = e
    <2>1. 0 \in 0 .. n /\ n \in 0 .. n /\ 1 \in 1 .. n + 1 /\ 0 + 1 = 1 /\ 1 - 1 = 0
      BY <1>2
    <2> QED
      BY <1>2, <1>3, <1>5, <2>1
  <1>7. ASSUME NEW k \in 1 .. n PROVE g[k] = Apply(g[k - 1], t[k])
    <2>1. k \in 0 .. n /\ k - 1 \in 0 .. n /\ k + 1 \in 1 .. n + 1 /\ (k - 1) + 1 = k /\ (k + 1) - 1 = k
      BY <1>2
    <2> QED
      BY <1>2, <1>3, <1>5, <2>1
  <1> QED
    BY <1>1, <1>2, <1>5, <1>6, <1>7 DEF Replay


\* The table e, on channel c, has the servers sv, and of them pr as the primary one.
Fits(e, c, sv, pr) ==
  /\ e.chan = c
  /\ \A p \in Ports : IF sv[p] # 0
                      THEN p \in e.ports /\ e.flow[p] = sv[p] /\ (e.primary = p <=> pr = p)
                      ELSE e.flow[p] \in {0, NoServer}

\* A registration of p, when the servers and the primary port become sv1 and pr1.
LEMMA RegisteredFits ==
  ASSUME NEW e \in Hosts, NEW c, NEW sv, NEW pr, Fits(e, c, sv, pr), NEW p \in Ports, NEW sv1, NEW pr1,
         NEW m \in Registrations, m.port = p, m.primary <=> p = pr1,
         \A q \in Ports : q # p => sv1[q] = sv[q],
         IF sv1[p] # 0 THEN m.gen = sv1[p] ELSE m.gen = NoServer,
         m.primary \/ \A q \in Ports : q # p /\ sv[q] # 0 => (pr = q <=> pr1 = q)
  PROVE  Apply(e, m) \in Hosts /\ Fits(Apply(e, m), c, sv1, pr1) /\ Replay(e, <<m>>, Apply(e, m))
  <1>1. m.type = "server-registered" /\ m \in PageMessages
    BY DEF Registrations, PageMessages
  <1>2. PICK h : h = Apply(e, m)
    OBVIOUS
  <1>3. /\ h.chan = e.chan /\ h.ports = e.ports \cup {p} /\ h.flow = [e.flow EXCEPT ![p] = m.gen]
        /\ h.primary = IF m.primary THEN p ELSE IF e.primary = p THEN 0 ELSE e.primary
    BY <1>1, <1>2 DEF Apply, Registers
  <1>4. e.flow \in [Ports -> 0 .. NoServer] /\ 0 \notin Ports
    BY PreviewBounds DEF Hosts
  <1>5. \A q \in Ports : h.flow[q] = IF q = p THEN m.gen ELSE e.flow[q]
    BY <1>3, <1>4
  <1>6. ASSUME NEW q \in Ports, sv1[q] # 0
        PROVE  q \in h.ports /\ h.flow[q] = sv1[q] /\ (h.primary = q <=> pr1 = q)
    <2>1. CASE q = p
      BY <1>3, <1>4, <1>5, <1>6, <2>1
    <2>2. CASE q # p
      <3>1. sv[q] # 0 /\ sv1[q] = sv[q] /\ q # 0
        BY <1>4, <1>6, <2>2
      <3>2. q \in e.ports /\ e.flow[q] = sv[q] /\ (e.primary = q <=> pr = q)
        BY <3>1 DEF Fits
      <3>3. h.primary = q <=> pr1 = q
        BY <1>3, <2>2, <3>1, <3>2
      <3> QED
        BY <1>3, <1>5, <2>2, <3>1, <3>2, <3>3
    <2> QED
      BY <2>1, <2>2
  <1>7. ASSUME NEW q \in Ports, ~(sv1[q] # 0) PROVE h.flow[q] \in {0, NoServer}
    BY <1>5, <1>7 DEF Fits
  <1>8. Fits(h, c, sv1, pr1)
    BY <1>3, <1>6, <1>7 DEF Fits
  <1> QED
    BY <1>1, <1>2, <1>8, AppliedIsHost, ReplayOne

\* The removal of p.
LEMMA RemovedFits ==
  ASSUME NEW e \in Hosts, NEW c, NEW sv, NEW pr, Fits(e, c, sv, pr), NEW p \in Ports, NEW sv1, NEW pr1,
         NEW m \in Removals, m.port = p, sv1[p] = 0, \A q \in Ports : q # p => sv1[q] = sv[q],
         pr1 = IF pr = p THEN 0 ELSE pr
  PROVE  Apply(e, m) \in Hosts /\ Fits(Apply(e, m), c, sv1, pr1) /\ Replay(e, <<m>>, Apply(e, m))
  <1>1. m.type = "server-unregistered" /\ m \in PageMessages
    BY DEF Removals, PageMessages
  <1>2. PICK h : h = Apply(e, m)
    OBVIOUS
  <1>3. /\ h.chan = e.chan /\ h.ports = e.ports \ {p} /\ h.flow = [e.flow EXCEPT ![p] = 0]
        /\ h.primary = IF e.primary = p THEN 0 ELSE e.primary
    BY <1>1, <1>2 DEF Apply, Removes
  <1>4. e.flow \in [Ports -> 0 .. NoServer] /\ 0 \notin Ports
    BY PreviewBounds DEF Hosts
  <1>5. \A q \in Ports : h.flow[q] = IF q = p THEN 0 ELSE e.flow[q]
    BY <1>3, <1>4
  <1>6. ASSUME NEW q \in Ports, sv1[q] # 0
        PROVE  q \in h.ports /\ h.flow[q] = sv1[q] /\ (h.primary = q <=> pr1 = q)
    <2>1. q # p /\ sv[q] # 0 /\ sv1[q] = sv[q] /\ q # 0
      BY <1>4, <1>6
    <2>2. q \in e.ports /\ e.flow[q] = sv[q] /\ (e.primary = q <=> pr = q)
      BY <2>1 DEF Fits
    <2>3. h.primary = q <=> pr1 = q
      BY <1>3, <2>1, <2>2
    <2> QED
      BY <1>3, <1>5, <2>1, <2>2, <2>3
  <1>7. ASSUME NEW q \in Ports, ~(sv1[q] # 0) PROVE h.flow[q] \in {0, NoServer}
    BY <1>5, <1>7 DEF Fits
  <1>8. Fits(h, c, sv1, pr1)
    BY <1>3, <1>6, <1>7 DEF Fits
  <1> QED
    BY <1>1, <1>2, <1>8, AppliedIsHost, ReplayOne

\* The servers of the page, and its primary port, which may have none.
Serves == servers \in [Ports -> 0 .. MaxGen] /\ primary \in Ports \cup {0}

\* All the servers, told to a worker that knows of none.
LEMMA AnnounceReplays ==
  ASSUME Serves, chan \in Channels, NEW c \in Channels
  PROVE  /\ AnnounceServers \in Seq(Registrations)
         /\ \E e \in Hosts : Fits(e, c, servers, primary) /\ Replay(Blank(c), AnnounceServers, e)
  <1>0. PICK H : H = {p \in Ports : Held(p)}
    OBVIOUS
  <1>1. PICK hs, n : hs = SetToSeq(H) /\ n = Len(hs)
    OBVIOUS
  <1>2. IsFiniteSet(H)
    BY <1>0, PreviewBounds, FS_Subset
  <1>3. /\ hs \in Seq(H) /\ n \in Nat
        /\ \A i, j \in 1 .. n : hs[i] = hs[j] => i = j
        /\ \A p \in H : \E i \in 1 .. n : hs[i] = p
    BY <1>1, <1>2, SetToSeqIs, LenIs
  <1>4. DOMAIN hs = 1 .. n /\ \A i \in 1 .. n : hs[i] \in Ports /\ hs[i] # 0 /\ Held(hs[i])
    <2>1. DOMAIN hs = 1 .. n /\ \A i \in 1 .. n : hs[i] \in H
      BY <1>1, <1>3, LenIs
    <2>2. \A p \in H : p \in Ports /\ p # 0 /\ Held(p)
      BY <1>0, PreviewBounds
    <2> QED
      BY <2>1, <2>2
  <1>5. PICK a : a = AnnounceServers
    OBVIOUS
  <1>6. a = [i \in 1 .. n |-> Registered(hs[i], servers[hs[i]], hs[i] = primary)]
    BY <1>0, <1>1, <1>4, <1>5 DEF AnnounceServers
  <1>7. \A i \in 1 .. n : Registered(hs[i], servers[hs[i]], hs[i] = primary) \in Registrations
    BY <1>4, GensAre DEF Registered, Registrations, Serves
  <1>8. a \in Seq(Registrations) /\ Len(a) = n
    <2>1. a \in [1 .. n -> Registrations]
      BY <1>6, <1>7
    <2> QED
      BY <1>3, <2>1, MadeSeq
  <1>9. PICK B : B = [k \in 0 .. n |-> {hs[i] : i \in 1 .. k}]
    OBVIOUS
  <1>10. \A k \in 0 .. n : B[k] \subseteq Ports /\ 0 \notin B[k] /\ B[k] = {hs[i] : i \in 1 .. k}
    BY <1>3, <1>4, <1>9
  <1>11. B[0] = {} /\ B[n] = {p \in Ports : Held(p)}
    <2>1. 0 \in 0 .. n /\ n \in 0 .. n
      BY <1>3
    <2>2. \A p \in B[n] : p \in Ports /\ Held(p)
      BY <1>4, <1>10, <2>1
    <2>3. \A p \in Ports : Held(p) => p \in B[n]
      BY <1>0, <1>3, <1>10, <2>1
    <2> QED
      BY <1>3, <1>10, <2>1, <2>2, <2>3
  <1>12. ASSUME NEW k \in 1 .. n
         PROVE  /\ k \in 0 .. n /\ k - 1 \in 0 .. n
                /\ B[k] = B[k - 1] \cup {hs[k]} /\ hs[k] \notin B[k - 1]
    <2>1. k \in 0 .. n /\ k - 1 \in 0 .. n /\ \A i \in 1 .. k - 1 : i \in 1 .. n /\ i \in 1 .. k /\ i # k
      BY <1>3
    <2>2. \A i \in 1 .. k : i = k \/ i \in 1 .. k - 1
      BY <1>3
    <2>3. k \in 1 .. k
      BY <1>3
    <2>4. B[k] = B[k - 1] \cup {hs[k]}
      BY <1>10, <2>1, <2>2, <2>3
    <2>5. hs[k] \notin B[k - 1]
      BY <1>3, <1>10, <2>1
    <2> QED
      BY <2>1, <2>4, <2>5
  <1>13. PICK f : f = [k \in 0 .. n |->
           [chan |-> c, ports |-> B[k], flow |-> [p \in Ports |-> IF p \in B[k] THEN servers[p] ELSE 0],
            primary |-> IF primary \in B[k] THEN primary ELSE 0]]
    OBVIOUS
  <1>14. f \in [0 .. n -> Hosts]
    <2>1. ASSUME NEW k \in 0 .. n
          PROVE  [chan |-> c, ports |-> B[k], flow |-> [p \in Ports |-> IF p \in B[k] THEN servers[p] ELSE 0],
                  primary |-> IF primary \in B[k] THEN primary ELSE 0] \in Hosts
      <3>1. B[k] \in SUBSET Ports /\ 0 \in 0 .. NoServer
        BY <1>10, GensAre
      <3>2. [p \in Ports |-> IF p \in B[k] THEN servers[p] ELSE 0] \in [Ports -> 0 .. NoServer]
        BY <3>1, GensAre DEF Serves
      <3> QED
        BY <3>1, <3>2 DEF Hosts, Serves
    <2> QED
      BY <1>13, <2>1
  <1>15. ASSUME NEW k \in 1 .. n PROVE f[k] = Apply(f[k - 1], a[k])
    <2>1. PICK p, g, h, B0, B1 : p = hs[k] /\ g = f[k - 1] /\ h = f[k] /\ B0 = B[k - 1] /\ B1 = B[k]
      OBVIOUS
    <2>2. /\ p \in Ports /\ p # 0 /\ B1 = B0 \cup {p} /\ p \notin B0 /\ 0 \notin B0
          /\ a[k] = Registered(p, servers[p], p = primary)
      BY <1>4, <1>6, <1>10, <1>12, <2>1
    <2>3. /\ g = [chan |-> c, ports |-> B0, flow |-> [q \in Ports |-> IF q \in B0 THEN servers[q] ELSE 0],
                  primary |-> IF primary \in B0 THEN primary ELSE 0]
          /\ h = [chan |-> c, ports |-> B1, flow |-> [q \in Ports |-> IF q \in B1 THEN servers[q] ELSE 0],
                  primary |-> IF primary \in B1 THEN primary ELSE 0]
      BY <1>12, <1>13, <2>1
    <2>4. h.flow = [g.flow EXCEPT ![p] = servers[p]]
      BY <2>2, <2>3
    <2>5. h.primary = IF p = primary THEN p ELSE IF g.primary = p THEN 0 ELSE g.primary
      BY <2>2, <2>3
    <2>6. h = [chan |-> g.chan, ports |-> g.ports \cup {p}, flow |-> [g.flow EXCEPT ![p] = servers[p]],
               primary |-> IF p = primary THEN p ELSE IF g.primary = p THEN 0 ELSE g.primary]
      BY <2>2, <2>3, <2>4, <2>5
    <2>7. PICK m : m = a[k]
      OBVIOUS
    <2>8. /\ m.type = "server-registered" /\ m.port = p /\ m.gen = servers[p]
          /\ m.primary = (p = primary)
      BY <2>2, <2>7 DEF Registered
    <2>9. h = Registers(g, m)
      BY <2>6, <2>8 DEF Registers
    <2>10. h = Apply(g, m)
      BY <2>8, <2>9 DEF Apply
    <2> QED
      BY <2>1, <2>7, <2>10
  <1>16. f[0] = Blank(c) /\ f[n] \in Hosts /\ Fits(f[n], c, servers, primary)
    <2>1. 0 \in 0 .. n /\ n \in 0 .. n
      BY <1>3
    <2>2. f[0] = Blank(c)
      BY <1>11, <1>13, <2>1 DEF Blank
    <2>3. /\ f[n].chan = c /\ f[n].ports = B[n]
          /\ f[n].flow = [p \in Ports |-> IF p \in B[n] THEN servers[p] ELSE 0]
          /\ f[n].primary = IF primary \in B[n] THEN primary ELSE 0
      BY <1>13, <2>1
    <2>4. ASSUME NEW p \in Ports
          PROVE  IF servers[p] # 0
                 THEN p \in f[n].ports /\ f[n].flow[p] = servers[p] /\ (f[n].primary = p <=> primary = p)
                 ELSE f[n].flow[p] \in {0, NoServer}
      <3>1. p \in B[n] <=> servers[p] # 0
        BY <1>11 DEF Held
      <3>2. p # 0
        BY PreviewBounds
      <3> QED
        BY <2>3, <3>1, <3>2
    <2> QED
      BY <1>14, <2>1, <2>2, <2>3, <2>4 DEF Fits
  <1>17. Replay(Blank(c), a, f[n])
    BY <1>8, <1>14, <1>15, <1>16 DEF Replay
  <1> QED
    BY <1>5, <1>8, <1>16, <1>17


----------------------------------------------------------------------------
(* The types                                                                *)

\* A stream's record; how many credits it may hold is not part of it.
StreamRecords ==
  [state : {"none", "open", "done"}, guest : BOOLEAN, started : BOOLEAN,
   kind : {"none", "controlled", "buffered", "streaming"}, ended : BOOLEAN,
   id : Ids \cup {0}, chan : Channels \cup {0}, gen : 0 .. MaxGen, made : 0 .. Chunks,
   credits : Nat, queue : Seq(1 .. Chunks), paused : BOOLEAN]
WaitRecords == [state : {"idle", "asked", "ok", "failed"}, port : Ports \cup {0},
                chan : Channels \cup {0}]

\* A stream that may still post something has its request's number.
Named(st) == st.state = "open" \/ (st.state = "done" /\ ~st.started) => st.id \in Ids

StreamTypes == /\ streams \in [Requests -> StreamRecords] /\ \A r \in Requests : Named(streams[r])
               /\ controlled \in [Ids -> Requests \cup {0}]
WaitTypes == /\ waits \in [Waits -> WaitRecords]
             /\ \A w \in Waits : waits[w].state = "asked" => waits[w].port \in Ports
PageTypes == /\ Serves /\ gens \in 0 .. MaxGen /\ chan \in Channels /\ ready \in BOOLEAN
             /\ StreamTypes /\ WaitTypes

\* A request that is under way has its port, and one that was posted its number.
Placed(q) == /\ q.stage \in {"asking", "preparing", "sent"} => q.port \in Ports
             /\ q.stage = "sent" => q.id \in Ids
Posted == {r \in Requests : reqs[r].stage \in {"sent", "stuck", "done"}}
RequestTypes == /\ reqs \in [Requests -> WorkerRequests] /\ \A r \in Requests : Placed(reqs[r])
                /\ lastId \in Nat /\ lastId <= Cardinality(Posted)
WorkerTypes == host \in Hosts /\ RequestTypes

LineTypes == /\ toWorker \in [Channels -> Seq(PageMessages)]
             /\ toPage \in [Channels -> Seq(WorkerMessages)]
             /\ open \subseteq Channels /\ inits \in Seq(Channels) /\ asks \in Nat

\* Messages on a channel: after what is on it, and only while its other end is open.
LEMMA ToWorkerIs ==
  ASSUME LineTypes, NEW c, NEW s \in Seq(PageMessages)
  PROVE  /\ ToWorker(c, s) \in [Channels -> Seq(PageMessages)]
         /\ \A d \in Channels :
              ToWorker(c, s)[d] = IF d = c /\ c \in open THEN toWorker[d] \o s ELSE toWorker[d]
  <1>1. CASE c \in open
    <2>1. PICK t : t = toWorker[c] \o s
      OBVIOUS
    <2>2. c \in Channels /\ t \in Seq(PageMessages) /\ toWorker \in [Channels -> Seq(PageMessages)]
      BY <1>1, <2>1, JoinIs DEF LineTypes
    <2>3. ToWorker(c, s) = [toWorker EXCEPT ![c] = t]
      BY <1>1, <2>1 DEF ToWorker
    <2> QED
      BY <1>1, <2>1, <2>2, <2>3
  <1>2. CASE c \notin open
    BY <1>2 DEF ToWorker, LineTypes
  <1> QED
    BY <1>1, <1>2

LEMMA ToPageIs ==
  ASSUME LineTypes, NEW c, NEW s \in Seq(WorkerMessages)
  PROVE  /\ ToPage(c, s) \in [Channels -> Seq(WorkerMessages)]
         /\ \A d \in Channels : ToPage(c, s)[d] = IF d = c THEN toPage[d] \o s ELSE toPage[d]
  <1>1. CASE c \in Channels
    <2>1. PICK t : t = toPage[c] \o s
      OBVIOUS
    <2>2. t \in Seq(WorkerMessages) /\ toPage \in [Channels -> Seq(WorkerMessages)]
      BY <1>1, <2>1, JoinIs DEF LineTypes
    <2>3. ToPage(c, s) = [toPage EXCEPT ![c] = t]
      BY <2>1 DEF ToPage
    <2> QED
      BY <1>1, <2>1, <2>2, <2>3
  <1>2. CASE c \notin Channels
    BY <1>2 DEF ToPage, LineTypes
  <1> QED
    BY <1>1, <1>2

LEMMA AnswerIs ==
  ASSUME NEW type \in AnswerTypes, NEW i \in Ids, NEW r \in Requests, NEW n \in 0 .. Chunks,
         NEW g \in 0 .. MaxGen
  PROVE  Answer(type, i, r, n, g) \in AnswerMessages
  BY DEF Answer, AnswerMessages

\* What stays of a stream that is finished.
LEMMA DoneIs ==
  ASSUME NEW st \in StreamRecords
  PROVE  /\ Done(st) \in StreamRecords /\ Done(st).state = "done" /\ Done(st).started = st.started
         /\ ~st.started => Done(st).id = st.id
  <1>1. NoStream \in StreamRecords
    <2>1. 0 \in 0 .. MaxGen /\ 0 \in 0 .. Chunks
      BY PreviewBounds
    <2> QED
      BY <2>1 DEF NoStream, StreamRecords
  <1>2. PICK t \in StreamRecords : t = IF st.started THEN NoStream ELSE st
    BY <1>1
  <1>3. Done(st) = [t EXCEPT !.state = "done", !.kind = st.kind, !.started = st.started,
                             !.queue = << >>, !.credits = 0]
    BY <1>2 DEF Done
  <1>4. << >> \in Seq(1 .. Chunks) /\ 0 \in Nat /\ st.kind \in {"none", "controlled", "buffered", "streaming"}
        /\ st.started \in BOOLEAN
    BY DEF StreamRecords
  <1>5. PICK d, k, b : d = Done(st) /\ k = st.kind /\ b = st.started
    OBVIOUS
  <1>6. d = [t EXCEPT !.state = "done", !.kind = k, !.started = b, !.queue = << >>, !.credits = 0]
    BY <1>3, <1>5
  <1>7. k \in {"none", "controlled", "buffered", "streaming"} /\ b \in BOOLEAN
    BY <1>4, <1>5
  <1>8. d \in StreamRecords
    BY <1>4, <1>6, <1>7 DEF StreamRecords
  <1>9. d.state = "done" /\ d.started = b /\ d.id = t.id
    BY <1>6 DEF StreamRecords
  <1> QED
    BY <1>2, <1>5, <1>8, <1>9

\* What flush() posts, and what it leaves of the stream.
LEMMA FlushIs ==
  ASSUME NEW r \in Requests, NEW st \in StreamRecords, Named(st)
  PROVE  /\ Flush(r, st).st \in StreamRecords /\ Named(Flush(r, st).st)
         /\ Flush(r, st).msgs \in Seq(AnswerMessages)
  <1>1. PICK n, rest, sent, over :
          /\ n = IF st.credits < Len(st.queue) THEN st.credits ELSE Len(st.queue)
          /\ rest = SubSeq(st.queue, n + 1, Len(st.queue))
          /\ over = (st.ended /\ rest = << >>)
          /\ sent = [k \in 1 .. n |-> Answer("stream-chunk", st.id, r, st.queue[k], st.gen)]
    OBVIOUS
  <1>2. st.credits \in Nat /\ st.queue \in Seq(1 .. Chunks) /\ st.gen \in 0 .. MaxGen
    BY DEF StreamRecords
  <1>3. n \in Nat /\ n <= Len(st.queue) /\ n <= st.credits /\ Len(st.queue) \in Nat
    BY <1>1, <1>2, LenIs
  <1>4. rest \in Seq(1 .. Chunks)
    BY <1>1, <1>2, <1>3, RestIs
  <1>5. CASE st.state # "open"
    <2>1. Flush(r, st) = [st |-> st, msgs |-> << >>]
      BY <1>5 DEF Flush, Said
    <2> QED
      BY <2>1
  <1>6. CASE st.state = "open"
    <2>1. st.id \in Ids
      BY <1>6 DEF Named
    <2>2. sent \in Seq(AnswerMessages)
      <3>1. ASSUME NEW k \in 1 .. n
            PROVE  Answer("stream-chunk", st.id, r, st.queue[k], st.gen) \in AnswerMessages
        <4>1. k \in 1 .. Len(st.queue)
          BY <1>3
        <4>2. st.queue[k] \in 1 .. Chunks
          BY <1>2, <4>1, LenIs
        <4>3. st.queue[k] \in 0 .. Chunks
          BY <4>2, PreviewBounds
        <4> QED
          BY <1>2, <2>1, <4>3, AnswerIs DEF AnswerTypes
      <3>2. sent \in [1 .. n -> AnswerMessages]
        BY <1>1, <3>1
      <3> QED
        BY <1>3, <3>2, MadeSeq
    <2>3. Answer("stream-end", st.id, r, 0, st.gen) \in AnswerMessages
      <3>1. 0 \in 0 .. Chunks
        BY PreviewBounds
      <3> QED
        BY <1>2, <2>1, <3>1, AnswerIs DEF AnswerTypes
    <2>4. CASE over
      <3>1. Flush(r, st) = [st |-> Done(st),
                            msgs |-> Append(sent, Answer("stream-end", st.id, r, 0, st.gen))]
        BY <1>1, <1>6, <2>4 DEF Flush, Said
      <3>2. Named(Done(st))
        BY <2>1, DoneIs DEF Named
      <3>3. Append(sent, Answer("stream-end", st.id, r, 0, st.gen)) \in Seq(AnswerMessages)
        BY <2>2, <2>3
      <3> QED
        BY <3>1, <3>2, <3>3, DoneIs
    <2>5. CASE ~over
      <3>6. (Len(rest) >= QueuedChunks) \in BOOLEAN
        OBVIOUS
      <3>0. PICK b : b \in BOOLEAN /\ b = (Len(rest) >= QueuedChunks)
        BY <3>6, Zenon
      <3>1. PICK t : t = [st EXCEPT !.credits = @ - n, !.queue = rest, !.paused = b]
        OBVIOUS
      <3>2. Flush(r, st) = [st |-> t, msgs |-> sent]
        BY <1>1, <1>6, <2>5, <3>0, <3>1 DEF Flush, Said
      <3>3. st.credits - n \in Nat
        BY <1>2, <1>3
      <3>4. t \in StreamRecords /\ t.id = st.id
        BY <1>4, <3>0, <3>1, <3>3 DEF StreamRecords
      <3>5. Named(t)
        BY <2>1, <3>4 DEF Named
      <3> QED
        BY <2>2, <3>2, <3>4, <3>5
    <2> QED
      BY <2>4, <2>5
  <1> QED
    BY <1>5, <1>6


----------------------------------------------------------------------------
(* The streams' steps                                                       *)

\* A step of the page that only posts answers.
Streaming ==
  /\ \E c : \E s \in Seq(AnswerMessages) : toWorker' = ToWorker(c, s)
  /\ UNCHANGED <<servers, gens, primary, chan, ready, waits, open, inits, asks>>

LEMMA NoAnswers == << >> \in Seq(AnswerMessages) /\ (LineTypes => toWorker = ToWorker(0, << >>))
  <1>1. 0 \notin Channels
    BY PreviewBounds DEF Channels
  <1> QED
    BY <1>1 DEF ToWorker, LineTypes

\* What is left to say when one stream has changed.
LEMMA StreamChanged ==
  ASSUME StreamTypes, NEW r \in Requests, NEW st \in StreamRecords, Named(st),
         streams' = [streams EXCEPT ![r] = st], controlled' \in [Ids -> Requests \cup {0}]
  PROVE  StreamTypes'
  <1>1. streams' \in [Requests -> StreamRecords]
    BY DEF StreamTypes
  <1>2. ASSUME NEW q \in Requests PROVE Named(streams'[q])
    <2>1. CASE q = r
      BY <2>1 DEF StreamTypes
    <2>2. CASE q # r
      <3>1. streams'[q] = streams[q] /\ Named(streams[q])
        BY <2>2 DEF StreamTypes
      <3> QED
        BY <3>1
    <2> QED
      BY <2>1, <2>2
  <1>3. \A q \in Requests : Named(streams[q])'
    BY <1>2 DEF Named
  <1> QED
    BY <1>1, <1>3 DEF StreamTypes

LEMMA StreamStepIs ==
  ASSUME StreamTypes, LineTypes, NEW r \in Requests, NEW said, StreamStep(r, said),
         said.st \in StreamRecords, Named(said.st), said.msgs \in Seq(AnswerMessages)
  PROVE  StreamTypes' /\ Streaming
  <1>1. controlled' \in [Ids -> Requests \cup {0}]
    BY DEF StreamStep, Forget, StreamTypes
  <1>2. streams' = [streams EXCEPT ![r] = said.st]
    BY DEF StreamStep
  <1>3. Streaming
    BY DEF StreamStep, Streaming
  <1> QED
    BY <1>1, <1>2, <1>3, StreamChanged

\* The record of a stream, part by part.
LEMMA StreamIs ==
  ASSUME NEW st \in StreamRecords
  PROVE  /\ st.state \in {"none", "open", "done"} /\ st.started \in BOOLEAN /\ st.ended \in BOOLEAN
         /\ st.kind \in {"none", "controlled", "buffered", "streaming"}
         /\ st.id \in Ids \cup {0} /\ st.gen \in 0 .. MaxGen /\ st.made \in 0 .. Chunks
         /\ st.credits \in Nat /\ st.queue \in Seq(1 .. Chunks)
  BY DEF StreamRecords

LEMMA StartedIs ==
  ASSUME NEW st \in StreamRecords
  PROVE  LET t == [st EXCEPT !.started = TRUE]
         IN /\ t \in StreamRecords /\ t.started /\ t.state = st.state /\ t.id = st.id
            /\ Done(t) \in StreamRecords /\ Named(Done(t))
  <1>1. PICK t : t = [st EXCEPT !.started = TRUE]
    OBVIOUS
  <1>2. t \in StreamRecords /\ t.started /\ t.state = st.state /\ t.id = st.id
    BY <1>1 DEF StreamRecords
  <1>3. Done(t) \in StreamRecords /\ Named(Done(t))
    BY <1>2, DoneIs DEF Named
  <1> QED
    BY <1>1, <1>2, <1>3

LEMMA CancelledIs ==
  ASSUME NEW st \in StreamRecords, Named(st)
  PROVE  Cancelled(st) \in StreamRecords /\ Named(Cancelled(st))
  <1>1. CASE st.state = "open"
    <2>1. st.id \in Ids /\ Cancelled(st) = Done(st)
      BY <1>1 DEF Named, Cancelled
    <2>2. Named(Done(st))
      BY <2>1, DoneIs DEF Named
    <2> QED
      BY <2>1, <2>2, DoneIs
  <1>2. CASE st.state # "open"
    BY <1>2 DEF Cancelled
  <1> QED
    BY <1>1, <1>2

\* A bound on what answers say
LEMMA BoundsAre == /\ 0 \in 0 .. Chunks /\ Chunks \in 0 .. Chunks /\ 0 \in 0 .. MaxGen
                   /\ Chunks \in Nat /\ MaxGen \in Nat /\ MaxChannel \in Nat /\ 0 \notin Ports
                   /\ 0 \notin Requests
  <1>1. 0 \notin 1 .. Cardinality(Requests)
    OBVIOUS
  <1>2. 0 \notin Requests
    BY <1>1, PreviewBounds, Zenon
  <1> QED
    BY <1>2, PreviewBounds

LEMMA StartStep ==
  ASSUME StreamTypes, LineTypes, NEW r \in Requests, Start(r)
  PROVE  StreamTypes' /\ Streaming
  <1>1. PICK st, after : st = streams[r] /\ after = IF st.state = "done" THEN Done([st EXCEPT !.started = TRUE])
                                                 ELSE [st EXCEPT !.started = TRUE]
    OBVIOUS
  <1>2. st \in StreamRecords /\ Named(st)
    BY <1>1 DEF StreamTypes
  <1>3. st.state # "none" /\ ~st.started
    BY <1>1 DEF Start, Upstream
  <1>4. st.id \in Ids /\ st.gen \in 0 .. MaxGen
    BY <1>2, <1>3, StreamIs DEF Named
  <1>5. after \in StreamRecords /\ Named(after)
    <2>1. CASE st.state = "done"
      BY <1>1, <1>2, <2>1, StartedIs
    <2>2. CASE st.state # "done"
      <3>1. after = [st EXCEPT !.started = TRUE]
        BY <1>1, <2>2
      <3>2. after \in StreamRecords /\ after.id \in Ids
        BY <1>2, <1>4, <3>1, StartedIs
      <3> QED
        BY <3>2 DEF Named
    <2> QED
      BY <2>1, <2>2
  <1>6. PICK m : m = Answer("stream-start", st.id, r, 0, st.gen)
    OBVIOUS
  <1>7. <<m>> \in Seq(AnswerMessages)
    BY <1>4, <1>6, BoundsAre, AnswerIs, OneMessage DEF AnswerTypes
  <1>8. StreamStep(r, [st |-> after, msgs |-> <<m>>])
    BY <1>1, <1>6 DEF Start, Said
  <1> QED
    BY <1>5, <1>7, <1>8, StreamStepIs

LEMMA ChunkStep ==
  ASSUME StreamTypes, LineTypes, NEW r \in Requests, Chunk(r)
  PROVE  StreamTypes' /\ Streaming
  <1>1. PICK st : st = streams[r]
    OBVIOUS
  <1>2. st \in StreamRecords /\ Named(st)
    BY <1>1 DEF StreamTypes
  <1>3. PICK n \in 1 .. (Chunks - st.made) :
          StreamStep(r, Flush(r, [st EXCEPT !.made = @ + n, !.queue = @ \o [k \in 1 .. n |-> st.made + k]]))
    BY <1>1 DEF Chunk
  <1>4. st.made \in 0 .. Chunks /\ st.queue \in Seq(1 .. Chunks) /\ st.state = "open" /\ st.id \in Ids
    BY <1>1, <1>2, StreamIs DEF Chunk, Named
  <1>5. n \in Nat /\ st.made + n \in 0 .. Chunks /\ \A k \in 1 .. n : st.made + k \in 1 .. Chunks
    BY <1>4, BoundsAre
  <1>6. PICK pieces : pieces = [k \in 1 .. n |-> st.made + k]
    OBVIOUS
  <1>7. pieces \in Seq(1 .. Chunks)
    <2>1. pieces \in [1 .. n -> 1 .. Chunks]
      BY <1>5, <1>6
    <2> QED
      BY <1>5, <2>1, MadeSeq
  <1>8. PICK q : q = st.queue \o pieces
    OBVIOUS
  <1>9. q \in Seq(1 .. Chunks)
    BY <1>4, <1>7, <1>8, JoinIs
  <1>10. PICK t : t = [st EXCEPT !.made = st.made + n, !.queue = q]
    OBVIOUS
  <1>11. t \in StreamRecords /\ t.id = st.id
    BY <1>2, <1>5, <1>9, <1>10 DEF StreamRecords
  <1>12. Named(t)
    BY <1>4, <1>11 DEF Named
  <1>13. StreamStep(r, Flush(r, t))
    BY <1>3, <1>6, <1>8, <1>10
  <1> QED
    BY <1>11, <1>12, <1>13, FlushIs, StreamStepIs

LEMMA EndStep ==
  ASSUME StreamTypes, LineTypes, NEW r \in Requests, End(r)
  PROVE  StreamTypes' /\ Streaming
  <1>1. PICK st, t : st = streams[r] /\ t = [st EXCEPT !.ended = TRUE]
    OBVIOUS
  <1>2. st \in StreamRecords /\ Named(st)
    BY <1>1 DEF StreamTypes
  <1>3. st.id \in Ids
    BY <1>1, <1>2 DEF End, Named
  <1>4. t \in StreamRecords /\ t.id = st.id
    BY <1>1, <1>2 DEF StreamRecords
  <1>5. Named(t)
    BY <1>3, <1>4 DEF Named
  <1>6. StreamStep(r, Flush(r, t))
    BY <1>1 DEF End
  <1> QED
    BY <1>4, <1>5, <1>6, FlushIs, StreamStepIs

LEMMA FailsStep ==
  ASSUME StreamTypes, LineTypes, NEW r \in Requests, UpstreamFails(r)
  PROVE  StreamTypes' /\ Streaming
  <1>1. PICK st, after : st = streams[r] /\ after = Done([st EXCEPT !.started = TRUE])
    OBVIOUS
  <1>2. st \in StreamRecords /\ Named(st)
    BY <1>1 DEF StreamTypes
  <1>3. st.id \in Ids /\ st.gen \in 0 .. MaxGen
    BY <1>1, <1>2, StreamIs DEF UpstreamFails, Named
  <1>4. after \in StreamRecords /\ Named(after)
    BY <1>1, <1>2, StartedIs
  <1>5. PICK m : m = Answer("stream-error", st.id, r, 0, st.gen)
    OBVIOUS
  <1>6. <<m>> \in Seq(AnswerMessages)
    BY <1>3, <1>5, BoundsAre, AnswerIs, OneMessage DEF AnswerTypes
  <1>7. StreamStep(r, [st |-> after, msgs |-> <<m>>])
    BY <1>1, <1>5 DEF UpstreamFails, Said
  <1> QED
    BY <1>4, <1>6, <1>7, StreamStepIs

LEMMA RespondStep ==
  ASSUME StreamTypes, LineTypes, NEW r \in Requests, Respond(r)
  PROVE  StreamTypes' /\ Streaming
  <1>1. PICK st, after : st = streams[r] /\ after = Done([st EXCEPT !.started = TRUE])
    OBVIOUS
  <1>2. st \in StreamRecords /\ Named(st)
    BY <1>1 DEF StreamTypes
  <1>3. st.id \in Ids /\ st.gen \in 0 .. MaxGen
    BY <1>1, <1>2, StreamIs DEF Respond, Named
  <1>4. after \in StreamRecords /\ Named(after)
    BY <1>1, <1>2, StartedIs
  <1>5. PICK g \in {0, st.gen} : toWorker' = ToWorker(chan, <<Answer("response", st.id, r, Chunks, g)>>)
    BY <1>1 DEF Respond
  <1>6. PICK m : m = Answer("response", st.id, r, Chunks, g)
    OBVIOUS
  <1>7. <<m>> \in Seq(AnswerMessages)
    BY <1>3, <1>6, BoundsAre, AnswerIs, OneMessage DEF AnswerTypes
  <1>8. Streaming
    BY <1>5, <1>6, <1>7 DEF Streaming, Respond
  <1>9. streams' = [streams EXCEPT ![r] = after] /\ controlled' \in [Ids -> Requests \cup {0}]
    BY <1>1 DEF Respond, StreamTypes
  <1> QED
    BY <1>4, <1>8, <1>9, StreamChanged


LEMMA LegacyStep ==
  ASSUME StreamTypes, LineTypes, NEW r \in Requests, LegacyStream(r)
  PROVE  StreamTypes' /\ Streaming
  <1>1. PICK st : st = streams[r]
    OBVIOUS
  <1>2. st \in StreamRecords /\ Named(st)
    BY <1>1 DEF StreamTypes
  <1>3. st.id \in Ids /\ st.gen \in 0 .. MaxGen /\ st.made \in 0 .. Chunks /\ st.started \in BOOLEAN
    BY <1>1, <1>2, StreamIs DEF LegacyStream, Named
  <1>4. PICK next, after, failed :
          /\ next = IF ~st.started THEN Answer("stream-start", st.id, r, 0, st.gen)
                    ELSE IF st.made < Chunks
                    THEN Answer("stream-chunk", st.id, r, IF st.guest THEN 0 ELSE st.made + 1, st.gen)
                    ELSE Answer("stream-end", st.id, r, 0, st.gen)
          /\ after = IF st.started /\ st.made = Chunks THEN Done(st)
                     ELSE [st EXCEPT !.started = TRUE, !.made = IF st.started THEN @ + 1 ELSE @]
          /\ failed = Done([st EXCEPT !.started = TRUE])
    OBVIOUS
  <1>5. <<next>> \in Seq(AnswerMessages)
    <2>1. st.made < Chunks => (IF st.guest THEN 0 ELSE st.made + 1) \in 0 .. Chunks
      BY <1>3, BoundsAre
    <2>2. next \in AnswerMessages
      BY <1>3, <1>4, <2>1, BoundsAre, AnswerIs DEF AnswerTypes
    <2> QED
      BY <2>2, OneMessage
  <1>6. after \in StreamRecords /\ Named(after)
    <2>1. CASE st.started /\ st.made = Chunks
      <3>1. after = Done(st)
        BY <1>4, <2>1
      <3> QED
        BY <1>2, <2>1, <3>1, DoneIs DEF Named
    <2>2. CASE ~(st.started /\ st.made = Chunks)
      <3>1. PICK k : k = IF st.started THEN st.made + 1 ELSE st.made
        OBVIOUS
      <3>2. k \in 0 .. Chunks
        BY <1>3, <2>2, <3>1, BoundsAre
      <3>3. after = [st EXCEPT !.started = TRUE, !.made = k]
        BY <1>4, <2>2, <3>1
      <3>4. after \in StreamRecords /\ after.id = st.id
        BY <1>2, <3>2, <3>3 DEF StreamRecords
      <3> QED
        BY <1>3, <3>4 DEF Named
    <2> QED
      BY <2>1, <2>2
  <1>7. failed \in StreamRecords /\ Named(failed)
    BY <1>2, <1>4, StartedIs
  <1>8. PICK m : m = Answer("response-error", st.id, r, 0, st.gen)
    OBVIOUS
  <1>9. <<m>> \in Seq(AnswerMessages)
    BY <1>3, <1>8, BoundsAre, AnswerIs, OneMessage DEF AnswerTypes
  <1>10. controlled' \in [Ids -> Requests \cup {0}]
         /\ UNCHANGED <<servers, gens, primary, chan, ready, waits, open, inits, asks>>
    BY DEF LegacyStream, StreamTypes
  <1>11. \/ streams' = [streams EXCEPT ![r] = after] /\ toWorker' = ToWorker(chan, <<next>>)
         \/ streams' = [streams EXCEPT ![r] = failed] /\ toWorker' = ToWorker(chan, <<m>>)
    BY <1>1, <1>4, <1>8 DEF LegacyStream
  <1>12. Streaming
    BY <1>5, <1>9, <1>10, <1>11 DEF Streaming
  <1> QED
    BY <1>6, <1>7, <1>10, <1>11, <1>12, StreamChanged

LEMMA OnStreamStep ==
  ASSUME StreamTypes, LineTypes, NEW m \in StreamMessages, OnStream(m)
  PROVE  StreamTypes' /\ Streaming
  <1>1. PICK r : r = controlled[m.id]
    OBVIOUS
  <1>2. r \in Requests \cup {0}
    BY <1>1 DEF StreamTypes, StreamMessages
  <1>3. CASE r = 0
    <2>1. UNCHANGED <<pageVars, toWorker, open, inits, asks>>
      BY <1>1, <1>3 DEF OnStream
    <2>2. Streaming
      BY <2>1, NoAnswers DEF Streaming, pageVars
    <2>3. StreamTypes'
      BY <2>1 DEF pageVars, StreamTypes, Named
    <2> QED
      BY <2>2, <2>3
  <1>4. CASE r # 0
    <2>1. PICK st : st = streams[r]
      OBVIOUS
    <2>2. r \in Requests /\ st \in StreamRecords /\ Named(st)
      BY <1>2, <1>4, <2>1 DEF StreamTypes
    <2>3. CASE m.type = "stream-pull"
      <3>1. PICK t : t = [st EXCEPT !.credits = @ + 1]
        OBVIOUS
      <3>2. StreamStep(r, Flush(r, t))
        BY <1>1, <1>4, <2>1, <2>3, <3>1 DEF OnStream
      <3>3. t \in StreamRecords /\ t.state = st.state /\ t.id = st.id /\ t.started = st.started
        BY <2>2, <3>1 DEF StreamRecords
      <3>4. Named(t)
        BY <2>2, <3>3 DEF Named
      <3> QED
        BY <2>2, <3>2, <3>3, <3>4, FlushIs, StreamStepIs
    <2>4. CASE m.type # "stream-pull"
      <3>1. StreamStep(r, [st |-> Cancelled(st), msgs |-> << >>])
        BY <1>1, <1>4, <2>1, <2>4 DEF OnStream, Said
      <3> QED
        BY <2>2, <3>1, NoAnswers, CancelledIs, StreamStepIs
    <2> QED
      BY <2>3, <2>4
  <1> QED
    BY <1>3, <1>4

\* A stream's first record
Opened(kind, i, c, g, guest) ==
  [state |-> "open", kind |-> kind, id |-> i, chan |-> c, gen |-> g, started |-> FALSE, made |-> 0,
   queue |-> << >>, credits |-> 0, ended |-> FALSE, paused |-> FALSE, guest |-> guest]

LEMMA OpenedIs ==
  ASSUME NEW kind \in {"controlled", "buffered", "streaming"}, NEW i \in Ids, NEW c \in Channels \cup {0},
         NEW g \in 0 .. MaxGen, NEW guest \in BOOLEAN, NEW st, st = Opened(kind, i, c, g, guest)
  PROVE  /\ st \in StreamRecords /\ Named(st)
         /\ Done([st EXCEPT !.started = TRUE]) \in StreamRecords
         /\ Named(Done([st EXCEPT !.started = TRUE]))
  <1>1. << >> \in Seq(1 .. Chunks) /\ 0 \in 0 .. Chunks
    BY BoundsAre
  <1>2. st \in StreamRecords
    BY <1>1 DEF Opened, StreamRecords
  <1>3. Named(st)
    BY DEF Opened, Named
  <1> QED
    BY <1>2, <1>3, StartedIs

LEMMA RefusalIs ==
  ASSUME NEW type \in AnswerTypes, NEW i \in Ids, NEW r \in Requests
  PROVE  /\ <<Answer(type, i, r, 0, 0)>> \in Seq(AnswerMessages)
         /\ <<Answer("stream-start", i, r, 0, 0), Answer("stream-end", i, r, 0, 0)>> \in Seq(AnswerMessages)
  <1>1. PICK a, b, c : /\ a = Answer(type, i, r, 0, 0) /\ b = Answer("stream-start", i, r, 0, 0)
                       /\ c = Answer("stream-end", i, r, 0, 0)
    OBVIOUS
  <1>2. a \in AnswerMessages /\ b \in AnswerMessages /\ c \in AnswerMessages
    BY <1>1, BoundsAre, AnswerIs DEF AnswerTypes
  <1>3. <<a>> \in Seq(AnswerMessages) /\ <<b, c>> \in Seq(AnswerMessages)
    BY <1>2
  <1> QED
    BY <1>1, <1>3

LEMMA OpenStreamStep ==
  ASSUME PageTypes, LineTypes, NEW m \in RequestMessages, OpenStream(m)
  PROVE  StreamTypes' /\ Streaming
  <1>1. PICK st, refusal, done :
          /\ st = [NoStream EXCEPT !.state = "open", !.kind = "controlled", !.id = m.id,
                                   !.chan = chan, !.gen = servers[m.port]]
          /\ refusal = <<Answer("stream-start", m.id, m.of, 0, 0), Answer("stream-end", m.id, m.of, 0, 0)>>
          /\ done = Done([st EXCEPT !.started = TRUE])
    OBVIOUS
  <1>2. m.id \in Ids /\ m.of \in Requests /\ m.port \in Ports
    BY DEF RequestMessages
  <1>3. servers[m.port] \in 0 .. MaxGen /\ chan \in Channels
    BY <1>2 DEF PageTypes, Serves
  <1>4. st = Opened("controlled", m.id, chan, servers[m.port], FALSE)
    BY <1>1 DEF NoStream, Opened
  <1>5. st \in StreamRecords /\ Named(st) /\ done \in StreamRecords /\ Named(done)
    BY <1>1, <1>2, <1>3, <1>4, OpenedIs
  <1>6. refusal \in Seq(AnswerMessages)
    BY <1>1, <1>2, RefusalIs DEF AnswerTypes
  <1>7. /\ streams' = [streams EXCEPT ![m.of] = IF Held(m.port) THEN st ELSE done]
        /\ controlled' = [controlled EXCEPT ![m.id] = IF Held(m.port) THEN m.of ELSE 0]
        /\ toWorker' = IF Held(m.port) THEN toWorker ELSE ToWorker(chan, refusal)
        /\ UNCHANGED <<servers, gens, primary, chan, ready, waits, open, inits, asks>>
    BY <1>1 DEF OpenStream
  <1>8. Streaming
    BY <1>6, <1>7, NoAnswers DEF Streaming
  <1>9. StreamTypes /\ controlled' \in [Ids -> Requests \cup {0}]
    BY <1>2, <1>7 DEF StreamTypes, PageTypes
  <1>10. PICK t : t = IF Held(m.port) THEN st ELSE done
    OBVIOUS
  <1>11. t \in StreamRecords /\ Named(t) /\ streams' = [streams EXCEPT ![m.of] = t]
    BY <1>5, <1>7, <1>10
  <1> QED
    BY <1>2, <1>8, <1>9, <1>11, StreamChanged

LEMMA OpenLegacyStep ==
  ASSUME PageTypes, LineTypes, NEW m \in RequestMessages, OpenLegacy(m)
  PROVE  StreamTypes' /\ Streaming
  <1>0. PICK guest : guest \in BOOLEAN /\ guest = (m.port \in Guests)
    <2>1. (m.port \in Guests) \in BOOLEAN
      OBVIOUS
    <2> QED
      BY <2>1, Zenon
  <1>1. PICK st, refusal, done :
          /\ st = [NoStream EXCEPT !.state = "open", !.kind = m.kind, !.id = m.id,
                                   !.gen = servers[m.port], !.guest = m.port \in Guests]
          /\ refusal = IF m.kind = "buffered" THEN <<Answer("response", m.id, m.of, 0, 0)>>
                       ELSE <<Answer("stream-start", m.id, m.of, 0, 0), Answer("stream-end", m.id, m.of, 0, 0)>>
          /\ done = Done([st EXCEPT !.started = TRUE])
    OBVIOUS
  <1>2. m.id \in Ids /\ m.of \in Requests /\ m.port \in Ports /\ m.kind \in {"controlled", "buffered", "streaming"}
    BY DEF RequestMessages
  <1>3. servers[m.port] \in 0 .. MaxGen
    BY <1>2 DEF PageTypes, Serves
  <1>5. st = Opened(m.kind, m.id, 0, servers[m.port], guest)
    BY <1>0, <1>1 DEF NoStream, Opened
  <1>6. st \in StreamRecords /\ Named(st) /\ done \in StreamRecords /\ Named(done)
    BY <1>0, <1>1, <1>2, <1>3, <1>5, OpenedIs
  <1>7. refusal \in Seq(AnswerMessages)
    BY <1>1, <1>2, RefusalIs DEF AnswerTypes
  <1>8. /\ streams' = [streams EXCEPT ![m.of] = IF Held(m.port) THEN st ELSE done]
        /\ toWorker' = IF Held(m.port) THEN toWorker ELSE ToWorker(chan, refusal)
        /\ UNCHANGED <<servers, gens, primary, chan, ready, controlled, waits, open, inits, asks>>
    BY <1>1 DEF OpenLegacy
  <1>9. Streaming
    BY <1>7, <1>8, NoAnswers DEF Streaming
  <1>10. StreamTypes /\ controlled' \in [Ids -> Requests \cup {0}]
    BY <1>8 DEF StreamTypes, PageTypes
  <1>11. PICK t : t = IF Held(m.port) THEN st ELSE done
    OBVIOUS
  <1>12. t \in StreamRecords /\ Named(t) /\ streams' = [streams EXCEPT ![m.of] = t]
    BY <1>6, <1>8, <1>11
  <1> QED
    BY <1>2, <1>9, <1>10, <1>12, StreamChanged


----------------------------------------------------------------------------
(* The requests' steps                                                      *)

PostedStages == {"sent", "stuck", "done"}

\* What one step may make of a request.
Moves(q, t) == /\ t \in WorkerRequests /\ Placed(t) /\ t.chan <= chan
               /\ q.stage \in PostedStages => t.stage \in PostedStages

\* No request was captured on a channel that is not opened yet.
Behind == \A r \in Requests : reqs[r].chan <= chan

LEMMA RequestIs ==
  ASSUME NEW q \in WorkerRequests
  PROVE  /\ q.stage \in {"new", "asking", "preparing", "sent", "stuck", "done"}
         /\ q.kind \in {"none", "legacy", "controlled", "buffered", "streaming"}
         /\ q.port \in Ports \cup {0} /\ q.id \in Ids \cup {0} /\ q.chan \in Channels \cup {0}
         /\ q.seen \in 0 .. NoServer /\ q.got \in Seq(Answers) /\ q.stale \in BOOLEAN
         /\ q.headed \in BOOLEAN /\ q.credited \in BOOLEAN
  BY DEF WorkerRequests

\* The requests that were posted: no more than there are requests.
LEMMA PostedIs ==
  ASSUME NEW P, P \subseteq Requests, NEW Q, Q \subseteq Requests, P \subseteq Q
  PROVE  /\ IsFiniteSet(P) /\ Cardinality(P) \in Nat
         /\ IsFiniteSet(Q) /\ Cardinality(Q) \in Nat
         /\ Cardinality(P) <= Cardinality(Q)
         /\ \A r \in Q \ P : Cardinality(P) + 1 <= Cardinality(Q)
         /\ Cardinality(Q) <= Cardinality(Requests)
  <1>1. IsFiniteSet(Requests)
    BY PreviewBounds
  <1>2. IsFiniteSet(Q) /\ Cardinality(Q) <= Cardinality(Requests)
    BY <1>1, FS_Subset
  <1>3. IsFiniteSet(P) /\ Cardinality(P) <= Cardinality(Q)
    BY <1>2, FS_Subset
  <1>4. Cardinality(P) \in Nat /\ Cardinality(Q) \in Nat
    BY <1>2, <1>3, FS_CardinalityType
  <1>5. ASSUME NEW r \in Q \ P PROVE Cardinality(P) + 1 <= Cardinality(Q)
    <2>1. IsFiniteSet(P \cup {r}) /\ Cardinality(P \cup {r}) = Cardinality(P) + 1
      BY <1>3, <1>5, FS_AddElement
    <2>2. Cardinality(P \cup {r}) <= Cardinality(Q)
      BY <1>2, <1>5, FS_Subset
    <2> QED
      BY <2>1, <2>2
  <1> QED
    BY <1>2, <1>3, <1>4, <1>5

LEMMA PostedStay ==
  ASSUME RequestTypes, \A r \in Requests : Moves(reqs[r], reqs'[r])
  PROVE  Posted \subseteq Requests /\ Posted' \subseteq Requests /\ Posted \subseteq Posted'
  BY DEF Posted, Moves, PostedStages

LEMMA RequestsMove ==
  ASSUME RequestTypes, NEW f, f = reqs', DOMAIN f = Requests, f = [r \in Requests |-> f[r]],
         \A r \in Requests : Moves(reqs[r], f[r]), lastId' \in {lastId, 0}, chan \in Channels, chan' = chan
  PROVE  RequestTypes' /\ Behind'
  <1>1. reqs' \in [Requests -> WorkerRequests] /\ \A r \in Requests : Placed(reqs'[r]) /\ reqs'[r].chan <= chan
    BY DEF Moves
  <1>2. Posted \subseteq Requests /\ Posted' \subseteq Requests /\ Posted \subseteq Posted'
    BY PostedStay
  <1>3. PICK P, Q : P = Posted /\ Q = Posted'
    OBVIOUS
  <1>4. Cardinality(P) \in Nat /\ Cardinality(Q) \in Nat /\ Cardinality(P) <= Cardinality(Q)
    BY <1>2, <1>3, PostedIs
  <1>5. lastId' \in Nat /\ lastId' <= Cardinality(Q)
    BY <1>3, <1>4 DEF RequestTypes
  <1>6. \A r \in Requests : Placed(reqs[r])'
    BY <1>1 DEF Placed
  <1>7. RequestTypes'
    BY <1>1, <1>3, <1>5, <1>6 DEF RequestTypes
  <1> QED
    BY <1>1, <1>7 DEF Behind

LEMMA StaysMoves ==
  ASSUME RequestTypes, Behind, NEW r \in Requests
  PROVE  Moves(reqs[r], reqs[r])
  BY DEF RequestTypes, Behind, Moves

LEMMA OverMoves ==
  ASSUME NEW q \in WorkerRequests, NEW result \in {"complete", "failed", "invalid"}, chan \in Channels
  PROVE  Moves(q, Over(q, result)) /\ Over(q, result).result = result /\ Over(q, result).chan = 0
         /\ Over(q, result).stage = "done" /\ Over(q, result).kind = q.kind
  <1>1. PICK seen, got, kind : /\ seen = IF result = "complete" THEN q.seen ELSE 0
                               /\ got = IF result = "complete" THEN q.got ELSE << >>
                               /\ kind = q.kind
    OBVIOUS
  <1>2. seen \in 0 .. NoServer /\ got \in Seq(Answers)
        /\ kind \in {"none", "legacy", "controlled", "buffered", "streaming"}
    BY <1>1, GensAre, RequestIs
  <1>3. PICK t : t = [stage |-> "done", kind |-> kind, port |-> 0, id |-> 0, chan |-> 0,
                      seen |-> seen, stale |-> FALSE, headed |-> FALSE, credited |-> FALSE,
                      got |-> got, result |-> result]
    OBVIOUS
  <1>4. t = Over(q, result)
    <2>1. Over(q, result) = [NewRequest EXCEPT !.stage = "done", !.result = result, !.kind = kind,
                                               !.seen = seen, !.got = got]
      BY <1>1 DEF Over
    <2> QED
      BY <1>3, <2>1 DEF NewRequest
  <1>5. t \in WorkerRequests
    BY <1>2, <1>3 DEF WorkerRequests
  <1>6. 0 <= chan
    BY PreviewBounds DEF Channels
  <1>7. Moves(q, t)
    BY <1>3, <1>5, <1>6 DEF Moves, Placed, PostedStages
  <1> QED
    BY <1>1, <1>3, <1>4, <1>7


LEMMA RequestMoves ==
  ASSUME RequestTypes, Behind, chan \in Channels, chan' = chan, NEW r \in Requests, NEW t,
         Moves(reqs[r], t), reqs' = [reqs EXCEPT ![r] = t], lastId' \in {lastId, 0}
  PROVE  RequestTypes' /\ Behind'
  <1>1. PICK f : f = reqs'
    OBVIOUS
  <1>2. reqs \in [Requests -> WorkerRequests]
    BY DEF RequestTypes
  <1>3. DOMAIN f = Requests /\ f = [q \in Requests |-> f[q]]
    BY <1>1, <1>2
  <1>4. ASSUME NEW q \in Requests PROVE Moves(reqs[q], f[q])
    <2>1. CASE q = r
      BY <1>1, <1>2, <2>1
    <2>2. CASE q # r
      <3>1. f[q] = reqs[q]
        BY <1>1, <1>2, <2>2
      <3> QED
        BY <3>1, StaysMoves
    <2> QED
      BY <2>1, <2>2
  <1> QED
    BY <1>1, <1>3, <1>4, RequestsMove

LEMMA FailedMoves ==
  ASSUME RequestTypes, Behind, chan \in Channels, NEW R, NEW r \in Requests
  PROVE  Moves(reqs[r], Failed(R)[r])
  <1>1. CASE r \in R
    <2>1. Failed(R)[r] = Over(reqs[r], "failed") /\ reqs[r] \in WorkerRequests
      BY <1>1 DEF Failed, RequestTypes
    <2> QED
      BY <2>1, OverMoves
  <1>2. CASE r \notin R
    <2>1. Failed(R)[r] = reqs[r]
      BY <1>2 DEF Failed
    <2> QED
      BY <2>1, StaysMoves
  <1> QED
    BY <1>1, <1>2

LEMMA FailedStep ==
  ASSUME RequestTypes, Behind, chan \in Channels, chan' = chan, NEW R, reqs' = Failed(R),
         lastId' \in {lastId, 0}
  PROVE  RequestTypes' /\ Behind'
  <1>1. PICK f : f = reqs'
    OBVIOUS
  <1>2. DOMAIN f = Requests /\ f = [q \in Requests |-> f[q]]
    BY <1>1 DEF Failed
  <1>3. \A q \in Requests : Moves(reqs[q], f[q])
    BY <1>1, FailedMoves
  <1> QED
    BY <1>1, <1>2, <1>3, RequestsMove

LEMMA StaleStep ==
  ASSUME RequestTypes, Behind, chan \in Channels, chan' = chan, NEW R, NEW S, reqs' = Stale(Failed(R), S),
         lastId' \in {lastId, 0}
  PROVE  RequestTypes' /\ Behind'
  <1>1. PICK f, g : f = reqs' /\ g = Failed(R)
    OBVIOUS
  <1>2. /\ f = [r \in Requests |-> IF r \in S THEN [g[r] EXCEPT !.stale = TRUE] ELSE g[r]]
        /\ DOMAIN f = Requests /\ f = [q \in Requests |-> f[q]]
    BY <1>1 DEF Stale
  <1>3. ASSUME NEW r \in Requests PROVE Moves(reqs[r], f[r])
    <2>1. PICK t, u : t = g[r] /\ u = f[r]
      OBVIOUS
    <2>2. Moves(reqs[r], t)
      BY <1>1, <2>1, FailedMoves
    <2>3. u = t \/ u = [t EXCEPT !.stale = TRUE]
      BY <1>2, <2>1
    <2>4. t \in WorkerRequests
      BY <2>2 DEF Moves
    <2>5. u \in WorkerRequests /\ u.stage = t.stage /\ u.port = t.port /\ u.id = t.id /\ u.chan = t.chan
      BY <2>3, <2>4 DEF WorkerRequests
    <2> QED
      BY <2>1, <2>2, <2>5 DEF Moves, Placed
  <1> QED
    BY <1>1, <1>2, <1>3, RequestsMove

\* What the worker puts on its channels: requests, and no answer to a wait.
Asking == /\ toPage' \in [Channels -> Seq(WorkerMessages)]
          /\ \E c \in 0 .. chan : \E s \in Seq(Requesting) :
               \A d \in Channels : toPage'[d] = IF d = c THEN toPage[d] \o s ELSE toPage[d]

LEMMA AsksNothing ==
  ASSUME LineTypes, chan \in Channels, toPage' = toPage
  PROVE  Asking
  <1>1. << >> \in Seq(Requesting) /\ 0 \in 0 .. chan /\ \A d \in Channels : d # 0
    BY PreviewBounds DEF Channels
  <1>2. \A d \in Channels : toPage'[d] = IF d = 0 THEN toPage[d] \o << >> ELSE toPage[d]
    BY <1>1
  <1> QED
    BY <1>1, <1>2 DEF Asking, LineTypes

LEMMA AsksOn ==
  ASSUME LineTypes, chan \in Channels, NEW c \in Channels \cup {0}, c <= chan, NEW s \in Seq(Requesting),
         toPage' = ToPage(c, s)
  PROVE  Asking
  <1>1. s \in Seq(WorkerMessages)
    BY WiderSeq DEF WorkerMessages
  <1>2. c \in 0 .. chan
    BY PreviewBounds DEF Channels
  <1>3. /\ toPage' \in [Channels -> Seq(WorkerMessages)]
        /\ \A d \in Channels : toPage'[d] = IF d = c THEN toPage[d] \o s ELSE toPage[d]
    BY <1>1, ToPageIs
  <1> QED
    BY <1>2, <1>3 DEF Asking

LEMMA CancelsAre ==
  ASSUME RequestTypes, NEW R, R \subseteq Requests, \A r \in R : reqs[r].stage = "sent"
  PROVE  Cancels(R) \in Seq(Requesting)
  <1>1. IsFiniteSet(R)
    BY PreviewBounds, FS_Subset
  <1>2. PICK order, n : order = SetToSeq(R) /\ n = Len(order)
    OBVIOUS
  <1>3. order \in Seq(R)
    BY <1>1, <1>2, SetToSeqIs
  <1>4. n \in Nat /\ DOMAIN order = 1 .. n /\ \A k \in 1 .. n : order[k] \in R
    BY <1>2, <1>3, LenIs
  <1>5. \A r \in R : StreamCancel(reqs[r].id) \in Requesting
    BY DEF RequestTypes, Placed, StreamCancel, StreamMessages, Requesting
  <1>6. PICK f : f = [k \in 1 .. n |-> StreamCancel(reqs[order[k]].id)]
    OBVIOUS
  <1>7. f \in [1 .. n -> Requesting]
    BY <1>4, <1>5, <1>6
  <1>8. f = Cancels(R)
    BY <1>2, <1>4, <1>6 DEF Cancels
  <1> QED
    BY <1>4, <1>7, <1>8, MadeSeq


\* A request that goes on: its place and its number stay.
LEMMA GoesOn ==
  ASSUME NEW q \in WorkerRequests, Placed(q), q.chan <= chan, q.stage = "sent", NEW t \in WorkerRequests,
         t.stage \in {"sent", "stuck"}, t.port = q.port, t.id = q.id, t.chan = q.chan
  PROVE  Moves(q, t)
  BY DEF Moves, Placed, PostedStages

LEMMA MessageMoves ==
  ASSUME NEW q \in WorkerRequests, Placed(q), q.chan <= chan, q.stage = "sent", chan \in Channels,
         NEW m \in AnswerMessages
  PROVE  Moves(q, Message(q, m))
  <1>1. PICK a, b, g, e, t : /\ a = [of |-> m.of, n |-> m.n, gen |-> m.gen] /\ g = Append(q.got, a)
                             /\ b = [of |-> m.of, n |-> 0, gen |-> m.gen] /\ e = Append(q.got, b)
                             /\ t = Message(q, m)
    OBVIOUS
  <1>2. a \in Answers /\ b \in Answers
    BY <1>1, BoundsAre DEF AnswerMessages, Answers
  <1>3. g \in Seq(Answers) /\ e \in Seq(Answers) /\ q.got \in Seq(Answers) /\ q.headed \in BOOLEAN /\ q.credited \in BOOLEAN
    BY <1>1, <1>2, RequestIs
  <1>4. PICK u : u = [q EXCEPT !.got = e]
    OBVIOUS
  <1>5. u \in WorkerRequests /\ u.stage = q.stage
    BY <1>3, <1>4 DEF WorkerRequests
  <1>6. \/ t = [q EXCEPT !.headed = TRUE] \/ t = [q EXCEPT !.credited = FALSE, !.got = g]
        \/ t = Over(u, "complete") \/ t = Over(q, "failed") \/ t = Over(q, "invalid")
    BY <1>1, <1>4 DEF Message
  <1>7. CASE t = [q EXCEPT !.headed = TRUE]
    <2>1. t \in WorkerRequests /\ t.stage \in {"sent", "stuck"} /\ t.port = q.port /\ t.id = q.id /\ t.chan = q.chan
      BY <1>3, <1>7 DEF WorkerRequests
    <2> QED
      BY <1>1, <2>1, GoesOn
  <1>8. CASE t = [q EXCEPT !.credited = FALSE, !.got = g]
    <2>1. t \in WorkerRequests /\ t.stage \in {"sent", "stuck"} /\ t.port = q.port /\ t.id = q.id /\ t.chan = q.chan
      BY <1>3, <1>8 DEF WorkerRequests
    <2> QED
      BY <1>1, <2>1, GoesOn
  <1>9. CASE t = Over(u, "complete")
    <2>1. Moves(u, t)
      BY <1>5, <1>9, OverMoves
    <2> QED
      BY <1>1, <1>5, <2>1 DEF Moves
  <1>10. CASE t = Over(q, "failed") \/ t = Over(q, "invalid")
    BY <1>1, <1>10, OverMoves
  <1> QED
    BY <1>6, <1>7, <1>8, <1>9, <1>10

LEMMA LegacyMessageMoves ==
  ASSUME NEW q \in WorkerRequests, Placed(q), q.chan <= chan, q.stage = "sent", chan \in Channels,
         NEW m \in AnswerMessages
  PROVE  Moves(q, LegacyMessage(q, m))
  <1>1. PICK a, g, t : /\ a = [of |-> m.of, n |-> m.n, gen |-> m.gen] /\ g = Append(q.got, a)
                       /\ t = LegacyMessage(q, m)
    OBVIOUS
  <1>2. a \in Answers
    BY <1>1, BoundsAre DEF AnswerMessages, Answers
  <1>3. g \in Seq(Answers) /\ q.got \in Seq(Answers) /\ q.headed \in BOOLEAN /\ q.credited \in BOOLEAN
    BY <1>1, <1>2, RequestIs
  <1>4. PICK u : u = [q EXCEPT !.got = g]
    OBVIOUS
  <1>5. u \in WorkerRequests /\ u.stage = q.stage
    BY <1>3, <1>4 DEF WorkerRequests
  <1>6. \/ t = Over(u, "complete") \/ t = Over(q, "failed") \/ t = [q EXCEPT !.stage = "stuck"]
        \/ t = [q EXCEPT !.headed = TRUE] \/ t = q \/ t = u
    BY <1>1, <1>4 DEF LegacyMessage
  <1>7. CASE t = [q EXCEPT !.headed = TRUE]
    <2>1. t \in WorkerRequests /\ t.stage \in {"sent", "stuck"} /\ t.port = q.port /\ t.id = q.id /\ t.chan = q.chan
      BY <1>3, <1>7 DEF WorkerRequests
    <2> QED
      BY <1>1, <2>1, GoesOn
  <1>8. CASE t = [q EXCEPT !.stage = "stuck"]
    <2>1. t \in WorkerRequests /\ t.stage \in {"sent", "stuck"} /\ t.port = q.port /\ t.id = q.id /\ t.chan = q.chan
      BY <1>3, <1>8 DEF WorkerRequests
    <2> QED
      BY <1>1, <2>1, GoesOn
  <1>9. CASE t = Over(u, "complete")
    <2>1. Moves(u, t)
      BY <1>5, <1>9, OverMoves
    <2> QED
      BY <1>1, <1>5, <2>1 DEF Moves
  <1>10. CASE t = Over(q, "failed")
    BY <1>1, <1>10, OverMoves
  <1>11. CASE t = q
    BY <1>1, <1>11 DEF Moves
  <1>12. CASE t = u
    <2>1. t \in WorkerRequests /\ t.stage \in {"sent", "stuck"} /\ t.port = q.port /\ t.id = q.id /\ t.chan = q.chan
      BY <1>3, <1>4, <1>12 DEF WorkerRequests
    <2> QED
      BY <1>1, <2>1, GoesOn
  <1> QED
    BY <1>6, <1>7, <1>8, <1>9, <1>10, <1>11, <1>12

\* What a step of the worker leaves that tells nothing of the page's servers.
Quiet == /\ RequestTypes' /\ Behind' /\ Asking
         /\ asks' \in Nat /\ chan + asks' <= MaxChannel
         /\ UNCHANGED <<host, toWorker, open, inits, pageVars>>

Asks == asks \in Nat /\ chan + asks <= MaxChannel

LEMMA CaptureStep ==
  ASSUME RequestTypes, Behind, chan \in Channels, chan' = chan, host \in Hosts, host.chan <= chan,
         NEW r \in Requests, reqs[r].stage \in {"new", "asking"}, NEW p \in Ports, Capture(r, p), lastId' = lastId
  PROVE  RequestTypes' /\ Behind'
  <1>1. PICK q, seen, kind, c : /\ q = reqs[r] /\ seen = host.flow[p] /\ c = host.chan
                                /\ kind = IF host.flow[p] # 0 THEN "controlled" ELSE "legacy"
    OBVIOUS
  <1>2. seen \in 0 .. NoServer /\ c \in Channels \cup {0} /\ kind \in {"controlled", "legacy"}
    BY <1>1 DEF Hosts
  <1>3. PICK t : t = [q EXCEPT !.stage = "preparing", !.port = p, !.chan = c, !.seen = seen, !.kind = kind]
    OBVIOUS
  <1>4. q \in WorkerRequests
    BY <1>1 DEF RequestTypes
  <1>5. t \in WorkerRequests /\ t.stage = "preparing" /\ t.port = p /\ t.chan = c
    BY <1>2, <1>3, <1>4 DEF WorkerRequests
  <1>6. Moves(q, t)
    BY <1>1, <1>5 DEF Moves, Placed, PostedStages
  <1>7. reqs' = [reqs EXCEPT ![r] = t]
    BY <1>1, <1>3 DEF Capture, RequestTypes
  <1> QED
    BY <1>1, <1>6, <1>7, RequestMoves


\* The numbers never run out: each request is posted once.
LEMMA PostStep ==
  ASSUME RequestTypes, Behind, LineTypes, chan \in Channels, chan' = chan, NEW r \in Requests,
         reqs[r].stage = "preparing", NEW kind \in {"controlled", "buffered", "streaming"}, Post(r, kind)
  PROVE  RequestTypes' /\ Behind' /\ Asking
  <1>1. PICK q, P, i : q = reqs[r] /\ P = Posted /\ i = lastId + 1
    OBVIOUS
  <1>2. q \in WorkerRequests /\ Placed(q) /\ q.stage = "preparing" /\ q.chan <= chan /\ reqs \in [Requests -> WorkerRequests]
        /\ lastId \in Nat /\ lastId <= Cardinality(P)
    BY <1>1 DEF RequestTypes, Behind
  <1>3. P \subseteq Requests /\ r \notin P /\ \A x \in P : reqs[x].stage \in PostedStages
    BY <1>1, <1>2 DEF Posted, PostedStages
  <1>4. /\ Cardinality(P) \in Nat /\ Cardinality(P \cup {r}) \in Nat
        /\ Cardinality(P) + 1 <= Cardinality(P \cup {r}) /\ Cardinality(P \cup {r}) <= Cardinality(Requests)
    <2>1. PICK Q : Q = P \cup {r}
      OBVIOUS
    <2>2. Q \subseteq Requests /\ P \subseteq Q /\ r \in Q \ P
      BY <1>3, <2>1
    <2> QED
      BY <1>3, <2>1, <2>2, PostedIs
  <1>5. Cardinality(Requests) \in Nat
    BY PreviewBounds, FS_CardinalityType
  <1>6. i \in Nat /\ i <= Cardinality(P \cup {r}) /\ i \in 1 .. Cardinality(Requests)
    BY <1>1, <1>2, <1>4, <1>5
  <1>7. i \in Ids
    BY <1>6, PreviewBounds, Zenon DEF Ids
  <1>8. PICK t : t = [q EXCEPT !.stage = "sent", !.id = i, !.kind = kind]
    OBVIOUS
  <1>9. t \in WorkerRequests /\ t.stage = "sent" /\ t.id = i /\ t.port = q.port /\ t.chan = q.chan
    BY <1>2, <1>7, <1>8 DEF WorkerRequests
  <1>10. Moves(q, t)
    BY <1>2, <1>7, <1>9 DEF Moves, Placed, PostedStages
  <1>11. reqs' = [reqs EXCEPT ![r] = t] /\ lastId' = i
    BY <1>1, <1>2, <1>8 DEF Post
  <1>12. \A x \in Requests : reqs'[x] = IF x = r THEN t ELSE reqs[x]
    BY <1>2, <1>11
  <1>13. reqs' \in [Requests -> WorkerRequests]
    BY <1>2, <1>9, <1>11
  <1>14. ASSUME NEW x \in Requests PROVE Placed(reqs'[x]) /\ reqs'[x].chan <= chan
    <2>1. Placed(reqs[x]) /\ reqs[x].chan <= chan
      BY DEF RequestTypes, Behind
    <2>2. Placed(t) /\ t.chan <= chan
      BY <1>10 DEF Moves
    <2> QED
      BY <1>12, <2>1, <2>2
  <1>15. Posted' = P \cup {r}
    <2>1. \A x \in Requests : x # r => reqs'[x].stage = reqs[x].stage
      BY <1>12
    <2>2. reqs'[r].stage = "sent"
      BY <1>9, <1>12
    <2> QED
      BY <1>1, <2>1, <2>2 DEF Posted
  <1>16. RequestTypes' /\ Behind'
    <2>1. \A x \in Requests : Placed(reqs[x])'
      BY <1>14 DEF Placed
    <2>2. RequestTypes'
      BY <1>6, <1>11, <1>13, <1>15, <2>1 DEF RequestTypes
    <2> QED
      BY <1>14, <2>2 DEF Behind
  <1>17. Asking
    <2>1. CASE q.chan \in open
      <3>1. PICK m : m = Request(i, r, q.port, kind)
        OBVIOUS
      <3>2. q.port \in Ports
        BY <1>2 DEF Placed
      <3>3. m \in Requesting
        BY <1>7, <3>1, <3>2 DEF Request, RequestMessages, Requesting
      <3>4. toPage' = ToPage(q.chan, <<m>>)
        BY <1>1, <2>1, <3>1 DEF Post
      <3>5. q.chan \in Channels
        BY <2>1 DEF LineTypes
      <3> QED
        BY <1>2, <3>3, <3>4, <3>5, AsksOn, OneMessage
    <2>2. CASE q.chan \notin open
      <3>1. toPage' = toPage
        BY <1>1, <2>2 DEF Post
      <3> QED
        BY <3>1, AsksNothing
    <2> QED
      BY <2>1, <2>2
  <1> QED
    BY <1>16, <1>17

\* The worker's state, and that the page has a channel left for every call of reinit.
WorkerWell == /\ RequestTypes /\ Behind /\ LineTypes /\ chan \in Channels /\ host \in Hosts
              /\ host.chan <= chan /\ chan + asks <= MaxChannel

LEMMA AskingMoves ==
  ASSUME NEW q \in WorkerRequests, q.chan <= chan, q.stage = "new", NEW p \in Ports
  PROVE  Moves(q, [q EXCEPT !.stage = "asking", !.port = p])
  <1>1. PICK t : t = [q EXCEPT !.stage = "asking", !.port = p]
    OBVIOUS
  <1>2. t \in WorkerRequests /\ t.stage = "asking" /\ t.port = p /\ t.chan = q.chan
    BY <1>1 DEF WorkerRequests
  <1> QED
    BY <1>1, <1>2 DEF Moves, Placed, PostedStages

LEMMA BeginQuiet ==
  ASSUME WorkerWell, NEW r \in Requests, Begin(r), UNCHANGED pageVars
  PROVE  Quiet
  <1> USE DEF WorkerWell
  <1>1. PICK p \in Ports : Fetch(r, p) /\ (host.chan = 0 => ChannelLeft)
    BY DEF Begin
  <1>2. chan' = chan /\ lastId' = lastId /\ UNCHANGED <<host, toWorker, toPage, open, inits>>
        /\ reqs[r].stage = "new"
    BY <1>1 DEF Fetch, pageVars
  <1>3. Asking
    BY <1>2, AsksNothing
  <1>4. CASE host.chan # 0
    <2>1. Capture(r, p) /\ asks' = asks
      BY <1>1, <1>4 DEF Fetch
    <2>2. RequestTypes' /\ Behind'
      BY <1>2, <2>1, CaptureStep
    <2> QED
      BY <1>2, <1>3, <2>1, <2>2 DEF Quiet, LineTypes
  <1>5. CASE host.chan = 0
    <2>1. PICK q, t : q = reqs[r] /\ t = [q EXCEPT !.stage = "asking", !.port = p]
      OBVIOUS
    <2>2. reqs' = [reqs EXCEPT ![r] = t] /\ asks' = asks + 1
      BY <1>1, <1>5, <2>1 DEF Fetch, RequestTypes
    <2>3. q \in WorkerRequests /\ q.chan <= chan
      BY <2>1 DEF RequestTypes, Behind
    <2>5. Moves(q, t)
      BY <1>1, <1>2, <2>1, <2>3, AskingMoves
    <2>6. RequestTypes' /\ Behind'
      BY <1>2, <2>1, <2>2, <2>5, RequestMoves
    <2>7. asks' \in Nat /\ chan + asks' <= MaxChannel
      <3>1. chan \in Nat /\ asks \in Nat /\ MaxChannel \in Nat /\ chan + asks < MaxChannel
        BY <1>1, <1>5, BoundsAre DEF ChannelLeft, Channels, LineTypes
      <3> QED
        BY <2>2, <3>1
    <2> QED
      BY <1>2, <1>3, <2>6, <2>7 DEF Quiet
  <1> QED
    BY <1>4, <1>5

LEMMA HostFoundQuiet ==
  ASSUME WorkerWell, NEW r \in Requests, HostFound(r), UNCHANGED pageVars
  PROVE  Quiet
  <1> USE DEF WorkerWell
  <1>1. chan' = chan /\ lastId' = lastId /\ UNCHANGED <<host, toWorker, toPage, open, inits, asks>>
        /\ reqs[r].stage = "asking" /\ Capture(r, reqs[r].port)
    BY DEF HostFound, pageVars, channelVars
  <1>2. reqs[r].port \in Ports
    BY <1>1 DEF RequestTypes, Placed
  <1>3. RequestTypes' /\ Behind'
    BY <1>1, <1>2, CaptureStep
  <1> QED
    BY <1>1, <1>3, AsksNothing DEF Quiet, LineTypes

\* A request that ends without a word to the page.
LEMMA FailedQuiet ==
  ASSUME WorkerWell, NEW R, reqs' = Failed(R), UNCHANGED <<host, lastId, channelVars>>, UNCHANGED pageVars
  PROVE  Quiet
  <1> USE DEF WorkerWell
  <1>1. chan' = chan /\ lastId' = lastId /\ UNCHANGED <<host, toWorker, toPage, open, inits, asks>>
    BY DEF pageVars, channelVars
  <1>2. RequestTypes' /\ Behind'
    BY <1>1, FailedStep
  <1> QED
    BY <1>1, <1>2, AsksNothing DEF Quiet, LineTypes

LEMMA SendQuiet ==
  ASSUME WorkerWell, NEW r \in Requests, Send(r), UNCHANGED pageVars
  PROVE  Quiet
  <1> USE DEF WorkerWell
  <1>1. \/ \E kind \in {"controlled", "buffered", "streaming"} : Post(r, kind)
        \/ reqs' = Failed({r}) /\ UNCHANGED <<host, lastId, channelVars>>
    BY DEF Send, SendRequest, SendStreamingRequest, SendControlledRequest
  <1>2. ASSUME NEW kind \in {"controlled", "buffered", "streaming"}, Post(r, kind) PROVE Quiet
    <2>1. chan' = chan /\ reqs[r].stage = "preparing"
      BY DEF pageVars, Send
    <2>2. RequestTypes' /\ Behind' /\ Asking
      BY <1>2, <2>1, PostStep
    <2> QED
      BY <1>2, <2>2 DEF Post, Quiet, LineTypes
  <1> QED
    BY <1>1, <1>2, FailedQuiet

LEMMA CancelledRequest ==
  ASSUME WorkerWell, NEW r \in Requests, Controlled(r), toPage' = ToPage(reqs[r].chan, Cancels({r}))
  PROVE  Asking
  <1> USE DEF WorkerWell
  <1>1. Cancels({r}) \in Seq(Requesting)
    <2>1. {r} \subseteq Requests /\ \A x \in {r} : reqs[x].stage = "sent"
      BY DEF Controlled
    <2> QED
      BY <2>1, CancelsAre
  <1>2. reqs[r].chan \in Channels \cup {0} /\ reqs[r].chan <= chan
    BY RequestIs DEF RequestTypes, Behind
  <1> QED
    BY <1>1, <1>2, AsksOn

LEMMA HeaderTimeoutQuiet ==
  ASSUME WorkerWell, NEW r \in Requests, HeaderTimeout(r), UNCHANGED pageVars
  PROVE  Quiet
  <1> USE DEF WorkerWell
  <1>1. chan' = chan /\ lastId' = lastId /\ UNCHANGED <<host, toWorker, open, inits, asks>>
        /\ reqs' = Failed({r})
    BY DEF HeaderTimeout, pageVars
  <1>2. Asking
    BY CancelledRequest DEF HeaderTimeout
  <1>3. RequestTypes' /\ Behind'
    BY <1>1, FailedStep
  <1> QED
    BY <1>1, <1>2, <1>3 DEF Quiet, LineTypes

LEMMA PullQuiet ==
  ASSUME WorkerWell, NEW r \in Requests, Pull(r), UNCHANGED pageVars
  PROVE  Quiet
  <1> USE DEF WorkerWell
  <1>1. chan' = chan /\ lastId' = lastId /\ UNCHANGED <<host, toWorker, open, inits, asks>>
    BY DEF Pull, pageVars
  <1>2. PICK q, t, m : q = reqs[r] /\ t = [q EXCEPT !.credited = TRUE] /\ m = StreamPull(reqs[r].id)
    OBVIOUS
  <1>3. q \in WorkerRequests /\ Placed(q) /\ q.chan <= chan /\ q.stage = "sent"
    BY <1>2 DEF Pull, Controlled, RequestTypes, Behind
  <1>4. t \in WorkerRequests /\ t.stage = "sent" /\ t.port = q.port /\ t.id = q.id /\ t.chan = q.chan
    BY <1>2, <1>3 DEF WorkerRequests
  <1>5. reqs' = [reqs EXCEPT ![r] = t]
    BY <1>2 DEF Pull, RequestTypes
  <1>6. RequestTypes' /\ Behind'
    BY <1>1, <1>2, <1>3, <1>4, <1>5, GoesOn, RequestMoves
  <1>7. m \in Requesting
    BY <1>2, <1>3 DEF StreamPull, Requesting, StreamMessages, Placed
  <1>8. Asking
    <2>1. toPage' = ToPage(q.chan, <<m>>) /\ q.chan \in Channels \cup {0}
      BY <1>2, <1>3, RequestIs DEF Pull
    <2> QED
      BY <1>3, <1>7, <2>1, AsksOn, OneMessage
  <1> QED
    BY <1>1, <1>6, <1>8 DEF Quiet, LineTypes

LEMMA CancelQuiet ==
  ASSUME WorkerWell, NEW r \in Requests, Cancel(r), UNCHANGED pageVars
  PROVE  Quiet
  <1> USE DEF WorkerWell
  <1>1. chan' = chan /\ lastId' = lastId /\ UNCHANGED <<host, toWorker, open, inits, asks>>
    BY DEF Cancel, pageVars
  <1>2. PICK q, t : q = reqs[r] /\ t = Over(q, "failed")
    OBVIOUS
  <1>3. q \in WorkerRequests
    BY <1>2 DEF RequestTypes
  <1>4. reqs' = [reqs EXCEPT ![r] = t]
    BY <1>2 DEF Cancel, RequestTypes
  <1>5. RequestTypes' /\ Behind'
    BY <1>1, <1>2, <1>3, <1>4, OverMoves, RequestMoves
  <1>6. Asking
    <2>1. CASE Controlled(r)
      BY <2>1, CancelledRequest DEF Cancel
    <2>2. CASE ~Controlled(r)
      BY <2>2, AsksNothing DEF Cancel
    <2> QED
      BY <2>1, <2>2
  <1> QED
    BY <1>1, <1>5, <1>6 DEF Quiet, LineTypes

\* All the steps of a request that no message of the page's begins.
LEMMA RequestQuiet ==
  ASSUME WorkerWell, NEW r \in Requests, UNCHANGED pageVars,
         Begin(r) \/ HostFound(r) \/ PrepareFails(r) \/ Send(r) \/ ReaderStep(r) \/ Timeout(r)
  PROVE  Quiet
  <1>1. PrepareFails(r) \/ AskTimeout(r) \/ RequestTimeout(r) => Quiet
    BY FailedQuiet DEF PrepareFails, AskTimeout, RequestTimeout
  <1> QED
    BY <1>1, BeginQuiet, HostFoundQuiet, SendQuiet, PullQuiet, CancelQuiet, HeaderTimeoutQuiet
    DEF ReaderStep, Timeout


----------------------------------------------------------------------------
(* A wait for a mapping, and the messages about it                          *)

\* A message that leaves a worker that serves p at the root at that.
Keeps(m, p) == /\ m.type = "server-registered" => (m.primary <=> m.port = p)
               /\ m.type = "server-unregistered" => m.port # p
KeepAll(s, p) == \A k \in 1 .. Len(s) : Keeps(s[k], p)

\* The worker h serves p at the root, and will when it has taken s.
Sure(h, s, p) == h.primary = p /\ p \in h.ports /\ KeepAll(s, p)

\* A check of the waits ws on its way in s: of a wait that was made, and if that one still
\* waits, of its port, with nothing behind it that would take the port from the root.
Checked(s, ws) ==
  \A k \in 1 .. Len(s) : s[k].type = "port-mapping-check" =>
    /\ ws[s[k].wait].state # "idle"
    /\ ws[s[k].wait].state = "asked" =>
         /\ s[k].port = ws[s[k].wait].port
         /\ \A j \in k + 1 .. Len(s) : Keeps(s[j], ws[s[k].wait].port)

\* An answer of channel c on its way in u, to a wait that still waits: if it says yes the
\* worker h, with s still to take, is sure of it.
Confirmed(u, ws, h, s, c) ==
  \A k \in 1 .. Len(u) : u[k].type = "port-mapping-ready" =>
    /\ ws[u[k].wait].state # "idle"
    /\ ws[u[k].wait].state = "asked" /\ u[k].registered /\ u[k].primary /\ h.chan = c
         => Sure(h, s, ws[u[k].wait].port)

\* Waits only end; those that are not made yet may be.
Later(ws, xs) ==
  \A w \in Waits : ws[w].state # "idle" =>
    xs[w].state # "idle" /\ (xs[w].state = "asked" => ws[w].state = "asked" /\ xs[w].port = ws[w].port)

LEMMA KeepsJoin ==
  ASSUME NEW s \in Seq(PageMessages), NEW t \in Seq(PageMessages), NEW p, KeepAll(s, p), KeepAll(t, p)
  PROVE  KeepAll(s \o t, p)
  <1>1. PICK m, n, u : m = Len(s) /\ n = Len(t) /\ u = s \o t
    OBVIOUS
  <1>2. /\ m \in Nat /\ n \in Nat /\ Len(u) = m + n
        /\ \A i \in 1 .. m : u[i] = s[i]
        /\ \A i \in 1 .. n : u[m + i] = t[i]
    BY <1>1, JoinIs, LenIs
  <1>3. ASSUME NEW i \in 1 .. m + n PROVE Keeps(u[i], p)
    <2>1. CASE i \in 1 .. m
      BY <1>1, <1>2, <2>1 DEF KeepAll
    <2>2. CASE i - m \in 1 .. n /\ i = m + (i - m)
      <3>1. PICK j \in 1 .. n : i = m + j
        BY <2>2
      <3> QED
        BY <1>1, <1>2, <3>1 DEF KeepAll
    <2> QED
      BY <1>2, <2>1, <2>2, JoinPlaces
  <1> QED
    BY <1>1, <1>2, <1>3 DEF KeepAll

LEMMA KeepsTail ==
  ASSUME NEW s \in Seq(PageMessages), s # << >>, NEW p, KeepAll(s, p)
  PROVE  KeepAll(Tail(s), p) /\ Keeps(Head(s), p)
  <1>1. PICK n, t : n = Len(s) - 1 /\ t = Tail(s)
    OBVIOUS
  <1>2. /\ n \in Nat /\ Len(s) = n + 1 /\ Len(t) = n /\ Head(s) = s[1]
        /\ \A i \in 1 .. n : t[i] = s[i + 1] /\ i + 1 \in 1 .. n + 1
    BY <1>1, TailIs
  <1>3. \A i \in 1 .. n : Keeps(t[i], p)
    BY <1>2 DEF KeepAll
  <1>4. Keeps(s[1], p)
    BY <1>2 DEF KeepAll
  <1> QED
    BY <1>1, <1>2, <1>3, <1>4 DEF KeepAll

LEMMA OthersKeep ==
  ASSUME NEW m \in Others, NEW p
  PROVE  Keeps(m, p)
  BY DEF Others, Checks, AnswerMessages, AnswerTypes, Keeps

LEMMA OthersKeepAll ==
  ASSUME NEW s \in Seq(Others), NEW p
  PROVE  KeepAll(s, p) /\ s \in Seq(PageMessages)
  <1>1. \A k \in 1 .. Len(s) : s[k] \in Others
    BY LenIs
  <1>2. s \in Seq(PageMessages)
    BY WiderSeq DEF PageMessages
  <1> QED
    BY <1>1, <1>2, OthersKeep DEF KeepAll

\* A worker that is sure stays so as it takes what it was sent.
LEMMA SureTakes ==
  ASSUME NEW h \in Hosts, NEW s \in Seq(PageMessages), s # << >>, NEW p \in Ports, Sure(h, s, p)
  PROVE  Sure(Apply(h, Head(s)), Tail(s), p)
  <1>1. PICK m : m = Head(s)
    OBVIOUS
  <1>2. KeepAll(Tail(s), p) /\ Keeps(m, p) /\ m \in PageMessages
    BY <1>1, KeepsTail, TailIs DEF Sure
  <1>3. PICK g : g = Apply(h, m)
    OBVIOUS
  <1>4. CASE m \in Registrations
    <2>1. m.type = "server-registered" /\ g = Registers(h, m)
      BY <1>3, <1>4 DEF Registrations, Apply
    <2>2. m.primary <=> m.port = p
      BY <1>2, <2>1 DEF Keeps
    <2>3. g.primary = (IF m.primary THEN m.port ELSE IF h.primary = m.port THEN 0 ELSE h.primary)
          /\ g.ports = h.ports \cup {m.port}
      BY <2>1 DEF Registers
    <2>4. g.primary = p /\ p \in g.ports
      BY <2>2, <2>3 DEF Sure
    <2> QED
      BY <1>1, <1>2, <1>3, <2>4 DEF Sure
  <1>5. CASE m \in Removals
    <2>1. m.type = "server-unregistered" /\ g = Removes(h, m)
      BY <1>3, <1>5 DEF Removals, Apply
    <2>2. m.port # p
      BY <1>2, <2>1 DEF Keeps
    <2>3. g.primary = (IF h.primary = m.port THEN 0 ELSE h.primary) /\ g.ports = h.ports \ {m.port}
      BY <2>1 DEF Removes
    <2>4. g.primary = p /\ p \in g.ports
      BY <2>2, <2>3 DEF Sure
    <2> QED
      BY <1>1, <1>2, <1>3, <2>4 DEF Sure
  <1>6. CASE m \in Others
    <2>1. g = h
      BY <1>3, <1>6, OthersApply
    <2> QED
      BY <1>1, <1>2, <1>3, <2>1 DEF Sure
  <1> QED
    BY <1>2, <1>4, <1>5, <1>6 DEF PageMessages

LEMMA CheckedTail ==
  ASSUME NEW s \in Seq(PageMessages), s # << >>, NEW ws, Checked(s, ws)
  PROVE  Checked(Tail(s), ws)
  <1>1. PICK n, t : n = Len(s) - 1 /\ t = Tail(s)
    OBVIOUS
  <1>2. /\ n \in Nat /\ Len(s) = n + 1 /\ Len(t) = n
        /\ \A i \in 1 .. n : t[i] = s[i + 1]
    BY <1>1, TailIs
  <1>3. ASSUME NEW k \in 1 .. n, t[k].type = "port-mapping-check"
        PROVE  /\ ws[t[k].wait].state # "idle"
               /\ ws[t[k].wait].state = "asked" =>
                    /\ t[k].port = ws[t[k].wait].port
                    /\ \A j \in k + 1 .. n : Keeps(t[j], ws[t[k].wait].port)
    <2>1. k + 1 \in 1 .. n + 1 /\ t[k] = s[k + 1]
      BY <1>2
    <2>2. \A j \in k + 1 .. n : t[j] = s[j + 1] /\ j + 1 \in (k + 1) + 1 .. n + 1
      BY <1>2
    <2> QED
      BY <1>2, <1>3, <2>1, <2>2 DEF Checked
  <1> QED
    BY <1>1, <1>2, <1>3 DEF Checked

LEMMA CheckedJoin ==
  ASSUME NEW s \in Seq(PageMessages), NEW t \in Seq(PageMessages), NEW ws, NEW xs,
         Checked(s, ws), Checked(t, xs), Later(ws, xs),
         \A w \in Waits : ws[w].state # "idle" /\ xs[w].state = "asked" => KeepAll(t, xs[w].port)
  PROVE  Checked(s \o t, xs)
  <1>1. PICK m, n, u : m = Len(s) /\ n = Len(t) /\ u = s \o t
    OBVIOUS
  <1>2. /\ m \in Nat /\ n \in Nat /\ Len(u) = m + n
        /\ \A i \in 1 .. m : u[i] = s[i]
        /\ \A i \in 1 .. n : u[m + i] = t[i]
    BY <1>1, JoinIs, LenIs
  <1>3. ASSUME NEW k \in 1 .. m + n, u[k].type = "port-mapping-check"
        PROVE  /\ xs[u[k].wait].state # "idle"
               /\ xs[u[k].wait].state = "asked" =>
                    /\ u[k].port = xs[u[k].wait].port
                    /\ \A j \in k + 1 .. m + n : Keeps(u[j], xs[u[k].wait].port)
    <2>1. CASE k \in 1 .. m
      <3>1. PICK c, w : c = s[k] /\ w = c.wait
        OBVIOUS
      <3>2. u[k] = c /\ c \in PageMessages
        BY <1>1, <1>2, <2>1, <3>1, LenIs
      <3>3. w \in Waits
        BY <1>3, <3>1, <3>2, PageMessageIs DEF Checks
      <3>4. /\ ws[w].state # "idle"
            /\ ws[w].state = "asked" =>
                 c.port = ws[w].port /\ \A j \in k + 1 .. m : Keeps(s[j], ws[w].port)
        BY <1>1, <1>3, <2>1, <3>1, <3>2 DEF Checked
      <3>5. xs[w].state # "idle" /\ (xs[w].state = "asked" => ws[w].state = "asked" /\ xs[w].port = ws[w].port)
        BY <3>3, <3>4 DEF Later
      <3>6. ASSUME xs[w].state = "asked", NEW j \in k + 1 .. m + n PROVE Keeps(u[j], xs[w].port)
        <4>1. CASE j \in k + 1 .. m
          <5>1. u[j] = s[j]
            BY <1>2, <2>1, <4>1
          <5> QED
            BY <3>4, <3>5, <3>6, <4>1, <5>1
        <4>2. CASE j \notin k + 1 .. m
          <5>1. j - m \in 1 .. n /\ j = m + (j - m)
            BY <1>2, <2>1, <4>2
          <5>2. PICK i \in 1 .. n : j = m + i
            BY <5>1
          <5>3. KeepAll(t, xs[w].port)
            BY <3>3, <3>4, <3>6
          <5> QED
            BY <1>1, <1>2, <5>2, <5>3 DEF KeepAll
        <4> QED
          BY <4>1, <4>2
      <3> QED
        BY <3>1, <3>2, <3>4, <3>5, <3>6
    <2>2. CASE k - m \in 1 .. n /\ k = m + (k - m)
      <3>1. PICK i \in 1 .. n : k = m + i
        BY <2>2
      <3>2. PICK c, w : c = t[i] /\ w = c.wait
        OBVIOUS
      <3>3. u[k] = c
        BY <1>2, <3>1, <3>2
      <3>4. /\ xs[w].state # "idle"
            /\ xs[w].state = "asked" =>
                 c.port = xs[w].port /\ \A j \in i + 1 .. n : Keeps(t[j], xs[w].port)
        BY <1>1, <1>3, <3>1, <3>2, <3>3 DEF Checked
      <3>5. ASSUME xs[w].state = "asked", NEW j \in k + 1 .. m + n PROVE Keeps(u[j], xs[w].port)
        <4>1. j - m \in i + 1 .. n /\ j - m \in 1 .. n /\ j = m + (j - m)
          BY <1>2, <3>1
        <4>2. PICK l : l = j - m
          OBVIOUS
        <4>3. l \in i + 1 .. n /\ l \in 1 .. n /\ u[j] = t[l]
          BY <1>2, <4>1, <4>2
        <4> QED
          BY <3>4, <3>5, <4>3
      <3> QED
        BY <3>2, <3>3, <3>4, <3>5
    <2> QED
      BY <1>2, <2>1, <2>2, JoinPlaces
  <1> QED
    BY <1>1, <1>2, <1>3 DEF Checked


\* Messages that are no checks.
LEMMA Unchecked ==
  ASSUME NEW s \in Seq(Registrations \cup Removals \cup AnswerMessages), NEW ws
  PROVE  Checked(s, ws)
  <1>1. \A k \in 1 .. Len(s) : s[k] \in Registrations \cup Removals \cup AnswerMessages
    BY LenIs
  <1>2. \A m \in Registrations \cup Removals \cup AnswerMessages : m.type # "port-mapping-check"
    BY DEF Registrations, Removals, AnswerMessages, AnswerTypes
  <1> QED
    BY <1>1, <1>2 DEF Checked

LEMMA CheckedLater ==
  ASSUME NEW s \in Seq(PageMessages), NEW ws, NEW xs, Checked(s, ws), Later(ws, xs)
  PROVE  Checked(s, xs)
  <1>1. ASSUME NEW k \in 1 .. Len(s), s[k].type = "port-mapping-check"
        PROVE  /\ xs[s[k].wait].state # "idle"
               /\ xs[s[k].wait].state = "asked" =>
                    /\ s[k].port = xs[s[k].wait].port
                    /\ \A j \in k + 1 .. Len(s) : Keeps(s[j], xs[s[k].wait].port)
    <2>1. PICK c, w : c = s[k] /\ w = c.wait
      OBVIOUS
    <2>2. c \in PageMessages
      BY <2>1, LenIs
    <2>3. w \in Waits
      BY <1>1, <2>1, <2>2, PageMessageIs DEF Checks
    <2>4. /\ ws[w].state # "idle"
          /\ ws[w].state = "asked" =>
               c.port = ws[w].port /\ \A j \in k + 1 .. Len(s) : Keeps(s[j], ws[w].port)
      BY <1>1, <2>1 DEF Checked
    <2>5. xs[w].state # "idle" /\ (xs[w].state = "asked" => ws[w].state = "asked" /\ xs[w].port = ws[w].port)
      BY <2>3, <2>4 DEF Later
    <2> QED
      BY <2>1, <2>4, <2>5
  <1> QED
    BY <1>1 DEF Checked

\* The answers on their way stay true while the worker stays sure.
LEMMA ConfirmedLater ==
  ASSUME NEW u \in Seq(WorkerMessages), NEW ws, NEW xs, NEW h, NEW g, NEW s, NEW t, NEW c,
         Confirmed(u, ws, h, s, c), Later(ws, xs),
         \A w \in Waits : ws[w].state = "asked" /\ xs[w].state = "asked" /\ g.chan = c
            => h.chan = c /\ (Sure(h, s, xs[w].port) => Sure(g, t, xs[w].port))
  PROVE  Confirmed(u, xs, g, t, c)
  <1>1. ASSUME NEW k \in 1 .. Len(u), u[k].type = "port-mapping-ready"
        PROVE  /\ xs[u[k].wait].state # "idle"
               /\ xs[u[k].wait].state = "asked" /\ u[k].registered /\ u[k].primary /\ g.chan = c
                    => Sure(g, t, xs[u[k].wait].port)
    <2>1. PICK m, w : m = u[k] /\ w = m.wait
      OBVIOUS
    <2>2. m \in WorkerMessages
      BY <2>1, LenIs
    <2>3. w \in Waits
      BY <1>1, <2>1, <2>2, WorkerMessageIs DEF Readies
    <2>4. /\ ws[w].state # "idle"
          /\ ws[w].state = "asked" /\ m.registered /\ m.primary /\ h.chan = c => Sure(h, s, ws[w].port)
      BY <1>1, <2>1 DEF Confirmed
    <2>5. xs[w].state # "idle" /\ (xs[w].state = "asked" => ws[w].state = "asked" /\ xs[w].port = ws[w].port)
      BY <2>3, <2>4 DEF Later
    <2> QED
      BY <2>1, <2>3, <2>4, <2>5
  <1> QED
    BY <1>1 DEF Confirmed

LEMMA ConfirmedTail ==
  ASSUME NEW u \in Seq(WorkerMessages), u # << >>, NEW ws, NEW h, NEW s, NEW c, Confirmed(u, ws, h, s, c)
  PROVE  Confirmed(Tail(u), ws, h, s, c)
  <1>1. PICK n, v : n = Len(u) - 1 /\ v = Tail(u)
    OBVIOUS
  <1>2. n \in Nat /\ Len(u) = n + 1 /\ Len(v) = n /\ \A i \in 1 .. n : v[i] = u[i + 1] /\ i + 1 \in 1 .. n + 1
    BY <1>1, TailIs
  <1> QED
    BY <1>1, <1>2 DEF Confirmed

LEMMA ConfirmedJoin ==
  ASSUME NEW u \in Seq(WorkerMessages), NEW v \in Seq(WorkerMessages), NEW ws, NEW h, NEW s, NEW c,
         Confirmed(u, ws, h, s, c), Confirmed(v, ws, h, s, c)
  PROVE  Confirmed(u \o v, ws, h, s, c)
  <1>1. PICK m, n, x : m = Len(u) /\ n = Len(v) /\ x = u \o v
    OBVIOUS
  <1>2. /\ m \in Nat /\ n \in Nat /\ Len(x) = m + n
        /\ \A i \in 1 .. m : x[i] = u[i]
        /\ \A i \in 1 .. n : x[m + i] = v[i]
    BY <1>1, JoinIs, LenIs
  <1>3. ASSUME NEW k \in 1 .. m + n, x[k].type = "port-mapping-ready"
        PROVE  /\ ws[x[k].wait].state # "idle"
               /\ ws[x[k].wait].state = "asked" /\ x[k].registered /\ x[k].primary /\ h.chan = c
                    => Sure(h, s, ws[x[k].wait].port)
    <2>1. CASE k \in 1 .. m
      BY <1>1, <1>2, <1>3, <2>1 DEF Confirmed
    <2>2. CASE k - m \in 1 .. n /\ k = m + (k - m)
      <3>1. PICK i \in 1 .. n : k = m + i
        BY <2>2
      <3> QED
        BY <1>1, <1>2, <1>3, <3>1 DEF Confirmed
    <2> QED
      BY <1>2, <2>1, <2>2, JoinPlaces
  <1> QED
    BY <1>1, <1>2, <1>3 DEF Confirmed

LEMMA Unconfirmed ==
  ASSUME NEW v \in Seq(Requesting), NEW ws, NEW h, NEW s, NEW c
  PROVE  Confirmed(v, ws, h, s, c) /\ \A k \in 1 .. Len(v) : v[k].type # "port-mapping-ready"
  <1>1. \A k \in 1 .. Len(v) : v[k] \in Requesting
    BY LenIs
  <1>2. \A m \in Requesting : m.type # "port-mapping-ready"
    BY DEF Requesting, RequestMessages, StreamMessages
  <1> QED
    BY <1>1, <1>2 DEF Confirmed

\* No answer of a worker on its way to the page
NoReady(u) == \A k \in 1 .. Len(u) : u[k].type # "port-mapping-ready"

LEMMA NoReadyJoin ==
  ASSUME NEW u \in Seq(WorkerMessages), NEW v \in Seq(WorkerMessages), NoReady(u), NoReady(v)
  PROVE  NoReady(u \o v)
  <1>1. PICK m, n, x : m = Len(u) /\ n = Len(v) /\ x = u \o v
    OBVIOUS
  <1>2. /\ m \in Nat /\ n \in Nat /\ Len(x) = m + n
        /\ \A i \in 1 .. m : x[i] = u[i]
        /\ \A i \in 1 .. n : x[m + i] = v[i]
    BY <1>1, JoinIs, LenIs
  <1>3. ASSUME NEW k \in 1 .. m + n PROVE x[k].type # "port-mapping-ready"
    <2>1. CASE k \in 1 .. m
      BY <1>1, <1>2, <2>1 DEF NoReady
    <2>2. CASE k - m \in 1 .. n /\ k = m + (k - m)
      <3>1. PICK i \in 1 .. n : k = m + i
        BY <2>2
      <3> QED
        BY <1>1, <1>2, <3>1 DEF NoReady
    <2> QED
      BY <1>2, <2>1, <2>2, JoinPlaces
  <1> QED
    BY <1>1, <1>2, <1>3 DEF NoReady

LEMMA NoReadyTail ==
  ASSUME NEW u \in Seq(WorkerMessages), u # << >>, NoReady(u)
  PROVE  NoReady(Tail(u))
  <1>1. PICK n, v : n = Len(u) - 1 /\ v = Tail(u)
    OBVIOUS
  <1>2. n \in Nat /\ Len(u) = n + 1 /\ Len(v) = n /\ \A i \in 1 .. n : v[i] = u[i + 1] /\ i + 1 \in 1 .. n + 1
    BY <1>1, TailIs
  <1> QED
    BY <1>1, <1>2 DEF NoReady


----------------------------------------------------------------------------
(* The invariant                                                            *)

\* The page's latest introduction is on its way.
Coming == \E i \in 1 .. Len(inits) : inits[i] = chan

\* Channels are opened and introduced in turn, and one that is not yet opened is empty.
Lines == /\ chan + asks <= MaxChannel /\ open \subseteq 1 .. chan
         /\ host.chan <= chan /\ (host.chan # 0 => host.chan \in open)
         /\ \A i \in 1 .. Len(inits) : host.chan < inits[i] /\ inits[i] <= chan /\ inits[i] \in open
         /\ \A i, j \in 1 .. Len(inits) : i < j => inits[i] < inits[j]
         /\ \A c \in Channels : c > chan => toWorker[c] = << >> /\ toPage[c] = << >>
         /\ Behind

\* What a worker of the page's channel knows, or will know first.
Known == IF host.chan = chan THEN host ELSE Blank(chan)

\* The table e is one the page would have the worker know: its servers, once it announced them.
Tells(e, r, c, sv, pr) == IF r THEN Fits(e, c, sv, pr) ELSE e = Blank(c)

\* What is on its way to the worker brings it to such a table.
Announced ==
  host.chan = chan \/ Coming =>
    \E e \in Hosts : Tells(e, ready, chan, servers, primary) /\ Replay(Known, toWorker[chan], e)

\* Who waits for a mapping waits for that of the primary port, on the current channel.
Waiting == \A w \in Waits : waits[w].state = "asked" =>
             primary = waits[w].port /\ waits[w].port \in Ports /\ waits[w].chan = chan /\ ready

Mapped == /\ Waiting
          /\ Checked(toWorker[chan], waits)
          /\ Confirmed(toPage[chan], waits, host, toWorker[chan], chan)
          /\ Coming => NoReady(toPage[chan])

BridgeInv == PageTypes /\ WorkerTypes /\ LineTypes /\ Lines /\ Announced /\ Mapped

\* The page takes one message of the worker's, or none.
Taken == \/ toPage' = toPage
         \/ \E c \in Channels : toPage[c] # << >> /\ toPage' = [toPage EXCEPT ![c] = Tail(@)]

LEMMA TakenIs ==
  ASSUME LineTypes, Taken
  PROVE  /\ toPage' \in [Channels -> Seq(WorkerMessages)]
         /\ \A d \in Channels : toPage'[d] = toPage[d] \/ (toPage[d] # << >> /\ toPage'[d] = Tail(toPage[d]))
  <1>1. CASE toPage' = toPage
    BY <1>1 DEF LineTypes
  <1>2. ASSUME NEW c \in Channels, toPage[c] # << >>, toPage' = [toPage EXCEPT ![c] = Tail(@)]
        PROVE  /\ toPage' \in [Channels -> Seq(WorkerMessages)]
               /\ \A d \in Channels : toPage'[d] = toPage[d] \/ (toPage[d] # << >> /\ toPage'[d] = Tail(toPage[d]))
    <2>1. PICK t : t = Tail(toPage[c])
      OBVIOUS
    <2>2. toPage \in [Channels -> Seq(WorkerMessages)] /\ toPage[c] \in Seq(WorkerMessages)
      BY DEF LineTypes
    <2>3. t \in Seq(WorkerMessages)
      BY <1>2, <2>1, <2>2, TailIs
    <2>4. toPage' = [toPage EXCEPT ![c] = t]
      BY <1>2, <2>1
    <2> QED
      BY <1>2, <2>1, <2>2, <2>3, <2>4
  <1> QED
    BY <1>1, <1>2 DEF Taken

\* The page posts s on its current channel, if on any that matters here.
Posts(s) == \A d \in Channels :
  d >= chan => toWorker'[d] = IF d = chan /\ chan \in open THEN toWorker[d] \o s ELSE toWorker[d]

LEMMA LiveIsOpen ==
  ASSUME Lines, chan \in Channels, host.chan = chan \/ Coming
  PROVE  chan \in open
  <1>1. chan # 0
    BY PreviewBounds DEF Channels
  <1> QED
    BY <1>1 DEF Lines, Coming

\* A step of the page that stays on its channel.
LEMMA PageTells ==
  ASSUME BridgeInv, UNCHANGED <<chan, open, inits, asks, workerVars>>, Taken,
         NEW s \in Seq(PageMessages), Posts(s), Waiting', Later(waits, waits'), Checked(s, waits'),
         \A w \in Waits : waits[w].state # "idle" /\ waits'[w].state = "asked" => KeepAll(s, waits'[w].port),
         host.chan = chan \/ Coming =>
           \A e \in Hosts : Tells(e, ready, chan, servers, primary) =>
             \E d \in Hosts : Tells(d, ready', chan, servers', primary') /\ Replay(e, s, d)
  PROVE  Lines' /\ Announced' /\ Mapped'
  <1>1. /\ chan \in Channels /\ chan \in Nat /\ Lines /\ LineTypes /\ Announced /\ Mapped /\ Coming' = Coming
        /\ chan' = chan /\ open' = open /\ inits' = inits /\ asks' = asks /\ host' = host /\ reqs' = reqs
    BY BoundsAre DEF BridgeInv, PageTypes, workerVars, Coming, Channels
  <1>2. PICK t, u, t1, u1 : t = toWorker[chan] /\ u = toPage[chan] /\ t1 = toWorker'[chan] /\ u1 = toPage'[chan]
    OBVIOUS
  <1>3. t \in Seq(PageMessages) /\ u \in Seq(WorkerMessages)
    BY <1>1, <1>2 DEF LineTypes
  <1>4. t1 = IF chan \in open THEN t \o s ELSE t
    BY <1>1, <1>2 DEF Posts
  <1>5. u1 = u \/ (u # << >> /\ u1 = Tail(u))
    BY <1>1, <1>2, TakenIs
  <1>6. Lines'
    <2>1. ASSUME NEW c \in Channels, c > chan PROVE toWorker'[c] = << >> /\ toPage'[c] = << >>
      <3>1. c >= chan /\ c # chan
        BY <1>1, <2>1
      <3>2. toWorker'[c] = toWorker[c]
        BY <3>1 DEF Posts
      <3>3. toWorker[c] = << >> /\ toPage[c] = << >>
        BY <1>1, <2>1 DEF Lines
      <3>4. toPage'[c] = toPage[c]
        BY <1>1, <3>3, TakenIs
      <3> QED
        BY <3>2, <3>3, <3>4
    <2>2. Behind'
      BY <1>1 DEF Lines, Behind
    <2> QED
      BY <1>1, <2>1, <2>2 DEF Lines
  <1>7. Announced'
    <2>1. SUFFICES ASSUME host.chan = chan \/ Coming
                   PROVE  \E d \in Hosts : Tells(d, ready', chan, servers', primary') /\ Replay(Known, t1, d)
      <3>1. Known' = Known
        BY <1>1 DEF Known, Blank
      <3> QED
        BY <1>1, <1>2, <3>1 DEF Announced
    <2>2. t1 = t \o s
      BY <1>1, <1>4, <2>1, LiveIsOpen
    <2>3. PICK e \in Hosts : Tells(e, ready, chan, servers, primary) /\ Replay(Known, t, e)
      BY <1>1, <1>2, <2>1 DEF Announced
    <2>4. PICK d \in Hosts : Tells(d, ready', chan, servers', primary') /\ Replay(e, s, d)
      BY <2>1, <2>3
    <2>5. Replay(Known, t \o s, d)
      BY <1>3, <2>3, <2>4, ReplayJoin
    <2> QED
      BY <2>2, <2>4, <2>5
  <1>8. Checked(t1, waits')
    <2>1. Checked(t, waits)
      BY <1>1, <1>2 DEF Mapped
    <2>2. Checked(t \o s, waits')
      BY <1>3, <2>1, CheckedJoin
    <2>3. Checked(t, waits')
      BY <1>3, <2>1, CheckedLater
    <2> QED
      BY <1>4, <2>2, <2>3
  <1>9. Confirmed(u1, waits', host, t1, chan)
    <2>1. Confirmed(u, waits, host, t, chan)
      BY <1>1, <1>2 DEF Mapped
    <2>2. Confirmed(u1, waits, host, t, chan)
      BY <1>3, <1>5, <2>1, ConfirmedTail
    <2>3. u1 \in Seq(WorkerMessages)
      BY <1>3, <1>5, TailIs
    <2>4. ASSUME NEW w \in Waits, waits[w].state = "asked", waits'[w].state = "asked", Sure(host, t, waits'[w].port)
          PROVE  Sure(host, t1, waits'[w].port)
      <3>1. KeepAll(s, waits'[w].port) /\ KeepAll(t, waits'[w].port)
        BY <2>4 DEF Sure
      <3>2. KeepAll(t \o s, waits'[w].port)
        BY <1>3, <3>1, KeepsJoin
      <3> QED
        BY <1>4, <2>4, <3>1, <3>2 DEF Sure
    <2> QED
      BY <2>2, <2>3, <2>4, ConfirmedLater
  <1>10. Coming => NoReady(u1)
    BY <1>1, <1>2, <1>3, <1>5, NoReadyTail DEF Mapped
  <1>11. Mapped'
    BY <1>1, <1>2, <1>8, <1>9, <1>10 DEF Mapped
  <1> QED
    BY <1>6, <1>7, <1>11


----------------------------------------------------------------------------
(* The page's steps                                                         *)

LEMMA JoinNone ==
  ASSUME NEW S, NEW s \in Seq(S)
  PROVE  s \o << >> = s
  OBVIOUS

LEMMA NoneIs ==
  ASSUME NEW ws, NEW p
  PROVE  << >> \in Seq(PageMessages) /\ Checked(<< >>, ws) /\ KeepAll(<< >>, p)
  BY DEF Checked, KeepAll

LEMMA SendsPosts ==
  ASSUME LineTypes, Lines, chan \in Channels, NEW c, NEW s \in Seq(PageMessages), toWorker' = ToWorker(c, s)
  PROVE  /\ toWorker' \in [Channels -> Seq(PageMessages)]
         /\ c = chan => Posts(s)
         /\ c # chan => Posts(<< >>)
  <1>1. /\ toWorker' \in [Channels -> Seq(PageMessages)]
        /\ \A d \in Channels :
              toWorker'[d] = IF d = c /\ c \in open THEN toWorker[d] \o s ELSE toWorker[d]
    BY ToWorkerIs
  <1>2. c = chan => Posts(s)
    BY <1>1 DEF Posts
  <1>3. ASSUME c # chan, NEW d \in Channels, d >= chan
        PROVE  toWorker'[d] = IF d = chan /\ chan \in open THEN toWorker[d] \o << >> ELSE toWorker[d]
    <2>1. toWorker[d] \o << >> = toWorker[d]
      BY JoinNone DEF LineTypes
    <2>2. chan \in Nat /\ open \subseteq 1 .. chan /\ d \in Nat
      BY BoundsAre DEF Channels, Lines
    <2>3. ~(d = c /\ c \in open)
      BY <1>3, <2>2
    <2> QED
      BY <1>1, <2>1, <2>3
  <1> QED
    BY <1>1, <1>2, <1>3 DEF Posts

LEMMA NothingPosts ==
  ASSUME LineTypes, chan \in Channels, toWorker' = toWorker
  PROVE  toWorker' \in [Channels -> Seq(PageMessages)] /\ Posts(<< >>)
  <1>1. \A d \in Channels : toWorker[d] \o << >> = toWorker[d]
    BY JoinNone DEF LineTypes
  <1> QED
    BY <1>1 DEF Posts, LineTypes

LEMMA LaterSame == ASSUME NEW ws PROVE Later(ws, ws)
  BY DEF Later

\* What a wait's finish(error) leaves.
LEMMA FinishIs ==
  ASSUME WaitTypes, NEW W, NEW xs, xs = FinishWaits(W)
  PROVE  /\ xs \in [Waits -> WaitRecords] /\ Later(waits, xs)
         /\ \A w \in Waits : xs[w].state = "asked" => w \notin W /\ xs[w] = waits[w]
  <1>1. ASSUME NEW w \in Waits
        PROVE  /\ xs[w] \in WaitRecords /\ (waits[w].state # "idle" => xs[w].state # "idle")
               /\ xs[w].state = "asked" => w \notin W /\ xs[w] = waits[w]
    <2>1. PICK v, x : v = waits[w] /\ x = xs[w]
      OBVIOUS
    <2>2. v \in WaitRecords
      BY <2>1 DEF WaitTypes
    <2>3. x = IF w \in W /\ v.state = "asked" THEN [v EXCEPT !.state = "failed"] ELSE v
      BY <2>1 DEF FinishWaits
    <2>4. CASE w \in W /\ v.state = "asked"
      <3>1. x \in WaitRecords /\ x.state = "failed"
        BY <2>2, <2>3, <2>4 DEF WaitRecords
      <3> QED
        BY <2>1, <3>1
    <2>5. CASE ~(w \in W /\ v.state = "asked")
      BY <2>1, <2>2, <2>3, <2>5
    <2> QED
      BY <2>4, <2>5
  <1>2. xs \in [Waits -> WaitRecords]
    BY <1>1 DEF FinishWaits
  <1>3. Later(waits, xs)
    BY <1>1 DEF Later
  <1> QED
    BY <1>1, <1>2, <1>3

\* The waits of a step that makes none.
LEMMA WaitsEnd ==
  ASSUME WaitTypes, waits' \in [Waits -> WaitRecords],
         \A w \in Waits : waits'[w].state = "asked" => waits'[w] = waits[w]
  PROVE  WaitTypes'
  BY DEF WaitTypes

\* The page changes its servers, and tells the worker with the notices s.
LEMMA ServersTell ==
  ASSUME BridgeInv, UNCHANGED <<chan, ready, open, inits, asks, toPage, workerVars>>, Serves',
         NEW s \in Seq(Registrations \cup Removals), Notify(s), Waiting', Later(waits, waits'),
         \A w \in Waits : waits[w].state # "idle" /\ waits'[w].state = "asked" => KeepAll(s, waits'[w].port),
         \A e \in Hosts : Fits(e, chan, servers, primary) =>
           \E d \in Hosts : Fits(d, chan, servers', primary') /\ Replay(e, s, d)
  PROVE  LineTypes' /\ Lines' /\ Announced' /\ Mapped'
  <1>1. LineTypes /\ Lines /\ chan \in Channels /\ Taken /\ Serves /\ chan' = chan /\ ready' = ready
    BY DEF BridgeInv, PageTypes, Taken
  <1>2. s \in Seq(PageMessages) /\ Checked(s, waits')
    <2>1. s \in Seq(Registrations \cup Removals \cup AnswerMessages)
      BY WiderSeq
    <2>2. s \in Seq(PageMessages)
      BY WiderSeq DEF PageMessages
    <2> QED
      BY <2>1, <2>2, Unchecked
  <1>3. CASE ready
    <2>1. toWorker' = ToWorker(chan, s)
      BY <1>3 DEF Notify
    <2>2. toWorker' \in [Channels -> Seq(PageMessages)] /\ Posts(s)
      BY <1>1, <1>2, <2>1, SendsPosts
    <2>3. \A e \in Hosts : Tells(e, ready, chan, servers, primary) =>
            \E d \in Hosts : Tells(d, ready', chan, servers', primary') /\ Replay(e, s, d)
      BY <1>1, <1>3 DEF Tells
    <2>4. LineTypes'
      BY <1>1, <2>2 DEF LineTypes
    <2>5. Lines' /\ Announced' /\ Mapped'
      BY <1>1, <1>2, <2>2, <2>3, PageTells
    <2> QED
      BY <2>4, <2>5
  <1>4. CASE ~ready
    <2>1. toWorker' = toWorker
      BY <1>4 DEF Notify
    <2>2. Posts(<< >>)
      BY <1>1, <2>1, NothingPosts
    <2>3. \A e \in Hosts : Tells(e, ready, chan, servers, primary) =>
            \E d \in Hosts : Tells(d, ready', chan, servers', primary') /\ Replay(e, << >>, d)
      BY <1>1, <1>4, ReplayNone DEF Tells
    <2>4. LineTypes'
      BY <1>1, <2>1 DEF LineTypes
    <2>5. << >> \in Seq(PageMessages) /\ Checked(<< >>, waits')
      BY NoneIs
    <2>6. \A w \in Waits : KeepAll(<< >>, waits'[w].port)
      BY NoneIs
    <2>7. Lines' /\ Announced' /\ Mapped'
      BY <1>1, <2>2, <2>3, <2>5, <2>6, PageTells
    <2> QED
      BY <2>4, <2>7
  <1> QED
    BY <1>3, <1>4


\* registerServer
LEMMA RegisterKeeps ==
  ASSUME BridgeInv, NEW p \in Ports, RegisterServer(p), UNCHANGED workerVars
  PROVE  BridgeInv'
  <1>1. PICK g, m, b : g = gens + 1 /\ m = Registered(p, g, p = primary) /\ b = (p = primary)
    OBVIOUS
  <1>2. /\ gens' = g /\ servers' = [servers EXCEPT ![p] = g] /\ Notify(<<m>>)
        /\ UNCHANGED <<primary, chan, ready, streams, controlled, waits, toPage, open, inits, asks>>
    BY <1>1 DEF RegisterServer
  <1>3. /\ PageTypes /\ WorkerTypes /\ Serves /\ Waiting /\ chan \in Channels /\ p # 0
        /\ servers \in [Ports -> 0 .. MaxGen] /\ primary \in Ports \cup {0}
    BY BoundsAre DEF BridgeInv, PageTypes, Mapped, Serves
  <1>4. g \in 0 .. MaxGen /\ g # 0
    BY <1>1, <1>3, BoundsAre DEF RegisterServer, PageTypes
  <1>5. m \in Registrations /\ m.type = "server-registered" /\ m.port = p /\ m.gen = g /\ (m.primary <=> p = primary)
    BY <1>1, <1>4, GensAre DEF Registered, Registrations
  <1>6. Serves'
    <2>1. servers' \in [Ports -> 0 .. MaxGen] /\ \A q \in Ports : servers'[q] = IF q = p THEN g ELSE servers[q]
      BY <1>2, <1>3, <1>4
    <2> QED
      BY <1>2, <1>3, <1>4, <2>1 DEF Serves, Held
  <1>7. PageTypes'
    <2>1. StreamTypes' /\ WaitTypes'
      BY <1>2, <1>3 DEF PageTypes, StreamTypes, WaitTypes, Named
    <2> QED
      BY <1>2, <1>3, <1>4, <1>6, <2>1 DEF PageTypes
  <1>8. servers'[p] = g /\ \A q \in Ports : q # p => servers'[q] = servers[q]
    BY <1>2, <1>3
  <1>9. ASSUME NEW e \in Hosts, Fits(e, chan, servers, primary)
        PROVE  \E d \in Hosts : Fits(d, chan, servers', primary') /\ Replay(e, <<m>>, d)
    <2>1. primary' = primary
      BY <1>2
    <2> QED
      BY <1>4, <1>5, <1>8, <1>9, <2>1, RegisteredFits
  <1>10. <<m>> \in Seq(Registrations \cup Removals)
    BY <1>5, OneMessage
  <1>11. ASSUME NEW w \in Waits, waits'[w].state = "asked" PROVE KeepAll(<<m>>, waits'[w].port)
    <2>1. waits'[w].port = primary
      BY <1>2, <1>3, <1>11 DEF Waiting
    <2>2. Keeps(m, primary)
      BY <1>5 DEF Keeps
    <2> QED
      BY <2>1, <2>2 DEF KeepAll
  <1>12. Waiting' /\ Later(waits, waits')
    BY <1>2, <1>3, LaterSame DEF Waiting
  <1>13. LineTypes' /\ Lines' /\ Announced' /\ Mapped'
    BY <1>2, <1>6, <1>9, <1>10, <1>11, <1>12, ServersTell
  <1>14. WorkerTypes'
    BY <1>3 DEF WorkerTypes, RequestTypes, workerVars, Posted, Placed
  <1> QED
    BY <1>7, <1>13, <1>14 DEF BridgeInv

\* unregisterServer
LEMMA UnregisterKeeps ==
  ASSUME BridgeInv, NEW p \in Ports, UnregisterServer(p), UNCHANGED workerVars
  PROVE  BridgeInv'
  <1>1. PICK m, W : m = Unregistered(p) /\ W = {w \in Waits : waits[w].port = p}
    OBVIOUS
  <1>2. /\ servers' = [servers EXCEPT ![p] = 0] /\ Notify(<<m>>) /\ waits' = FinishWaits(W)
        /\ primary' = IF primary = p THEN 0 ELSE primary
        /\ UNCHANGED <<gens, chan, ready, streams, controlled, toPage, open, inits, asks>>
    BY <1>1 DEF UnregisterServer
  <1>3. /\ PageTypes /\ WorkerTypes /\ Serves /\ Waiting /\ WaitTypes /\ chan \in Channels /\ p # 0
        /\ servers \in [Ports -> 0 .. MaxGen] /\ primary \in Ports \cup {0}
    BY BoundsAre DEF BridgeInv, PageTypes, Mapped, Serves
  <1>4. m \in Removals /\ m.type = "server-unregistered" /\ m.port = p
    BY <1>1 DEF Unregistered, Removals
  <1>5. /\ waits' \in [Waits -> WaitRecords] /\ Later(waits, waits')
        /\ \A w \in Waits : waits'[w].state = "asked" => w \notin W /\ waits'[w] = waits[w]
    BY <1>2, <1>3, FinishIs
  <1>6. Serves'
    <2>1. servers' \in [Ports -> 0 .. MaxGen] /\ \A q \in Ports : servers'[q] = IF q = p THEN 0 ELSE servers[q]
      BY <1>2, <1>3, BoundsAre
    <2>2. primary' # 0 => primary' = primary /\ primary # p
      BY <1>2
    <2> QED
      BY <1>2, <1>3, <2>1, <2>2 DEF Serves, Held
  <1>7. PageTypes'
    <2>1. StreamTypes'
      BY <1>2, <1>3 DEF PageTypes, StreamTypes, Named
    <2>2. WaitTypes'
      BY <1>3, <1>5, WaitsEnd
    <2> QED
      BY <1>2, <1>3, <1>6, <2>1, <2>2 DEF PageTypes
  <1>8. servers'[p] = 0 /\ \A q \in Ports : q # p => servers'[q] = servers[q]
    BY <1>2, <1>3
  <1>9. ASSUME NEW e \in Hosts, Fits(e, chan, servers, primary)
        PROVE  \E d \in Hosts : Fits(d, chan, servers', primary') /\ Replay(e, <<m>>, d)
    <2>1. primary' = IF primary = p THEN 0 ELSE primary
      BY <1>2
    <2> QED
      BY <1>4, <1>8, <1>9, <2>1, RemovedFits
  <1>10. <<m>> \in Seq(Registrations \cup Removals)
    BY <1>4, OneMessage
  <1>11. ASSUME NEW w \in Waits, waits'[w].state = "asked"
         PROVE  waits'[w] = waits[w] /\ waits[w].port = primary /\ waits[w].port # p
    BY <1>1, <1>3, <1>5, <1>11 DEF Waiting
  <1>12. ASSUME NEW w \in Waits, waits'[w].state = "asked" PROVE KeepAll(<<m>>, waits'[w].port)
    <2>1. Keeps(m, waits'[w].port)
      BY <1>4, <1>11, <1>12 DEF Keeps
    <2> QED
      BY <2>1 DEF KeepAll
  <1>13. Waiting'
    BY <1>2, <1>3, <1>11 DEF Waiting
  <1>14. LineTypes' /\ Lines' /\ Announced' /\ Mapped'
    BY <1>2, <1>5, <1>6, <1>9, <1>10, <1>12, <1>13, ServersTell
  <1>15. WorkerTypes'
    BY <1>3 DEF WorkerTypes, RequestTypes, workerVars, Posted, Placed
  <1> QED
    BY <1>7, <1>14, <1>15 DEF BridgeInv

\* setPrimaryPort
LEMMA SetPrimaryKeeps ==
  ASSUME BridgeInv, NEW p \in Ports \cup {0}, SetPrimaryPort(p), UNCHANGED workerVars
  PROVE  BridgeInv'
  <1>1. PICK m1, m2, previous, new, W :
          /\ m1 = Registered(primary, servers[primary], FALSE)
          /\ m2 = Registered(p, IF Held(p) THEN servers[p] ELSE NoServer, TRUE)
          /\ previous = IF primary \in Ports \ {p} /\ Held(primary) THEN <<m1>> ELSE << >>
          /\ new = IF p = 0 THEN << >> ELSE <<m2>>
          /\ W = Superseded(p)
    OBVIOUS
  <1>2. /\ primary' = p /\ waits' = FinishWaits(W) /\ Notify(previous \o new)
        /\ UNCHANGED <<servers, gens, chan, ready, streams, controlled, toPage, open, inits, asks>>
    BY <1>1 DEF SetPrimaryPort
  <1>3. /\ PageTypes /\ WorkerTypes /\ Serves /\ Waiting /\ WaitTypes /\ chan \in Channels /\ 0 \notin Ports
        /\ servers \in [Ports -> 0 .. MaxGen] /\ primary \in Ports \cup {0}
    BY BoundsAre DEF BridgeInv, PageTypes, Mapped, Serves
  <1>4. /\ waits' \in [Waits -> WaitRecords] /\ Later(waits, waits')
        /\ \A w \in Waits : waits'[w].state = "asked" => w \notin W /\ waits'[w] = waits[w]
    BY <1>2, <1>3, FinishIs
  <1>5. Serves'
    BY <1>2, <1>3 DEF Serves, Held
  <1>6. PageTypes'
    <2>1. StreamTypes'
      BY <1>2, <1>3 DEF PageTypes, StreamTypes, Named
    <2>2. WaitTypes'
      BY <1>3, <1>4, WaitsEnd
    <2> QED
      BY <1>2, <1>3, <1>5, <2>1, <2>2 DEF PageTypes
  <1>7. /\ previous \in Seq(Registrations) /\ previous \in Seq(PageMessages)
        /\ \/ previous = << >> /\ ~(primary \in Ports \ {p} /\ Held(primary))
           \/ /\ primary \in Ports \ {p} /\ Held(primary) /\ previous = <<m1>>
              /\ m1 \in Registrations /\ m1.port = primary /\ m1.gen = servers[primary] /\ ~m1.primary
    <2>1. CASE primary \in Ports \ {p} /\ Held(primary)
      <3>1. m1 \in Registrations /\ m1.port = primary /\ m1.gen = servers[primary] /\ ~m1.primary
        BY <1>1, <1>3, <2>1, GensAre DEF Registered, Registrations
      <3> QED
        BY <1>1, <2>1, <3>1, OneMessage DEF PageMessages
    <2>2. CASE ~(primary \in Ports \ {p} /\ Held(primary))
      <3>1. previous = << >>
        BY <1>1, <2>2
      <3>2. << >> \in Seq(Registrations) /\ << >> \in Seq(PageMessages)
        OBVIOUS
      <3> QED
        BY <2>2, <3>1, <3>2
    <2> QED
      BY <2>1, <2>2
  <1>8. /\ new \in Seq(Registrations) /\ new \in Seq(PageMessages)
        /\ p # 0 => /\ new = <<m2>> /\ m2 \in Registrations /\ m2.type = "server-registered" /\ m2.port = p
                    /\ m2.primary /\ m2.gen = IF servers[p] # 0 THEN servers[p] ELSE NoServer
    <2>1. CASE p = 0
      BY <1>1, <2>1, NoneIs
    <2>2. CASE p # 0
      <3>1. /\ m2 \in Registrations /\ m2.type = "server-registered" /\ m2.port = p
            /\ m2.primary /\ m2.gen = IF servers[p] # 0 THEN servers[p] ELSE NoServer
        BY <1>1, <1>3, <2>2, GensAre DEF Registered, Registrations, Held
      <3> QED
        BY <1>1, <2>2, <3>1, OneMessage DEF PageMessages
    <2> QED
      BY <2>1, <2>2
  <1>9. ASSUME NEW e \in Hosts, Fits(e, chan, servers, primary)
        PROVE  \E d \in Hosts, x \in Ports \cup {0} : Fits(d, chan, servers, x) /\ Replay(e, previous, d) /\ (p = 0 => x = 0)
    <2>1. CASE previous = << >> /\ ~(primary \in Ports \ {p} /\ Held(primary))
      <3>1. p = 0 => \A q \in Ports : servers[q] # 0 => primary # q
        BY <1>3, <2>1 DEF Held
      <3>2. p = 0 => Fits(e, chan, servers, 0)
        BY <1>3, <1>9, <3>1 DEF Fits
      <3>3. Replay(e, previous, e)
        BY <2>1, ReplayNone
      <3> QED
        BY <1>3, <1>9, <3>2, <3>3
    <2>2. CASE ~(previous = << >> /\ ~(primary \in Ports \ {p} /\ Held(primary)))
      <3>1. /\ primary \in Ports /\ primary # 0 /\ servers[primary] # 0 /\ previous = <<m1>>
            /\ m1 \in Registrations /\ m1.port = primary /\ m1.gen = servers[primary] /\ ~m1.primary
        BY <1>3, <1>7, <2>2 DEF Held
      <3>2. \A q \in Ports : q # primary /\ servers[q] # 0 => (primary = q <=> 0 = q)
        BY <1>3
      <3>3. Apply(e, m1) \in Hosts /\ Fits(Apply(e, m1), chan, servers, 0) /\ Replay(e, <<m1>>, Apply(e, m1))
        BY <1>9, <3>1, <3>2, RegisteredFits
      <3> QED
        BY <3>1, <3>3
    <2> QED
      BY <2>1, <2>2
  <1>10. ASSUME NEW d \in Hosts, NEW x \in Ports \cup {0}, Fits(d, chan, servers, x), p = 0 => x = 0
         PROVE  \E h \in Hosts : Fits(h, chan, servers, p) /\ Replay(d, new, h)
    <2>1. CASE p = 0
      <3>1. new = << >> /\ Fits(d, chan, servers, p)
        BY <1>1, <1>10, <2>1
      <3> QED
        BY <3>1, ReplayNone
    <2>2. CASE p # 0
      <3>1. p \in Ports
        BY <2>2
      <3>2. Apply(d, m2) \in Hosts /\ Fits(Apply(d, m2), chan, servers, p) /\ Replay(d, <<m2>>, Apply(d, m2))
        BY <1>8, <1>10, <2>2, <3>1, RegisteredFits
      <3> QED
        BY <1>8, <2>2, <3>2
    <2> QED
      BY <2>1, <2>2
  <1>11. PICK s : s = previous \o new
    OBVIOUS
  <1>12. /\ s \in Seq(Registrations \cup Removals)
         /\ \A e \in Hosts : Fits(e, chan, servers, primary) =>
              \E h \in Hosts : Fits(h, chan, servers', primary') /\ Replay(e, s, h)
    <2>1. s \in Seq(Registrations)
      BY <1>7, <1>8, <1>11, JoinIs
    <2>2. s \in Seq(Registrations \cup Removals)
      BY <2>1, WiderSeq
    <2>3. ASSUME NEW e \in Hosts, Fits(e, chan, servers, primary)
          PROVE  \E h \in Hosts : Fits(h, chan, servers, p) /\ Replay(e, s, h)
      <3>1. PICK d \in Hosts, x \in Ports \cup {0} : Fits(d, chan, servers, x) /\ Replay(e, previous, d) /\ (p = 0 => x = 0)
        BY <1>9, <2>3
      <3>2. PICK h \in Hosts : Fits(h, chan, servers, p) /\ Replay(d, new, h)
        BY <1>10, <3>1
      <3>3. Replay(e, previous \o new, h)
        BY <1>7, <1>8, <3>1, <3>2, ReplayJoin
      <3> QED
        BY <1>11, <3>2, <3>3
    <2> QED
      BY <1>2, <2>2, <2>3
  <1>13. ASSUME NEW w \in Waits, waits'[w].state = "asked"
         PROVE  waits'[w] = waits[w] /\ waits[w].port = p /\ p = primary /\ p # 0
    <2>1. w \notin W /\ waits'[w] = waits[w]
      BY <1>4, <1>13
    <2>2. waits[w].port = p
      BY <1>1, <2>1 DEF Superseded
    <2> QED
      BY <1>3, <1>13, <2>1, <2>2 DEF Waiting
  <1>14. ASSUME NEW w \in Waits, waits'[w].state = "asked" PROVE KeepAll(s, waits'[w].port)
    <2>1. waits'[w].port = p /\ p = primary /\ p # 0
      BY <1>13, <1>14
    <2>2. previous = << >>
      BY <1>1, <2>1
    <2>3. KeepAll(previous, p)
      BY <2>2, NoneIs
    <2>4. Keeps(m2, p)
      BY <1>8, <2>1 DEF Keeps
    <2>5. KeepAll(<<m2>>, p) /\ new = <<m2>>
      BY <1>8, <2>1, <2>4 DEF KeepAll
    <2> QED
      BY <1>7, <1>8, <1>11, <2>1, <2>3, <2>5, KeepsJoin
  <1>15. Waiting'
    BY <1>2, <1>3, <1>13 DEF Waiting
  <1>16. LineTypes' /\ Lines' /\ Announced' /\ Mapped'
    BY <1>2, <1>4, <1>5, <1>11, <1>12, <1>14, <1>15, ServersTell
  <1>17. WorkerTypes'
    BY <1>3 DEF WorkerTypes, RequestTypes, workerVars, Posted, Placed
  <1> QED
    BY <1>6, <1>16, <1>17 DEF BridgeInv

\* What the page's part needs of a step that leaves its servers and its channel alone.
LEMMA ServersStay ==
  ASSUME BridgeInv, UNCHANGED <<servers, gens, primary, chan, ready, open, inits, asks, workerVars>>, Taken,
         StreamTypes', WaitTypes', toWorker' \in [Channels -> Seq(PageMessages)], NEW s \in Seq(Others), Posts(s),
         Waiting', Later(waits, waits'), Checked(s, waits')
  PROVE  BridgeInv'
  <1>1. /\ PageTypes /\ WorkerTypes /\ LineTypes /\ Serves /\ chan \in Channels /\ chan' = chan
    BY DEF BridgeInv, PageTypes
  <1>2. PageTypes'
    BY <1>1 DEF PageTypes, Serves, Held
  <1>3. LineTypes'
    BY <1>1, TakenIs DEF LineTypes
  <1>4. WorkerTypes'
    BY <1>1 DEF WorkerTypes, RequestTypes, workerVars, Posted, Placed
  <1>5. \A e \in Hosts : Tells(e, ready, chan, servers, primary) =>
          Tells(e, ready', chan, servers', primary') /\ Replay(e, s, e)
    BY ReplayOthers
  <1>6. s \in Seq(PageMessages) /\ \A p : KeepAll(s, p)
    BY OthersKeepAll
  <1>7. Lines' /\ Announced' /\ Mapped'
    BY <1>5, <1>6, PageTells
  <1> QED
    BY <1>2, <1>3, <1>4, <1>7 DEF BridgeInv

\* waitForPrimaryPortMapping
LEMMA WaitForKeeps ==
  ASSUME BridgeInv, NEW w \in Waits, NEW p \in Ports, WaitForPrimaryPortMapping(w, p), UNCHANGED workerVars
  PROVE  BridgeInv'
  <1>1. PICK v, m : v = [state |-> "asked", port |-> p, chan |-> chan] /\ m = MappingCheck(w, p)
    OBVIOUS
  <1>2. /\ waits[w].state = "idle" /\ ready /\ primary = p
        /\ waits' = [waits EXCEPT ![w] = v] /\ toWorker' = ToWorker(chan, <<m>>)
        /\ UNCHANGED <<servers, gens, primary, chan, ready, streams, controlled, toPage, open, inits, asks>>
    BY <1>1 DEF WaitForPrimaryPortMapping
  <1>3. /\ StreamTypes /\ WaitTypes /\ LineTypes /\ Lines /\ Waiting /\ chan \in Channels
    BY DEF BridgeInv, PageTypes, Mapped
  <1>4. v \in WaitRecords /\ v.state = "asked" /\ v.port = p /\ v.chan = chan
    BY <1>1, <1>3 DEF WaitRecords
  <1>5. \A x \in Waits : waits'[x] = IF x = w THEN v ELSE waits[x]
    BY <1>2, <1>3 DEF WaitTypes
  <1>6. WaitTypes'
    BY <1>2, <1>3, <1>4, <1>5 DEF WaitTypes
  <1>7. Waiting'
    BY <1>2, <1>3, <1>4, <1>5 DEF Waiting
  <1>8. Later(waits, waits')
    BY <1>2, <1>5 DEF Later
  <1>9. m \in Checks /\ m.wait = w /\ m.port = p
    BY <1>1 DEF MappingCheck, Checks
  <1>10. <<m>> \in Seq(Others) /\ <<m>> \in Seq(PageMessages)
    BY <1>9, OneMessage DEF Others, PageMessages
  <1>11. Checked(<<m>>, waits')
    <2>1. waits'[w].state = "asked" /\ waits'[w].port = p
      BY <1>4, <1>5
    <2>2. Len(<<m>>) = 1 /\ <<m>>[1] = m /\ \A j : j \notin 1 + 1 .. 1
      OBVIOUS
    <2>3. \A k \in 1 .. 1 : k = 1
      OBVIOUS
    <2> QED
      BY <1>9, <2>1, <2>2, <2>3 DEF Checked
  <1>12. toWorker' \in [Channels -> Seq(PageMessages)] /\ Posts(<<m>>)
    BY <1>2, <1>3, <1>10, SendsPosts
  <1>13. StreamTypes'
    BY <1>2, <1>3 DEF StreamTypes, Named
  <1> QED
    BY <1>2, <1>6, <1>7, <1>8, <1>10, <1>11, <1>12, <1>13, ServersStay DEF Taken

\* A wait aborted, or all of them
LEMMA AbortKeeps ==
  ASSUME BridgeInv, NEW W, AbortWaits(W), UNCHANGED workerVars
  PROVE  BridgeInv'
  <1>1. /\ waits' = FinishWaits(W)
        /\ UNCHANGED <<servers, gens, primary, chan, ready, streams, controlled, toWorker, toPage, open, inits, asks>>
    BY DEF AbortWaits, channelVars
  <1>2. /\ StreamTypes /\ WaitTypes /\ LineTypes /\ Waiting /\ chan \in Channels
    BY DEF BridgeInv, PageTypes, Mapped
  <1>3. /\ waits' \in [Waits -> WaitRecords] /\ Later(waits, waits')
        /\ \A w \in Waits : waits'[w].state = "asked" => w \notin W /\ waits'[w] = waits[w]
    BY <1>1, <1>2, FinishIs
  <1>4. WaitTypes'
    BY <1>2, <1>3, WaitsEnd
  <1>5. Waiting'
    BY <1>1, <1>2, <1>3 DEF Waiting
  <1>6. StreamTypes'
    BY <1>1, <1>2 DEF StreamTypes, Named
  <1>7. toWorker' \in [Channels -> Seq(PageMessages)] /\ Posts(<< >>)
    BY <1>1, <1>2, NothingPosts
  <1>8. << >> \in Seq(Others) /\ Checked(<< >>, waits')
    BY NoneIs
  <1> QED
    BY <1>1, <1>3, <1>4, <1>5, <1>6, <1>7, <1>8, ServersStay DEF Taken


\* The end of initServiceWorker: nobody waits yet, and nothing was told on this channel.
LEMMA ReadyKeeps ==
  ASSUME BridgeInv, BecomeReady, UNCHANGED workerVars
  PROVE  BridgeInv'
  <1>1. PICK s : s = AnnounceServers
    OBVIOUS
  <1>2. /\ ~ready /\ ready' = TRUE /\ toWorker' = ToWorker(chan, s)
        /\ UNCHANGED <<servers, gens, primary, chan, streams, controlled, waits, toPage, open, inits, asks>>
    BY <1>1 DEF BecomeReady
  <1>3. /\ PageTypes /\ WorkerTypes /\ Serves /\ StreamTypes /\ WaitTypes /\ LineTypes /\ Lines /\ Waiting
        /\ chan \in Channels
    BY DEF BridgeInv, PageTypes, Mapped
  <1>4. /\ s \in Seq(Registrations)
        /\ \E e \in Hosts : Fits(e, chan, servers, primary) /\ Replay(Blank(chan), s, e)
    BY <1>1, <1>3, AnnounceReplays
  <1>5. s \in Seq(PageMessages) /\ Checked(s, waits')
    <2>1. s \in Seq(Registrations \cup Removals \cup AnswerMessages) /\ s \in Seq(PageMessages)
      BY <1>4, WiderSeq DEF PageMessages
    <2> QED
      BY <2>1, Unchecked
  <1>6. \A w \in Waits : waits'[w].state # "asked" /\ waits[w].state # "asked"
    BY <1>2, <1>3 DEF Waiting
  <1>7. Waiting' /\ Later(waits, waits')
    BY <1>2, <1>6, LaterSame DEF Waiting
  <1>8. \A e \in Hosts : Tells(e, ready, chan, servers, primary) =>
          \E d \in Hosts : Tells(d, ready', chan, servers', primary') /\ Replay(e, s, d)
    BY <1>2, <1>4 DEF Tells
  <1>9. toWorker' \in [Channels -> Seq(PageMessages)] /\ Posts(s)
    BY <1>2, <1>3, <1>5, SendsPosts
  <1>10. Lines' /\ Announced' /\ Mapped'
    BY <1>2, <1>5, <1>6, <1>7, <1>8, <1>9, PageTells DEF Taken
  <1>11. LineTypes'
    BY <1>2, <1>3, <1>9 DEF LineTypes
  <1>12. PageTypes'
    <2>1. StreamTypes' /\ WaitTypes'
      BY <1>2, <1>3 DEF StreamTypes, WaitTypes, Named
    <2>2. Serves'
      BY <1>2, <1>3 DEF Serves, Held
    <2> QED
      BY <1>2, <1>3, <2>1, <2>2 DEF PageTypes
  <1>13. WorkerTypes'
    BY <1>3 DEF WorkerTypes, RequestTypes, workerVars, Posted, Placed
  <1> QED
    BY <1>10, <1>11, <1>12, <1>13 DEF BridgeInv

\* A step that only posts answers.
LEMMA StreamingKeeps ==
  ASSUME BridgeInv, Streaming, StreamTypes', Taken, UNCHANGED workerVars
  PROVE  BridgeInv'
  <1>1. /\ WaitTypes /\ LineTypes /\ Lines /\ Waiting /\ chan \in Channels
        /\ UNCHANGED <<servers, gens, primary, chan, ready, waits, open, inits, asks>>
    BY DEF BridgeInv, PageTypes, Mapped, Streaming
  <1>2. PICK c, s : s \in Seq(AnswerMessages) /\ toWorker' = ToWorker(c, s)
    BY DEF Streaming
  <1>3. s \in Seq(Others) /\ s \in Seq(PageMessages) /\ Checked(s, waits')
    <2>1. /\ s \in Seq(Registrations \cup Removals \cup AnswerMessages) /\ s \in Seq(PageMessages)
          /\ s \in Seq(Others)
      BY <1>2, WiderSeq DEF PageMessages, Others
    <2> QED
      BY <2>1, Unchecked
  <1>4. << >> \in Seq(Others) /\ Checked(<< >>, waits')
    BY NoneIs
  <1>5. toWorker' \in [Channels -> Seq(PageMessages)] /\ (Posts(s) \/ Posts(<< >>))
    BY <1>1, <1>2, <1>3, SendsPosts
  <1>6. WaitTypes' /\ Waiting' /\ Later(waits, waits')
    BY <1>1, LaterSame DEF WaitTypes, Waiting
  <1> QED
    BY <1>1, <1>3, <1>4, <1>5, <1>6, ServersStay

LEMMA OnMappingReadyKeeps ==
  ASSUME BridgeInv, NEW m \in Readies, NEW c, OnMappingReady(m, c), Taken, UNCHANGED workerVars
  PROVE  BridgeInv'
  <1>1. /\ StreamTypes /\ WaitTypes /\ LineTypes /\ Waiting /\ chan \in Channels
        /\ UNCHANGED <<servers, gens, primary, chan, ready, streams, controlled, toWorker, open, inits, asks>>
    BY DEF BridgeInv, PageTypes, Mapped, OnMappingReady
  <1>2. m.wait \in Waits
    BY DEF Readies
  <1>3. \/ waits' = waits
        \/ \E e \in {"ok", "failed"} : waits' = [waits EXCEPT ![m.wait].state = e]
    BY DEF OnMappingReady
  <1>4. /\ waits' \in [Waits -> WaitRecords] /\ Later(waits, waits')
        /\ \A w \in Waits : waits'[w].state = "asked" => waits'[w] = waits[w]
    <2>1. CASE waits' = waits
      BY <1>1, <2>1, LaterSame DEF WaitTypes
    <2>2. ASSUME NEW e \in {"ok", "failed"}, waits' = [waits EXCEPT ![m.wait].state = e]
          PROVE  /\ waits' \in [Waits -> WaitRecords] /\ Later(waits, waits')
                 /\ \A w \in Waits : waits'[w].state = "asked" => waits'[w] = waits[w]
      <3>1. PICK v, x : v = waits[m.wait] /\ x = [v EXCEPT !.state = e]
        OBVIOUS
      <3>2. v \in WaitRecords
        BY <1>1, <1>2, <3>1 DEF WaitTypes
      <3>3. x \in WaitRecords /\ x.state = e
        BY <3>1, <3>2 DEF WaitRecords
      <3>4. waits' = [waits EXCEPT ![m.wait] = x]
        BY <1>1, <1>2, <2>2, <3>1 DEF WaitTypes
      <3>5. /\ waits' \in [Waits -> WaitRecords]
            /\ \A w \in Waits : waits'[w] = IF w = m.wait THEN x ELSE waits[w]
        BY <1>1, <1>2, <3>3, <3>4 DEF WaitTypes
      <3>6. Later(waits, waits')
        BY <3>3, <3>5 DEF Later
      <3> QED
        BY <3>3, <3>5, <3>6
    <2> QED
      BY <1>3, <2>1, <2>2
  <1>5. WaitTypes' /\ Waiting'
    <2>1. WaitTypes'
      BY <1>1, <1>4, WaitsEnd
    <2>2. Waiting'
      BY <1>1, <1>4 DEF Waiting
    <2> QED
      BY <2>1, <2>2
  <1>6. StreamTypes'
    BY <1>1 DEF StreamTypes, Named
  <1>7. toWorker' \in [Channels -> Seq(PageMessages)] /\ Posts(<< >>)
    BY <1>1, NothingPosts
  <1>8. << >> \in Seq(Others) /\ Checked(<< >>, waits')
    BY NoneIs
  <1> QED
    BY <1>1, <1>4, <1>5, <1>6, <1>7, <1>8, ServersStay

\* handleServiceWorkerMessage
LEMMA MessageKeeps ==
  ASSUME BridgeInv, NEW c \in Channels, HandleServiceWorkerMessage(c), UNCHANGED workerVars
  PROVE  BridgeInv'
  <1>1. toPage[c] # << >> /\ toPage' = [toPage EXCEPT ![c] = Tail(@)]
    BY DEF HandleServiceWorkerMessage
  <1>2. Taken /\ PageTypes /\ StreamTypes /\ LineTypes
    BY <1>1 DEF Taken, BridgeInv, PageTypes
  <1>3. PICK m : m = Head(toPage[c])
    OBVIOUS
  <1>4. m \in WorkerMessages
    <2>1. toPage[c] \in Seq(WorkerMessages)
      BY <1>2 DEF LineTypes
    <2> QED
      BY <1>1, <1>3, <2>1, TailIs
  <1>5. \/ m.type \in {"stream-pull", "stream-cancel"} /\ OnStream(m)
        \/ m.type = "request" /\ OpenStream(m)
        \/ m.type = "request" /\ OpenLegacy(m)
        \/ m.type = "port-mapping-ready" /\ OnMappingReady(m, c)
    BY <1>3 DEF HandleServiceWorkerMessage
  <1>6. CASE m.type \in {"stream-pull", "stream-cancel"} /\ OnStream(m)
    BY <1>2, <1>4, <1>6, WorkerMessageIs, OnStreamStep, StreamingKeeps
  <1>7. CASE m.type = "request" /\ OpenStream(m)
    BY <1>2, <1>4, <1>7, WorkerMessageIs, OpenStreamStep, StreamingKeeps
  <1>8. CASE m.type = "request" /\ OpenLegacy(m)
    BY <1>2, <1>4, <1>8, WorkerMessageIs, OpenLegacyStep, StreamingKeeps
  <1>9. CASE m.type = "port-mapping-ready" /\ OnMappingReady(m, c)
    BY <1>2, <1>4, <1>9, WorkerMessageIs, OnMappingReadyKeeps
  <1> QED
    BY <1>5, <1>6, <1>7, <1>8, <1>9

\* The callbacks of the servers
LEMMA CallbackKeeps ==
  ASSUME BridgeInv, NEW r \in Requests, StreamCallback(r) \/ UpstreamFails(r), UNCHANGED workerVars
  PROVE  BridgeInv'
  <1>1. StreamTypes /\ LineTypes
    BY DEF BridgeInv, PageTypes
  <1>2. StreamTypes' /\ Streaming
    BY <1>1, StartStep, ChunkStep, EndStep, FailsStep, RespondStep, LegacyStep DEF StreamCallback
  <1>3. toPage' = toPage
    BY DEF StreamCallback, Start, Chunk, End, UpstreamFails, Respond, LegacyStream
  <1> QED
    BY <1>2, <1>3, StreamingKeeps DEF Taken


\* The checks that reinit repeats, one for each wait.
LEMMA ChecksAgain ==
  ASSUME WaitTypes, NEW again, again \subseteq Waits, \A w \in again : waits[w].state = "asked",
         NEW order, order = SetToSeq(again),
         NEW K, K = [k \in DOMAIN order |-> MappingCheck(order[k], waits[order[k]].port)]
  PROVE  /\ K \in Seq(Others)
         /\ \A k \in 1 .. Len(K) : \E w \in again : K[k].wait = w /\ K[k].port = waits[w].port
  <1>1. PICK n : n = Len(order)
    OBVIOUS
  <1>2. IsFiniteSet(again)
    BY PageBounds, FS_Subset
  <1>3. order \in Seq(again)
    BY <1>1, <1>2, SetToSeqIs
  <1>4. n \in Nat /\ DOMAIN order = 1 .. n /\ \A k \in 1 .. n : order[k] \in again
    BY <1>1, <1>3, LenIs
  <1>5. \A w \in again : MappingCheck(w, waits[w].port) \in Others
    BY DEF WaitTypes, MappingCheck, Checks, Others
  <1>6. K = [k \in 1 .. n |-> MappingCheck(order[k], waits[order[k]].port)]
    BY <1>1, <1>4
  <1>7. K \in [1 .. n -> Others]
    <2>1. \A k \in 1 .. n : MappingCheck(order[k], waits[order[k]].port) \in Others
      BY <1>4, <1>5
    <2> QED
      BY <1>6, <2>1
  <1>8. K \in Seq(Others) /\ Len(K) = n
    BY <1>4, <1>7, MadeSeq
  <1>9. ASSUME NEW k \in 1 .. n PROVE \E w \in again : K[k].wait = w /\ K[k].port = waits[w].port
    <2>1. order[k] \in again /\ K[k] = MappingCheck(order[k], waits[order[k]].port)
      BY <1>4, <1>6
    <2>2. K[k].wait = order[k] /\ K[k].port = waits[order[k]].port
      BY <2>1 DEF MappingCheck
    <2> QED
      BY <2>1, <2>2
  <1> QED
    BY <1>8, <1>9

\* Reinit: a new channel, all the servers told again, the waits asked again.
LEMMA ReinitKeeps ==
  ASSUME BridgeInv, Reinit, UNCHANGED workerVars
  PROVE  BridgeInv'
  <1>1. /\ PageTypes /\ WorkerTypes /\ Serves /\ StreamTypes /\ WaitTypes /\ LineTypes /\ Lines /\ Waiting
        /\ chan \in Channels /\ ready \in BOOLEAN /\ Announced /\ Mapped /\ host \in Hosts
    BY DEF BridgeInv, PageTypes, Mapped, WorkerTypes
  <1>2. asks > 0 /\ asks' = asks - 1 /\ toPage' = toPage /\ host' = host /\ reqs' = reqs /\ lastId' = lastId
    BY DEF Reinit, workerVars
  <1>3. /\ asks \in Nat /\ asks' \in Nat /\ chan \in Nat /\ MaxChannel \in Nat /\ chan + 1 \in Channels /\ chan >= 1
        /\ chan + asks' <= MaxChannel /\ (chan + 1) + asks' <= MaxChannel
    <2>1. asks \in Nat /\ chan \in Nat /\ MaxChannel \in Nat /\ chan + asks <= MaxChannel /\ chan >= 1
      BY <1>1, BoundsAre DEF Channels, LineTypes, Lines
    <2> QED
      BY <1>2, <2>1 DEF Channels
  <1>4. WorkerTypes'
    BY <1>1, <1>2 DEF WorkerTypes, RequestTypes, Posted, Placed
  <1>5. CASE ~ready
    <2>1. UNCHANGED <<servers, gens, primary, chan, ready, streams, controlled, waits, toWorker, open, inits>>
      BY <1>5 DEF Reinit, pageVars
    <2>2. PageTypes'
      BY <1>1, <2>1 DEF PageTypes, Serves, Held, StreamTypes, Named, WaitTypes
    <2>3. LineTypes'
      BY <1>1, <1>2, <1>3, <2>1 DEF LineTypes
    <2>4. Lines'
      BY <1>1, <1>2, <1>3, <2>1 DEF Lines, Behind
    <2>5. Announced'
      BY <1>1, <1>2, <2>1 DEF Announced, Coming, Known, Blank
    <2>6. Mapped'
      BY <1>1, <1>2, <2>1 DEF Mapped, Waiting, Coming
    <2> QED
      BY <1>4, <2>2, <2>3, <2>4, <2>5, <2>6 DEF BridgeInv
  <1>6. CASE ready
    <2>1. PICK again : again = {w \in Waits : waits[w].state = "asked"}
      OBVIOUS
    <2>2. again \subseteq Waits /\ \A w \in Waits : w \in again <=> waits[w].state = "asked"
      BY <2>1
    <2>3. PICK c : c = chan + 1
      OBVIOUS
    <2>4. c \in Channels /\ c \in Nat /\ c = chan + 1 /\ c > chan /\ c + asks' <= MaxChannel
      <3>1. c \in Channels
        BY <1>3, <2>3
      <3>2. c \in Nat /\ c > chan
        BY <1>3, <2>3
      <3>3. c + asks' <= MaxChannel
        BY <1>3, <2>3
      <3> QED
        BY <2>3, <3>1, <3>2, <3>3
    <2>5. PICK order, A, K :
            /\ order = SetToSeq(again) /\ A = AnnounceServers
            /\ K = [k \in DOMAIN order |-> MappingCheck(order[k], waits[order[k]].port)]
      OBVIOUS
    <2>6. /\ chan' = c /\ controlled' = [i \in Ids |-> 0] /\ open' = open \cup {c} /\ inits' = Append(inits, c)
          /\ streams' = [r \in Requests |-> IF \E i \in Ids : controlled[i] = r THEN Cancelled(streams[r])
                                            ELSE streams[r]]
          /\ toWorker' = [toWorker EXCEPT ![c] = A \o K]
          /\ waits' = [w \in Waits |-> IF w \in again THEN [waits[w] EXCEPT !.chan = c] ELSE waits[w]]
          /\ UNCHANGED <<servers, gens, primary, ready>>
      BY <1>6, <2>1, <2>3, <2>5 DEF Reinit
    <2>7. PICK e \in Hosts : Fits(e, c, servers, primary) /\ Replay(Blank(c), A, e) /\ A \in Seq(Registrations)
      BY <1>1, <2>5, <2>4, AnnounceReplays
    <2>8. /\ K \in Seq(Others)
          /\ \A k \in 1 .. Len(K) : \E w \in again : K[k].wait = w /\ K[k].port = waits[w].port
      <3>1. WaitTypes /\ again \subseteq Waits /\ \A w \in again : waits[w].state = "asked"
        BY <1>1, <2>2
      <3>2. order = SetToSeq(again)
        BY <2>5
      <3>3. K = [k \in DOMAIN order |-> MappingCheck(order[k], waits[order[k]].port)]
        BY <2>5
      <3> QED
        BY <3>1, <3>2, <3>3, ChecksAgain
    <2>9. A \in Seq(PageMessages) /\ A \in Seq(Registrations \cup Removals \cup AnswerMessages) /\ K \in Seq(PageMessages)
      BY <2>7, <2>8, WiderSeq, OthersKeepAll DEF PageMessages
    <2>10. PICK s : s = A \o K
      OBVIOUS
    <2>11. s \in Seq(PageMessages)
      BY <2>9, <2>10, JoinIs
    <2>12. /\ toWorker' \in [Channels -> Seq(PageMessages)] /\ toWorker'[c] = s
          /\ \A d \in Channels : d # c => toWorker'[d] = toWorker[d]
      BY <1>1, <2>6, <2>4, <2>10, <2>11 DEF LineTypes
    <2>13. ASSUME NEW w \in Waits
           PROVE  /\ waits'[w] \in WaitRecords /\ waits'[w].state = waits[w].state /\ waits'[w].port = waits[w].port
                  /\ waits'[w].state = "asked" => waits'[w].chan = c
      <3>1. PICK v, x : v = waits[w] /\ x = waits'[w]
        OBVIOUS
      <3>2. v \in WaitRecords
        BY <1>1, <3>1 DEF WaitTypes
      <3>3. x = IF v.state = "asked" THEN [v EXCEPT !.chan = c] ELSE v
        BY <2>2, <2>6, <3>1
      <3>4. x \in WaitRecords /\ x.state = v.state /\ x.port = v.port /\ (x.state = "asked" => x.chan = c)
        BY <2>4, <3>2, <3>3 DEF WaitRecords
      <3> QED
        BY <3>1, <3>4
    <2>14. WaitTypes'
      <3>1. waits' \in [Waits -> WaitRecords]
        BY <2>6, <2>13
      <3> QED
        BY <1>1, <2>13, <3>1 DEF WaitTypes
    <2>15. StreamTypes'
      <3>1. ASSUME NEW r \in Requests PROVE streams'[r] \in StreamRecords /\ Named(streams'[r])
        <4>1. streams[r] \in StreamRecords /\ Named(streams[r])
          BY <1>1 DEF StreamTypes
        <4>2. streams'[r] = Cancelled(streams[r]) \/ streams'[r] = streams[r]
          BY <2>6
        <4> QED
          BY <4>1, <4>2, CancelledIs
      <3>2. streams' \in [Requests -> StreamRecords]
        BY <2>6, <3>1
      <3>3. \A r \in Requests : Named(streams[r])'
        BY <3>1 DEF Named
      <3>4. controlled' \in [Ids -> Requests \cup {0}]
        BY <2>6
      <3> QED
        BY <3>2, <3>3, <3>4 DEF StreamTypes
    <2>16. PageTypes'
      <3>1. Serves'
        BY <1>1, <2>6 DEF Serves, Held
      <3> QED
        BY <1>1, <2>6, <2>4, <2>14, <2>15, <3>1 DEF PageTypes
    <2>17. LineTypes'
      <3>1. inits' \in Seq(Channels)
        BY <1>1, <2>6, <2>4 DEF LineTypes
      <3>2. open' \subseteq Channels
        BY <1>1, <2>6, <2>4 DEF LineTypes
      <3>3. toPage' \in [Channels -> Seq(WorkerMessages)]
        BY <1>1, <1>2 DEF LineTypes
      <3> QED
        BY <1>3, <2>12, <3>1, <3>2, <3>3 DEF LineTypes
    <2>18. PICK n, is : n = Len(inits) /\ is = inits'
      OBVIOUS
    <2>19. n \in Nat /\ Len(is) = n + 1 /\ is[n + 1] = c /\ \A i \in 1 .. n : is[i] = inits[i]
      BY <1>1, <2>6, <2>4, <2>18 DEF LineTypes
    <2>20. Lines'
      <3>1. open' \subseteq 1 .. c
        BY <1>1, <1>3, <2>6, <2>4 DEF Lines
      <3>2. host.chan \in Nat /\ host.chan <= chan /\ host.chan < c /\ (host.chan # 0 => host.chan \in open')
        BY <1>1, <1>3, <2>6, <2>4 DEF Lines, Hosts, Channels
      <3>0. \A i \in 1 .. n : /\ is[i] = inits[i] /\ inits[i] \in Nat
                               /\ host.chan < inits[i] /\ inits[i] <= chan /\ inits[i] \in open
        <4>1. \A i \in 1 .. n : inits[i] \in Channels
          BY <1>1, <2>18, LenIs DEF LineTypes
        <4>2. \A i \in 1 .. n : host.chan < inits[i] /\ inits[i] <= chan /\ inits[i] \in open
          BY <1>1, <2>18 DEF Lines
        <4> QED
          BY <2>19, <4>1, <4>2 DEF Channels
      <3>3. ASSUME NEW i \in 1 .. n + 1 PROVE host.chan < is[i] /\ is[i] <= c /\ is[i] \in open'
        <4>1. CASE i \in 1 .. n
          <5>1. is[i] = inits[i] /\ host.chan < inits[i] /\ inits[i] <= chan /\ inits[i] \in open /\ inits[i] \in Nat
            BY <3>0, <4>1
          <5> QED
            BY <2>6, <2>4, <5>1, <1>3
        <4>2. CASE i = n + 1
          BY <2>6, <2>4, <2>19, <3>2, <4>2
        <4> QED
          BY <2>19, <4>1, <4>2
      <3>4. ASSUME NEW i \in 1 .. n + 1, NEW j \in 1 .. n + 1, i < j PROVE is[i] < is[j]
        <4>1. i \in 1 .. n
          BY <2>19, <3>4
        <4>2. is[i] = inits[i] /\ inits[i] <= chan /\ inits[i] \in Nat
          BY <3>0, <4>1
        <4>3. CASE j \in 1 .. n
          <5>1. is[j] = inits[j] /\ inits[i] < inits[j]
            BY <1>1, <2>18, <2>19, <3>4, <4>1, <4>3 DEF Lines
          <5> QED
            BY <4>2, <5>1
        <4>4. CASE j = n + 1
          BY <1>3, <2>4, <2>19, <4>2, <4>4
        <4> QED
          BY <2>19, <4>3, <4>4
      <3>5. ASSUME NEW d \in Channels, d > c PROVE toWorker'[d] = << >> /\ toPage'[d] = << >>
        <4>1. d # c /\ d > chan
          BY <1>3, <2>4, <3>5 DEF Channels
        <4> QED
          BY <1>1, <1>2, <2>12, <4>1 DEF Lines
      <3>6. Behind'
        <4>1. ASSUME NEW r \in Requests PROVE reqs[r].chan <= c
          <5>1. reqs[r].chan \in Channels \cup {0} /\ reqs[r].chan <= chan
            BY <1>1, RequestIs DEF Lines, Behind, WorkerTypes, RequestTypes
          <5>2. reqs[r].chan \in Nat
            BY <5>1, BoundsAre DEF Channels
          <5> QED
            BY <1>3, <2>4, <5>1, <5>2
        <4> QED
          BY <1>2, <2>6, <4>1 DEF Behind
      <3>7. host.chan <= c
        BY <2>4, <3>2
      <3> QED
        BY <1>2, <2>6, <2>4, <2>18, <2>19, <3>1, <3>2, <3>3, <3>4, <3>5, <3>6, <3>7 DEF Lines
    <2>21. Announced'
      <3>1. host'.chan # chan'
        BY <1>1, <1>2, <1>3, <2>6, <2>4 DEF Lines, Hosts, Channels
      <3>2. Known' = Blank(c)
        BY <2>6, <3>1 DEF Known, Blank
      <3>3. Tells(e, ready', c, servers', primary')
        BY <1>6, <2>6, <2>7 DEF Tells
      <3>4. Replay(e, K, e)
        BY <2>7, <2>8, ReplayOthers
      <3>5. Replay(Blank(c), s, e)
        BY <2>7, <2>9, <2>10, <3>4, ReplayJoin
      <3>6. toWorker'[chan'] = s /\ chan' = c
        BY <2>6, <2>12
      <3> QED
        BY <2>7, <3>2, <3>3, <3>5, <3>6 DEF Announced
    <2>22. Checked(s, waits')
      <3>1. Checked(A, waits')
        BY <2>9, Unchecked
      <3>2. Checked(K, waits')
        <4>1. ASSUME NEW k \in 1 .. Len(K)
              PROVE  /\ waits'[K[k].wait].state = "asked" /\ K[k].port = waits'[K[k].wait].port
          <5>1. PICK w \in again : K[k].wait = w /\ K[k].port = waits[w].port
            BY <2>8
          <5>2. w \in Waits /\ waits[w].state = "asked"
            BY <2>2, <5>1
          <5> QED
            BY <2>13, <5>1, <5>2
        <4>2. \A p : \A k \in 1 .. Len(K) : \A j \in k + 1 .. Len(K) : Keeps(K[j], p)
          <5>1. Len(K) \in Nat /\ \A p : KeepAll(K, p)
            BY <2>8, OthersKeepAll, LenIs
          <5>2. \A k \in 1 .. Len(K) : \A j \in k + 1 .. Len(K) : j \in 1 .. Len(K)
            BY <5>1
          <5> QED
            BY <5>1, <5>2 DEF KeepAll
        <4> QED
          BY <4>1, <4>2 DEF Checked
      <3>3. \A w \in Waits : KeepAll(K, waits'[w].port)
        BY <2>8, OthersKeepAll
      <3>4. PICK xs : xs = waits'
        OBVIOUS
      <3>5. Later(xs, xs) /\ Checked(A, xs) /\ Checked(K, xs) /\ \A w \in Waits : KeepAll(K, xs[w].port)
        BY <3>1, <3>2, <3>3, <3>4, LaterSame
      <3>6. Checked(A \o K, xs)
        BY <2>9, <3>5, CheckedJoin
      <3> QED
        BY <2>10, <3>4, <3>6
    <2>23. Mapped'
      <3>1. toPage'[chan'] = << >> /\ toWorker'[chan'] = s
        BY <1>1, <1>2, <2>6, <2>4, <2>12 DEF Lines
      <3>2. Waiting'
        BY <1>1, <2>6, <2>13 DEF Waiting
      <3>3. Confirmed(<< >>, waits', host', s, c) /\ NoReady(<< >>)
        BY DEF Confirmed, NoReady
      <3> QED
        BY <2>6, <2>22, <3>1, <3>2, <3>3 DEF Mapped
    <2> QED
      BY <1>4, <2>16, <2>17, <2>20, <2>21, <2>23 DEF BridgeInv
  <1> QED
    BY <1>1, <1>5, <1>6


----------------------------------------------------------------------------
(* The worker's steps                                                       *)

LEMMA PageStays ==
  ASSUME PageTypes, UNCHANGED pageVars
  PROVE  /\ PageTypes' /\ (Waiting => Waiting')
         /\ chan' = chan /\ ready' = ready /\ waits' = waits
         /\ servers' = servers /\ primary' = primary
  <1>1. UNCHANGED <<servers, gens, primary, chan, ready, streams, controlled, waits>>
    BY DEF pageVars
  <1>2. PageTypes'
    BY <1>1 DEF PageTypes, Serves, Held, StreamTypes, Named, WaitTypes
  <1>3. Waiting => Waiting'
    BY <1>1 DEF Waiting
  <1> QED
    BY <1>1, <1>2, <1>3

LEMMA BridgeIsWell ==
  ASSUME BridgeInv
  PROVE  WorkerWell
  BY DEF BridgeInv, WorkerWell, WorkerTypes, Lines, PageTypes

\* What the worker puts on the page's current channel when it only asks.
LEMMA AskingIs ==
  ASSUME Asking, LineTypes, chan \in Channels
  PROVE  /\ \E s \in Seq(Requesting) : toPage'[chan] = toPage[chan] \/ toPage'[chan] = toPage[chan] \o s
         /\ \A d \in Channels : d > chan => toPage'[d] = toPage[d]
  <1>1. PICK c \in 0 .. chan, s \in Seq(Requesting) :
          \A d \in Channels : toPage'[d] = IF d = c THEN toPage[d] \o s ELSE toPage[d]
    BY DEF Asking
  <1>2. chan \in Nat
    BY BoundsAre DEF Channels
  <1>3. \A d \in Channels : d > chan => d # c
    BY <1>1, <1>2
  <1> QED
    BY <1>1, <1>3

LEMMA AskedTail ==
  ASSUME NEW u \in Seq(WorkerMessages), NEW s \in Seq(Requesting), NEW v, v = u \/ v = u \o s,
         NEW ws, NEW h, NEW t, NEW c, Confirmed(u, ws, h, t, c)
  PROVE  Confirmed(v, ws, h, t, c) /\ (NoReady(u) => NoReady(v))
  <1>1. s \in Seq(WorkerMessages)
    BY WiderSeq DEF WorkerMessages
  <1>2. Confirmed(s, ws, h, t, c) /\ NoReady(s)
    BY Unconfirmed DEF NoReady
  <1> QED
    BY <1>1, <1>2, ConfirmedJoin, NoReadyJoin

LEMMA QuietKeeps ==
  ASSUME BridgeInv, Quiet
  PROVE  BridgeInv'
  <1>1. /\ PageTypes /\ WorkerTypes /\ LineTypes /\ Lines /\ Announced /\ Mapped /\ chan \in Channels
    BY DEF BridgeInv, PageTypes
  <1>2. /\ RequestTypes' /\ Behind' /\ Asking /\ asks' \in Nat /\ chan + asks' <= MaxChannel
        /\ host' = host /\ toWorker' = toWorker /\ open' = open /\ inits' = inits /\ UNCHANGED pageVars
    BY DEF Quiet
  <1>3. PageTypes' /\ (Waiting => Waiting') /\ chan' = chan /\ waits' = waits
        /\ ready' = ready /\ servers' = servers /\ primary' = primary
    BY <1>1, <1>2, PageStays
  <1>4. WorkerTypes'
    BY <1>1, <1>2 DEF WorkerTypes
  <1>5. LineTypes'
    BY <1>1, <1>2 DEF LineTypes, Asking
  <1>6. Lines'
    <2>1. \A d \in Channels : d > chan => toPage'[d] = toPage[d]
      BY <1>1, <1>2, AskingIs
    <2> QED
      BY <1>1, <1>2, <1>3, <2>1 DEF Lines
  <1>7. Coming' = Coming /\ Known' = Known
    BY <1>2, <1>3 DEF Coming, Known, Blank
  <1>8. Announced'
    BY <1>1, <1>2, <1>3, <1>7 DEF Announced
  <1>9. Mapped'
    <2>1. PICK u, v, t : u = toPage[chan] /\ v = toPage'[chan] /\ t = toWorker[chan]
      OBVIOUS
    <2>2. PICK s \in Seq(Requesting) : v = u \/ v = u \o s
      BY <1>1, <1>2, <2>1, AskingIs
    <2>3. u \in Seq(WorkerMessages) /\ Confirmed(u, waits, host, t, chan) /\ (Coming => NoReady(u))
      BY <1>1, <2>1 DEF LineTypes, Mapped
    <2>4. Confirmed(v, waits, host, t, chan) /\ (Coming => NoReady(v))
      BY <2>2, <2>3, AskedTail
    <2> QED
      BY <1>1, <1>2, <1>3, <1>7, <2>1, <2>4 DEF Mapped
  <1> QED
    BY <1>3, <1>4, <1>5, <1>6, <1>8, <1>9 DEF BridgeInv

\* The worker takes a message, whatever it then tells the page on the same channel.
LEMMA MainTakes ==
  ASSUME BridgeInv, UNCHANGED <<open, inits, asks, pageVars>>, NEW c, c = host.chan, c # 0, NEW s, s = toWorker[c],
         s # << >>, toWorker' = [toWorker EXCEPT ![c] = Tail(s)], host' = Apply(host, Head(s)), RequestTypes', Behind',
         NEW v \in Seq(WorkerMessages), toPage' = ToPage(c, v),
         c = chan => Confirmed(v, waits, host', Tail(s), chan)
  PROVE  BridgeInv'
  <1>1. /\ PageTypes /\ WorkerTypes /\ LineTypes /\ Lines /\ Announced /\ Mapped /\ chan \in Channels /\ host \in Hosts
        /\ Waiting
    BY DEF BridgeInv, PageTypes, WorkerTypes, Mapped
  <1>2. PageTypes' /\ (Waiting => Waiting') /\ chan' = chan /\ waits' = waits
        /\ ready' = ready /\ servers' = servers /\ primary' = primary
    BY <1>1, PageStays
  <1>3. c \in Channels /\ c <= chan /\ c \in Nat /\ chan \in Nat
    BY <1>1, BoundsAre DEF Hosts, Lines, Channels
  <1>4. s \in Seq(PageMessages)
    BY <1>1, <1>3 DEF LineTypes
  <1>5. Head(s) \in PageMessages /\ Tail(s) \in Seq(PageMessages)
    BY <1>4, TailIs
  <1>6. host' \in Hosts /\ host'.chan = c
    <2>1. host' \in Hosts
      BY <1>1, <1>5, AppliedIsHost
    <2>2. host'.chan = c
      BY DEF Apply, Registers, Removes
    <2> QED
      BY <2>1, <2>2
  <1>7. WorkerTypes'
    BY <1>6 DEF WorkerTypes
  <1>8. /\ toWorker' \in [Channels -> Seq(PageMessages)]
        /\ \A d \in Channels : toWorker'[d] = IF d = c THEN Tail(s) ELSE toWorker[d]
    BY <1>1, <1>3, <1>5 DEF LineTypes
  <1>9. /\ toPage' \in [Channels -> Seq(WorkerMessages)]
        /\ \A d \in Channels : toPage'[d] = IF d = c THEN toPage[d] \o v ELSE toPage[d]
    BY <1>1, ToPageIs
  <1>10. LineTypes'
    BY <1>1, <1>8, <1>9 DEF LineTypes
  <1>11. Lines'
    <2>1. ASSUME NEW d \in Channels, d > chan PROVE toWorker'[d] = << >> /\ toPage'[d] = << >>
      <3>1. d # c
        BY <1>3, <2>1
      <3> QED
        BY <1>1, <1>8, <1>9, <2>1, <3>1 DEF Lines
    <2> QED
      BY <1>1, <1>2, <1>6, <2>1 DEF Lines
  <1>12. Coming' = Coming
    BY <1>2 DEF Coming
  <1>13. CASE c = chan
    <2>1. Known = host /\ Known' = host'
      BY <1>2, <1>6, <1>13 DEF Known
    <2>2. PICK e \in Hosts : Tells(e, ready, chan, servers, primary) /\ Replay(host', Tail(s), e)
      <3>1. PICK e \in Hosts : Tells(e, ready, chan, servers, primary) /\ Replay(host, s, e)
        BY <1>1, <1>13, <2>1 DEF Announced
      <3>2. Replay(host', Tail(s), e)
        BY <1>4, <3>1, ReplayTail
      <3> QED
        BY <3>1, <3>2
    <2>3. toWorker'[chan] = Tail(s)
      BY <1>3, <1>8, <1>13
    <2>4. Announced'
      BY <1>2, <2>1, <2>2, <2>3 DEF Announced
    <2>5. ~Coming
      <3>1. \A i \in 1 .. Len(inits) : inits[i] # chan
        <4>1. \A i \in 1 .. Len(inits) : inits[i] \in Channels
          BY <1>1, LenIs DEF LineTypes
        <4> QED
          BY <1>1, <1>3, <1>13, <4>1 DEF Lines, Channels
      <3> QED
        BY <3>1 DEF Coming
    <2>6. Checked(Tail(s), waits)
      BY <1>1, <1>4, <1>13, CheckedTail DEF Mapped
    <2>7. PICK u : u = toPage[chan]
      OBVIOUS
    <2>8. u \in Seq(WorkerMessages) /\ Confirmed(u, waits, host, s, chan)
      BY <1>1, <1>13, <2>7 DEF LineTypes, Mapped
    <2>9. \A w \in Waits : waits[w].state = "asked" /\ host'.chan = chan =>
            host.chan = chan /\ (Sure(host, s, waits[w].port) => Sure(host', Tail(s), waits[w].port))
      <3>1. \A w \in Waits : waits[w].state = "asked" => waits[w].port \in Ports
        BY <1>1 DEF Waiting
      <3> QED
        BY <1>1, <1>4, <1>13, <3>1, SureTakes
    <2>10. Confirmed(u, waits, host', Tail(s), chan)
      BY <2>8, <2>9, LaterSame, ConfirmedLater
    <2>11. Confirmed(u \o v, waits, host', Tail(s), chan)
      BY <1>13, <2>8, <2>10, ConfirmedJoin
    <2>12. toPage'[chan] = u \o v
      BY <1>3, <1>9, <1>13, <2>7
    <2>13. Mapped'
      BY <1>1, <1>2, <1>12, <2>3, <2>5, <2>6, <2>11, <2>12 DEF Mapped
    <2> QED
      BY <1>2, <1>7, <1>10, <1>11, <2>4, <2>13 DEF BridgeInv
  <1>14. CASE c # chan
    <2>1. toWorker'[chan] = toWorker[chan] /\ toPage'[chan] = toPage[chan]
      BY <1>1, <1>8, <1>9, <1>14
    <2>2. Known' = Known
      BY <1>2, <1>6, <1>14 DEF Known, Blank
    <2>3. Announced'
      BY <1>1, <1>2, <1>6, <1>12, <1>14, <2>1, <2>2 DEF Announced
    <2>4. PICK u, t : u = toPage[chan] /\ t = toWorker[chan]
      OBVIOUS
    <2>5. u \in Seq(WorkerMessages) /\ Confirmed(u, waits, host, t, chan)
      BY <1>1, <2>4 DEF LineTypes, Mapped
    <2>6. Confirmed(u, waits, host', t, chan)
      BY <1>6, <1>14, <2>5, LaterSame, ConfirmedLater
    <2>7. Mapped'
      BY <1>1, <1>2, <1>12, <2>1, <2>4, <2>6 DEF Mapped
    <2> QED
      BY <1>2, <1>7, <1>10, <1>11, <2>3, <2>7 DEF BridgeInv
  <1> QED
    BY <1>13, <1>14


LEMMA NothingToPage ==
  ASSUME LineTypes, NEW c \in Channels
  PROVE  toPage = ToPage(c, << >>) /\ << >> \in Seq(WorkerMessages) /\ << >> \in Seq(Requesting)
  <1>1. << >> \in Seq(WorkerMessages) /\ << >> \in Seq(Requesting)
    OBVIOUS
  <1>2. toPage[c] \o << >> = toPage[c]
    BY JoinNone DEF LineTypes
  <1>3. ToPage(c, << >>) = [toPage EXCEPT ![c] = toPage[c]]
    BY <1>2 DEF ToPage
  <1> QED
    BY <1>1, <1>3 DEF LineTypes

LEMMA OnRegistrationKeeps ==
  ASSUME BridgeInv, UNCHANGED <<lastId, open, inits, asks, pageVars>>, host.chan # 0, NEW s, s = toWorker[host.chan],
         s # << >>, toWorker' = [toWorker EXCEPT ![host.chan] = Tail(s)],
         Head(s) \in Registrations \cup Removals, OnRegistration(Head(s))
  PROVE  BridgeInv'
  <1>1. PICK m, p : m = Head(s) /\ p = m.port
    OBVIOUS
  <1>2. RequestTypes /\ Behind /\ chan \in Channels /\ host \in Hosts /\ chan' = chan
    BY DEF BridgeInv, PageTypes, WorkerTypes, Lines, pageVars
  <1>3. host' = Apply(host, m)
    BY <1>1, <1>2, OnRegistrationIs
  <1>4. reqs' = Stale(Failed(Ended(p)), Outdated(p)) /\ toPage' = ToPage(host.chan, Cancels(Ended(p)))
    BY <1>1 DEF OnRegistration
  <1>5. RequestTypes' /\ Behind'
    BY <1>2, <1>4, StaleStep
  <1>6. PICK v : v = Cancels(Ended(p))
    OBVIOUS
  <1>7. v \in Seq(Requesting)
    <2>1. Ended(p) \subseteq Requests /\ \A r \in Ended(p) : reqs[r].stage = "sent"
      BY DEF Ended, Controlled
    <2> QED
      BY <1>2, <1>6, <2>1, CancelsAre
  <1>8. v \in Seq(WorkerMessages) /\ Confirmed(v, waits, host', Tail(s), chan)
    BY <1>7, WiderSeq, Unconfirmed DEF WorkerMessages
  <1> QED
    BY <1>1, <1>3, <1>4, <1>5, <1>6, <1>8, MainTakes

LEMMA OnMappingCheckKeeps ==
  ASSUME BridgeInv, UNCHANGED <<lastId, open, inits, asks, pageVars>>, host.chan # 0, NEW s, s = toWorker[host.chan],
         s # << >>, toWorker' = [toWorker EXCEPT ![host.chan] = Tail(s)],
         Head(s) \in Checks, OnMappingCheck(Head(s))
  PROVE  BridgeInv'
  <1>1. PICK m, w, p : m = Head(s) /\ w = m.wait /\ p = m.port
    OBVIOUS
  <1>2. /\ RequestTypes /\ Behind /\ chan \in Channels /\ host \in Hosts /\ chan' = chan /\ LineTypes /\ Mapped
        /\ host' = host /\ reqs' = reqs
    BY DEF BridgeInv, PageTypes, WorkerTypes, Lines, pageVars, OnMappingCheck
  <1>3. m \in Others /\ m.type = "port-mapping-check" /\ w \in Waits /\ p \in Ports
    BY <1>1 DEF Others, Checks
  <1>4. host' = Apply(host, m)
    BY <1>2, <1>3, OthersApply
  <1>5. RequestTypes' /\ Behind'
    BY <1>2 DEF RequestTypes, Posted, Placed, Behind
  <1>6. PICK a : a = MappingReady(w, p, p \in host.ports, host.primary = p)
    OBVIOUS
  <1>7. a \in Readies /\ a.wait = w /\ (a.registered <=> p \in host.ports) /\ (a.primary <=> host.primary = p)
    <2>1. (p \in host.ports) \in BOOLEAN /\ (host.primary = p) \in BOOLEAN
      OBVIOUS
    <2>2. PICK x, y : x \in BOOLEAN /\ y \in BOOLEAN /\ x = (p \in host.ports) /\ y = (host.primary = p)
      BY <2>1, Zenon
    <2>3. a = MappingReady(w, p, x, y)
      BY <1>6, <2>2
    <2>4. a \in Readies /\ a.wait = w /\ a.registered = x /\ a.primary = y
      BY <1>3, <2>2, <2>3 DEF MappingReady, Readies
    <2> QED
      BY <2>2, <2>4
  <1>8. toPage' = ToPage(host.chan, <<a>>)
    BY <1>1, <1>6 DEF OnMappingCheck
  <1>9. <<a>> \in Seq(WorkerMessages)
    BY <1>7, OneMessage DEF WorkerMessages
  <1>10. ASSUME host.chan = chan PROVE Confirmed(<<a>>, waits, host', Tail(s), chan)
    <2>1. s \in Seq(PageMessages) /\ Checked(s, waits)
      BY <1>2, <1>10 DEF LineTypes, Mapped
    <2>2. PICK n, t : n = Len(s) - 1 /\ t = Tail(s)
      OBVIOUS
    <2>3. /\ n \in Nat /\ Len(s) = n + 1 /\ Len(t) = n /\ m = s[1] /\ 1 \in 1 .. n + 1
          /\ \A i \in 1 .. n : t[i] = s[i + 1] /\ i + 1 \in 1 + 1 .. n + 1
      BY <1>1, <2>1, <2>2, TailIs
    <2>4. /\ waits[w].state # "idle"
          /\ waits[w].state = "asked" =>
               p = waits[w].port /\ \A j \in 1 + 1 .. n + 1 : Keeps(s[j], waits[w].port)
      <3>1. 1 \in 1 .. Len(s) /\ s[1].type = "port-mapping-check" /\ s[1].wait = w /\ s[1].port = p
        BY <1>1, <1>3, <2>3
      <3>2. /\ waits[s[1].wait].state # "idle"
            /\ waits[s[1].wait].state = "asked" =>
                 /\ s[1].port = waits[s[1].wait].port
                 /\ \A j \in 1 + 1 .. Len(s) : Keeps(s[j], waits[s[1].wait].port)
        BY <2>1, <3>1 DEF Checked
      <3> QED
        BY <2>3, <3>1, <3>2
    <2>5. waits[w].state = "asked" => p = waits[w].port /\ KeepAll(t, p)
      BY <2>3, <2>4 DEF KeepAll
    <2>6. waits[w].state = "asked" /\ a.registered /\ a.primary => Sure(host, t, waits[w].port)
      BY <1>7, <2>5 DEF Sure
    <2>7. Len(<<a>>) = 1 /\ <<a>>[1] = a /\ \A k \in 1 .. 1 : k = 1
      OBVIOUS
    <2> QED
      BY <1>2, <1>7, <2>2, <2>4, <2>6, <2>7 DEF Confirmed
  <1> QED
    BY <1>1, <1>4, <1>5, <1>8, <1>9, <1>10, MainTakes

LEMMA OnAnswerKeeps ==
  ASSUME BridgeInv, UNCHANGED <<lastId, open, inits, asks, pageVars>>, host.chan # 0, NEW s, s = toWorker[host.chan],
         s # << >>, toWorker' = [toWorker EXCEPT ![host.chan] = Tail(s)],
         Head(s) \in AnswerMessages, OnAnswer(Head(s))
  PROVE  BridgeInv'
  <1>1. PICK m, mine : /\ m = Head(s)
                       /\ mine = {r \in Requests : /\ reqs[r].stage = "sent" /\ reqs[r].id = m.id
                                                   /\ reqs[r].chan = host.chan}
    OBVIOUS
  <1>2. /\ RequestTypes /\ Behind /\ chan \in Channels /\ host \in Hosts /\ chan' = chan /\ LineTypes
        /\ host' = host
    BY DEF BridgeInv, PageTypes, WorkerTypes, Lines, pageVars, OnAnswer
  <1>3. mine \subseteq Requests /\ \A r \in mine : reqs[r].stage = "sent"
    BY <1>1
  <1>4. host' = Apply(host, m)
    BY <1>1, <1>2, OthersApply DEF Others
  <1>5. reqs' = [r \in Requests |-> IF r \in mine
                   THEN IF Controlled(r) THEN Message(reqs[r], m) ELSE LegacyMessage(reqs[r], m) ELSE reqs[r]]
    BY <1>1 DEF OnAnswer
  <1>6. RequestTypes' /\ Behind'
    <2>1. PICK f : f = reqs'
      OBVIOUS
    <2>2. DOMAIN f = Requests /\ f = [r \in Requests |-> f[r]]
      BY <1>5, <2>1
    <2>3. ASSUME NEW r \in Requests PROVE Moves(reqs[r], f[r])
      <3>1. reqs[r] \in WorkerRequests /\ Placed(reqs[r]) /\ reqs[r].chan <= chan
        BY <1>2 DEF RequestTypes, Behind
      <3>2. CASE r \in mine
        <4>1. f[r] = Message(reqs[r], m) \/ f[r] = LegacyMessage(reqs[r], m)
          BY <1>5, <2>1, <3>2
        <4>2. reqs[r].stage = "sent"
          BY <1>3, <3>2
        <4> QED
          BY <1>1, <1>2, <3>1, <4>1, <4>2, MessageMoves, LegacyMessageMoves
      <3>3. CASE r \notin mine
        <4>1. f[r] = reqs[r]
          BY <1>5, <2>1, <3>3
        <4> QED
          BY <1>2, <4>1, StaysMoves
      <3> QED
        BY <3>2, <3>3
    <2> QED
      BY <1>2, <2>1, <2>2, <2>3, RequestsMove
  <1>7. PICK v : v \in {<< >>, Cancels(mine)} /\ toPage' = ToPage(host.chan, v)
    <2>1. toPage' = toPage \/ toPage' = ToPage(host.chan, Cancels(mine))
      BY <1>1 DEF OnAnswer
    <2>2. host.chan \in Channels
      BY <1>2 DEF Hosts
    <2>3. toPage = ToPage(host.chan, << >>)
      BY <1>2, <2>2, NothingToPage
    <2> QED
      BY <2>1, <2>3
  <1>8. v \in Seq(Requesting)
    <2>1. Cancels(mine) \in Seq(Requesting) /\ << >> \in Seq(Requesting)
      BY <1>2, <1>3, CancelsAre
    <2> QED
      BY <1>7, <2>1
  <1>9. v \in Seq(WorkerMessages) /\ Confirmed(v, waits, host', Tail(s), chan)
    BY <1>8, WiderSeq, Unconfirmed DEF WorkerMessages
  <1> QED
    BY <1>1, <1>4, <1>6, <1>7, <1>9, MainTakes

\* handleMainMessage
LEMMA MainMessageKeeps ==
  ASSUME BridgeInv, HandleMainMessage, UNCHANGED pageVars
  PROVE  BridgeInv'
  <1>1. PICK s, m : s = toWorker[host.chan] /\ m = Head(s)
    OBVIOUS
  <1>2. /\ host.chan # 0 /\ s # << >> /\ toWorker' = [toWorker EXCEPT ![host.chan] = Tail(s)]
        /\ UNCHANGED <<lastId, open, inits, asks>>
        /\ \/ m.type \in {"server-registered", "server-unregistered"} /\ OnRegistration(m)
           \/ m.type = "port-mapping-check" /\ OnMappingCheck(m)
           \/ m.type \notin {"server-registered", "server-unregistered", "port-mapping-check"} /\ OnAnswer(m)
    BY <1>1 DEF HandleMainMessage
  <1>3. host.chan \in Channels /\ s \in Seq(PageMessages)
    BY <1>1, <1>2 DEF BridgeInv, WorkerTypes, LineTypes, Hosts
  <1>4. m \in PageMessages
    BY <1>1, <1>2, <1>3, TailIs
  <1>5. CASE m.type \in {"server-registered", "server-unregistered"} /\ OnRegistration(m)
    <2>1. m \in Registrations \cup Removals
      BY <1>4, <1>5, PageMessageIs
    <2> QED
      BY <1>1, <1>2, <1>5, <2>1, OnRegistrationKeeps
  <1>6. CASE m.type = "port-mapping-check" /\ OnMappingCheck(m)
    <2>1. m \in Checks
      BY <1>4, <1>6, PageMessageIs
    <2> QED
      BY <1>1, <1>2, <1>6, <2>1, OnMappingCheckKeeps
  <1>7. CASE m.type \notin {"server-registered", "server-unregistered", "port-mapping-check"} /\ OnAnswer(m)
    <2>1. m \in AnswerMessages
      BY <1>4, <1>7, PageMessageIs
    <2> QED
      BY <1>1, <1>2, <1>7, <2>1, OnAnswerKeeps
  <1> QED
    BY <1>2, <1>5, <1>6, <1>7

\* The host ends with its worker; what is on its way to the page stays.
LEMMA HostEnds ==
  ASSUME BridgeInv, UNCHANGED <<toPage, pageVars>>, host' = NoHost, open' = {}, inits' = << >>,
         asks' \in Nat, chan + asks' <= MaxChannel, RequestTypes', Behind',
         toWorker' = toWorker \/ toWorker' = [c \in Channels |-> << >>]
  PROVE  BridgeInv'
  <1>1. /\ PageTypes /\ LineTypes /\ Lines /\ Mapped /\ chan \in Channels /\ Waiting
    BY DEF BridgeInv, PageTypes, Mapped
  <1>2. PageTypes' /\ (Waiting => Waiting') /\ chan' = chan /\ waits' = waits
    BY <1>1, PageStays
  <1>3. NoHost \in Hosts /\ NoHost.chan = 0
    <2>1. NoHost = Blank(0)
      BY DEF NoHost, Blank
    <2>2. NoHost.chan = 0
      BY DEF NoHost
    <2> QED
      BY <2>1, <2>2, BlankIs
  <1>4. WorkerTypes'
    BY <1>3 DEF WorkerTypes
  <1>5. << >> \in Seq(PageMessages) /\ << >> \in Seq(Channels) /\ {} \subseteq Channels
    OBVIOUS
  <1>6. /\ toWorker' \in [Channels -> Seq(PageMessages)]
        /\ \A d \in Channels : toWorker'[d] = toWorker[d] \/ toWorker'[d] = << >>
    BY <1>1, <1>5 DEF LineTypes
  <1>7. LineTypes'
    BY <1>1, <1>5, <1>6 DEF LineTypes
  <1>8. chan \in Nat /\ chan # 0 /\ 0 <= chan
    BY <1>1, BoundsAre DEF Channels
  <1>9. Len(<< >>) = 0 /\ \A i \in 1 .. Len(<< >>) : FALSE
    OBVIOUS
  <1>10. Lines'
    <2>1. \A d \in Channels : d > chan => toWorker'[d] = << >> /\ toPage'[d] = << >>
      BY <1>1, <1>6 DEF Lines
    <2> QED
      BY <1>2, <1>3, <1>8, <1>9, <2>1 DEF Lines
  <1>11. ~Coming'
    BY <1>9 DEF Coming
  <1>12. Announced'
    BY <1>2, <1>3, <1>8, <1>11 DEF Announced
  <1>13. Mapped'
    <2>1. PICK u, t, x : u = toPage[chan] /\ t = toWorker[chan] /\ x = toWorker'[chan]
      OBVIOUS
    <2>2. u \in Seq(WorkerMessages) /\ Confirmed(u, waits, host, t, chan) /\ Checked(t, waits)
      BY <1>1, <2>1 DEF LineTypes, Mapped
    <2>3. Confirmed(u, waits, NoHost, x, chan)
      BY <1>3, <1>8, <2>2, LaterSame, ConfirmedLater
    <2>4. Checked(x, waits)
      BY <1>1, <1>6, <2>1, <2>2, NoneIs
    <2> QED
      BY <1>1, <1>2, <1>11, <2>1, <2>3, <2>4 DEF Mapped
  <1> QED
    BY <1>2, <1>4, <1>7, <1>10, <1>12, <1>13 DEF BridgeInv

\* A worker is stopped, idle, or another one takes its place.
LEMMA StopKeeps ==
  ASSUME BridgeInv, Stop, UNCHANGED pageVars
  PROVE  BridgeInv'
  <1>1. /\ RequestTypes /\ Behind /\ chan \in Channels /\ chan' = chan /\ asks \in Nat /\ chan + asks <= MaxChannel
    BY DEF BridgeInv, PageTypes, WorkerTypes, Lines, LineTypes, pageVars
  <1>2. CASE Restart
    <2>1. /\ host' = NoHost /\ lastId' = 0 /\ open' = {} /\ inits' = << >>
          /\ reqs' = reqs /\ toWorker' = toWorker /\ toPage' = toPage /\ asks' = asks
      BY <1>2 DEF Restart, Idle
    <2>2. reqs' = Failed({})
      BY <1>1, <2>1 DEF Failed, RequestTypes
    <2>3. RequestTypes' /\ Behind'
      BY <1>1, <2>1, <2>2, FailedStep
    <2> QED
      BY <1>1, <2>1, <2>3, HostEnds
  <1>3. CASE Replace /\ ChannelLeft
    <2>1. /\ host' = NoHost /\ lastId' = 0 /\ open' = {} /\ inits' = << >> /\ asks' = asks + 1
          /\ reqs' = Failed({r \in Requests : Active(r)})
          /\ toWorker' = [c \in Channels |-> << >>] /\ toPage' = toPage
      BY <1>3 DEF Replace
    <2>2. RequestTypes' /\ Behind'
      BY <1>1, <2>1, FailedStep
    <2>3. asks' \in Nat /\ chan + asks' <= MaxChannel
      <3>1. chan + asks < MaxChannel
        BY <1>3 DEF ChannelLeft
      <3>2. chan \in Nat /\ MaxChannel \in Nat
        BY <1>1, BoundsAre DEF Channels
      <3> QED
        BY <1>1, <2>1, <3>1, <3>2
    <2> QED
      BY <2>1, <2>2, <2>3, HostEnds
  <1> QED
    BY <1>2, <1>3 DEF Stop

\* openHost
LEMMA OpenHostKeeps ==
  ASSUME BridgeInv, OpenHost, UNCHANGED pageVars
  PROVE  BridgeInv'
  <1>1. /\ PageTypes /\ LineTypes /\ Lines /\ Announced /\ Mapped /\ chan \in Channels /\ Waiting /\ host \in Hosts
        /\ RequestTypes /\ Behind
    BY DEF BridgeInv, PageTypes, Mapped, WorkerTypes, Lines
  <1>2. PageTypes' /\ (Waiting => Waiting') /\ chan' = chan /\ waits' = waits
        /\ ready' = ready /\ servers' = servers /\ primary' = primary
    BY <1>1, PageStays
  <1>3. PICK c, d, n, s : c = Head(inits) /\ d = host.chan /\ n = Len(inits) - 1 /\ s = Tail(inits)
    OBVIOUS
  <1>4. /\ inits # << >> /\ inits' = s /\ host' = [NoHost EXCEPT !.chan = c] /\ open' = open \ {d}
        /\ reqs' = Stale(Failed(Replaced), {r \in Requests : Preparing(r) /\ reqs[r].chan = host.chan})
        /\ toPage' = IF d = 0 THEN toPage ELSE ToPage(d, Cancels(Replaced))
        /\ toWorker' = [e \in Channels |-> IF e = d THEN << >> ELSE toWorker[e]]
        /\ lastId' = lastId /\ asks' = asks
    BY <1>3 DEF OpenHost
  <1>5. inits \in Seq(Channels)
    BY <1>1 DEF LineTypes
  <1>6. /\ n \in Nat /\ Len(inits) = n + 1 /\ Len(s) = n /\ c = inits[1] /\ c \in Channels /\ s \in Seq(Channels)
        /\ \A i \in 1 .. n : s[i] = inits[i + 1]
    BY <1>3, <1>4, <1>5, TailIs
  <1>7. /\ 1 \in 1 .. n + 1 /\ \A i \in 1 .. n : i + 1 \in 1 .. n + 1 /\ 1 < i + 1
        /\ \A i, j \in 1 .. n : i < j => i + 1 < j + 1
    BY <1>6
  <1>8. /\ chan \in Nat /\ chan # 0 /\ c \in Nat /\ c # 0 /\ d \in Nat /\ d \in Channels \cup {0} /\ d <= chan
    BY <1>1, <1>3, <1>6, BoundsAre DEF Channels, Hosts, Lines
  <1>9. d < c /\ c <= chan /\ c \in open
    BY <1>1, <1>3, <1>6, <1>7 DEF Lines
  <1>10. \A i \in 1 .. n : c < s[i] /\ s[i] <= chan /\ s[i] \in open
    BY <1>1, <1>6, <1>7 DEF Lines
  <1>11. \A i, j \in 1 .. n : i < j => s[i] < s[j]
    BY <1>1, <1>6, <1>7 DEF Lines
  <1>12. host' = Blank(c) /\ host' \in Hosts /\ host'.chan = c
    <2>1. Blank(c).chan = c
      BY DEF Blank
    <2> QED
      BY <1>4, <1>6, <2>1, BlankIs
  <1>13. RequestTypes' /\ Behind'
    BY <1>1, <1>2, <1>4, StaleStep
  <1>14. WorkerTypes'
    BY <1>12, <1>13 DEF WorkerTypes
  <1>15. Asking
    <2>1. CASE d = 0
      BY <1>1, <1>4, <2>1, AsksNothing
    <2>2. CASE d # 0
      <3>1. Replaced \subseteq Requests /\ \A r \in Replaced : reqs[r].stage = "sent"
        BY DEF Replaced, Controlled
      <3>2. Cancels(Replaced) \in Seq(Requesting)
        BY <1>1, <3>1, CancelsAre
      <3>3. toPage' = ToPage(d, Cancels(Replaced))
        BY <1>4, <2>2
      <3> QED
        BY <1>1, <1>8, <3>2, <3>3, AsksOn
    <2> QED
      BY <2>1, <2>2
  <1>16. /\ toWorker' \in [Channels -> Seq(PageMessages)]
         /\ \A e \in Channels : toWorker'[e] = IF e = d THEN << >> ELSE toWorker[e]
    <2>1. << >> \in Seq(PageMessages)
      OBVIOUS
    <2> QED
      BY <1>1, <1>4, <2>1 DEF LineTypes
  <1>17. LineTypes'
    <2>1. toPage' \in [Channels -> Seq(WorkerMessages)]
      BY <1>15 DEF Asking
    <2> QED
      BY <1>1, <1>4, <1>6, <1>16, <2>1 DEF LineTypes
  <1>18. d # chan /\ toWorker'[chan] = toWorker[chan]
    BY <1>1, <1>8, <1>9, <1>16
  <1>19. Lines'
    <2>1. \A e \in Channels : e > chan => toWorker'[e] = << >> /\ toPage'[e] = << >>
      <3>1. \A e \in Channels : e > chan => toPage'[e] = toPage[e]
        BY <1>1, <1>15, AskingIs
      <3>2. \A e \in Channels : e > chan => toWorker[e] = << >> /\ toPage[e] = << >>
        BY <1>1 DEF Lines
      <3> QED
        BY <1>16, <3>1, <3>2
    <2>2. chan + asks <= MaxChannel /\ open \subseteq 1 .. chan
      BY <1>1 DEF Lines
    <2>3. c \in open' /\ open' \subseteq 1 .. chan
      BY <1>4, <1>8, <1>9, <2>2
    <2>4. \A i \in 1 .. n : s[i] \in open'
      <3>1. \A i \in 1 .. n : s[i] \in Channels
        BY <1>6, LenIs
      <3>2. \A i \in 1 .. n : s[i] # d
        BY <1>8, <1>9, <1>10, <3>1 DEF Channels
      <3> QED
        BY <1>4, <1>10, <3>2
    <2> QED
      BY <1>2, <1>4, <1>6, <1>9, <1>10, <1>11, <1>12, <1>13, <2>1, <2>2, <2>3, <2>4 DEF Lines
  <1>20. Coming' => Coming
    BY <1>2, <1>4, <1>6, <1>7 DEF Coming
  <1>21. c = chan => Coming
    BY <1>6, <1>7 DEF Coming
  <1>22. Announced'
    <2>1. SUFFICES ASSUME c = chan \/ Coming'
                   PROVE  \E e \in Hosts : Tells(e, ready, chan, servers, primary) /\ Replay(Known', toWorker[chan], e)
      BY <1>2, <1>12, <1>18 DEF Announced
    <2>2. Known' = Blank(chan) /\ Known = Blank(chan)
      BY <1>2, <1>3, <1>12, <1>18 DEF Known, Blank
    <2> QED
      BY <1>1, <1>20, <1>21, <2>1, <2>2 DEF Announced
  <1>23. Mapped'
    <2>1. PICK u, v, t : u = toPage[chan] /\ v = toPage'[chan] /\ t = toWorker[chan]
      OBVIOUS
    <2>2. PICK q \in Seq(Requesting) : v = u \/ v = u \o q
      BY <1>1, <1>15, <2>1, AskingIs
    <2>3. /\ u \in Seq(WorkerMessages) /\ Confirmed(u, waits, host, t, chan) /\ Checked(t, waits)
          /\ (Coming => NoReady(u))
      BY <1>1, <2>1 DEF LineTypes, Mapped
    <2>4. /\ Confirmed(v, waits, host, t, chan) /\ (NoReady(u) => NoReady(v))
      BY <2>2, <2>3, AskedTail
    <2>5. Confirmed(v, waits, host', t, chan)
      <3>1. CASE c = chan
        BY <1>21, <2>3, <2>4, <3>1 DEF NoReady, Confirmed
      <3>2. CASE c # chan
        <4>1. v \in Seq(WorkerMessages)
          BY <1>1, <1>17, <2>1 DEF LineTypes
        <4> QED
          BY <1>12, <2>4, <3>2, <4>1, LaterSame, ConfirmedLater
      <3> QED
        BY <3>1, <3>2
    <2> QED
      BY <1>1, <1>2, <1>18, <1>20, <2>1, <2>3, <2>4, <2>5 DEF Mapped
  <1> QED
    BY <1>2, <1>14, <1>17, <1>19, <1>22, <1>23 DEF BridgeInv

----------------------------------------------------------------------------
(* The whole bridge                                                         *)

LEMMA NewIsWell ==
  /\ NewRequest \in WorkerRequests /\ Placed(NewRequest) /\ NewRequest.chan = 0 /\ NewRequest.stage = "new"
  /\ NoStream \in StreamRecords /\ Named(NoStream) /\ NoWait \in WaitRecords /\ NoWait.state = "idle"
  <1>1. 0 \in 0 .. MaxGen /\ 0 \in 0 .. NoServer /\ 0 \in 0 .. Chunks
    BY BoundsAre, GensAre
  <1>2. << >> \in Seq(Answers) /\ << >> \in Seq(1 .. Chunks)
    OBVIOUS
  <1>3. NewRequest \in WorkerRequests
    BY <1>1, <1>2 DEF NewRequest, WorkerRequests
  <1>4. Placed(NewRequest) /\ NewRequest.chan = 0 /\ NewRequest.stage = "new"
    BY DEF NewRequest, Placed
  <1>5. NoStream \in StreamRecords
    BY <1>1, <1>2 DEF NoStream, StreamRecords
  <1>6. Named(NoStream)
    BY DEF NoStream, Named
  <1>7. NoWait \in WaitRecords /\ NoWait.state = "idle"
    BY DEF NoWait, WaitRecords
  <1> QED
    BY <1>3, <1>4, <1>5, <1>6, <1>7

LEMMA FirstIs ==
  ASSUME Init
  PROVE  BridgeInv
  <1>1. /\ toWorker = [c \in Channels |-> << >>] /\ toPage = [c \in Channels |-> << >>]
        /\ open = {1} /\ inits = <<1>> /\ asks = 0
    BY DEF Init, ChannelsInit
  <1>2. /\ servers = [p \in Ports |-> 0] /\ gens = 0 /\ primary = 0 /\ chan = 1 /\ ready = FALSE
        /\ streams = [r \in Requests |-> NoStream] /\ controlled = [i \in Ids |-> 0]
        /\ waits = [w \in Waits |-> NoWait]
    BY DEF Init, PageInit
  <1>3. host = NoHost /\ lastId = 0 /\ reqs = [r \in Requests |-> NewRequest]
    BY DEF Init, WorkerInit
  <1>4. 1 \in Channels /\ 0 \in 0 .. MaxGen /\ 1 <= MaxChannel /\ MaxChannel \in Nat
    BY PreviewBounds DEF Channels
  <1>5. Serves
    <2>1. servers \in [Ports -> 0 .. MaxGen]
      BY <1>2, <1>4
    <2> QED
      BY <1>2, <2>1 DEF Serves
  <1>6. StreamTypes
    <2>1. streams \in [Requests -> StreamRecords] /\ \A r \in Requests : Named(streams[r])
      BY <1>2, NewIsWell
    <2>2. controlled \in [Ids -> Requests \cup {0}]
      BY <1>2
    <2> QED
      BY <2>1, <2>2 DEF StreamTypes
  <1>7. WaitTypes /\ \A w \in Waits : waits[w].state = "idle"
    BY <1>2, NewIsWell DEF WaitTypes
  <1>8. PageTypes
    BY <1>2, <1>4, <1>5, <1>6, <1>7 DEF PageTypes
  <1>9. RequestTypes
    <2>1. \A r \in Requests : reqs[r] = NewRequest
      BY <1>3
    <2>2. Posted = {}
      BY <2>1, NewIsWell DEF Posted
    <2>3. lastId \in Nat /\ lastId <= Cardinality(Posted)
      BY <1>3, <2>2, FS_EmptySet
    <2>4. reqs \in [Requests -> WorkerRequests]
      BY <1>3, NewIsWell
    <2> QED
      BY <2>1, <2>3, <2>4, NewIsWell DEF RequestTypes
  <1>10. host \in Hosts /\ host.chan = 0
    <2>1. NoHost = Blank(0) /\ NoHost.chan = 0
      BY DEF NoHost, Blank
    <2> QED
      BY <1>3, <2>1, BlankIs
  <1>11. WorkerTypes
    BY <1>9, <1>10 DEF WorkerTypes
  <1>12. /\ << >> \in Seq(PageMessages) /\ << >> \in Seq(WorkerMessages)
         /\ inits \in Seq(Channels) /\ Len(inits) = 1 /\ \A i \in 1 .. 1 : i = 1 /\ inits[i] = 1
    <2>1. inits \in Seq(Channels) /\ Len(inits) = 1 /\ inits[1] = 1 /\ \A i \in 1 .. 1 : i = 1
      BY <1>1, <1>4, OneMessage
    <2> QED
      BY <2>1
  <1>13. LineTypes /\ \A c \in Channels : toWorker[c] = << >> /\ toPage[c] = << >>
    BY <1>1, <1>4, <1>12 DEF LineTypes
  <1>14. Lines
    <2>1. Behind
      BY <1>2, <1>3, NewIsWell DEF Behind
    <2>2. open \subseteq 1 .. chan /\ 1 \in open
      BY <1>1, <1>2
    <2>3. \A i, j \in 1 .. Len(inits) : ~(i < j)
      BY <1>12
    <2> QED
      BY <1>1, <1>2, <1>4, <1>10, <1>12, <1>13, <2>1, <2>2, <2>3 DEF Lines
  <1>15. toWorker[chan] = << >> /\ toPage[chan] = << >>
    BY <1>2, <1>4, <1>13
  <1>16. Announced
    <2>1. Known = Blank(1) /\ Tells(Blank(1), ready, chan, servers, primary)
      BY <1>2, <1>10 DEF Known, Tells
    <2>2. Blank(1) \in Hosts
      BY <1>4, BlankIs
    <2> QED
      BY <1>15, <2>1, <2>2, ReplayNone DEF Announced
  <1>17. Mapped
    <2>1. Waiting
      BY <1>7 DEF Waiting
    <2>2. Checked(<< >>, waits)
      BY NoneIs
    <2>3. \A k \in 1 .. Len(<< >>) : FALSE
      OBVIOUS
    <2>4. NoReady(<< >>) /\ Confirmed(<< >>, waits, host, << >>, chan)
      BY <2>3 DEF NoReady, Confirmed
    <2> QED
      BY <1>15, <2>1, <2>2, <2>4 DEF Mapped
  <1> QED
    BY <1>8, <1>11, <1>13, <1>14, <1>16, <1>17 DEF BridgeInv

LEMMA PageKeeps ==
  ASSUME BridgeInv, PageStep
  PROVE  BridgeInv'
  <1>1. UNCHANGED workerVars
    BY DEF PageStep
  <1>2. ServersStep => BridgeInv'
    BY <1>1, RegisterKeeps, UnregisterKeeps, SetPrimaryKeeps DEF ServersStep
  <1>3. MappingStep => BridgeInv'
    BY <1>1, WaitForKeeps, AbortKeeps DEF MappingStep
  <1>4. BecomeReady \/ Reinit => BridgeInv'
    BY <1>1, ReadyKeeps, ReinitKeeps
  <1>5. ASSUME NEW c \in Channels, HandleServiceWorkerMessage(c) PROVE BridgeInv'
    BY <1>1, <1>5, MessageKeeps
  <1>6. ASSUME NEW r \in Requests, StreamCallback(r) \/ UpstreamFails(r) PROVE BridgeInv'
    BY <1>1, <1>6, CallbackKeeps
  <1> QED
    BY <1>2, <1>3, <1>4, <1>5, <1>6 DEF PageStep

LEMMA WorkerKeeps ==
  ASSUME BridgeInv, WorkerStep
  PROVE  BridgeInv'
  <1>1. UNCHANGED pageVars
    BY DEF WorkerStep
  <1>2. HandleMainMessage \/ OpenHost \/ Stop => BridgeInv'
    BY <1>1, MainMessageKeeps, OpenHostKeeps, StopKeeps
  <1>3. ASSUME NEW r \in Requests,
               Begin(r) \/ HostFound(r) \/ PrepareFails(r) \/ Send(r) \/ ReaderStep(r) \/ Timeout(r)
        PROVE  BridgeInv'
    <2>1. Quiet
      BY <1>1, <1>3, BridgeIsWell, RequestQuiet
    <2> QED
      BY <2>1, QuietKeeps
  <1> QED
    BY <1>2, <1>3 DEF WorkerStep

LEMMA NothingKeeps ==
  ASSUME BridgeInv, UNCHANGED vars
  PROVE  BridgeInv'
  <1>1. /\ UNCHANGED <<toWorker, toPage, open, inits, asks>> /\ UNCHANGED pageVars
        /\ UNCHANGED <<host, lastId, reqs>>
    BY DEF vars, channelVars, workerVars
  <1>2. /\ RequestTypes /\ Behind /\ LineTypes /\ chan \in Channels /\ asks \in Nat /\ chan + asks <= MaxChannel
        /\ chan' = chan
    BY <1>1 DEF BridgeInv, WorkerTypes, Lines, PageTypes, LineTypes, pageVars
  <1>3. RequestTypes' /\ Behind'
    BY <1>1, <1>2 DEF RequestTypes, Posted, Placed, Behind
  <1>4. Asking
    BY <1>1, <1>2, AsksNothing
  <1>5. Quiet
    BY <1>1, <1>2, <1>3, <1>4 DEF Quiet
  <1> QED
    BY <1>5, QuietKeeps

(* The page and the worker stay in step: every message on its way, of the  *)
(* page's registrations, its checks of the mapping and the worker's        *)
(* answers, is one the state at both ends accounts for (BridgeInv),        *)
(* whatever restarts, replacements and messages left behind there are.     *)
(* Among the rest the worker's numbers never run out.                      *)
THEOREM BridgeInvariant == Spec => []BridgeInv
  <1>1. Init => BridgeInv
    BY FirstIs
  <1>2. BridgeInv /\ [Next]_vars => BridgeInv'
    BY PageKeeps, WorkerKeeps, NothingKeeps DEF Next
  <1> QED
    BY <1>1, <1>2, PTL DEF Spec

(* initServiceWorker, reinit and notifyServiceWorker keep the worker's     *)
(* tables right: whenever nothing is on its way the worker has the page's  *)
(* servers, their registrations and which of them is the primary one, and  *)
(* no server that is gone, whether or not the primary port ever had one,   *)
(* for any number of ports, channels, requests and waits.                  *)
THEOREM RegistrationsAlwaysAgree == Spec => []RegistrationsAgree
  <1>1. BridgeInv => RegistrationsAgree
    <2>1. SUFFICES ASSUME BridgeInv, AllTold PROVE Agrees(host)
      BY DEF RegistrationsAgree
    <2>2. ready /\ host.chan = chan /\ toWorker[chan] = << >>
      BY <2>1 DEF AllTold
    <2>3. PICK e \in Hosts : Fits(e, chan, servers, primary) /\ Replay(host, << >>, e)
      BY <2>1, <2>2 DEF BridgeInv, Announced, Known, Tells
    <2>4. host = e
      BY <2>3, ReplayEnds
    <2> QED
      BY <2>3, <2>4 DEF Fits, Agrees, Held
  <1> QED
    BY <1>1, BridgeInvariant, PTL

----------------------------------------------------------------------------
(* A wait that resolves                                                     *)

\* No wait resolves.
NoneResolves == \A w \in Waits : waits[w].state = "asked" => waits'[w].state # "ok"

LEMMA FinishResolvesNone ==
  ASSUME WaitTypes, NEW W, waits' = FinishWaits(W)
  PROVE  NoneResolves
  <1>1. ASSUME NEW w \in Waits, waits[w].state = "asked" PROVE waits'[w].state # "ok"
    <2>1. waits[w] \in WaitRecords
      BY DEF WaitTypes
    <2>2. waits'[w] = waits[w] \/ waits'[w] = [waits[w] EXCEPT !.state = "failed"]
      BY DEF FinishWaits
    <2>3. [waits[w] EXCEPT !.state = "failed"].state = "failed"
      BY <2>1 DEF WaitRecords
    <2> QED
      BY <1>1, <2>2, <2>3
  <1> QED
    BY <1>1 DEF NoneResolves

LEMMA SameResolvesNone ==
  ASSUME waits' = waits
  PROVE  NoneResolves
  BY DEF NoneResolves

LEMMA WaitResolvesNone ==
  ASSUME WaitTypes, NEW v \in Waits, NEW p, WaitForPrimaryPortMapping(v, p)
  PROVE  NoneResolves
  <1>1. /\ waits[v].state = "idle"
        /\ waits' = [waits EXCEPT ![v] = [state |-> "asked", port |-> p, chan |-> chan]]
    BY DEF WaitForPrimaryPortMapping
  <1>2. \A w \in Waits : w # v => waits'[w] = waits[w]
    BY <1>1 DEF WaitTypes
  <1> QED
    BY <1>1, <1>2 DEF NoneResolves

LEMMA ReinitResolvesNone ==
  ASSUME WaitTypes, Reinit
  PROVE  NoneResolves
  <1>1. CASE ~ready
    BY <1>1, SameResolvesNone DEF Reinit, pageVars
  <1>2. CASE ready
    <2>1. PICK again, c : again = {w \in Waits : waits[w].state = "asked"} /\ c = chan + 1
      OBVIOUS
    <2>3. waits' = [w \in Waits |-> IF w \in again THEN [waits[w] EXCEPT !.chan = c] ELSE waits[w]]
      BY <1>2, <2>1 DEF Reinit
    <2>2. ASSUME NEW w \in Waits, waits[w].state = "asked" PROVE waits'[w].state # "ok"
      <3>1. waits[w] \in WaitRecords
        BY DEF WaitTypes
      <3>2. waits'[w] = waits[w] \/ waits'[w] = [waits[w] EXCEPT !.chan = c]
        BY <2>3
      <3>3. [waits[w] EXCEPT !.chan = c].state = waits[w].state
        BY <3>1 DEF WaitRecords
      <3> QED
        BY <2>2, <3>2, <3>3
    <2> QED
      BY <2>2 DEF NoneResolves
  <1> QED
    BY <1>1, <1>2

\* What a wait that resolves may count on.
MappingHolds == \A w \in Waits :
  waits[w].state = "asked" /\ waits'[w].state = "ok" /\ host.chan = chan
    => host.primary = waits[w].port /\ waits[w].port \in host.ports

\* Only an answer of the current channel resolves a wait, and BridgeInv has it Confirmed.
LEMMA AnswerResolves ==
  ASSUME BridgeInv, NEW c \in Channels, toPage[c] # << >>, NEW m, m = Head(toPage[c]), m.type = "port-mapping-ready",
         OnMappingReady(m, c)
  PROVE  MappingHolds
  <1>1. WaitTypes /\ LineTypes /\ Mapped
    BY DEF BridgeInv, PageTypes
  <1>2. toPage[c] \in Seq(WorkerMessages)
    BY <1>1 DEF LineTypes
  <1>3. m \in WorkerMessages /\ m = toPage[c][1] /\ 1 \in 1 .. Len(toPage[c])
    BY <1>2, TailIs
  <1>4. m \in Readies /\ m.wait \in Waits
    BY <1>3, WorkerMessageIs DEF Readies
  <1>5. ASSUME NEW w \in Waits, waits[w].state = "asked", waits'[w].state = "ok", host.chan = chan
        PROVE  host.primary = waits[w].port /\ waits[w].port \in host.ports
    <2>1. PICK x, e : /\ x = waits[m.wait] /\ e \in {"ok", "failed"}
                      /\ e = IF m.registered /\ m.primary /\ Held(x.port) /\ primary = x.port THEN "ok" ELSE "failed"
      OBVIOUS
    <2>2. waits' = IF x.state = "asked" /\ c = x.chan /\ c = chan THEN [waits EXCEPT ![m.wait].state = e] ELSE waits
      BY <2>1 DEF OnMappingReady
    <2>3. waits' = [waits EXCEPT ![m.wait].state = e] /\ c = chan
      BY <1>5, <2>2
    <2>4. w = m.wait /\ e = "ok"
      <3>1. \A v \in Waits : v # m.wait => waits'[v] = waits[v]
        BY <1>1, <2>3 DEF WaitTypes
      <3>2. waits[m.wait] \in WaitRecords
        BY <1>1, <1>4 DEF WaitTypes
      <3>3. waits'[m.wait] = [waits[m.wait] EXCEPT !.state = e]
        BY <1>1, <1>4, <2>3 DEF WaitTypes
      <3>4. waits'[m.wait].state = e
        BY <3>2, <3>3 DEF WaitRecords
      <3> QED
        BY <1>5, <3>1, <3>4
    <2>5. Confirmed(toPage[c], waits, host, toWorker[chan], chan)
      BY <1>1, <2>3 DEF Mapped
    <2>6. m.registered /\ m.primary
      BY <2>1, <2>4
    <2>7. Sure(host, toWorker[chan], waits[w].port)
      BY <1>3, <1>5, <2>3, <2>4, <2>5, <2>6 DEF Confirmed
    <2> QED
      BY <2>7 DEF Sure
  <1> QED
    BY <1>5 DEF MappingHolds

LEMMA MessageResolves ==
  ASSUME BridgeInv, NEW c \in Channels, HandleServiceWorkerMessage(c)
  PROVE  MappingHolds
  <1>1. PICK m : m = Head(toPage[c])
    OBVIOUS
  <1>2. /\ toPage[c] # << >>
        /\ \/ OnStream(m) \/ OpenStream(m) \/ OpenLegacy(m)
           \/ m.type = "port-mapping-ready" /\ OnMappingReady(m, c)
    BY <1>1 DEF HandleServiceWorkerMessage
  <1>3. CASE m.type = "port-mapping-ready" /\ OnMappingReady(m, c)
    BY <1>1, <1>2, <1>3, AnswerResolves
  <1>4. CASE OnStream(m) \/ OpenStream(m) \/ OpenLegacy(m)
    <2>1. waits' = waits
      BY <1>4 DEF OnStream, StreamStep, OpenStream, OpenLegacy, pageVars
    <2> QED
      BY <2>1 DEF MappingHolds
  <1> QED
    BY <1>2, <1>3, <1>4

LEMMA StepResolves ==
  ASSUME BridgeInv, [Next]_vars
  PROVE  MappingHolds
  <1>1. WaitTypes
    BY DEF BridgeInv, PageTypes
  <1>2. NoneResolves => MappingHolds
    BY DEF NoneResolves, MappingHolds
  <1>3. waits' = waits => NoneResolves
    BY SameResolvesNone
  <1>4. CASE UNCHANGED vars \/ WorkerStep
    BY <1>2, <1>3, <1>4 DEF vars, pageVars, WorkerStep
  <1>5. CASE PageStep
    <2>1. ServersStep => NoneResolves
      BY <1>1, <1>3, FinishResolvesNone DEF ServersStep, RegisterServer, UnregisterServer, SetPrimaryPort
    <2>2. MappingStep => NoneResolves
      BY <1>1, FinishResolvesNone, WaitResolvesNone DEF MappingStep, AbortWaits
    <2>3. BecomeReady \/ Reinit => NoneResolves
      BY <1>1, <1>3, ReinitResolvesNone DEF BecomeReady
    <2>4. ASSUME NEW r \in Requests, StreamCallback(r) \/ UpstreamFails(r) PROVE NoneResolves
      <3>1. waits' = waits
        <4>1. Start(r) \/ End(r) \/ UpstreamFails(r) => waits' = waits
          BY DEF Start, End, UpstreamFails, StreamStep
        <4>2. Chunk(r) => waits' = waits
          BY DEF Chunk, StreamStep
        <4>3. Respond(r) \/ LegacyStream(r) => waits' = waits
          BY DEF Respond, LegacyStream
        <4> QED
          BY <2>4, <4>1, <4>2, <4>3 DEF StreamCallback
      <3> QED
        BY <1>3, <3>1
    <2> QED
      BY <1>2, <1>5, <2>1, <2>2, <2>3, <2>4, MessageResolves DEF PageStep
  <1> QED
    BY <1>4, <1>5 DEF Next

(* A call of waitForPrimaryPortMapping that resolves is right: the worker  *)
(* that still has the channel of the answer serves the wait's port at the  *)
(* root then, whatever was registered, set and stopped in between.         *)
THEOREM MappingsAreTrue == Spec => MappingIsTrue
  <1>1. BridgeInv /\ [Next]_vars => [MappingHolds]_vars
    BY StepResolves
  <1>2. Spec => [][MappingHolds]_vars
    BY <1>1, BridgeInvariant, PTL DEF Spec
  <1> QED
    BY <1>2 DEF MappingIsTrue, MappingHolds

================================================================================
