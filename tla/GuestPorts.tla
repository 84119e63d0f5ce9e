------------------------------ MODULE GuestPorts ------------------------------
(***************************************************************************)
(* The message ports of a process and which of them hold its run:          *)
(* src/guest-message-ports.ts.  A port holds while it is referenced and    *)
(* open; its first message listener references it and the last one's       *)
(* removal takes the reference back.  The transport is external.           *)
(***************************************************************************)
EXTENDS RunNames, Naturals

CONSTANTS Ports,          \* the ports ever tracked
          MaxListeners    \* message listeners of one port

ASSUME MaxListenersAssumption == MaxListeners \in Nat

VARIABLE port             \* each port's PortState and its message listeners

PortStates == [of : Tokens \cup {Unset}, referenced : BOOLEAN, closed : BOOLEAN,
               listeners : 0 .. MaxListeners]

PortsTypeOK == port \in [Ports -> PortStates]

PortsInit == port = [p \in Ports |-> [of |-> Unset, referenced |-> FALSE,
                                      closed |-> FALSE, listeners |-> 0]]

OpenPorts(t) == {p \in Ports : port[p].of = t /\ ~port[p].closed}

(* A guest constructor, or a borrowed prototype call on a received port. *)
TrackPort(p, t) == /\ port[p].of = Unset
                   /\ port' = [port EXCEPT ![p].of = t]

(* activate: what a change of the listeners' number does to the reference. *)
Activate(s, before, after) ==
  CASE s.closed -> s
    [] ~s.closed /\ before = 0 /\ after > 0 -> [s EXCEPT !.referenced = TRUE]
    [] ~s.closed /\ before > 0 /\ after = 0 -> [s EXCEPT !.referenced = FALSE]
    [] OTHER -> s

ChangeListeners(p, after) ==
  port' = [port EXCEPT ![p] = [Activate(@, @.listeners, after) EXCEPT !.listeners = after]]

AddListener(p) == /\ port[p].of # Unset /\ port[p].listeners < MaxListeners
                  /\ ChangeListeners(p, port[p].listeners + 1)

\* Mutant of RemoveListener: a listener that is not there is counted off.
RemoveAnyListener(p) == /\ port[p].of # Unset
                        /\ ChangeListeners(p, port[p].listeners - 1)

(* off, an aborted signal, or a once listener as its message comes. *)
RemoveListener(p) == /\ port[p].of # Unset /\ port[p].listeners > 0
                     /\ ChangeListeners(p, port[p].listeners - 1)

RefPort(p) == /\ port[p].of # Unset /\ ~port[p].closed
              /\ port' = [port EXCEPT ![p].referenced = TRUE]
UnrefPort(p) == /\ port[p].of # Unset
                /\ port' = [port EXCEPT ![p].referenced = FALSE]

(* release *)
ReleasedPort(s) == [s EXCEPT !.closed = TRUE, !.referenced = FALSE]

(* close(), or the transport's close event after the other end's. *)
ClosePort(p) == /\ port[p].of # Unset /\ ~port[p].closed
                /\ port' = [port EXCEPT ![p] = ReleasedPort(@)]

(* stopGuestPorts closes the unreferenced ones too. *)
StoppedPorts(t) == [p \in Ports |-> IF p \in OpenPorts(t) THEN ReleasedPort(port[p]) ELSE port[p]]
=============================================================================
