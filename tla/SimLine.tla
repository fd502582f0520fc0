-------------------------------- MODULE SimLine --------------------------------
(***************************************************************************)
(* One line of the device simulator and the link of the collector to it:   *)
(* the book of faults (chaos/faults.ts, simulator.ts), the port of the     *)
(* line with the single queue of its bus (modbus/line-server.ts) and the   *)
(* client that asks one device after another (transport/modbus-link.ts).   *)
(*                                                                         *)
(* Registers are left out: a reply is what it makes of a read.  TCP and    *)
(* the library modbus-serial are external: a reply is matched to a request *)
(* by its transaction, and 65535 of them are enough for a number never to  *)
(* be taken twice at a time.                                               *)
(***************************************************************************)
EXTENDS Integers, Sequences, FiniteSets, SequencesExt

CONSTANTS Units,       \* the devices of the line, in the order they are asked
          FaultKinds,  \* of silent, stall, crc, exception; and offline of the line
          Sockets,
          SlowFor,     \* soft timeouts that one stalled exchange outlives
          MaxBacklog,  \* requests waiting at the port: then the breakers are open
          MaxChaos     \* injected faults, failed listens and hung clients

VARIABLES book, port, socks, queue, bus, down, link, got, chaos
line == <<book, port, socks, queue, bus, down, link, got, chaos>>

Asked == ToSet(Units)
TheLine == "line"
Fault(target, kind) == <<target, kind>>
Applicable ==
  {Fault(t, k) : t \in Asked \cup {TheLine}, k \in FaultKinds \ {"offline"}} \cup
  {Fault(TheLine, k) : k \in FaultKinds \cap {"offline"}}

NoSocket == "no socket"
Waits == link.tx # 0
Idle == [on |-> FALSE]
Closed == [socket |-> NoSocket, open |-> FALSE, tx |-> 0, turn |-> 1]

SimInit ==
  /\ book = {}
  /\ port = [open |-> TRUE, doing |-> "nothing"]
  /\ socks = [s \in Sockets |-> "free"]
  /\ queue = <<>> /\ down = <<>>
  /\ bus = Idle
  /\ link = Closed
  /\ got = [of |-> Units[1], asked |-> Units[1], kind |-> "none"]
  /\ chaos = 0

Spends == chaos < MaxChaos /\ chaos' = chaos + 1

-------------------------------------------------------------------------------
(* The book: the same fault on the same target is prolonged, not doubled.  *)

Inject(f) ==
  /\ Spends
  /\ book' = book \cup {f}
  /\ UNCHANGED <<port, socks, queue, bus, down, link, got>>

FaultEnds(f) ==
  /\ f \in book
  /\ book' = book \ {f}
  /\ UNCHANGED <<port, socks, queue, bus, down, link, got, chaos>>

(* DELETE /sim/faults: by target, by kind, by both or all. *)
ClearFaults(targets, kinds) ==
  /\ \E f \in book : f[1] \in targets /\ f[2] \in kinds
  /\ book' = {f \in book : ~(f[1] \in targets /\ f[2] \in kinds)}
  /\ UNCHANGED <<port, socks, queue, bus, down, link, got, chaos>>

IsLineOnline == Fault(TheLine, "offline") \notin book
Has(unit, kind) == Fault(TheLine, kind) \in book \/ Fault(unit, kind) \in book

(* Simulator.answer: what is decided when the exchange begins.  "refused"  *)
(* is an exception of the device or a frame with a wrong checksum: to the  *)
(* client both are a failed request that leaves the connection open.       *)
AnswerOf(unit) ==
  IF unit \notin Asked \/ Has(unit, "silent") THEN "silent"
  ELSE IF Has(unit, "exception") \/ Has(unit, "crc") THEN "refused"
  ELSE "ok"

-------------------------------------------------------------------------------
(* The port.  sync makes it follow the fault, one switch at a time.        *)

Sync ==
  /\ port.doing = "nothing"
  /\ \/ /\ IsLineOnline /\ ~port.open
        /\ port' = [port EXCEPT !.doing = "listen"]
        /\ UNCHANGED socks
     \/ /\ ~IsLineOnline /\ port.open
        /\ port' = [open |-> FALSE, doing |-> "close"]
        /\ socks' = [s \in Sockets |-> IF socks[s] = "live" THEN "dead" ELSE socks[s]]
  /\ UNCHANGED <<book, queue, bus, down, link, got, chaos>>

ListenEnds ==
  /\ port.doing = "listen"
  /\ port' = [open |-> TRUE, doing |-> "nothing"]
  /\ UNCHANGED <<book, socks, queue, bus, down, link, got, chaos>>

ListenFails ==
  /\ port.doing = "listen" /\ Spends
  /\ port' = [port EXCEPT !.doing = "nothing"]
  /\ UNCHANGED <<book, socks, queue, bus, down, link, got>>

CloseEnds ==
  /\ port.doing = "close"
  /\ port' = [port EXCEPT !.doing = "nothing"]
  /\ UNCHANGED <<book, socks, queue, bus, down, link, got, chaos>>

Alive(s) == socks[s] = "live"

ServerSeesClose(s) ==
  /\ Alive(s) /\ link.socket # s
  /\ socks' = [socks EXCEPT ![s] = "dead"]
  /\ UNCHANGED <<book, port, queue, bus, down, link, got, chaos>>

(* A socket that is gone stops the chain of the queue. *)
ServeBeginsOnlyAlive ==
  /\ ~bus.on /\ queue # <<>> /\ Alive(Head(queue).socket)
  /\ LET r == Head(queue)
     IN  bus' = [on |-> TRUE, request |-> r, answer |-> AnswerOf(r.unit), slow |-> 0]
  /\ queue' = Tail(queue)
  /\ UNCHANGED <<book, port, socks, down, link, got, chaos>>

(* serve, up to its sleep: nobody is left to answer, or the line is taken. *)
ServeBegins ==
  /\ ~bus.on /\ queue # <<>>
  /\ LET r == Head(queue)
     IN  bus' = IF Alive(r.socket)
                THEN [on |-> TRUE, request |-> r, answer |-> AnswerOf(r.unit),
                      slow |-> IF Has(r.unit, "stall") \/ AnswerOf(r.unit) = "silent" THEN SlowFor ELSE 0]
                ELSE bus
  /\ queue' = Tail(queue)
  /\ UNCHANGED <<book, port, socks, down, link, got, chaos>>

(* After it the socket is looked at again. *)
ServeEnds ==
  /\ bus.on
  /\ down' = IF bus.answer # "silent" /\ Alive(bus.request.socket)
             THEN Append(down, [request |-> bus.request, kind |-> bus.answer]) ELSE down
  /\ bus' = Idle
  /\ UNCHANGED <<book, port, socks, queue, link, got, chaos>>

-------------------------------------------------------------------------------
(* The client of the collector. *)

UnitAsked == Units[link.turn]
Outstanding(s) ==
  {r \in ToSet(queue) \cup (IF bus.on THEN {bus.request} ELSE {}) \cup
         {d.request : d \in ToSet(down)} : r.socket = s}
Transactions == {r.tx : r \in UNION {Outstanding(s) : s \in Sockets}}
Unused(s) == socks[s] \in {"free", "dead"} /\ s # link.socket /\ Outstanding(s) = {}

Results(kind, unit) == got' = [of |-> unit, asked |-> UnitAsked, kind |-> kind]
NextTurn(l) == [l EXCEPT !.tx = 0, !.turn = (@ % Len(Units)) + 1]

(* connect: the old client is destroyed first.  A port whose fault has not *)
(* been noticed yet takes the connection and drops it.                     *)
Connect ==
  /\ ~link.open /\ ~Waits /\ port.open
  /\ \E s \in Sockets :
       /\ Unused(s)
       /\ socks' = [socks EXCEPT ![s] = IF IsLineOnline THEN "live" ELSE "dead"]
       /\ link' = [link EXCEPT !.socket = s, !.open = TRUE]
  /\ UNCHANGED <<book, port, queue, bus, down, got, chaos>>

(* The pass ends there; the next one begins with the first device. *)
ConnectRefused ==
  /\ ~link.open /\ ~Waits /\ ~port.open
  /\ Results("failed", UnitAsked)
  /\ link' = [link EXCEPT !.socket = NoSocket, !.turn = 1]
  /\ UNCHANGED <<book, port, socks, queue, bus, down, chaos>>

ClientSeesClose ==
  /\ link.open /\ ~Alive(link.socket)
  /\ link' = [link EXCEPT !.open = FALSE]
  /\ UNCHANGED <<book, port, socks, queue, bus, down, got, chaos>>

(* socket.on('data'): a whole frame joins the queue of the line, unless the *)
(* server has already dropped the connection.                              *)
Ask ==
  /\ link.open /\ ~Waits /\ Cardinality(Transactions) < MaxBacklog
  /\ LET tx == CHOOSE n \in 1..(Cardinality(Transactions) + 1) : n \notin Transactions
     IN  /\ queue' = IF Alive(link.socket)
                     THEN Append(queue, [socket |-> link.socket, tx |-> tx, unit |-> UnitAsked]) ELSE queue
         /\ link' = [link EXCEPT !.tx = tx]
  /\ UNCHANGED <<book, port, socks, bus, down, got, chaos>>

(* A reply nobody waits for any more is thrown away. *)
Answered ==
  /\ down # <<>>
  /\ LET d == Head(down)
     IN  IF d.request.socket = link.socket /\ d.request.tx = link.tx
         THEN Results(d.kind, d.request.unit) /\ link' = NextTurn(link)
         ELSE UNCHANGED <<link, got>>
  /\ down' = Tail(down)
  /\ UNCHANGED <<book, port, socks, queue, bus, chaos>>

Travels == \E r \in Outstanding(link.socket) : r.tx = link.tx
Slow == bus.on /\ bus.slow > 0

(* The soft timeout of the library: the reply is lost, or late since the   *)
(* line is taken by a slow exchange.  It leaves the connection alone.      *)
SoftTimeout ==
  /\ Waits
  /\ \/ Slow /\ bus' = [bus EXCEPT !.slow = @ - 1]
     \/ (~Travels \/ ~Alive(link.socket)) /\ UNCHANGED bus
  /\ Results("failed", UnitAsked)
  /\ link' = NextTurn(link)
  /\ UNCHANGED <<book, port, socks, queue, down, chaos>>

(* The library hangs: after the hard timeout the client is done away with. *)
HardTimeout ==
  /\ Waits /\ Spends
  /\ Results("failed", UnitAsked)
  /\ link' = [NextTurn(link) EXCEPT !.socket = NoSocket, !.open = FALSE]
  /\ UNCHANGED <<book, port, socks, queue, bus, down>>

Chaos ==
  \/ \E f \in Applicable : Inject(f)
  \/ \E t \in Asked \cup {TheLine} : ClearFaults({t}, FaultKinds) \/ ClearFaults(Asked \cup {TheLine}, FaultKinds)
  \/ \E k \in FaultKinds : ClearFaults(Asked \cup {TheLine}, {k})
  \/ ListenFails \/ HardTimeout
BusStep == ServeBegins \/ ServeEnds
ClientStep == Connect \/ ConnectRefused \/ Ask \/ SoftTimeout
SimNext ==
  \/ Chaos \/ BusStep \/ ClientStep \/ Answered \/ ClientSeesClose
  \/ Sync \/ ListenEnds \/ CloseEnds
  \/ \E s \in Sockets : ServerSeesClose(s)
  \/ \E f \in Applicable : FaultEnds(f)

-------------------------------------------------------------------------------
(* Properties. *)

(* A read never takes what another device has answered, not even the late  *)
(* answer to the request before it (its transaction in line-server.ts      *)
(* replyFrame); and a port closed by a fault leaves no connection behind   *)
(* (close destroys the sockets).                                           *)
LineIsTrue ==
  /\ got.kind \in {"ok", "refused"} => got.of = got.asked
  /\ ~port.open => \A s \in Sockets : ~Alive(s)

(* Whatever faults, failed listens, slow exchanges and hung clients have   *)
(* left behind at the port, in its queue and in the client, each device is *)
(* read again once they end.                                               *)
Reads(unit) == got.kind = "ok" /\ got.of = unit
===============================================================================
