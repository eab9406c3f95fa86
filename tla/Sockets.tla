------------------------------- MODULE Sockets -------------------------------
(***************************************************************************)
(* Datagram sockets: the port table of the UDP layer (UDP::portBindings_), *)
(* the registry of UDP sockets (UDPSocket::socketRegistry_), the registry  *)
(* of raw ICMP sockets (ICMPSocket::socketRegistry_) and the sockets that  *)
(* the descriptor tables of the processes own.  The system calls run with  *)
(* interrupts disabled, and so does the receive path, so each of them is a *)
(* step here; Network says where the frames come from and sendto goes.     *)
(***************************************************************************)
EXTENDS Naturals, Sequences, FiniteSets, FiniteSetsExt

CONSTANTS
  Udp, Raw,          \* descriptors of SOCK_DGRAM and of SOCK_RAW sockets
  Hosts,             \* the other hosts, by IPv4 address
  Domains,           \* what an answer of the name server can be about
  PortCount,         \* 2^width of a port number
  DynamicPortStart, DynamicPortEnd,
  MaxAttempts,       \* candidates allocateEphemeralPort tries
  MaxBoundPorts,     \* size of the port table
  MaxUdpSockets,     \* size of the UDP registry
  MaxRawSockets,     \* size of the ICMP registry
  MaxQueueSize,      \* packets a socket keeps
  UserPorts,         \* ports the programs bind by number
  NoHost             \* no address

ASSUME SocketsAssumption ==
  /\ Udp \cap Raw = {} /\ IsFiniteSet(Udp) /\ IsFiniteSet(Raw)
  /\ PortCount \in Nat \ {0}
  /\ DynamicPortEnd \in 1 .. PortCount - 1
  /\ DynamicPortStart \in 1 .. DynamicPortEnd
  /\ MaxAttempts \in Nat /\ MaxBoundPorts \in Nat /\ MaxUdpSockets \in Nat
  /\ MaxRawSockets \in Nat /\ MaxQueueSize \in Nat
  /\ UserPorts \subseteq 1 .. PortCount - 1
  /\ MaxBoundPorts <= MaxUdpSockets
  /\ NoHost \notin Hosts

VARIABLES
  bound,     \* the handler of each port: none, the sockets' or the resolver's
  registry,  \* the pairs <<port, socket>> of UDPSocket::socketRegistry_
  rawRegistry, \* the sockets of ICMPSocket::socketRegistry_
  sock,      \* the socket behind each descriptor
  nextPort   \* UDP::nextEphemeralPort_

socketVars == <<bound, registry, rawRegistry, sock, nextPort>>

Descriptors == Udp \cup Raw
Ports == 0 .. PortCount - 1

\* A frame that was received, and what the sockets keep of it.
NoDomain == "no domain"
Subjects == Domains \cup {NoDomain}
MessageKinds == {"echo_request", "echo_reply"}
Frame(kind, from, to, about) == [kind |-> kind, from |-> from, to |-> to, about |-> about]

Closed == [state |-> "closed", port |-> 0, remote |-> NoHost, queue |-> <<>>]
Fresh == [Closed EXCEPT !.state = "unbound"]

SocketsInit ==
  /\ bound = [p \in Ports |-> "none"]
  /\ registry = {}
  /\ rawRegistry = {}
  /\ sock = [s \in Descriptors |-> Closed]
  /\ nextPort = DynamicPortStart

----------------------------------------------------------------------------
(* The port table.                                                         *)

IsBound(p) == bound[p] # "none"
TableFull == Cardinality({p \in Ports : IsBound(p)}) >= MaxBoundPorts
CanBind(p) == p # 0 /\ ~IsBound(p) /\ ~TableFull

\* The number after p: a 16-bit increment, then the test for the end of the range.
NextPort(p) ==
  LET n == (p + 1) % PortCount
  IN  IF n > DynamicPortEnd THEN DynamicPortStart ELSE n

Candidate[i \in 0 .. MaxAttempts] ==
  IF i = 0 THEN nextPort ELSE NextPort(Candidate[i - 1])

\* allocateEphemeralPort: the port (0 when there is none) and the next candidate.
EphemeralPort ==
  LET unused == {i \in 0 .. MaxAttempts - 1 : ~IsBound(Candidate[i])}
  IN  IF unused = {}
      THEN [port |-> 0, next |-> Candidate[MaxAttempts]]
      ELSE [port |-> Candidate[Min(unused)], next |-> Candidate[Min(unused) + 1]]

\* A full registry takes nobody, without telling the caller.
Registered(p, s) ==
  IF Cardinality(registry) >= MaxUdpSockets THEN registry ELSE registry \cup {<<p, s>>}
Unregistered(p) == {e \in registry : e[1] # p}

----------------------------------------------------------------------------
(* System calls on sockets.                                                *)

Open(s) == sock[s].state # "closed"

\* socket: a new descriptor; a raw socket registers when the registry has room.
HandleSocket(s) ==
  /\ ~Open(s)
  /\ sock' = [sock EXCEPT ![s] = Fresh]
  /\ rawRegistry' = IF s \in Raw /\ Cardinality(rawRegistry) < MaxRawSockets
                    THEN rawRegistry \cup {s} ELSE rawRegistry
  /\ UNCHANGED <<bound, registry, nextPort>>

\* bind on a UDP socket that is not bound yet; any failure changes nothing.
BindSocket(s, p) ==
  /\ sock[s].state = "unbound"
  /\ CanBind(p)
  /\ bound' = [bound EXCEPT ![p] = "socket"]
  /\ registry' = Registered(p, s)
  /\ sock' = [sock EXCEPT ![s].port = p, ![s].state = "bound"]

HandleBind(s, p) ==
  /\ s \in Udp
  /\ BindSocket(s, p)
  /\ UNCHANGED <<rawRegistry, nextPort>>

\* bind on a raw socket forgets that it was connected.
HandleBindRaw(s) ==
  /\ s \in Raw /\ Open(s)
  /\ sock' = [sock EXCEPT ![s].state = "unbound"]
  /\ UNCHANGED <<bound, registry, rawRegistry, nextPort>>

HandleConnect(s, h) ==
  /\ Open(s)
  /\ sock' = [sock EXCEPT ![s].remote = h, ![s].state = "connected"]
  /\ UNCHANGED <<bound, registry, rawRegistry, nextPort>>

HandleRecvfrom(s) ==
  /\ Open(s) /\ sock[s].queue # <<>>
  /\ sock' = [sock EXCEPT ![s].queue = Tail(@)]
  /\ UNCHANGED <<bound, registry, rawRegistry, nextPort>>

\* close deletes the descriptor; a UDP socket with a port gives it back first.
HasPort_BoundOnly(s) == s \in Udp /\ sock[s].state = "bound"  \* mutant: not when connected
HasPort(s) == s \in Udp /\ sock[s].state # "unbound" /\ sock[s].port # 0

HandleClose(s) ==
  /\ Open(s)
  /\ IF HasPort(s)
     THEN /\ bound' = [bound EXCEPT ![sock[s].port] = "none"]
          /\ registry' = Unregistered(sock[s].port)
     ELSE UNCHANGED <<bound, registry>>
  /\ rawRegistry' = rawRegistry \ {s}
  /\ sock' = [sock EXCEPT ![s] = Closed]
  /\ UNCHANGED nextPort

\* sendto needs a destination: the one it is given or the one it is connected to.
Destination(s, h) == IF h # NoHost THEN h
                     ELSE IF sock[s].state = "connected" THEN sock[s].remote ELSE NoHost

\* A UDP socket without a port takes an ephemeral one before it sends; without a
\* port the call fails.  "sends" tells whether it goes on.
AutoBind(s, sends) ==
  LET e == EphemeralPort IN
  /\ nextPort' = e.next
  /\ sends = CanBind(e.port)
  /\ IF sends
     THEN /\ bound' = [bound EXCEPT ![e.port] = "socket"]
          /\ registry' = Registered(e.port, s)
          /\ sock' = [sock EXCEPT ![s].port = e.port, ![s].state = "bound"]
     ELSE UNCHANGED <<bound, registry, sock>>
  /\ UNCHANGED rawRegistry

\* Mutant: asks whether the socket was bound and not whether it has a port.
SendFrom_Unbound(s, h, sends) ==
  /\ Open(s) /\ Destination(s, h) # NoHost
  /\ IF s \in Raw \/ sock[s].state = "bound" THEN sends /\ UNCHANGED socketVars ELSE AutoBind(s, sends)

SendFrom(s, h, sends) ==
  /\ Open(s) /\ Destination(s, h) # NoHost
  /\ IF s \in Raw \/ sock[s].port # 0 THEN sends /\ UNCHANGED socketVars ELSE AutoBind(s, sends)

----------------------------------------------------------------------------
(* Delivery, from the receive path.                                        *)

Accepts(s) == Len(sock[s].queue) < MaxQueueSize

\* UDP hands a datagram for a socket's port to every registered socket.
Listeners == {e[2] : e \in registry}
\* Mutant: the first registered socket that has room takes the datagram.
Receivers_One(datagram) ==
  LET taking == {e \in registry : Accepts(e[2])}
  IN  {e[2] : e \in {e \in taking : \A f \in taking : e[1] <= f[1]}}

Receivers(datagram) ==
  IF bound[datagram.to] = "socket" THEN {s \in Listeners : Accepts(s)} ELSE {}

\* Every raw socket gets every ICMP message, but a connected one from its peer only.
RawReceivers(from) ==
  {s \in rawRegistry : Accepts(s) /\ (sock[s].state = "connected" => sock[s].remote = from)}

Deliver(frame, receivers) ==
  /\ sock' = [s \in Descriptors |->
               IF s \in receivers THEN [sock[s] EXCEPT !.queue = Append(@, frame)] ELSE sock[s]]
  /\ UNCHANGED <<bound, registry, rawRegistry, nextPort>>

ReceiveDatagram(datagram) == Deliver(datagram, Receivers(datagram))
ReceiveMessage(message) == Deliver(message, RawReceivers(message.from))

\* The resolver takes its port with its first query.
BindResolver(p) ==
  /\ bound' = IF CanBind(p) THEN [bound EXCEPT ![p] = "dns"] ELSE bound
  /\ UNCHANGED <<registry, rawRegistry, sock, nextPort>>

----------------------------------------------------------------------------
(* The sockets on their own, for any traffic.                              *)

SystemCall(s) ==
  \/ HandleSocket(s)
  \/ \E p \in UserPorts : HandleBind(s, p)
  \/ HandleBindRaw(s)
  \/ \E h \in Hosts : HandleConnect(s, h)
  \/ HandleRecvfrom(s)
  \/ HandleClose(s)

SocketsNext ==
  \/ \E s \in Descriptors : SystemCall(s)
  \/ \E s \in Descriptors, h \in Hosts \cup {NoHost}, sends \in BOOLEAN : SendFrom(s, h, sends)
  \/ \E h \in Hosts, p \in Ports, about \in Subjects : ReceiveDatagram(Frame("udp", h, p, about))
  \/ \E h \in Hosts, kind \in MessageKinds : ReceiveMessage(Frame(kind, h, 0, NoDomain))
  \/ \E p \in Ports : BindResolver(p)

SocketsSpec == SocketsInit /\ [][SocketsNext]_socketVars

----------------------------------------------------------------------------
(* Properties.                                                             *)

\* The three places that know a socket's port agree: the port table of the UDP
\* layer, the registry of pointers the receive path follows, and the sockets
\* themselves.  So a port has one socket, a bound socket is never left out of the
\* registry, no pointer of either registry outlives its socket, and neither registry
\* grows past its size.
TablesAgree ==
  /\ {p \in Ports : bound[p] = "socket"} = {e[1] : e \in registry}
  /\ registry = {<<sock[s].port, s>> : s \in {s \in Udp : sock[s].port # 0}}
  /\ \A s, t \in Udp : s # t /\ sock[s].port # 0 => sock[s].port # sock[t].port
  /\ \A s \in Udp : sock[s].port # 0 => Open(s)
  /\ \A s \in rawRegistry : Open(s)
  /\ Cardinality(registry) <= MaxUdpSockets /\ Cardinality(rawRegistry) <= MaxRawSockets

\* A datagram for a socket's port reaches that socket, unless its queue is full, and
\* a datagram for a port nobody has reaches nobody.
DatagramArrives ==
  [][\A h \in Hosts, p \in Ports, about \in Subjects :
       LET datagram == Frame("udp", h, p, about) IN
       ReceiveDatagram(datagram) =>
         /\ \A s \in Udp : sock[s].port = p /\ p # 0 /\ Accepts(s)
                           => sock'[s].queue = Append(sock[s].queue, datagram)
         /\ (\A s \in Udp : p = 0 \/ sock[s].port # p) => UNCHANGED sock]_socketVars

\* An open UDP socket keeps its port until it is closed, through failed binds,
\* connects and sends: another socket cannot take it over.
PortKept ==
  [][\A s \in Udp : sock[s].port # 0 /\ sock'[s].port # sock[s].port
                     => sock'[s].state = "closed"]_socketVars
=============================================================================
