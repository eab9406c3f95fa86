------------------------------- MODULE Network -------------------------------
(***************************************************************************)
(* The network stack below and beside the sockets: the receive ring of the *)
(* PCnet driver, ARP, IPv4, ICMP echo and the DNS resolver.  All of it     *)
(* runs with interrupts disabled: at boot, in a system call, or in the     *)
(* timer interrupt that polls the card.  So nothing runs concurrently but  *)
(* the card, and yet the code is re-entrant: a call that waits for an      *)
(* answer polls the card itself, and the frames it finds are handled, and  *)
(* may send and wait, on top of it.  "calls" is that stack of calls, the   *)
(* innermost first.                                                        *)
(***************************************************************************)
EXTENDS Sockets

CONSTANTS
  Neighbours,    \* the hosts on the subnet; the others are behind the gateway
  Gateway,
  DnsServer, DnsPort,
  Self,          \* this host: a gratuitous ARP asks for it, and nobody answers
  BootCalls,     \* the calls of initializeNetworkProtocols, testNetworkConnectivity
  Traffic,       \* frames that other hosts send unasked (each once)
  MaxCacheEntries, RingSize, TxRingSize,
  MaxRequestRetries,
  MaxPolls,      \* bound: polls of one wait (1000 or more in the code)
  MaxDepth       \* bound: calls that fit on the kernel stack

\* What can be on the wire to this machine.
WireFrames ==
  [kind : {"arp_request", "arp_reply"} \cup MessageKinds, from : Hosts, to : {0}, about : {NoDomain}]
    \cup [kind : {"udp"}, from : Hosts, to : Ports, about : Subjects]

ASSUME NetworkAssumption ==
  /\ Traffic \subseteq WireFrames
  /\ BootCalls \in Seq([call : {"arp"}, target : Hosts \cup {Self}]
                         \cup [call : {"ping"}, target : Hosts]
                         \cup [call : {"dns"}, target : Domains])
  /\ Neighbours \subseteq Hosts /\ Gateway \in Neighbours /\ DnsServer \in Hosts
  /\ DnsPort \in 1 .. PortCount - 1
  /\ RingSize \in Nat \ {0} /\ TxRingSize \in Nat \ {0}
  /\ MaxCacheEntries \in Nat /\ MaxRequestRetries \in Nat \ {0}
  /\ MaxPolls \in Nat \ {0} /\ MaxDepth \in Nat \ {0}

VARIABLES
  arp,        \* the addresses in ARP::cache_
  ring,       \* rxRing_: the frame in each descriptor, NoFrame when the card owns it
  currentRx,  \* the descriptor the driver looks at next
  cardRx,     \* the descriptor the card fills next
  txBusy,     \* transmit descriptors the card owns
  wire,       \* frames on their way to this machine
  calls,      \* the stack of calls in progress
  boot,       \* the next boot call
  ping,       \* ICMP::pendingPing_: the target, and whether its reply came
  query,      \* DNS::pendingQuery_: the domain, and the address that came for it
  dnsBound,   \* dnsPortBound, the static flag of sendDNSQuery
  dnsCache,   \* DNS::cache_: the domain whose address is kept for each domain
  halted,     \* the kernel stack is exhausted
  reentered   \* history: a frame was handled while another one was

linkVars == <<ring, currentRx, cardRx>>
netVars == <<arp, ring, currentRx, cardRx, txBusy, wire, calls, boot, ping, query,
             dnsBound, dnsCache, halted, reentered>>
vars == <<socketVars, netVars>>

NoFrame == Frame("none", NoHost, 0, NoDomain)
Packet(kind, dest, about) == [kind |-> kind, dest |-> dest, about |-> about]

NextHop(host) == IF host \in Neighbours THEN host ELSE Gateway

\* What the other hosts answer to a packet of ours.
Answers(packet) ==
  CASE packet.kind = "arp_request" ->
         IF packet.dest \in Neighbours THEN {Frame("arp_reply", packet.dest, 0, NoDomain)} ELSE {}
    [] packet.kind = "echo_request" -> {Frame("echo_reply", packet.dest, 0, NoDomain)}
    [] packet.kind = "query" -> {Frame("udp", packet.dest, DnsPort, packet.about)}
    [] OTHER -> {}

Init ==
  /\ SocketsInit
  /\ arp = {}
  /\ ring = [i \in 0 .. RingSize - 1 |-> NoFrame]
  /\ currentRx = 0 /\ cardRx = 0 /\ txBusy = 0
  /\ wire = Traffic
  /\ calls = <<>> /\ boot = 1
  /\ ping = [target |-> NoHost, replied |-> FALSE]
  /\ query = [domain |-> NoDomain, answer |-> NoDomain]
  /\ dnsBound = FALSE
  /\ dnsCache = [d \in Domains |-> NoDomain]
  /\ halted = FALSE /\ reentered = FALSE

----------------------------------------------------------------------------
(* The card.                                                               *)

\* A frame arrives: into the descriptor the card is at, or lost when the driver owns it.
Arrive(frame) ==
  /\ ~halted
  /\ frame \in wire
  /\ wire' = wire \ {frame}
  /\ IF ring[cardRx] = NoFrame
     THEN /\ ring' = [ring EXCEPT ![cardRx] = frame]
          /\ cardRx' = (cardRx + 1) % RingSize
     ELSE UNCHANGED <<ring, cardRx>>
  /\ UNCHANGED <<socketVars, arp, currentRx, txBusy, calls, boot, ping, query,
                 dnsBound, dnsCache, halted, reentered>>

Transmitted ==
  /\ ~halted
  /\ txBusy > 0
  /\ txBusy' = txBusy - 1
  /\ UNCHANGED <<socketVars, arp, linkVars, wire, calls, boot, ping, query,
                 dnsBound, dnsCache, halted, reentered>>

\* PCnetDriver::sendPacket fails when the card still owns the descriptor.
CanTransmit == txBusy < TxRingSize

Transmit(packet) ==
  IF CanTransmit
  THEN txBusy' = txBusy + 1 /\ wire' = wire \cup Answers(packet)
  ELSE UNCHANGED <<txBusy, wire>>

----------------------------------------------------------------------------
(* Calls.                                                                  *)

Top == Head(calls)
Below == Tail(calls)
Running(op) == ~halted /\ calls # <<>> /\ Top.op = op

ReceiveCall == [op |-> "receive", at |-> "loop", frame |-> NoFrame]
ResolveCall(hop, packet) ==
  [op |-> "resolve", at |-> "request", hop |-> hop, packet |-> packet, attempt |-> 1, polls |-> 0]
WaitCall(what) == [op |-> "wait", for |-> what, polls |-> 0]

\* Call c on top of the stack, or exhaust the stack.
Calls(c, stack) ==
  IF Len(stack) < MaxDepth
  THEN calls' = <<c>> \o stack /\ UNCHANGED halted
  ELSE halted' = TRUE /\ UNCHANGED calls

\* A send returns to its caller: a ping or a query that could not be sent gives up.
SendReturns(stack, sent) ==
  /\ calls' = IF ~sent /\ stack # <<>> /\ Head(stack).op = "wait" THEN Tail(stack) ELSE stack
  /\ UNCHANGED halted

\* IPv4::sendPacket, called with "stack" below it: the hop's address is in the
\* ARP cache, or resolveMacAddress looks for it.
SendPacket(packet, stack) ==
  IF NextHop(packet.dest) \in arp
  THEN Transmit(packet) /\ SendReturns(stack, CanTransmit)
  ELSE Calls(ResolveCall(NextHop(packet.dest), packet), stack) /\ UNCHANGED <<txBusy, wire>>

\* NetworkInterface::handleInterrupt from a wait: the poll is counted, then runs.
Poll(counted) == Calls(ReceiveCall, <<counted>> \o Below)

----------------------------------------------------------------------------
(* ARP::resolveMacAddress.                                                 *)

Retried(c) == [c EXCEPT !.at = "request", !.attempt = @ + 1, !.polls = 0]
LastAttempt(c) == c.attempt = MaxRequestRetries

\* The attempt failed: try again, or give up.
AttemptFails ==
  IF LastAttempt(Top) THEN SendReturns(Below, FALSE)
  ELSE calls' = <<Retried(Top)>> \o Below /\ UNCHANGED halted

SendARPRequest ==
  /\ Running("resolve") /\ Top.at = "request"
  /\ Transmit(Packet("arp_request", Top.hop, NoDomain))
  /\ IF CanTransmit
     THEN calls' = <<[Top EXCEPT !.at = "polling"]>> \o Below /\ UNCHANGED halted
     ELSE AttemptFails
  /\ UNCHANGED <<socketVars, arp, linkVars, boot, ping, query, dnsBound, dnsCache, reentered>>

PollForReply ==
  /\ Running("resolve") /\ Top.at = "polling" /\ Top.polls < MaxPolls
  /\ Poll([Top EXCEPT !.polls = @ + 1])
  /\ UNCHANGED <<socketVars, arp, linkVars, txBusy, wire, boot, ping, query,
                 dnsBound, dnsCache, reentered>>

\* After the polls the cache is looked at again; a resolved packet is sent.
CheckCache ==
  /\ Running("resolve") /\ Top.at = "polling" /\ Top.polls = MaxPolls
  /\ IF Top.hop \notin arp THEN AttemptFails /\ UNCHANGED <<txBusy, wire>>
     ELSE IF Top.packet.kind = "none" THEN SendReturns(Below, TRUE) /\ UNCHANGED <<txBusy, wire>>
     ELSE Transmit(Top.packet) /\ SendReturns(Below, CanTransmit)
  /\ UNCHANGED <<socketVars, arp, linkVars, boot, ping, query, dnsBound, dnsCache, reentered>>

\* addCacheEntry: the cache never evicts, so a full one takes no new address.
Learnt(host) ==
  IF Cardinality(arp) < MaxCacheEntries THEN arp \cup {host} ELSE arp

----------------------------------------------------------------------------
(* PCnetDriver::processReceivedPackets and the handlers it calls.          *)

Handling(frame) == [Top EXCEPT !.at = "handled", !.frame = frame]
\* A frame is being handled further down the stack.
Nested == \E i \in 2 .. Len(calls) : calls[i].op = "receive"

Handles(kind) ==
  /\ Running("receive") /\ Top.at = "loop"
  /\ ring[currentRx].kind = kind
  /\ reentered' = (reentered \/ Nested)

Handled == calls' = <<Handling(ring[currentRx])>> \o Below /\ UNCHANGED halted

\* The next descriptor belongs to the card: the poll is over.
RingEmpty ==
  /\ Running("receive") /\ Top.at = "loop"
  /\ ring[currentRx] = NoFrame
  /\ calls' = Below
  /\ UNCHANGED <<socketVars, arp, linkVars, txBusy, wire, boot, ping, query,
                 dnsBound, dnsCache, halted, reentered>>

HandleARPRequest ==
  /\ Handles("arp_request")
  /\ arp' = Learnt(ring[currentRx].from)
  /\ Transmit(Packet("arp_reply", ring[currentRx].from, NoDomain))
  /\ Handled
  /\ UNCHANGED <<socketVars, linkVars, boot, ping, query, dnsBound, dnsCache>>

HandleARPReply ==
  /\ Handles("arp_reply")
  /\ arp' = Learnt(ring[currentRx].from)
  /\ Handled
  /\ UNCHANGED <<socketVars, linkVars, txBusy, wire, boot, ping, query, dnsBound, dnsCache>>

\* An echo reply ends the pending ping to its sender; the raw sockets get it as well.
HandleEchoReply ==
  /\ Handles("echo_reply")
  /\ ping' = [ping EXCEPT !.replied = @ \/ ping.target = ring[currentRx].from]
  /\ ReceiveMessage(ring[currentRx])
  /\ Handled
  /\ UNCHANGED <<arp, linkVars, txBusy, wire, boot,
                 query, dnsBound, dnsCache>>

\* An echo request is answered first, which may have to wait for ARP, and given to
\* the raw sockets afterwards (with the payload that is in the buffer by then).
HandleEchoRequest ==
  /\ Handles("echo_request")
  /\ SendPacket(Packet("echo_reply", ring[currentRx].from, NoDomain),
                <<[Handling(ring[currentRx]) EXCEPT !.at = "answered"]>> \o Below)
  /\ UNCHANGED <<socketVars, arp, linkVars, boot, ping, query, dnsBound, dnsCache>>

DeliverRequest ==
  /\ Running("receive") /\ Top.at = "answered"
  /\ ReceiveMessage(Top.frame)
  /\ calls' = <<[Top EXCEPT !.at = "handled"]>> \o Below
  /\ UNCHANGED <<arp, linkVars, txBusy, wire, boot,
                 ping, query, dnsBound, dnsCache, halted, reentered>>

\* handleUDPPacket: the handler bound to the port gets the datagram.  The resolver
\* takes any answer for its own, since every query has the same transaction ID.
IsAnswer(frame) == bound[frame.to] = "dns" /\ frame.about # NoDomain

HandleUDPPacket ==
  /\ Handles("udp")
  /\ ReceiveDatagram(ring[currentRx])
  /\ query' = IF IsAnswer(ring[currentRx]) THEN [query EXCEPT !.answer = ring[currentRx].about]
              ELSE query
  /\ Handled
  /\ UNCHANGED <<arp, linkVars, txBusy, wire, boot,
                 ping, dnsBound, dnsCache>>

\* Mutants: the descriptor is given back after the driver moved on, or never.
Returned_Next == [ring EXCEPT ![(currentRx + 1) % RingSize] = NoFrame]
Returned_Never == ring

\* The frame is done: the descriptor the driver is at now goes back to the card.
Returned == [ring EXCEPT ![currentRx] = NoFrame]
NextRx == (currentRx + 1) % RingSize

ReturnDescriptor ==
  /\ Running("receive") /\ Top.at = "handled"
  /\ ring' = Returned
  /\ currentRx' = NextRx
  /\ calls' = <<ReceiveCall>> \o Below
  /\ UNCHANGED <<socketVars, arp, cardRx, txBusy, wire, boot, ping, query,
                 dnsBound, dnsCache, halted, reentered>>

----------------------------------------------------------------------------
(* Boot: the gateway's address, a gratuitous ARP, pings and DNS queries.   *)

Booting == ~halted /\ calls = <<>> /\ boot <= Len(BootCalls)
BootCall(name) == Booting /\ BootCalls[boot].call = name /\ boot' = boot + 1
Target == BootCalls[boot].target

BootResolve ==
  /\ BootCall("arp")
  /\ IF Target \in arp THEN UNCHANGED <<calls, halted>>
     ELSE Calls(ResolveCall(Target, Packet("none", Target, NoDomain)), <<>>)
  /\ UNCHANGED <<socketVars, arp, linkVars, txBusy, wire, ping, query, dnsBound, dnsCache,
                 reentered>>

Ping ==
  /\ BootCall("ping")
  /\ ping' = [target |-> Target, replied |-> FALSE]
  /\ SendPacket(Packet("echo_request", Target, NoDomain), <<WaitCall("ping")>>)
  /\ UNCHANGED <<socketVars, arp, linkVars, query, dnsBound, dnsCache, reentered>>

\* resolveDomain: a cached domain needs no query; the first query binds the port.
ResolveDomain ==
  /\ BootCall("dns")
  /\ IF dnsCache[Target] # NoDomain
     THEN UNCHANGED <<socketVars, calls, halted, txBusy, wire, query, dnsBound>>
     ELSE /\ query' = [domain |-> Target, answer |-> NoDomain]
          /\ IF dnsBound THEN UNCHANGED socketVars ELSE BindResolver(DnsPort)
          /\ dnsBound' = TRUE
          /\ SendPacket(Packet("query", DnsServer, Target), <<WaitCall("dns")>>)
  /\ UNCHANGED <<arp, linkVars, ping, dnsCache, reentered>>

\* Both wait the same way: poll until the answer is there or the time is over.
Answered == IF Top.for = "ping" THEN ping.replied ELSE query.answer # NoDomain

WaitPolls ==
  /\ Running("wait") /\ ~Answered /\ Top.polls < MaxPolls
  /\ Poll([Top EXCEPT !.polls = @ + 1])
  /\ UNCHANGED <<socketVars, arp, linkVars, txBusy, wire, boot, ping, query,
                 dnsBound, dnsCache, reentered>>

WaitEnds ==
  /\ Running("wait") /\ (Answered \/ Top.polls = MaxPolls)
  /\ dnsCache' = IF Top.for = "dns" /\ Answered
                 THEN [dnsCache EXCEPT ![query.domain] = query.answer] ELSE dnsCache
  /\ calls' = Below
  /\ UNCHANGED <<socketVars, arp, linkVars, txBusy, wire, boot, ping, query,
                 dnsBound, halted, reentered>>

----------------------------------------------------------------------------
(* The running system: system calls, and the timer that polls the card.    *)

Idle == ~halted /\ calls = <<>> /\ boot > Len(BootCalls)

PollTick ==
  /\ Idle
  /\ Calls(ReceiveCall, <<>>)
  /\ UNCHANGED <<socketVars, arp, linkVars, txBusy, wire, boot, ping, query,
                 dnsBound, dnsCache, reentered>>

SocketCall ==
  /\ Idle
  /\ \E s \in Descriptors : SystemCall(s)
  /\ UNCHANGED netVars

UserPacket(s, h) ==
  Packet(IF s \in Udp THEN "datagram" ELSE "echo_request", Destination(s, h), NoDomain)

HandleSendto(s, h) ==
  /\ Idle
  /\ \E sends \in BOOLEAN :
       /\ SendFrom(s, h, sends)
       /\ IF sends THEN SendPacket(UserPacket(s, h), <<>>)
          ELSE UNCHANGED <<calls, halted, txBusy, wire>>
  /\ UNCHANGED <<arp, linkVars, boot, ping, query, dnsBound, dnsCache, reentered>>

Receive == HandleARPRequest \/ HandleARPReply \/ HandleEchoReply \/ HandleEchoRequest
             \/ DeliverRequest \/ HandleUDPPacket \/ ReturnDescriptor \/ RingEmpty

InCall == Receive \/ SendARPRequest \/ PollForReply \/ CheckCache \/ WaitPolls \/ WaitEnds

Overflowed == halted /\ UNCHANGED vars

Next ==
  \/ \E f \in wire : Arrive(f)
  \/ Transmitted
  \/ InCall
  \/ BootResolve \/ Ping \/ ResolveDomain
  \/ PollTick
  \/ SocketCall
  \/ \E s \in Descriptors, h \in Hosts \cup {NoHost} : HandleSendto(s, h)
  \/ Overflowed

Spec == Init /\ [][Next]_vars /\ WF_vars(InCall)

----------------------------------------------------------------------------
(* Properties.                                                             *)

\* As long as no frame has been handled on top of another, the driver and the card
\* agree about the ring: the frames not handled yet are those from currentRx_ on to
\* the descriptor the card fills next, so frames are handled in order and none is lost.
Between(i) == IF currentRx < cardRx THEN i \in currentRx .. cardRx - 1
              ELSE IF currentRx > cardRx THEN i \notin cardRx .. currentRx - 1
              ELSE ring[currentRx] # NoFrame
RxInStep == ~reentered => \A i \in 0 .. RingSize - 1 : ring[i] # NoFrame <=> Between(i)

\* Every call that polls the card ends, or it exhausts the stack by polling inside
\* the frames it polled for.
CallsReturn == calls # <<>> ~> (calls = <<>> \/ halted)
=============================================================================
