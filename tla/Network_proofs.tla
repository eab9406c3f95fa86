--------------------------- MODULE Network_proofs ---------------------------
(***************************************************************************)
(* Proofs about Sockets, and about Network, which is the sockets and the   *)
(* stack below them.                                                       *)
(*                                                                         *)
(* For every number of descriptors, ports and hosts and every size of the  *)
(* tables: the three places that know a port agree, an open socket keeps   *)
(* its port, and a datagram reaches the socket whose port it is for.  The  *)
(* argument is a count: a socket is registered with a port of the UDP      *)
(* layer's table and never without, so the registry, which is as large as  *)
(* that table, is full only when no port can be bound.                     *)
(*                                                                         *)
(* For every ring, cache, stack and traffic: whatever the stack of calls   *)
(* does, the sockets see a behaviour of SocketsSpec, so what is proved of  *)
(* the sockets holds in the whole stack; and the driver stays in step with *)
(* the card as long as no frame is handled inside another.                 *)
(***************************************************************************)
EXTENDS Network, FiniteSetTheorems, TLAPS

-----------------------------------------------------------------------------
(* The sockets.                                                            *)

States == {"closed", "unbound", "bound", "connected"}
Frames == [kind : {"udp"} \cup MessageKinds, from : Hosts, to : Ports, about : Subjects]
SocketRecords ==
  [state : States, port : Ports, remote : Hosts \cup {NoHost}, queue : Seq(Frames)]
Handlers == {"none", "socket", "dns"}
BoundPorts == {p \in Ports : IsBound(p)}

TypeInv ==
  /\ bound \in [Ports -> Handlers]
  /\ registry \subseteq Ports \X Udp /\ IsFiniteSet(registry)
  /\ rawRegistry \subseteq Raw
  /\ sock \in [Descriptors -> SocketRecords]
  /\ nextPort \in Ports

\* What each socket knows of its own port: only a UDP socket has one, and one that
\* has it is bound or connected.
PortsInv ==
  /\ \A s \in Raw : sock[s].port = 0
  /\ \A s \in Udp : sock[s].port # 0 => sock[s].state \in {"bound", "connected"}
  /\ \A s, t \in Udp : s # t /\ sock[s].port # 0 => sock[s].port # sock[t].port

\* The tables name the sockets that have a port.
TablesInv ==
  /\ \A p \in Ports : bound[p] = "socket" <=> \E s \in Udp : sock[s].port = p /\ p # 0
  /\ \A e : e \in registry <=> \E s \in Udp : sock[s].port # 0 /\ e = <<sock[s].port, s>>

RawInv ==
  /\ \A s \in rawRegistry : Open(s)
  /\ Cardinality(rawRegistry) <= MaxRawSockets

\* The registry never holds more than the port table.
CountInv ==
  /\ Cardinality(registry) <= Cardinality(BoundPorts)
  /\ Cardinality(BoundPorts) <= MaxBoundPorts

SocketsInv == TypeInv /\ PortsInv /\ TablesInv /\ RawInv /\ CountInv

----------------------------------------------------------------------------
(* The candidates of allocateEphemeralPort.                                *)

\* A set of numbers that is not empty has a least one.
LEMMA LeastNumber ==
  ASSUME NEW T, T \subseteq Nat, T # {}
  PROVE  \E x \in T : \A y \in T : x <= y
<1> DEFINE R == StrictSubsetOrdering(Nat)
           I == {1 .. n : n \in T}
<1>1. IsWellFoundedOn(R, FiniteSubsetsOf(Nat))
  BY FS_StrictSubsetOrderingWellFounded
<1>2. /\ I \subseteq FiniteSubsetsOf(Nat)
      /\ I # {}
  <2>1. \A n \in T : IsFiniteSet(1 .. n) /\ 1 .. n \subseteq Nat
    BY FS_Interval
  <2> QED BY <2>1 DEF FiniteSubsetsOf
<1>3. PICK X \in I : \A Y \in I : ~(<<Y, X>> \in R)
  <2> HIDE DEF I, R
  <2> QED BY <1>1, <1>2, WFMin
<1>4. PICK x \in T : X = 1 .. x
  OBVIOUS
<1>5. ASSUME NEW y \in T, y < x PROVE FALSE
  <2>1. 1 .. y \subseteq 1 .. x /\ x \in 1 .. x /\ x \notin 1 .. y
    BY <1>5
  <2>2. <<1 .. y, X>> \in R
    BY <2>1, <1>4 DEF StrictSubsetOrdering
  <2> QED BY <1>3, <2>2
<1> QED BY <1>5

\* The counter stays a 16-bit number.
LEMMA NextPortType ==
  ASSUME NEW p \in Ports
  PROVE  NextPort(p) \in Ports
BY SocketsAssumption DEF NextPort, Ports

\* The first n increments of the counter.
Increments(n, f) ==
  /\ f \in [0 .. n -> Ports]
  /\ f[0] = nextPort
  /\ \A i \in 1 .. n : f[i] = NextPort(f[i - 1])

LEMMA IncrementsExist ==
  ASSUME nextPort \in Ports, NEW n \in Nat
  PROVE  \E f : Increments(n, f)
<1> DEFINE Missing == {k \in Nat : ~ \E f : Increments(k, f)}
<1>1. ASSUME Missing # {} PROVE FALSE
  <2>1. PICK k \in Missing : \A j \in Missing : k <= j
    BY <1>1, LeastNumber
  <2>2. CASE k = 0
    <3>1. Increments(0, [i \in 0 .. 0 |-> nextPort])
      BY DEF Increments
    <3> QED BY <2>1, <2>2, <3>1
  <2>3. CASE k # 0
    <3>1. k - 1 \in Nat /\ k - 1 \notin Missing
      BY <2>1, <2>3
    <3>2. PICK f : Increments(k - 1, f)
      BY <3>1
    <3> DEFINE g == [i \in 0 .. k |-> IF i = k THEN NextPort(f[k - 1]) ELSE f[i]]
    <3>3. \A i \in 0 .. k - 1 : g[i] = f[i] /\ f[i] \in Ports
      BY <3>1, <3>2 DEF Increments
    <3>4. g[k] = NextPort(f[k - 1]) /\ f[k - 1] \in Ports
      BY <3>1, <3>2 DEF Increments
    <3>5. g \in [0 .. k -> Ports]
      <4>1. NextPort(f[k - 1]) \in Ports
        BY <3>4, NextPortType
      <4>2. \A i \in 0 .. k : i # k => f[i] \in Ports
        <5>1. k \in Nat /\ \A i \in 0 .. k - 1 : f[i] \in Ports
          BY <3>3
        <5>2. \A i \in 0 .. k : i # k => i \in 0 .. k - 1
          BY <5>1
        <5> HIDE DEF g, Missing
        <5> QED BY <5>1, <5>2
      <4> QED BY <4>1, <4>2
    <3>6. g[0] = nextPort
      BY <3>1, <3>2, <3>3, <2>3 DEF Increments
    <3>7. ASSUME NEW i \in 1 .. k PROVE g[i] = NextPort(g[i - 1])
      BY <3>1, <3>2, <3>3, <3>4 DEF Increments
    <3>8. Increments(k, g)
      <4> HIDE DEF g
      <4> QED BY <3>5, <3>6, <3>7 DEF Increments
    <3> QED BY <2>1, <3>8
  <2> QED BY <2>2, <2>3
<1> QED BY <1>1

\* The definition of Candidate has a solution, and its values are ports.
LEMMA CandidateType ==
  ASSUME nextPort \in Ports
  PROVE  Candidate \in [0 .. MaxAttempts -> Ports]
<1> DEFINE Step(f) == [i \in 0 .. MaxAttempts |-> IF i = 0 THEN nextPort ELSE NextPort(f[i - 1])]
<1>1. MaxAttempts \in Nat
  BY SocketsAssumption
<1>2. PICK f : Increments(MaxAttempts, f)
  BY <1>1, IncrementsExist
<1>3. f = Step(f)
  BY <1>1, <1>2 DEF Increments
<1>4. Candidate = Step(Candidate)
  <2>1. Candidate = CHOOSE g : g = Step(g)
    BY DEF Candidate
  <2> HIDE DEF Step
  <2> QED BY <2>1, <1>3
<1> DEFINE Wrong == {i \in 0 .. MaxAttempts : Candidate[i] \notin Ports}
<1>5. ASSUME Wrong # {} PROVE FALSE
  <2>1. PICK k \in Wrong : \A j \in Wrong : k <= j
    <3>1. Wrong \subseteq Nat
      BY <1>1
    <3> HIDE DEF Wrong
    <3> QED BY <3>1, <1>5, LeastNumber
  <2>2. k # 0
    BY <1>1, <1>4
  <2>3. k - 1 \in 0 .. MaxAttempts /\ Candidate[k - 1] \in Ports
    BY <2>1, <2>2, <1>1
  <2>4. Candidate[k] = NextPort(Candidate[k - 1])
    BY <1>4, <2>2
  <2> QED BY <2>3, <2>4, NextPortType
<1>6. \A i \in 0 .. MaxAttempts : Candidate[i] \in Ports
  BY <1>5
<1> QED BY <1>4, <1>6

LEMMA EphemeralPortType ==
  ASSUME nextPort \in Ports
  PROVE  EphemeralPort.port \in Ports /\ EphemeralPort.next \in Ports
<1> DEFINE unused == {i \in 0 .. MaxAttempts - 1 : ~IsBound(Candidate[i])}
<1>1. MaxAttempts \in Nat /\ 0 \in Ports
  BY SocketsAssumption DEF Ports
<1>2. Candidate \in [0 .. MaxAttempts -> Ports]
  BY CandidateType
<1>3. CASE unused = {}
  BY <1>1, <1>2, <1>3 DEF EphemeralPort
<1>4. CASE unused # {}
  <2>1. \E x \in unused : \A y \in unused : x <= y
    <3>1. unused \subseteq Nat
      BY <1>1
    <3> HIDE DEF unused
    <3> QED BY <3>1, <1>4, LeastNumber
  <2>2. Min(unused) \in unused
    <3> HIDE DEF unused
    <3> QED BY <2>1 DEF Min
  <2>3. Min(unused) \in 0 .. MaxAttempts /\ Min(unused) + 1 \in 0 .. MaxAttempts
    BY <2>2, <1>1
  <2>4. EphemeralPort = [port |-> Candidate[Min(unused)], next |-> Candidate[Min(unused) + 1]]
    BY <1>4 DEF EphemeralPort
  <2> HIDE DEF unused
  <2> QED BY <1>2, <2>3, <2>4
<1> QED BY <1>3, <1>4

----------------------------------------------------------------------------
(* The inductive invariant.                                                *)

LEMMA PortsFinite == IsFiniteSet(Ports) /\ 0 \in Ports
BY SocketsAssumption, FS_Interval DEF Ports

LEMMA BoundPortsFinite ==
  IsFiniteSet(BoundPorts) /\ Cardinality(BoundPorts) \in Nat
<1>1. BoundPorts \in SUBSET Ports
  BY DEF BoundPorts
<1> QED BY <1>1, PortsFinite, FS_Subset, FS_CardinalityType

LEMMA InitInv == SocketsInit => SocketsInv
<1> SUFFICES ASSUME SocketsInit PROVE SocketsInv
  OBVIOUS
<1> USE DEF SocketsInit
<1>1. 0 \in Ports /\ DynamicPortStart \in Ports
  BY SocketsAssumption DEF Ports
<1>2. Closed \in SocketRecords
  BY <1>1 DEF Closed, SocketRecords, States
<1>3. IsFiniteSet({}) /\ Cardinality({}) = 0
  BY FS_EmptySet
<1>4. TypeInv
  BY <1>1, <1>2, <1>3 DEF TypeInv, Handlers
<1>5. \A s \in Descriptors : sock[s].port = 0
  BY DEF Closed
<1>6. PortsInv
  BY <1>5 DEF PortsInv, Descriptors
<1>7. TablesInv
  BY <1>5 DEF TablesInv, Descriptors
<1>8. RawInv
  BY <1>3, SocketsAssumption DEF RawInv
<1>9. BoundPorts = {}
  BY DEF BoundPorts, IsBound
<1>10. CountInv
  BY <1>3, <1>9, SocketsAssumption DEF CountInv
<1> QED BY <1>4, <1>6, <1>7, <1>8, <1>10 DEF SocketsInv


\* A socket takes a port: bind, and the first sendto.
TakePort(s, p) ==
  /\ bound' = [bound EXCEPT ![p] = "socket"]
  /\ registry' = Registered(p, s)
  /\ sock' = [sock EXCEPT ![s].port = p, ![s].state = "bound"]
  /\ rawRegistry' = rawRegistry

\* A socket that has a port loses it only by being closed.
KeepsPorts ==
  \A s \in Udp : sock[s].port # 0 /\ sock'[s].port # sock[s].port => sock'[s].state = "closed"

\* What the invariant needs to know of the socket that takes a port.
LEMMA TakePortSocket ==
  ASSUME TypeInv, NEW s \in Udp, NEW p \in Ports, TakePort(s, p)
  PROVE  /\ sock' \in [Descriptors -> SocketRecords]
         /\ sock'[s].port = p /\ sock'[s].state = "bound"
         /\ \A t \in Descriptors : t # s => sock'[t] = sock[t]
<1>1. s \in Descriptors
  BY DEF Descriptors
<1>2. sock[s] \in SocketRecords /\ sock \in [Descriptors -> SocketRecords]
  BY <1>1 DEF TypeInv
<1>3. sock' = [sock EXCEPT ![s] = [sock[s] EXCEPT !.port = p, !.state = "bound"]]
  BY <1>1, <1>2 DEF TakePort
<1>4. [sock[s] EXCEPT !.port = p, !.state = "bound"] \in SocketRecords
  BY <1>2 DEF SocketRecords, States
<1>5. sock'[s] = [sock[s] EXCEPT !.port = p, !.state = "bound"]
  BY <1>1, <1>2, <1>3
<1>6. sock'[s].port = p /\ sock'[s].state = "bound"
  BY <1>2, <1>5 DEF SocketRecords
<1> QED BY <1>1, <1>2, <1>3, <1>4, <1>6

LEMMA TakePortKeepsInv ==
  ASSUME SocketsInv, NEW s \in Udp, NEW p \in Ports, CanBind(p),
         sock[s].port = 0, TakePort(s, p), nextPort' \in Ports
  PROVE  SocketsInv' /\ KeepsPorts
<1>1. s \in Descriptors /\ s \notin Raw /\ Udp \subseteq Descriptors /\ Raw \subseteq Descriptors
  BY SocketsAssumption DEF Descriptors
<1>2. TypeInv /\ PortsInv /\ TablesInv /\ RawInv /\ CountInv
  BY DEF SocketsInv
<1>3. /\ sock' \in [Descriptors -> SocketRecords]
      /\ sock'[s].port = p /\ sock'[s].state = "bound"
      /\ \A t \in Descriptors : t # s => sock'[t] = sock[t]
  BY <1>2, TakePortSocket
<1>5. p # 0 /\ bound[p] = "none" /\ Cardinality(BoundPorts) < MaxBoundPorts
  <2>1. ~(Cardinality(BoundPorts) >= MaxBoundPorts) /\ p # 0 /\ ~IsBound(p)
    BY DEF CanBind, TableFull, BoundPorts
  <2> QED BY <2>1, BoundPortsFinite, SocketsAssumption DEF IsBound
<1>6. \A t \in Udp : sock[t].port # p
  BY <1>2, <1>5 DEF TablesInv
<1>7. IsFiniteSet(registry) /\ Cardinality(registry) \in Nat
  BY <1>2, FS_CardinalityType DEF TypeInv
<1>8. registry' = registry \cup {<<p, s>>}
  <2>1. Cardinality(registry) < MaxUdpSockets
    BY <1>2, <1>5, <1>7, BoundPortsFinite, SocketsAssumption DEF CountInv
  <2> QED BY <2>1, <1>7, SocketsAssumption DEF Registered, TakePort
<1>9. bound' = [bound EXCEPT ![p] = "socket"] /\ bound \in [Ports -> Handlers]
  BY <1>2 DEF TakePort, TypeInv
<1>10. BoundPorts' = BoundPorts \cup {p}
  BY <1>5, <1>9 DEF BoundPorts, IsBound
<1>11. TypeInv'
  <2>1. bound' \in [Ports -> Handlers]
    BY <1>9 DEF Handlers
  <2>2. registry' \subseteq Ports \X Udp
    BY <1>2, <1>8 DEF TypeInv
  <2>3. IsFiniteSet(registry')
    BY <1>7, <1>8, FS_AddElement
  <2>4. rawRegistry' \subseteq Raw
    BY <1>2 DEF TypeInv, TakePort
  <2> QED BY <2>1, <2>2, <2>3, <2>4, <1>3 DEF TypeInv
<1>12. PortsInv'
  <2>1. \A t \in Raw : sock'[t].port = 0
    BY <1>1, <1>2, <1>3 DEF PortsInv
  <2>2. \A t \in Udp : sock'[t].port # 0 => sock'[t].state \in {"bound", "connected"}
    BY <1>1, <1>2, <1>3 DEF PortsInv
  <2>3. \A t, u \in Udp : t # u /\ sock'[t].port # 0 => sock'[t].port # sock'[u].port
    BY <1>1, <1>2, <1>3, <1>6 DEF PortsInv
  <2> QED BY <2>1, <2>2, <2>3 DEF PortsInv
<1>13. TablesInv'
  <2>1. \A q \in Ports : bound'[q] = "socket" <=> (q = p \/ bound[q] = "socket")
    BY <1>9
  <2>2. \A t \in Udp : t # s => sock'[t].port = sock[t].port
    BY <1>1, <1>3
  <2>3. ASSUME NEW q \in Ports
        PROVE  bound'[q] = "socket" <=> \E t \in Udp : sock'[t].port = q /\ q # 0
    <3>1. bound[q] = "socket" <=> \E t \in Udp : sock[t].port = q /\ q # 0
      BY <1>2 DEF TablesInv
    <3> QED BY <3>1, <2>1, <2>2, <1>3, <1>5
  <2>4. ASSUME NEW e
        PROVE  e \in registry' <=> \E t \in Udp : sock'[t].port # 0 /\ e = <<sock'[t].port, t>>
    <3>1. e \in registry <=> \E t \in Udp : sock[t].port # 0 /\ e = <<sock[t].port, t>>
      BY <1>2 DEF TablesInv
    <3>2. e \in registry' <=> e \in registry \/ e = <<p, s>>
      BY <1>8
    <3> QED BY <3>1, <3>2, <2>2, <1>3, <1>5
  <2> QED BY <2>3, <2>4 DEF TablesInv
<1>14. RawInv'
  <2>1. rawRegistry' = rawRegistry /\ rawRegistry \subseteq Raw
    BY <1>2 DEF TakePort, TypeInv
  <2>2. \A t \in rawRegistry : sock'[t] = sock[t]
    BY <2>1, <1>1, <1>3
  <2> QED BY <2>1, <2>2, <1>2 DEF RawInv, Open
<1>15. CountInv'
  <2>1. Cardinality(registry') \in Nat /\ Cardinality(registry') <= Cardinality(registry) + 1
    <3>1. Cardinality(registry \cup {<<p, s>>}) =
            IF <<p, s>> \in registry THEN Cardinality(registry) ELSE Cardinality(registry) + 1
      BY <1>7, FS_AddElement
    <3> QED BY <3>1, <1>7, <1>8
  <2>2. Cardinality(BoundPorts') = Cardinality(BoundPorts) + 1
    <3>1. p \notin BoundPorts
      BY <1>5 DEF BoundPorts, IsBound
    <3> QED BY <3>1, <1>10, BoundPortsFinite, FS_AddElement
  <2> QED BY <2>1, <2>2, <1>2, <1>5, <1>7, BoundPortsFinite, SocketsAssumption DEF CountInv
<1>16. KeepsPorts
  BY <1>1, <1>3 DEF KeepsPorts
<1> QED BY <1>11, <1>12, <1>13, <1>14, <1>15, <1>16 DEF SocketsInv

\* A step after which every socket has the port it had before.
QuietPorts ==
  /\ bound' = bound /\ registry' = registry
  /\ \A s \in Descriptors : sock'[s].port = sock[s].port
  /\ \A s \in Udp : sock[s].port # 0 => sock'[s].state \in {"bound", "connected"}

LEMMA QuietKeepsInv ==
  ASSUME SocketsInv, QuietPorts, sock' \in [Descriptors -> SocketRecords],
         rawRegistry' \subseteq Raw, RawInv', nextPort' \in Ports
  PROVE  SocketsInv' /\ KeepsPorts
<1>1. TypeInv /\ PortsInv /\ TablesInv /\ CountInv
  BY DEF SocketsInv
<1>2. bound' = bound /\ registry' = registry
  BY DEF QuietPorts
<1>3. \A s \in Udp \cup Raw : sock'[s].port = sock[s].port
  BY DEF QuietPorts, Descriptors
<1>4. TypeInv'
  BY <1>1, <1>2 DEF TypeInv
<1>5. PortsInv'
  BY <1>1, <1>3 DEF PortsInv, QuietPorts
<1>6. TablesInv'
  <2>1. ASSUME NEW q \in Ports
        PROVE  bound'[q] = "socket" <=> \E t \in Udp : sock'[t].port = q /\ q # 0
    BY <1>1, <1>2, <1>3 DEF TablesInv
  <2>2. ASSUME NEW e
        PROVE  e \in registry' <=> \E t \in Udp : sock'[t].port # 0 /\ e = <<sock'[t].port, t>>
    BY <1>1, <1>2, <1>3 DEF TablesInv
  <2> QED BY <2>1, <2>2 DEF TablesInv
<1>7. BoundPorts' = BoundPorts
  BY <1>2 DEF BoundPorts, IsBound
<1>8. CountInv'
  BY <1>1, <1>2, <1>7 DEF CountInv
<1>9. KeepsPorts
  BY <1>3 DEF KeepsPorts
<1> QED BY <1>4, <1>5, <1>6, <1>8, <1>9 DEF SocketsInv

\* One descriptor's record is replaced and the raw registry is left alone.
LEMMA SameRawRegistry ==
  ASSUME SocketsInv, rawRegistry' = rawRegistry,
         \A t \in rawRegistry : sock'[t].state # "closed"
  PROVE  rawRegistry' \subseteq Raw /\ RawInv'
BY DEF SocketsInv, TypeInv, RawInv, Open

LEMMA RawFinite ==
  ASSUME SocketsInv
  PROVE  IsFiniteSet(rawRegistry) /\ Cardinality(rawRegistry) \in Nat
<1>1. rawRegistry \in SUBSET Raw
  BY DEF SocketsInv, TypeInv
<1> QED BY <1>1, FS_Subset, FS_CardinalityType, SocketsAssumption

LEMMA ClosedType == Closed \in SocketRecords /\ Fresh \in SocketRecords
                    /\ Closed.port = 0 /\ Fresh.port = 0 /\ Fresh.state = "unbound"
<1>1. Closed \in SocketRecords
  BY PortsFinite DEF Closed, SocketRecords, States
<1>2. Fresh = [state |-> "unbound", port |-> 0, remote |-> NoHost, queue |-> <<>>]
  BY DEF Fresh, Closed
<1>3. Fresh \in SocketRecords
  BY <1>2, PortsFinite DEF SocketRecords, States
<1> QED BY <1>1, <1>2, <1>3 DEF Closed

LEMMA SocketStep ==
  ASSUME SocketsInv, NEW s \in Descriptors, HandleSocket(s)
  PROVE  SocketsInv' /\ KeepsPorts
<1>1. sock \in [Descriptors -> SocketRecords] /\ nextPort \in Ports /\ rawRegistry \subseteq Raw
  BY DEF SocketsInv, TypeInv
<1>2. /\ sock' \in [Descriptors -> SocketRecords]
      /\ sock'[s] = Fresh
      /\ \A t \in Descriptors : t # s => sock'[t] = sock[t]
  BY <1>1, ClosedType DEF HandleSocket
<1>3. sock[s].port = 0
  <2>1. sock[s].state = "closed"
    BY DEF HandleSocket, Open
  <2> QED BY <2>1 DEF SocketsInv, PortsInv, Descriptors
<1>4. QuietPorts
  <2>1. \A t \in Udp : t # s => sock'[t] = sock[t]
    BY <1>2 DEF Descriptors
  <2>2. \A t \in Udp : sock[t].port # 0 => sock'[t].state \in {"bound", "connected"}
    BY <2>1, <1>3 DEF SocketsInv, PortsInv
  <2> QED BY <1>2, <1>3, <2>2, ClosedType DEF QuietPorts, HandleSocket
<1>5. rawRegistry' \subseteq Raw
  BY <1>1 DEF HandleSocket
<1>6. RawInv'
  <2>1. \A t \in rawRegistry' : t \in Descriptors /\ (t = s \/ t \in rawRegistry)
    BY <1>5 DEF HandleSocket, Descriptors
  <2>2. \A t \in rawRegistry' : sock'[t].state # "closed"
    BY <2>1, <1>2, ClosedType DEF SocketsInv, RawInv, Open
  <2>3. Cardinality(rawRegistry') <= MaxRawSockets
    <3>1. CASE rawRegistry' = rawRegistry
      BY <3>1 DEF SocketsInv, RawInv
    <3>2. CASE rawRegistry' = rawRegistry \cup {s} /\ Cardinality(rawRegistry) < MaxRawSockets
      <4>1. Cardinality(rawRegistry \cup {s}) =
              IF s \in rawRegistry THEN Cardinality(rawRegistry) ELSE Cardinality(rawRegistry) + 1
        BY RawFinite, FS_AddElement
      <4> QED BY <4>1, <3>2, RawFinite, SocketsAssumption
    <3> QED BY <3>1, <3>2 DEF HandleSocket
  <2> QED BY <2>2, <2>3 DEF RawInv, Open
<1>7. nextPort' \in Ports
  BY <1>1 DEF HandleSocket
<1> QED BY <1>2, <1>4, <1>5, <1>6, <1>7, QuietKeepsInv

\* connect, recvfrom and bind on a raw socket: one socket changes, and keeps its port.
LEMMA OneSocketStep ==
  ASSUME SocketsInv, NEW s \in Descriptors, Open(s), NEW r \in SocketRecords,
         sock' = [sock EXCEPT ![s] = r],
         r.port = sock[s].port, r.state # "closed",
         s \in Udp => r.state = sock[s].state \/ r.state = "connected",
         UNCHANGED <<bound, registry, rawRegistry, nextPort>>
  PROVE  SocketsInv' /\ KeepsPorts
<1>1. sock \in [Descriptors -> SocketRecords] /\ nextPort \in Ports /\ rawRegistry \subseteq Raw
  BY DEF SocketsInv, TypeInv
<1>2. /\ sock' \in [Descriptors -> SocketRecords]
      /\ sock'[s] = r
      /\ \A t \in Descriptors : t # s => sock'[t] = sock[t]
  BY <1>1
<1>3. QuietPorts
  <2>1. \A t \in Udp : t # s => sock'[t] = sock[t]
    BY <1>2 DEF Descriptors
  <2>2. \A t \in Udp : sock[t].port # 0 => sock'[t].state \in {"bound", "connected"}
    BY <2>1, <1>2 DEF SocketsInv, PortsInv
  <2> QED BY <1>2, <2>2 DEF QuietPorts
<1>4. \A t \in rawRegistry : sock'[t].state # "closed"
  BY <1>1, <1>2 DEF SocketsInv, RawInv, Open, Descriptors
<1>5. rawRegistry' \subseteq Raw /\ RawInv'
  BY <1>4, SameRawRegistry
<1> QED BY <1>1, <1>2, <1>3, <1>5, QuietKeepsInv

LEMMA ConnectStep ==
  ASSUME SocketsInv, NEW s \in Descriptors, NEW h \in Hosts, HandleConnect(s, h)
  PROVE  SocketsInv' /\ KeepsPorts
<1> DEFINE r == [sock[s] EXCEPT !.remote = h, !.state = "connected"]
<1>1. sock[s] \in SocketRecords /\ sock \in [Descriptors -> SocketRecords]
  BY DEF SocketsInv, TypeInv
<1>2. r \in SocketRecords /\ r.port = sock[s].port /\ r.state = "connected"
  BY <1>1 DEF SocketRecords, States
<1>3. sock' = [sock EXCEPT ![s] = r]
  BY <1>1 DEF HandleConnect
<1>4. Open(s) /\ UNCHANGED <<bound, registry, rawRegistry, nextPort>>
  BY DEF HandleConnect
<1> HIDE DEF r
<1> QED BY <1>2, <1>3, <1>4, OneSocketStep

LEMMA BindRawStep ==
  ASSUME SocketsInv, NEW s \in Descriptors, HandleBindRaw(s)
  PROVE  SocketsInv' /\ KeepsPorts
<1> DEFINE r == [sock[s] EXCEPT !.state = "unbound"]
<1>1. sock[s] \in SocketRecords /\ sock \in [Descriptors -> SocketRecords]
  BY DEF SocketsInv, TypeInv
<1>2. r \in SocketRecords /\ r.port = sock[s].port /\ r.state = "unbound"
  BY <1>1 DEF SocketRecords, States
<1>3. sock' = [sock EXCEPT ![s] = r]
  BY <1>1 DEF HandleBindRaw
<1>4. Open(s) /\ s \notin Udp /\ UNCHANGED <<bound, registry, rawRegistry, nextPort>>
  BY SocketsAssumption DEF HandleBindRaw
<1> HIDE DEF r
<1> QED BY <1>2, <1>3, <1>4, OneSocketStep

LEMMA RecvfromStep ==
  ASSUME SocketsInv, NEW s \in Descriptors, HandleRecvfrom(s)
  PROVE  SocketsInv' /\ KeepsPorts
<1> DEFINE r == [sock[s] EXCEPT !.queue = Tail(@)]
<1>1. sock[s] \in SocketRecords /\ sock \in [Descriptors -> SocketRecords]
  BY DEF SocketsInv, TypeInv
<1>2. sock[s].queue \in Seq(Frames) /\ sock[s].queue # <<>>
  BY <1>1 DEF SocketRecords, HandleRecvfrom
<1>3. Tail(sock[s].queue) \in Seq(Frames)
  BY <1>2
<1>4. r \in SocketRecords /\ r.port = sock[s].port /\ r.state = sock[s].state
  BY <1>1, <1>3 DEF SocketRecords
<1>5. sock' = [sock EXCEPT ![s] = r]
  BY <1>1 DEF HandleRecvfrom
<1>6. Open(s) /\ UNCHANGED <<bound, registry, rawRegistry, nextPort>>
  BY DEF HandleRecvfrom
<1> HIDE DEF r
<1> QED BY <1>4, <1>5, <1>6, OneSocketStep DEF Open

LEMMA BindStep ==
  ASSUME SocketsInv, NEW s \in Descriptors, NEW p \in UserPorts, HandleBind(s, p)
  PROVE  SocketsInv' /\ KeepsPorts
<1>1. s \in Udp /\ p \in Ports /\ CanBind(p)
  BY SocketsAssumption DEF HandleBind, BindSocket, Ports
<1>2. sock[s].port = 0
  BY <1>1 DEF HandleBind, BindSocket, SocketsInv, PortsInv
<1>3. TakePort(s, p) /\ nextPort' \in Ports
  BY DEF HandleBind, BindSocket, TakePort, SocketsInv, TypeInv
<1> QED BY <1>1, <1>2, <1>3, TakePortKeepsInv

LEMMA SendStep ==
  ASSUME SocketsInv, NEW s \in Descriptors, NEW h \in Hosts \cup {NoHost},
         NEW sends \in BOOLEAN, SendFrom(s, h, sends)
  PROVE  SocketsInv' /\ KeepsPorts
<1>1. nextPort \in Ports /\ sock \in [Descriptors -> SocketRecords] /\ rawRegistry \subseteq Raw
  BY DEF SocketsInv, TypeInv
<1>2. ASSUME UNCHANGED <<bound, registry, rawRegistry, sock>>, nextPort' \in Ports
      PROVE  SocketsInv' /\ KeepsPorts
  <2>1. QuietPorts
    BY <1>2 DEF QuietPorts, SocketsInv, PortsInv
  <2>2. RawInv'
    BY <1>2 DEF SocketsInv, RawInv, Open
  <2> QED BY <1>1, <1>2, <2>1, <2>2, QuietKeepsInv
<1>3. CASE s \in Raw \/ sock[s].port # 0
  BY <1>1, <1>2, <1>3 DEF SendFrom, socketVars
<1>4. CASE ~(s \in Raw \/ sock[s].port # 0)
  <2>1. s \in Udp /\ sock[s].port = 0 /\ AutoBind(s, sends)
    BY <1>4 DEF SendFrom, Descriptors
  <2>2. EphemeralPort.port \in Ports /\ nextPort' \in Ports
    BY <1>1, <2>1, EphemeralPortType DEF AutoBind
  <2>3. CASE sends
    <3>1. TakePort(s, EphemeralPort.port) /\ CanBind(EphemeralPort.port)
      BY <2>1, <2>3 DEF AutoBind, TakePort
    <3> QED BY <2>1, <2>2, <3>1, TakePortKeepsInv
  <2>4. CASE ~sends
    BY <2>1, <2>2, <2>4, <1>2 DEF AutoBind
  <2> QED BY <2>3, <2>4
<1> QED BY <1>3, <1>4

\* close: either the socket has no port, or the port leaves both tables with it.
LEMMA CloseStep ==
  ASSUME SocketsInv, NEW s \in Descriptors, HandleClose(s)
  PROVE  SocketsInv' /\ KeepsPorts
<1>1. TypeInv /\ PortsInv /\ TablesInv /\ RawInv /\ CountInv
  BY DEF SocketsInv
<1>2. /\ sock' \in [Descriptors -> SocketRecords]
      /\ sock'[s] = Closed
      /\ \A t \in Descriptors : t # s => sock'[t] = sock[t]
  BY <1>1, ClosedType DEF HandleClose, TypeInv
<1>3. rawRegistry' = rawRegistry \ {s} /\ rawRegistry' \subseteq Raw /\ nextPort' \in Ports
  BY <1>1 DEF HandleClose, TypeInv
<1>4. RawInv'
  <2>1. \A t \in rawRegistry' : sock'[t] = sock[t] /\ t \in rawRegistry
    BY <1>2, <1>3 DEF Descriptors
  <2>2. Cardinality(rawRegistry \ {s}) <= Cardinality(rawRegistry)
        /\ Cardinality(rawRegistry \ {s}) \in Nat
    <3>1. rawRegistry \ {s} \in SUBSET rawRegistry
      OBVIOUS
    <3> QED BY <3>1, RawFinite, FS_Subset, FS_CardinalityType
  <2>3. Cardinality(rawRegistry') <= MaxRawSockets
    BY <2>2, <1>1, <1>3, RawFinite, SocketsAssumption DEF RawInv
  <2> QED BY <2>1, <2>3, <1>1 DEF RawInv, Open
<1>5. CASE ~HasPort(s)
  <2>1. bound' = bound /\ registry' = registry
    BY <1>5 DEF HandleClose
  <2>2. sock[s].port = 0
    BY <1>1, <1>5 DEF HasPort, PortsInv, Descriptors
  <2>3. \A t \in Udp : sock[t].port # 0 => sock'[t].state \in {"bound", "connected"}
    BY <1>1, <1>2, <2>2 DEF PortsInv, Descriptors
  <2>4. QuietPorts
    BY <1>2, <2>1, <2>2, <2>3, ClosedType DEF QuietPorts
  <2> QED BY <1>2, <1>3, <1>4, <2>4, QuietKeepsInv
<1>6. CASE HasPort(s)
  <2> DEFINE p == sock[s].port
  <2>1. s \in Udp /\ p # 0 /\ p \in Ports /\ bound[p] = "socket"
    BY <1>1, <1>6 DEF HasPort, TypeInv, SocketRecords, TablesInv
  <2>2. bound' = [bound EXCEPT ![p] = "none"] /\ bound \in [Ports -> Handlers]
    BY <1>1, <1>6 DEF HandleClose, TypeInv
  <2>3. \A t \in Udp : t # s => sock[t].port # p
    BY <1>1, <2>1 DEF PortsInv
  <2>4. registry' = registry \ {<<p, s>>}
    <3>1. registry' = {e \in registry : e[1] # p}
      BY <1>6 DEF HandleClose, Unregistered
    <3>2. \A e \in registry : e[1] = p <=> e = <<p, s>>
      BY <1>1, <2>1, <2>3 DEF TablesInv
    <3> HIDE DEF p
    <3> QED BY <3>1, <3>2
  <2>5. <<p, s>> \in registry
    BY <1>1, <2>1 DEF TablesInv
  <2>6. BoundPorts' = BoundPorts \ {p} /\ p \in BoundPorts
    <3> HIDE DEF p
    <3> QED BY <2>1, <2>2 DEF BoundPorts, IsBound
  <2>7. \A t \in Udp \cup Raw : t # s => sock'[t] = sock[t]
    BY <1>2 DEF Descriptors
  <2>8. sock'[s].port = 0
    BY <1>2, ClosedType
  <2> HIDE DEF p
  <2>9. TypeInv'
    <3>1. bound' \in [Ports -> Handlers]
      BY <2>2 DEF Handlers
    <3>2. registry' \subseteq Ports \X Udp
      BY <1>1, <2>4 DEF TypeInv
    <3>3. IsFiniteSet(registry')
      BY <1>1, <2>4, FS_RemoveElement DEF TypeInv
    <3> QED BY <3>1, <3>2, <3>3, <1>2, <1>3 DEF TypeInv
  <2>10. PortsInv'
    <3>1. \A t \in Raw : sock'[t].port = 0
      BY <1>1, <2>7, <2>8 DEF PortsInv
    <3>2. \A t \in Udp : sock'[t].port # 0 => sock'[t].state \in {"bound", "connected"}
      BY <1>1, <2>7, <2>8 DEF PortsInv
    <3>3. \A t, u \in Udp : t # u /\ sock'[t].port # 0 => sock'[t].port # sock'[u].port
      BY <1>1, <2>7, <2>8 DEF PortsInv
    <3> QED BY <3>1, <3>2, <3>3 DEF PortsInv
  <2>11. TablesInv'
    <3>1. \A q \in Ports : bound'[q] = "socket" <=> (q # p /\ bound[q] = "socket")
      BY <2>2
    <3>2. ASSUME NEW q \in Ports
          PROVE  bound'[q] = "socket" <=> \E t \in Udp : sock'[t].port = q /\ q # 0
      <4>1. bound[q] = "socket" <=> \E t \in Udp : sock[t].port = q /\ q # 0
        BY <1>1 DEF TablesInv
      <4>2. (\E t \in Udp : sock'[t].port = q /\ q # 0)
              <=> (\E t \in Udp : t # s /\ sock[t].port = q /\ q # 0)
        BY <2>7, <2>8
      <4>3. (\E t \in Udp : t # s /\ sock[t].port = q /\ q # 0)
              <=> q # p /\ (\E t \in Udp : sock[t].port = q /\ q # 0)
        BY <2>3 DEF p
      <4> QED BY <3>1, <4>1, <4>2, <4>3
    <3>3. ASSUME NEW e
          PROVE  e \in registry' <=> \E t \in Udp : sock'[t].port # 0 /\ e = <<sock'[t].port, t>>
      <4>1. e \in registry <=> \E t \in Udp : sock[t].port # 0 /\ e = <<sock[t].port, t>>
        BY <1>1 DEF TablesInv
      <4>2. (\E t \in Udp : sock'[t].port # 0 /\ e = <<sock'[t].port, t>>)
              <=> (\E t \in Udp : t # s /\ sock[t].port # 0 /\ e = <<sock[t].port, t>>)
        BY <2>7, <2>8
      <4>3. (\E t \in Udp : t # s /\ sock[t].port # 0 /\ e = <<sock[t].port, t>>)
              <=> e # <<p, s>> /\ (\E t \in Udp : sock[t].port # 0 /\ e = <<sock[t].port, t>>)
        BY DEF p
      <4> QED BY <2>4, <4>1, <4>2, <4>3
    <3> QED BY <3>2, <3>3 DEF TablesInv
  <2>12. CountInv'
    <3>1. IsFiniteSet(registry) /\ Cardinality(registry) \in Nat
      BY <1>1, FS_CardinalityType DEF TypeInv
    <3>2. Cardinality(registry') = Cardinality(registry) - 1
      BY <2>4, <2>5, <3>1, FS_RemoveElement
    <3>3. Cardinality(BoundPorts') = Cardinality(BoundPorts) - 1
      BY <2>6, BoundPortsFinite, FS_RemoveElement
    <3> QED BY <1>1, <3>1, <3>2, <3>3, BoundPortsFinite, SocketsAssumption DEF CountInv
  <2>13. KeepsPorts
    BY <1>2, <2>7 DEF KeepsPorts, Closed
  <2> QED BY <1>4, <2>9, <2>10, <2>11, <2>12, <2>13 DEF SocketsInv
<1> QED BY <1>5, <1>6

\* Delivery changes nothing but queues.
LEMMA DeliverStep ==
  ASSUME SocketsInv, NEW frame \in Frames, NEW receivers, Deliver(frame, receivers)
  PROVE  SocketsInv' /\ KeepsPorts
<1>1. sock \in [Descriptors -> SocketRecords] /\ nextPort \in Ports /\ rawRegistry \subseteq Raw
  BY DEF SocketsInv, TypeInv
<1>2. ASSUME NEW s \in Descriptors
      PROVE  /\ sock'[s] \in SocketRecords
             /\ sock'[s].port = sock[s].port /\ sock'[s].state = sock[s].state
  <2> DEFINE r == [sock[s] EXCEPT !.queue = Append(@, frame)]
  <2>1. sock[s] \in SocketRecords
    BY <1>1
  <2>2. Append(sock[s].queue, frame) \in Seq(Frames)
    BY <2>1 DEF SocketRecords
  <2>3. r \in SocketRecords /\ r.port = sock[s].port /\ r.state = sock[s].state
    BY <2>1, <2>2 DEF SocketRecords
  <2>4. sock'[s] = IF s \in receivers THEN r ELSE sock[s]
    BY DEF Deliver
  <2> HIDE DEF r
  <2> QED BY <2>1, <2>3, <2>4
<1>3. sock' \in [Descriptors -> SocketRecords]
  <2>1. DOMAIN sock' = Descriptors /\ sock' = [s \in Descriptors |-> sock'[s]]
    BY DEF Deliver
  <2> QED BY <2>1, <1>2
<1>4. QuietPorts
  <2>1. \A s \in Udp : sock'[s].state = sock[s].state
    BY <1>2 DEF Descriptors
  <2> QED BY <1>2, <2>1 DEF QuietPorts, Deliver, SocketsInv, PortsInv
<1>5. \A t \in rawRegistry : sock'[t].state # "closed"
  BY <1>1, <1>2 DEF SocketsInv, RawInv, Open, Descriptors
<1>6. rawRegistry' \subseteq Raw /\ RawInv'
  BY <1>5, SameRawRegistry DEF Deliver
<1>7. nextPort' \in Ports
  BY <1>1 DEF Deliver
<1> QED BY <1>3, <1>4, <1>6, <1>7, QuietKeepsInv

LEMMA ReceiveStep ==
  ASSUME SocketsInv, NEW h \in Hosts, NEW p \in Ports, NEW about \in Subjects, NEW kind \in MessageKinds,
         \/ ReceiveDatagram(Frame("udp", h, p, about))
         \/ ReceiveMessage(Frame(kind, h, 0, NoDomain))
  PROVE  SocketsInv' /\ KeepsPorts
<1>1. Frame("udp", h, p, about) \in Frames /\ Frame(kind, h, 0, NoDomain) \in Frames
  BY PortsFinite DEF Frame, Frames, Subjects
<1> QED BY <1>1, DeliverStep DEF ReceiveDatagram, ReceiveMessage

LEMMA ResolverStep ==
  ASSUME SocketsInv, NEW p \in Ports, BindResolver(p)
  PROVE  SocketsInv' /\ KeepsPorts
<1>1. TypeInv /\ PortsInv /\ TablesInv /\ RawInv /\ CountInv
  BY DEF SocketsInv
<1>2. UNCHANGED <<registry, rawRegistry, sock, nextPort>>
  BY DEF BindResolver
<1>3. bound \in [Ports -> Handlers]
  BY <1>1 DEF TypeInv
<1>4. CASE ~CanBind(p)
  <2>1. bound' = bound
    BY <1>4 DEF BindResolver
  <2>2. BoundPorts' = BoundPorts
    BY <2>1 DEF BoundPorts, IsBound
  <2> QED BY <1>1, <1>2, <2>1, <2>2
          DEF SocketsInv, TypeInv, PortsInv, TablesInv, RawInv, Open, CountInv, KeepsPorts
<1>5. CASE CanBind(p)
  <2>1. bound' = [bound EXCEPT ![p] = "dns"]
    BY <1>5 DEF BindResolver
  <2>2. bound[p] = "none" /\ ~(Cardinality(BoundPorts) >= MaxBoundPorts)
    BY <1>5 DEF CanBind, IsBound, TableFull, BoundPorts
  <2>3. bound' \in [Ports -> Handlers]
    BY <1>3, <2>1 DEF Handlers
  <2>4. \A q \in Ports : bound'[q] = "socket" <=> bound[q] = "socket"
    BY <1>3, <2>1, <2>2
  <2>5. BoundPorts' = BoundPorts \cup {p} /\ p \notin BoundPorts
    BY <1>3, <2>1, <2>2 DEF BoundPorts, IsBound
  <2>6. Cardinality(BoundPorts') = Cardinality(BoundPorts) + 1
    BY <2>5, BoundPortsFinite, FS_AddElement
  <2>7. CountInv'
    <3>1. Cardinality(registry) \in Nat
      BY <1>1, FS_CardinalityType DEF TypeInv
    <3> QED BY <3>1, <1>1, <1>2, <2>2, <2>6, BoundPortsFinite, SocketsAssumption DEF CountInv
  <2>8. TypeInv' /\ PortsInv' /\ RawInv' /\ KeepsPorts
    BY <1>1, <1>2, <2>3 DEF TypeInv, PortsInv, RawInv, Open, KeepsPorts
  <2>9. TablesInv'
    BY <1>1, <1>2, <2>4 DEF TablesInv
  <2> QED BY <2>7, <2>8, <2>9 DEF SocketsInv
<1> QED BY <1>4, <1>5

LEMMA NextInv ==
  ASSUME SocketsInv, [SocketsNext]_socketVars
  PROVE  SocketsInv' /\ KeepsPorts
<1>1. CASE UNCHANGED socketVars
  <2>1. BoundPorts' = BoundPorts
    BY <1>1 DEF socketVars, BoundPorts, IsBound
  <2> QED BY <1>1, <2>1
          DEF socketVars, SocketsInv, TypeInv, PortsInv, TablesInv, RawInv, Open, CountInv, KeepsPorts
<1>2. ASSUME NEW s \in Descriptors, SystemCall(s)
      PROVE  SocketsInv' /\ KeepsPorts
  <2>1. CASE HandleSocket(s)
    BY <2>1, SocketStep
  <2>2. CASE \E p \in UserPorts : HandleBind(s, p)
    BY <2>2, BindStep
  <2>3. CASE HandleBindRaw(s)
    BY <2>3, BindRawStep
  <2>4. CASE \E h \in Hosts : HandleConnect(s, h)
    BY <2>4, ConnectStep
  <2>5. CASE HandleRecvfrom(s)
    BY <2>5, RecvfromStep
  <2>6. CASE HandleClose(s)
    BY <2>6, CloseStep
  <2> QED BY <1>2, <2>1, <2>2, <2>3, <2>4, <2>5, <2>6 DEF SystemCall
<1>3. CASE \E s \in Descriptors, h \in Hosts \cup {NoHost}, sends \in BOOLEAN : SendFrom(s, h, sends)
  BY <1>3, SendStep
<1>4. CASE \E h \in Hosts, p \in Ports, about \in Subjects : ReceiveDatagram(Frame("udp", h, p, about))
  BY <1>4, ReceiveStep DEF MessageKinds
<1>5. CASE \E h \in Hosts, kind \in MessageKinds : ReceiveMessage(Frame(kind, h, 0, NoDomain))
  BY <1>5, ReceiveStep, PortsFinite DEF Subjects
<1>6. CASE \E p \in Ports : BindResolver(p)
  BY <1>6, ResolverStep
<1> QED BY <1>1, <1>2, <1>3, <1>4, <1>5, <1>6 DEF SocketsNext

----------------------------------------------------------------------------
(* The theorems.                                                           *)

\* The inductive invariant: types, and how ports, tables and counts hang together,
\* through every order of socket, bind, connect, sendto, close and delivery.
THEOREM InvTheorem == SocketsSpec => []SocketsInv
<1>1. SocketsInv /\ [SocketsNext]_socketVars => SocketsInv'
  BY NextInv
<1> QED BY <1>1, InitInv, PTL DEF SocketsSpec

LEMMA InvAgrees == SocketsInv => TablesAgree
<1> SUFFICES ASSUME SocketsInv PROVE TablesAgree
  OBVIOUS
<1>1. TypeInv /\ PortsInv /\ TablesInv /\ RawInv /\ CountInv
  BY DEF SocketsInv
<1>2. registry = {<<sock[s].port, s>> : s \in {s \in Udp : sock[s].port # 0}}
  BY <1>1 DEF TablesInv
<1>3. {p \in Ports : bound[p] = "socket"} = {e[1] : e \in registry}
  <2>1. \A s \in Udp : sock[s].port \in Ports
    BY <1>1 DEF TypeInv, SocketRecords, Descriptors
  <2>2. \A p \in Ports : bound[p] = "socket" => \E e \in registry : e[1] = p
    <3> SUFFICES ASSUME NEW p \in Ports, bound[p] = "socket" PROVE \E e \in registry : e[1] = p
      OBVIOUS
    <3>1. PICK s \in Udp : sock[s].port = p /\ p # 0
      BY <1>1 DEF TablesInv
    <3>2. <<p, s>> \in registry
      BY <1>1, <3>1 DEF TablesInv
    <3> QED BY <3>2
  <2>3. \A e \in registry : e[1] \in Ports /\ bound[e[1]] = "socket"
    <3> SUFFICES ASSUME NEW e \in registry PROVE e[1] \in Ports /\ bound[e[1]] = "socket"
      OBVIOUS
    <3>1. PICK s \in Udp : sock[s].port # 0 /\ e = <<sock[s].port, s>>
      BY <1>1 DEF TablesInv
    <3>2. e[1] = sock[s].port
      BY <3>1
    <3> QED BY <1>1, <2>1, <3>1, <3>2 DEF TablesInv
  <2> QED BY <2>2, <2>3
<1>4. \A s \in Udp : sock[s].port # 0 => Open(s)
  BY <1>1 DEF PortsInv, Open
<1>5. Cardinality(registry) <= MaxUdpSockets
  <2>1. Cardinality(registry) \in Nat
    BY <1>1, FS_CardinalityType DEF TypeInv
  <2> QED BY <2>1, <1>1, BoundPortsFinite, SocketsAssumption DEF CountInv
<1> QED BY <1>1, <1>2, <1>3, <1>4, <1>5 DEF TablesAgree, PortsInv, RawInv

\* The port table of the UDP layer, the registry of socket pointers and the sockets
\* agree in every state: no pointer outlives its socket, no bound socket is left out.
THEOREM AgreeTheorem == SocketsSpec => []TablesAgree
BY InvTheorem, InvAgrees, PTL

\* An open UDP socket keeps its port until close gives it back.
THEOREM PortTheorem == SocketsSpec => PortKept
<1>1. SocketsInv /\ [SocketsNext]_socketVars => [KeepsPorts]_socketVars
  BY NextInv
<1>2. [KeepsPorts]_socketVars =>
        [\A s \in Udp : sock[s].port # 0 /\ sock'[s].port # sock[s].port
                           => sock'[s].state = "closed"]_socketVars
  BY DEF KeepsPorts
<1> QED BY <1>1, <1>2, InvTheorem, PTL DEF SocketsSpec, PortKept

\* The datagram's receivers are the sockets that have its port and room: the port
\* table decides, and it names a port exactly when a socket has it.
Arrives ==
  \A h \in Hosts, p \in Ports, about \in Subjects :
    LET datagram == Frame("udp", h, p, about) IN
    ReceiveDatagram(datagram) =>
      /\ \A s \in Udp : sock[s].port = p /\ p # 0 /\ Accepts(s)
                        => sock'[s].queue = Append(sock[s].queue, datagram)
      /\ (\A s \in Udp : p = 0 \/ sock[s].port # p) => UNCHANGED sock

LEMMA InvArrives == SocketsInv => Arrives
<1> SUFFICES ASSUME SocketsInv, NEW h \in Hosts, NEW p \in Ports, NEW about \in Subjects,
                    NEW datagram, datagram = Frame("udp", h, p, about),
                    ReceiveDatagram(datagram)
             PROVE  /\ \A s \in Udp : sock[s].port = p /\ p # 0 /\ Accepts(s)
                          => sock'[s].queue = Append(sock[s].queue, datagram)
                    /\ (\A s \in Udp : p = 0 \/ sock[s].port # p) => UNCHANGED sock
  BY DEF Arrives
<1>1. TablesInv /\ sock \in [Descriptors -> SocketRecords]
  BY DEF SocketsInv, TypeInv
<1>2. datagram.to = p
  BY DEF Frame
<1>3. sock' = [s \in Descriptors |->
                IF s \in Receivers(datagram) THEN [sock[s] EXCEPT !.queue = Append(@, datagram)]
                                             ELSE sock[s]]
  BY DEF ReceiveDatagram, Deliver
<1>4. ASSUME NEW s \in Udp, sock[s].port = p, p # 0, Accepts(s)
      PROVE  sock'[s].queue = Append(sock[s].queue, datagram)
  <2>1. bound[p] = "socket" /\ <<p, s>> \in registry
    BY <1>1, <1>4 DEF TablesInv
  <2>2. s \in Listeners
    <3>1. <<p, s>>[2] = s
      OBVIOUS
    <3> QED BY <2>1, <3>1 DEF Listeners
  <2>3. s \in Receivers(datagram)
    BY <1>2, <1>4, <2>1, <2>2 DEF Receivers
  <2>4. s \in Descriptors /\ sock[s] \in SocketRecords
    BY <1>1 DEF Descriptors
  <2>5. sock'[s] = [sock[s] EXCEPT !.queue = Append(@, datagram)]
    BY <1>3, <2>3, <2>4
  <2> QED BY <2>4, <2>5 DEF SocketRecords
<1>5. ASSUME \A s \in Udp : p = 0 \/ sock[s].port # p PROVE UNCHANGED sock
  <2>1. bound[p] # "socket"
    BY <1>1, <1>5 DEF TablesInv
  <2>2. Receivers(datagram) = {}
    BY <1>2, <2>1 DEF Receivers
  <2> QED BY <1>1, <1>3, <2>2
<1> QED BY <1>4, <1>5

\* A datagram for a port reaches the socket that has it, if its queue has room, and
\* nobody if no socket has it.
THEOREM ArrivalTheorem == SocketsSpec => DatagramArrives
<1>1. SocketsInv /\ [SocketsNext]_socketVars => [Arrives]_socketVars
  BY InvArrives
<1>2. [Arrives]_socketVars =>
        [\A h \in Hosts, p \in Ports, about \in Subjects :
           LET datagram == Frame("udp", h, p, about) IN
           ReceiveDatagram(datagram) =>
             /\ \A s \in Udp : sock[s].port = p /\ p # 0 /\ Accepts(s)
                               => sock'[s].queue = Append(sock[s].queue, datagram)
             /\ (\A s \in Udp : p = 0 \/ sock[s].port # p) => UNCHANGED sock]_socketVars
  BY DEF Arrives
<1> QED BY <1>1, <1>2, InvTheorem, PTL DEF SocketsSpec, DatagramArrives

-----------------------------------------------------------------------------
(* The stack.                                                              *)

Anybody == Hosts \cup {Self}
Packets ==
  [kind : {"arp_request", "arp_reply", "none"}, dest : Anybody, about : Subjects]
    \cup [kind : {"echo_request", "echo_reply", "datagram", "query"}, dest : Hosts, about : Subjects]

Requests == {f \in WireFrames : f.kind = "echo_request"}
ReceiveCalls ==
  [op : {"receive"}, at : {"loop", "handled"}, frame : WireFrames \cup {NoFrame}]
    \cup [op : {"receive"}, at : {"answered"}, frame : Requests]
ResolveCalls ==
  [op : {"resolve"}, at : {"request", "polling"}, hop : Anybody, packet : Packets,
   attempt : Nat, polls : Nat]
WaitCalls == [op : {"wait"}, for : {"ping", "dns"}, polls : Nat]
CallRecords == ReceiveCalls \cup ResolveCalls \cup WaitCalls
Slots == 0 .. RingSize - 1

LinkTyped ==
  /\ ring \in [Slots -> WireFrames \cup {NoFrame}]
  /\ currentRx \in Slots /\ cardRx \in Slots
  /\ wire \subseteq WireFrames

NetTyped == LinkTyped /\ calls \in Seq(CallRecords) /\ boot \in Nat \ {0}

----------------------------------------------------------------------------
(* Frames and packets.                                                     *)

LEMMA FrameKinds ==
  /\ NoFrame \notin WireFrames /\ NoFrame.kind = "none"
  /\ \A f \in WireFrames :
       /\ f.kind # "none" /\ f.from \in Hosts
       /\ f.kind = "udp" => f.to \in Ports /\ f.about \in Subjects
                            /\ f = Frame("udp", f.from, f.to, f.about)
       /\ f.kind \in MessageKinds => f = Frame(f.kind, f.from, 0, NoDomain)
<1>1. NoFrame.kind = "none"
  BY DEF NoFrame, Frame
<1>2. ASSUME NEW f \in [kind : {"arp_request", "arp_reply"} \cup MessageKinds, from : Hosts,
                        to : {0}, about : {NoDomain}]
      PROVE  /\ f.kind # "none" /\ f.kind # "udp" /\ f.from \in Hosts
             /\ f = Frame(f.kind, f.from, 0, NoDomain)
  BY DEF Frame, MessageKinds
<1>3. ASSUME NEW f \in [kind : {"udp"}, from : Hosts, to : Ports, about : Subjects]
      PROVE  /\ f.kind = "udp" /\ f.kind \notin MessageKinds /\ f.from \in Hosts
             /\ f.to \in Ports /\ f.about \in Subjects
             /\ f = Frame("udp", f.from, f.to, f.about)
  BY DEF Frame, MessageKinds
<1> QED BY <1>1, <1>2, <1>3 DEF WireFrames

\* What the other hosts answer is on the wire.
LEMMA AnswersTyped ==
  ASSUME NEW packet \in Packets
  PROVE  Answers(packet) \subseteq WireFrames
<1>1. CASE packet.kind = "arp_request"
  BY <1>1, NetworkAssumption DEF Answers, WireFrames, Frame, Packets
<1>2. CASE packet.kind = "echo_request"
  <2>1. packet.dest \in Hosts
    BY <1>2 DEF Packets
  <2> QED BY <1>2, <2>1 DEF Answers, WireFrames, Frame, MessageKinds
<1>3. CASE packet.kind = "query"
  <2>1. packet.dest \in Hosts /\ packet.about \in Subjects
    BY <1>3 DEF Packets
  <2>2. DnsPort \in Ports
    BY NetworkAssumption, SocketsAssumption DEF Ports
  <2> QED BY <1>3, <2>1, <2>2 DEF Answers, WireFrames, Frame
<1>4. CASE packet.kind \notin {"arp_request", "echo_request", "query"}
  BY <1>4 DEF Answers
<1> QED BY <1>1, <1>2, <1>3, <1>4

LEMMA TransmitTyped ==
  ASSUME NEW packet \in Packets, wire \subseteq WireFrames, Transmit(packet)
  PROVE  wire' \subseteq WireFrames
BY AnswersTyped DEF Transmit

----------------------------------------------------------------------------
(* The stack of calls.                                                     *)

\* Call c, which was on top, is replaced by d.
LEMMA StackTyped ==
  ASSUME NEW s \in Seq(CallRecords), NEW c \in CallRecords
  PROVE  /\ <<c>> \o s \in Seq(CallRecords)
         /\ Len(<<c>> \o s) = Len(s) + 1
         /\ (<<c>> \o s)[1] = c
         /\ \A i \in 2 .. Len(s) + 1 : (<<c>> \o s)[i] = s[i - 1]
         /\ Head(<<c>> \o s) = c /\ <<c>> \o s # <<>>
OBVIOUS

LEMMA TailTyped ==
  ASSUME NEW s \in Seq(CallRecords), s # <<>>
  PROVE  /\ Tail(s) \in Seq(CallRecords) /\ Head(s) \in CallRecords
         /\ Len(Tail(s)) = Len(s) - 1 /\ Len(s) > 0
         /\ \A i \in 1 .. Len(s) - 1 : Tail(s)[i] = s[i + 1]
         /\ Head(s) = s[1]
OBVIOUS

\* A frame is being handled by this call.
Busy(c) == c.op = "receive" /\ c.at # "loop"


\* A call that handles a frame is the only receive call from there down, and its
\* frame is still in the slot the driver is at.
HandledOnce(s, slot) ==
  \A i \in 1 .. Len(s) :
    Busy(s[i]) => slot # NoFrame /\ \A j \in i + 1 .. Len(s) : s[j].op # "receive"

LEMMA PopKeeps ==
  ASSUME NEW s \in Seq(CallRecords), s # <<>>, NEW slot, HandledOnce(s, slot)
  PROVE  HandledOnce(Tail(s), slot)
<1>1. Len(s) \in Nat /\ \A i \in 1 .. Len(Tail(s)) : i + 1 \in 1 .. Len(s) /\ Tail(s)[i] = s[i + 1]
  BY TailTyped
<1> QED BY <1>1, TailTyped DEF HandledOnce

LEMMA PushKeeps ==
  ASSUME NEW s \in Seq(CallRecords), NEW c \in CallRecords, NEW slot, HandledOnce(s, slot),
         Busy(c) => slot # NoFrame /\ \A j \in 1 .. Len(s) : s[j].op # "receive"
  PROVE  HandledOnce(<<c>> \o s, slot)
<1> DEFINE t == <<c>> \o s
<1>1. Len(s) \in Nat /\ Len(t) = Len(s) + 1 /\ t[1] = c
  BY StackTyped
<1>2. \A i \in 2 .. Len(t) : t[i] = s[i - 1] /\ i - 1 \in 1 .. Len(s)
  BY <1>1, StackTyped
<1> HIDE DEF t
<1>3. ASSUME NEW i \in 1 .. Len(t), Busy(t[i])
      PROVE  slot # NoFrame /\ \A j \in i + 1 .. Len(t) : t[j].op # "receive"
  <2>1. CASE i = 1
    BY <1>1, <1>2, <1>3, <2>1
  <2>2. CASE i # 1
    BY <1>1, <1>2, <1>3, <2>2 DEF HandledOnce
  <2> QED BY <2>1, <2>2
<1> QED BY <1>3 DEF HandledOnce, t

\* The stack s is one that the step may leave.
StackOK(s) ==
  /\ s \in Seq(CallRecords)
  /\ ~reentered' => HandledOnce(s, ring'[currentRx'])

LEMMA PopOK ==
  ASSUME NEW s, StackOK(s), s # <<>>
  PROVE  StackOK(Tail(s))
BY PopKeeps, TailTyped DEF StackOK

LEMMA PushOK ==
  ASSUME NEW s, StackOK(s), NEW c \in CallRecords, ~Busy(c)
  PROVE  StackOK(<<c>> \o s)
BY PushKeeps, StackTyped DEF StackOK

\* A call on top of the stack, a return, and a packet that may need a call first.
LEMMA CallsOK ==
  ASSUME NEW s, StackOK(s), StackOK(calls), NEW c \in CallRecords, ~Busy(c), Calls(c, s)
  PROVE  StackOK(calls')
<1>1. CASE calls' = <<c>> \o s
  BY <1>1, PushOK
<1>2. CASE calls' = calls
  BY <1>2
<1> QED BY <1>1, <1>2 DEF Calls

LEMMA SendReturnsOK ==
  ASSUME NEW s, StackOK(s), NEW sent, SendReturns(s, sent)
  PROVE  StackOK(calls')
<1>1. CASE s # <<>> /\ calls' = Tail(s)
  BY <1>1, PopOK
<1>2. CASE calls' = s
  BY <1>2
<1> QED BY <1>1, <1>2 DEF SendReturns

LEMMA ResolveCallTyped ==
  ASSUME NEW hop \in Anybody, NEW packet \in Packets
  PROVE  ResolveCall(hop, packet) \in CallRecords /\ ~Busy(ResolveCall(hop, packet))
BY DEF ResolveCall, CallRecords, ResolveCalls, Busy

LEMMA SendPacketOK ==
  ASSUME NEW s, StackOK(s), StackOK(calls), wire \subseteq WireFrames,
         NEW packet \in Packets, SendPacket(packet, s)
  PROVE  StackOK(calls') /\ wire' \subseteq WireFrames
<1>1. NextHop(packet.dest) \in Anybody
  BY NetworkAssumption DEF NextHop, Packets, Anybody
<1>2. CASE NextHop(packet.dest) \in arp
  BY <1>2, TransmitTyped, SendReturnsOK DEF SendPacket
<1>3. CASE NextHop(packet.dest) \notin arp
  BY <1>1, <1>3, ResolveCallTyped, CallsOK DEF SendPacket
<1> QED BY <1>2, <1>3

----------------------------------------------------------------------------
(* The inductive invariant.                                                *)

\* RxInStep's condition: the frames in the ring are those between the two indices.
RingInStep == \A i \in 0 .. RingSize - 1 : ring[i] # NoFrame <=> Between(i)

NetInv ==
  /\ SocketsInv
  /\ NetTyped
  /\ ~reentered => RingInStep /\ HandledOnce(calls, ring[currentRx])

\* What a step has to do: the sockets make one of theirs or none.
StepOK ==
  /\ [SocketsNext]_socketVars
  /\ LinkTyped' /\ boot' \in Nat \ {0}
  /\ ~reentered' => RingInStep'
  /\ StackOK(calls')

LEMMA StepKeepsInv ==
  ASSUME NetInv, StepOK
  PROVE  NetInv'
<1>1. SocketsInv'
  BY NextInv DEF NetInv, StepOK
<1> QED BY <1>1 DEF NetInv, StepOK, NetTyped, StackOK

\* Most steps leave the ring alone.
LEMMA SameLink ==
  ASSUME NetInv, UNCHANGED linkVars, reentered => reentered'
  PROVE  /\ wire' \subseteq WireFrames => LinkTyped'
         /\ ~reentered' => RingInStep'
         /\ StackOK(calls)
         /\ wire \subseteq WireFrames /\ boot \in Nat \ {0}
<1>1. UNCHANGED <<ring, currentRx, cardRx>>
  BY DEF linkVars
<1>2. NetTyped
  BY DEF NetInv
<1>3. wire' \subseteq WireFrames => LinkTyped'
  BY <1>1, <1>2 DEF NetTyped, LinkTyped
<1>4. ~reentered' => RingInStep'
  BY <1>1 DEF NetInv, RingInStep, Between
<1>5. StackOK(calls)
  BY <1>1, <1>2 DEF NetInv, NetTyped, StackOK
<1> QED BY <1>2, <1>3, <1>4, <1>5 DEF NetTyped, LinkTyped

LEMMA NextSlot ==
  ASSUME NEW x \in Slots
  PROVE  (x + 1) % RingSize = IF x + 1 = RingSize THEN 0 ELSE x + 1
<1>1. RingSize \in Nat \ {0} /\ x \in Nat /\ x + 1 <= RingSize
  BY NetworkAssumption DEF Slots
<1>2. CASE x + 1 = RingSize
  BY ONLY <1>1, <1>2
<1>3. CASE x + 1 < RingSize
  BY ONLY <1>1, <1>3
<1> QED BY <1>1, <1>2, <1>3

LEMMA OutsideRange == \A a, b, i \in Int : i \notin a .. b - 1 <=> i < a \/ b <= i
OBVIOUS

LEMMA NetInitInv == Init => NetInv
<1> SUFFICES ASSUME Init PROVE NetInv
  OBVIOUS
<1>1. SocketsInv
  BY InitInv DEF Init
<1>2. 0 \in Slots
  BY NetworkAssumption DEF Slots
<1>3. NetTyped
  BY <1>2, NetworkAssumption DEF Init, NetTyped, LinkTyped, Slots
<1>4. RingInStep
  BY <1>2 DEF Init, RingInStep, Between, Slots
<1>5. HandledOnce(calls, ring[currentRx])
  BY DEF Init, HandledOnce
<1> QED BY <1>1, <1>3, <1>4, <1>5 DEF NetInv

----------------------------------------------------------------------------
(* The card and the driver.                                                *)

LEMMA ArriveStep ==
  ASSUME NetInv, NEW frame \in wire, Arrive(frame)
  PROVE  StepOK
<1>1. LinkTyped /\ boot' \in Nat \ {0}
  BY DEF NetInv, NetTyped, Arrive
<1>2. frame \in WireFrames /\ frame # NoFrame
  BY <1>1, FrameKinds DEF LinkTyped
<1>3. [SocketsNext]_socketVars
  BY DEF Arrive, socketVars
<1>4. cardRx' = cardRx \/ cardRx' = IF cardRx + 1 = RingSize THEN 0 ELSE cardRx + 1
  BY <1>1, NextSlot DEF Arrive, LinkTyped
<1>5. cardRx' \in Slots
  BY <1>1, <1>4, NetworkAssumption DEF LinkTyped, Slots
<1>6. ring' \in [Slots -> WireFrames \cup {NoFrame}]
  BY <1>1, <1>2 DEF Arrive, LinkTyped
<1>7. LinkTyped'
  BY <1>1, <1>5, <1>6 DEF Arrive, LinkTyped
<1>8. ring[currentRx] # NoFrame => ring'[currentRx'] = ring[currentRx]
  BY <1>1 DEF Arrive, LinkTyped
<1>9. StackOK(calls')
  BY <1>8 DEF NetInv, NetTyped, Arrive, StackOK, HandledOnce
<1>10. ASSUME ~reentered' PROVE RingInStep'
  <2>1. RingInStep
    BY <1>10 DEF NetInv, Arrive
  <2>2. CASE ring[cardRx] = NoFrame
    <3>1. /\ ring' = [ring EXCEPT ![cardRx] = frame]
          /\ cardRx' = IF cardRx + 1 = RingSize THEN 0 ELSE cardRx + 1
          /\ currentRx' = currentRx
      BY <1>1, <2>2, NextSlot DEF Arrive, LinkTyped
    <3>2. \A i \in Slots : ring'[i] # NoFrame <=> i = cardRx \/ ring[i] # NoFrame
      BY <1>1, <1>2, <3>1 DEF LinkTyped
    <3>3. \A i \in Slots : ring[i] # NoFrame <=> Between(i)
      BY <2>1 DEF RingInStep, Slots
    <3>4. currentRx \in Int /\ cardRx \in Int /\ RingSize \in Nat
          /\ currentRx \in 0 .. RingSize - 1 /\ cardRx \in 0 .. RingSize - 1
      BY <1>1, NetworkAssumption DEF LinkTyped, Slots
    <3>5. ASSUME NEW i \in Slots PROVE ring'[i] # NoFrame <=> Between(i)'
      <4>1. i \in Int /\ i \in 0 .. RingSize - 1
        BY DEF Slots
      <4>2. ring[currentRx] # NoFrame <=> Between(currentRx)
        BY <1>1, <3>3 DEF LinkTyped
      <4>3. ring[cardRx] # NoFrame <=> Between(cardRx)
        BY <1>1, <3>3 DEF LinkTyped
      <4>4. ring'[currentRx] # NoFrame <=> currentRx = cardRx \/ ring[currentRx] # NoFrame
        BY <1>1, <3>2 DEF LinkTyped
      <4>5. ring'[i] # NoFrame <=> i = cardRx \/ Between(i)
        BY <3>2, <3>3
      <4>6. Between(i) <=> IF currentRx < cardRx THEN currentRx <= i /\ i < cardRx
                           ELSE IF currentRx > cardRx THEN i < cardRx \/ currentRx <= i
                           ELSE FALSE
        BY <2>2, <3>4, <4>1 DEF Between
      <4>7. Between(i)' <=> IF currentRx < cardRx' THEN currentRx <= i /\ i < cardRx'
                            ELSE IF currentRx > cardRx' THEN i < cardRx' \/ currentRx <= i
                            ELSE ring'[currentRx] # NoFrame
        <5>1. cardRx' \in Int
          BY <1>5 DEF Slots
        <5> QED BY <3>1, <3>4, <4>1, <5>1 DEF Between
      <4>8. cardRx' = IF cardRx + 1 = RingSize THEN 0 ELSE cardRx + 1
        BY <3>1
      <4>9. ring[currentRx] # NoFrame <=> currentRx # cardRx /\ Between(currentRx)
        BY <2>2, <4>2
      <4>10. Between(currentRx) <=> currentRx # cardRx
        BY <2>2, <3>4 DEF Between
      <4> HIDE <3>1
      <4> QED BY <3>4, <4>1, <4>4, <4>5, <4>6, <4>7, <4>8, <4>9, <4>10
    <3> QED BY <3>5 DEF RingInStep, Slots
  <2>3. CASE ring[cardRx] # NoFrame
    BY <2>1, <2>3 DEF Arrive, RingInStep, Between
  <2> QED BY <2>2, <2>3
<1> QED BY <1>1, <1>3, <1>7, <1>9, <1>10 DEF StepOK

LEMMA TransmittedStep ==
  ASSUME NetInv, Transmitted
  PROVE  StepOK
<1>1. UNCHANGED linkVars /\ reentered' = reentered /\ wire' = wire /\ boot' = boot
      /\ calls' = calls /\ UNCHANGED socketVars
  BY DEF Transmitted
<1> QED BY <1>1, SameLink DEF StepOK

\* What is on top of the stack.
LEMMA TopTyped ==
  ASSUME NetInv, NEW op, Running(op)
  PROVE  /\ Top \in CallRecords /\ Top.op = op /\ calls # <<>>
         /\ StackOK(calls) => StackOK(Below)
         /\ op = "receive" => Top \in ReceiveCalls
         /\ op = "resolve" => Top \in ResolveCalls
         /\ op = "wait" => Top \in WaitCalls
<1>1. Top \in CallRecords /\ Top.op = op /\ calls # <<>>
  BY TailTyped DEF NetInv, NetTyped, Running, Top
<1>2. StackOK(calls) => StackOK(Below)
  BY <1>1, PopOK DEF Below
<1>3. /\ \A c \in ReceiveCalls : c.op = "receive"
      /\ \A c \in ResolveCalls : c.op = "resolve"
      /\ \A c \in WaitCalls : c.op = "wait"
  BY DEF ReceiveCalls, ResolveCalls, WaitCalls
<1> QED BY <1>1, <1>2, <1>3 DEF CallRecords

LEMMA ReceiveCallTyped == ReceiveCall \in CallRecords /\ ~Busy(ReceiveCall)
BY DEF ReceiveCall, CallRecords, ReceiveCalls, Busy

LEMMA PollOK ==
  ASSUME StackOK(calls), StackOK(Below), NEW c \in CallRecords, ~Busy(c), Poll(c)
  PROVE  StackOK(calls')
<1>1. StackOK(<<c>> \o Below)
  BY PushOK
<1> QED BY <1>1, ReceiveCallTyped, CallsOK DEF Poll

----------------------------------------------------------------------------
(* Waiting for an address and for an answer.                               *)

LEMMA AttemptFailsOK ==
  ASSUME StackOK(Below), Top \in ResolveCalls, AttemptFails
  PROVE  StackOK(calls')
<1>1. CASE LastAttempt(Top)
  BY <1>1, SendReturnsOK DEF AttemptFails
<1>2. CASE ~LastAttempt(Top)
  <2>1. ASSUME NEW c \in ResolveCalls PROVE Retried(c) \in ResolveCalls /\ ~Busy(Retried(c))
    <3>1. c.attempt + 1 \in Nat /\ c.op = "resolve"
      BY DEF ResolveCalls
    <3> QED BY <3>1 DEF Retried, ResolveCalls, Busy
  <2>2. Retried(Top) \in CallRecords
    BY <2>1 DEF CallRecords
  <2> QED BY <1>2, <2>1, <2>2, PushOK DEF AttemptFails
<1> QED BY <1>1, <1>2

LEMMA RequestStep ==
  ASSUME NetInv, SendARPRequest
  PROVE  StepOK
<1>1. UNCHANGED linkVars /\ reentered' = reentered /\ boot' = boot /\ UNCHANGED socketVars
  BY DEF SendARPRequest
<1>2. Top \in ResolveCalls /\ StackOK(calls) /\ StackOK(Below)
  BY <1>1, SameLink, TopTyped DEF SendARPRequest
<1>3. wire' \subseteq WireFrames
  <2>1. Packet("arp_request", Top.hop, NoDomain) \in Packets
    BY <1>2 DEF Packet, Packets, ResolveCalls, Subjects
  <2> QED BY <1>1, <2>1, SameLink, TransmitTyped DEF SendARPRequest
<1>4. StackOK(calls')
  <2>1. CASE CanTransmit
    <3>1. [Top EXCEPT !.at = "polling"] \in CallRecords /\ ~Busy([Top EXCEPT !.at = "polling"])
      BY <1>2 DEF CallRecords, ResolveCalls, Busy
    <3> QED BY <1>2, <2>1, <3>1, PushOK DEF SendARPRequest
  <2>2. CASE ~CanTransmit
    BY <1>2, <2>2, AttemptFailsOK DEF SendARPRequest
  <2> QED BY <2>1, <2>2
<1> QED BY <1>1, <1>3, <1>4, SameLink DEF StepOK

LEMMA PollStep ==
  ASSUME NetInv, PollForReply
  PROVE  StepOK
<1>1. UNCHANGED linkVars /\ reentered' = reentered /\ boot' = boot /\ wire' = wire
      /\ UNCHANGED socketVars
  BY DEF PollForReply
<1>2. Top \in ResolveCalls /\ StackOK(calls) /\ StackOK(Below)
  BY <1>1, SameLink, TopTyped DEF PollForReply
<1>3. [Top EXCEPT !.polls = @ + 1] \in CallRecords /\ ~Busy([Top EXCEPT !.polls = @ + 1])
  BY <1>2 DEF CallRecords, ResolveCalls, Busy
<1>4. StackOK(calls')
  BY <1>2, <1>3, PollOK DEF PollForReply
<1> QED BY <1>1, <1>4, SameLink DEF StepOK

LEMMA CheckCacheStep ==
  ASSUME NetInv, CheckCache
  PROVE  StepOK
<1>1. UNCHANGED linkVars /\ reentered' = reentered /\ boot' = boot /\ UNCHANGED socketVars
  BY DEF CheckCache
<1>2. Top \in ResolveCalls /\ StackOK(calls) /\ StackOK(Below) /\ wire \subseteq WireFrames
  BY <1>1, SameLink, TopTyped DEF CheckCache
<1>3. Top.packet \in Packets
  BY <1>2 DEF ResolveCalls
<1>4. StackOK(calls') /\ wire' \subseteq WireFrames
  <2>1. CASE Top.hop \notin arp
    BY <1>2, <2>1, AttemptFailsOK DEF CheckCache
  <2>2. CASE Top.hop \in arp /\ Top.packet.kind = "none"
    BY <1>2, <2>2, SendReturnsOK DEF CheckCache
  <2>3. CASE Top.hop \in arp /\ Top.packet.kind # "none"
    BY <1>2, <1>3, <2>3, SendReturnsOK, TransmitTyped DEF CheckCache
  <2> QED BY <2>1, <2>2, <2>3
<1> QED BY <1>1, <1>4, SameLink DEF StepOK

LEMMA WaitStep ==
  ASSUME NetInv, WaitPolls \/ WaitEnds
  PROVE  StepOK
<1>1. UNCHANGED linkVars /\ reentered' = reentered /\ boot' = boot /\ wire' = wire
      /\ UNCHANGED socketVars
  BY DEF WaitPolls, WaitEnds
<1>2. Top \in WaitCalls /\ StackOK(calls) /\ StackOK(Below)
  BY <1>1, SameLink, TopTyped DEF WaitPolls, WaitEnds
<1>3. [Top EXCEPT !.polls = @ + 1] \in CallRecords /\ ~Busy([Top EXCEPT !.polls = @ + 1])
  BY <1>2 DEF CallRecords, WaitCalls, Busy
<1>4. StackOK(calls')
  BY <1>2, <1>3, PollOK DEF WaitPolls, WaitEnds
<1> QED BY <1>1, <1>4, SameLink DEF StepOK

----------------------------------------------------------------------------
(* Handling a frame.                                                       *)

\* The frame at currentRx is there, and if no other is handled below, the call
\* that handles it may be left on the stack.
LEMMA HandlesOK ==
  ASSUME NetInv, NEW kind, kind # "none", Handles(kind), UNCHANGED linkVars
  PROVE  /\ ring[currentRx] \in WireFrames /\ ring[currentRx].kind = kind
         /\ StackOK(calls) /\ StackOK(Below) /\ Top \in ReceiveCalls
         /\ \A c \in ReceiveCalls : StackOK(<<c>> \o Below)
         /\ ~reentered' => RingInStep'
         /\ wire \subseteq WireFrames /\ (wire' \subseteq WireFrames => LinkTyped')
         /\ boot \in Nat \ {0}
<1>1. reentered => reentered'
  BY DEF Handles
<1>2. Top \in ReceiveCalls /\ calls # <<>> /\ StackOK(calls) /\ StackOK(Below)
  BY <1>1, SameLink, TopTyped DEF Handles
<1>3. ring[currentRx] \in WireFrames /\ ring[currentRx].kind = kind
  <2>1. ring[currentRx] \in WireFrames \cup {NoFrame}
    BY DEF NetInv, NetTyped, LinkTyped
  <2> QED BY <2>1, FrameKinds DEF Handles
<1>4. ring'[currentRx'] # NoFrame
  BY <1>3, FrameKinds DEF linkVars
<1>5. ASSUME NEW c \in ReceiveCalls PROVE StackOK(<<c>> \o Below)
  <2>1. c \in CallRecords /\ Below \in Seq(CallRecords) /\ <<c>> \o Below \in Seq(CallRecords)
    BY <1>2, StackTyped DEF CallRecords, StackOK
  <2>2. ASSUME ~reentered' PROVE \A j \in 1 .. Len(Below) : Below[j].op # "receive"
    <3>1. calls \in Seq(CallRecords) /\ Len(calls) \in Nat
      BY <1>2 DEF StackOK
    <3>2. \A i \in 2 .. Len(calls) : calls[i].op # "receive"
      BY <2>2 DEF Handles, Nested
    <3>3. \A j \in 1 .. Len(calls) - 1 : Below[j] = calls[j + 1]
      BY <1>2, <3>1, TailTyped DEF Below
    <3>4. Len(Below) = Len(calls) - 1
      BY <1>2, <3>1, TailTyped DEF Below
    <3> QED BY <3>1, <3>2, <3>3, <3>4
  <2>3. ASSUME ~reentered' PROVE HandledOnce(<<c>> \o Below, ring'[currentRx'])
    BY <1>2, <1>4, <2>1, <2>2, <2>3, PushKeeps DEF StackOK
  <2> QED BY <2>1, <2>3 DEF StackOK
<1> QED BY <1>1, <1>2, <1>3, <1>5, SameLink

\* The call that is left: its frame is the one in the ring.
LEMMA HandlingTyped ==
  ASSUME Top \in ReceiveCalls, NEW frame \in WireFrames
  PROVE  /\ Handling(frame) \in ReceiveCalls
         /\ frame.kind = "echo_request" => [Handling(frame) EXCEPT !.at = "answered"] \in ReceiveCalls
<1> DEFINE Others == [op : {"receive"}, at : {"loop", "handled"}, frame : WireFrames \cup {NoFrame}]
           Answering == [op : {"receive"}, at : {"answered"}, frame : Requests]
           All == [op : {"receive"}, at : {"loop", "handled", "answered"},
                   frame : WireFrames \cup {NoFrame}]
<1>1. Top \in All
  BY DEF ReceiveCalls, Requests
<1>2. Handling(frame) \in Others /\ Handling(frame).frame = frame
  BY <1>1 DEF Handling
<1>3. ASSUME NEW c \in Others, c.frame = frame, frame \in Requests
      PROVE  [c EXCEPT !.at = "answered"] \in Answering
  BY <1>3
<1>4. frame.kind = "echo_request" => frame \in Requests
  BY DEF Requests
<1> HIDE DEF Others, Answering
<1>5. frame.kind = "echo_request" => [Handling(frame) EXCEPT !.at = "answered"] \in Answering
  BY <1>2, <1>3, <1>4
<1> QED BY <1>2, <1>5 DEF ReceiveCalls, Others, Answering

LEMMA HandledOK ==
  ASSUME NetInv, NEW kind, kind # "none", Handles(kind), UNCHANGED linkVars, Handled
  PROVE  StackOK(calls')
<1>1. ring[currentRx] \in WireFrames /\ Top \in ReceiveCalls
      /\ \A c \in ReceiveCalls : StackOK(<<c>> \o Below)
  BY HandlesOK
<1>2. Handling(ring[currentRx]) \in ReceiveCalls
  BY <1>1, HandlingTyped
<1> QED BY <1>1, <1>2 DEF Handled

LEMMA RingEmptyStep ==
  ASSUME NetInv, RingEmpty
  PROVE  StepOK
<1>1. UNCHANGED linkVars /\ reentered' = reentered /\ boot' = boot /\ wire' = wire
      /\ UNCHANGED socketVars
  BY DEF RingEmpty
<1>2. StackOK(calls')
  BY <1>1, SameLink, TopTyped DEF RingEmpty
<1> QED BY <1>1, <1>2, SameLink DEF StepOK

LEMMA ARPStep ==
  ASSUME NetInv, HandleARPRequest \/ HandleARPReply
  PROVE  StepOK
<1>1. UNCHANGED linkVars /\ boot' = boot /\ UNCHANGED socketVars /\ Handled
  BY DEF HandleARPRequest, HandleARPReply
<1>2. CASE HandleARPRequest
  <2>1. Handles("arp_request")
    BY <1>2 DEF HandleARPRequest
  <2>2. /\ ring[currentRx] \in WireFrames /\ wire \subseteq WireFrames /\ boot \in Nat \ {0}
        /\ ~reentered' => RingInStep'
        /\ wire' \subseteq WireFrames => LinkTyped'
    BY <1>1, <2>1, HandlesOK
  <2>3. Packet("arp_reply", ring[currentRx].from, NoDomain) \in Packets
    <3>1. ring[currentRx].from \in Hosts
      BY <2>2, FrameKinds
    <3> QED BY <3>1 DEF Packet, Packets, Anybody, Subjects
  <2>4. wire' \subseteq WireFrames
    BY <1>2, <2>2, <2>3, TransmitTyped DEF HandleARPRequest
  <2>5. StackOK(calls')
    BY <1>1, <2>1, HandledOK
  <2> QED BY <1>1, <2>2, <2>4, <2>5 DEF StepOK
<1>3. CASE HandleARPReply
  <2>1. Handles("arp_reply") /\ wire' = wire
    BY <1>3 DEF HandleARPReply
  <2>2. LinkTyped' /\ boot \in Nat \ {0} /\ (~reentered' => RingInStep')
    BY <1>1, <2>1, HandlesOK
  <2>3. StackOK(calls')
    BY <1>1, <2>1, HandledOK
  <2> QED BY <1>1, <2>2, <2>3 DEF StepOK
<1> QED BY <1>2, <1>3

LEMMA EchoReplyStep ==
  ASSUME NetInv, HandleEchoReply
  PROVE  StepOK
<1>1. UNCHANGED linkVars /\ boot' = boot /\ wire' = wire /\ Handled /\ Handles("echo_reply")
      /\ ReceiveMessage(ring[currentRx])
  BY DEF HandleEchoReply
<1>2. ring[currentRx] \in WireFrames /\ ring[currentRx].kind = "echo_reply"
      /\ LinkTyped' /\ boot \in Nat \ {0} /\ (~reentered' => RingInStep')
  BY <1>1, HandlesOK
<1>3. SocketsNext
  <2>1. ring[currentRx] = Frame("echo_reply", ring[currentRx].from, 0, NoDomain)
        /\ ring[currentRx].from \in Hosts /\ "echo_reply" \in MessageKinds
    BY <1>2, FrameKinds DEF MessageKinds
  <2> QED BY <1>1, <2>1 DEF SocketsNext
<1>4. StackOK(calls')
  BY <1>1, HandledOK
<1> QED BY <1>1, <1>2, <1>3, <1>4 DEF StepOK

LEMMA EchoRequestStep ==
  ASSUME NetInv, HandleEchoRequest
  PROVE  StepOK
<1>1. UNCHANGED linkVars /\ boot' = boot /\ UNCHANGED socketVars /\ Handles("echo_request")
  BY DEF HandleEchoRequest
<1>2. /\ ring[currentRx] \in WireFrames /\ ring[currentRx].kind = "echo_request"
      /\ wire \subseteq WireFrames /\ (wire' \subseteq WireFrames => LinkTyped')
      /\ boot \in Nat \ {0} /\ (~reentered' => RingInStep')
      /\ StackOK(calls) /\ Top \in ReceiveCalls
      /\ \A c \in ReceiveCalls : StackOK(<<c>> \o Below)
  BY <1>1, HandlesOK
<1>3. Packet("echo_reply", ring[currentRx].from, NoDomain) \in Packets
  <2>1. ring[currentRx].from \in Hosts
    BY <1>2, FrameKinds
  <2> QED BY <2>1 DEF Packet, Packets, Subjects
<1> DEFINE c == [Handling(ring[currentRx]) EXCEPT !.at = "answered"]
<1>4. StackOK(<<c>> \o Below)
  <2>1. c \in ReceiveCalls
    BY <1>2, HandlingTyped
  <2> HIDE DEF c
  <2> QED BY <1>2, <2>1
<1>5. StackOK(calls') /\ wire' \subseteq WireFrames
  BY <1>2, <1>3, <1>4, SendPacketOK DEF HandleEchoRequest
<1> QED BY <1>1, <1>2, <1>5 DEF StepOK

LEMMA DeliverRequestStep ==
  ASSUME NetInv, DeliverRequest
  PROVE  StepOK
<1>1. UNCHANGED linkVars /\ boot' = boot /\ wire' = wire /\ reentered' = reentered
      /\ ReceiveMessage(Top.frame) /\ Running("receive") /\ Top.at = "answered"
      /\ calls' = <<[Top EXCEPT !.at = "handled"]>> \o Below
  BY DEF DeliverRequest
<1>2. Top \in ReceiveCalls /\ calls # <<>> /\ StackOK(calls) /\ StackOK(Below)
  BY <1>1, SameLink, TopTyped
<1>3. Top.frame \in Requests
  BY <1>1, <1>2 DEF ReceiveCalls
<1>4. SocketsNext
  <2>1. Top.frame = Frame("echo_request", Top.frame.from, 0, NoDomain)
        /\ Top.frame.from \in Hosts /\ "echo_request" \in MessageKinds
    BY <1>3, FrameKinds DEF MessageKinds, Requests
  <2> QED BY <1>1, <2>1 DEF SocketsNext
<1>5. StackOK(calls')
  <2> DEFINE d == [Top EXCEPT !.at = "handled"]
  <2>1. d \in CallRecords /\ Busy(d) /\ Busy(Top)
    BY <1>1, <1>2, <1>3 DEF CallRecords, ReceiveCalls, Busy, Requests
  <2>2. ASSUME ~reentered'
        PROVE  ring'[currentRx'] # NoFrame /\ \A j \in 1 .. Len(Below) : Below[j].op # "receive"
    <3>1. calls \in Seq(CallRecords) /\ Len(calls) \in Nat /\ Len(calls) > 0 /\ calls[1] = Top
      BY <1>2, TailTyped DEF StackOK, Top
    <3>2. HandledOnce(calls, ring'[currentRx'])
      BY <1>2, <2>2 DEF StackOK
    <3>3. ring'[currentRx'] # NoFrame /\ \A j \in 2 .. Len(calls) : calls[j].op # "receive"
      BY <2>1, <3>1, <3>2 DEF HandledOnce
    <3>4. /\ \A j \in 1 .. Len(calls) - 1 : Below[j] = calls[j + 1]
          /\ Len(Below) = Len(calls) - 1
      BY <1>2, <3>1, TailTyped DEF Below
    <3> QED BY <3>1, <3>3, <3>4
  <2> HIDE DEF d
  <2>3. Below \in Seq(CallRecords) /\ <<d>> \o Below \in Seq(CallRecords)
    BY <1>2, <2>1, StackTyped DEF StackOK
  <2>4. ASSUME ~reentered' PROVE HandledOnce(<<d>> \o Below, ring'[currentRx'])
    BY <1>2, <2>1, <2>2, <2>3, <2>4, PushKeeps DEF StackOK
  <2>5. StackOK(<<d>> \o Below)
    BY <2>3, <2>4 DEF StackOK
  <2> QED BY <1>1, <2>5 DEF d
<1> QED BY <1>1, <1>4, <1>5, SameLink DEF StepOK

LEMMA UDPStep ==
  ASSUME NetInv, HandleUDPPacket
  PROVE  StepOK
<1>1. UNCHANGED linkVars /\ boot' = boot /\ wire' = wire /\ Handled /\ Handles("udp")
      /\ ReceiveDatagram(ring[currentRx])
  BY DEF HandleUDPPacket
<1>2. ring[currentRx] \in WireFrames /\ ring[currentRx].kind = "udp"
      /\ LinkTyped' /\ boot \in Nat \ {0} /\ (~reentered' => RingInStep')
  BY <1>1, HandlesOK
<1>3. SocketsNext
  <2>1. PICK f \in WireFrames : f = ring[currentRx]
    BY <1>2
  <2>2. f = Frame("udp", f.from, f.to, f.about)
        /\ f.from \in Hosts /\ f.to \in Ports /\ f.about \in Subjects
    BY <1>2, <2>1, FrameKinds
  <2>3. ReceiveDatagram(Frame("udp", f.from, f.to, f.about))
    BY <1>1, <2>1, <2>2
  <2> QED BY <2>2, <2>3 DEF SocketsNext
<1>4. StackOK(calls')
  BY <1>1, HandledOK
<1> QED BY <1>1, <1>2, <1>3, <1>4 DEF StepOK

\* The frame is given back: the slot becomes the card's and the driver moves on.
LEMMA ReturnStep ==
  ASSUME NetInv, ReturnDescriptor
  PROVE  StepOK
<1>1. LinkTyped /\ boot \in Nat \ {0} /\ calls \in Seq(CallRecords)
  BY DEF NetInv, NetTyped
<1>2. /\ UNCHANGED socketVars /\ boot' = boot /\ wire' = wire /\ reentered' = reentered
      /\ cardRx' = cardRx /\ calls' = <<ReceiveCall>> \o Below
      /\ Running("receive") /\ Top.at = "handled"
  BY DEF ReturnDescriptor
<1>3. currentRx' = IF currentRx + 1 = RingSize THEN 0 ELSE currentRx + 1
  BY <1>1, NextSlot DEF ReturnDescriptor, NextRx, LinkTyped
<1>4. currentRx' \in Slots
  BY <1>1, <1>3, NetworkAssumption DEF LinkTyped, Slots
<1>5. ring' = [ring EXCEPT ![currentRx] = NoFrame]
  BY DEF ReturnDescriptor, Returned
<1>6. LinkTyped'
  BY <1>1, <1>2, <1>4, <1>5 DEF LinkTyped
<1>7. Top = calls[1] /\ Len(calls) \in Nat /\ Len(calls) > 0 /\ Top.op = "receive"
      /\ Below \in Seq(CallRecords) /\ Len(Below) = Len(calls) - 1
      /\ \A j \in 1 .. Len(calls) - 1 : Below[j] = calls[j + 1]
  BY <1>1, <1>2, TailTyped DEF Running, Top, Below
<1>8. ASSUME ~reentered'
      PROVE  ring[currentRx] # NoFrame /\ \A j \in 1 .. Len(Below) : Below[j].op # "receive"
  <2>1. HandledOnce(calls, ring[currentRx])
    BY <1>2, <1>8 DEF NetInv
  <2>2. Busy(calls[1])
    BY <1>2, <1>7 DEF Busy
  <2>3. ring[currentRx] # NoFrame /\ \A j \in 2 .. Len(calls) : calls[j].op # "receive"
    BY <1>7, <2>1, <2>2 DEF HandledOnce
  <2> QED BY <1>7, <2>3
<1>9. StackOK(calls')
  <2>1. StackOK(Below)
    BY <1>7, <1>8 DEF StackOK, HandledOnce, Busy
  <2> QED BY <1>2, <2>1, PushOK, ReceiveCallTyped
<1>10. ASSUME ~reentered' PROVE RingInStep'
  <2>1. \A i \in Slots : ring[i] # NoFrame <=> Between(i)
    BY <1>2, <1>10 DEF NetInv, RingInStep, Slots
  <2>2. ring[currentRx] # NoFrame
    BY <1>8, <1>10
  <2>3. \A i \in Slots : ring'[i] # NoFrame <=> i # currentRx /\ ring[i] # NoFrame
    BY <1>1, <1>5 DEF LinkTyped
  <2>4. currentRx \in Int /\ cardRx \in Int /\ RingSize \in Nat /\ currentRx' \in Int
        /\ currentRx \in 0 .. RingSize - 1 /\ cardRx \in 0 .. RingSize - 1
    BY <1>1, <1>4, NetworkAssumption DEF LinkTyped, Slots
  <2>5. ring'[cardRx] # NoFrame <=> cardRx # currentRx /\ ring[cardRx] # NoFrame
    BY <1>1, <2>3 DEF LinkTyped
  <2>6. cardRx # currentRx => ring[cardRx] = NoFrame
    <3>1. cardRx # currentRx => ~Between(cardRx)
      BY <2>4 DEF Between
    <3> QED BY <1>1, <2>1, <3>1 DEF LinkTyped
  <2>7. ring'[cardRx] = NoFrame
    BY <2>5, <2>6
  <2>8. ASSUME NEW i \in Slots PROVE ring'[i] # NoFrame <=> Between(i)'
    <3>1. i \in Int /\ i \in 0 .. RingSize - 1
      BY DEF Slots
    <3>2. Between(i) <=> IF currentRx < cardRx THEN currentRx <= i /\ i < cardRx
                         ELSE IF currentRx > cardRx THEN i < cardRx \/ currentRx <= i
                         ELSE TRUE
      BY <2>2, <2>4, <3>1 DEF Between
    <3>3. Between(i)' <=> IF currentRx' < cardRx THEN currentRx' <= i /\ i < cardRx
                          ELSE IF currentRx' > cardRx THEN i < cardRx \/ currentRx' <= i
                          ELSE FALSE
      <4>1. CASE currentRx' = cardRx
        BY <1>2, <2>4, <2>7, <4>1 DEF Between
      <4>2. CASE currentRx' < cardRx
        BY <1>2, <2>4, <3>1, <4>2 DEF Between
      <4>3. CASE currentRx' > cardRx
        <5>1. cardRx' = cardRx /\ ~(currentRx' < cardRx) /\ currentRx' # cardRx
          BY <1>2, <2>4, <4>3
        <5>2. Between(i)' <=> i \notin cardRx .. currentRx' - 1
          BY <4>3, <5>1 DEF Between
        <5>3. i \notin cardRx .. currentRx' - 1 <=> i < cardRx \/ currentRx' <= i
          <6>1. i \in Int /\ cardRx \in Int /\ currentRx' \in Int
            BY <2>4, <3>1
          <6> QED BY ONLY <6>1, OutsideRange
        <5>4. Between(i)' <=> i < cardRx \/ currentRx' <= i
          BY ONLY <5>2, <5>3
        <5> QED BY <4>3, <5>1, <5>4
      <4> QED BY <2>4, <4>1, <4>2, <4>3
    <3>4. ring'[i] # NoFrame <=> i # currentRx /\ Between(i)
      BY <2>1, <2>3
    <3> QED BY <1>3, <2>4, <3>1, <3>2, <3>3, <3>4
  <2> QED BY <2>8 DEF RingInStep, Slots
<1> QED BY <1>1, <1>2, <1>6, <1>9, <1>10 DEF StepOK

----------------------------------------------------------------------------
(* The calls at boot, and those of the running system.                     *)

LEMMA TargetTyped ==
  ASSUME NetInv, NEW name, BootCall(name)
  PROVE  /\ name = "arp" => Target \in Anybody
         /\ name = "ping" => Target \in Hosts
         /\ name = "dns" => Target \in Domains
         /\ boot' \in Nat \ {0}
<1>1. boot \in Nat \ {0} /\ boot <= Len(BootCalls) /\ boot' = boot + 1
  BY DEF NetInv, NetTyped, BootCall, Booting
<1> DEFINE C == [call : {"arp"}, target : Hosts \cup {Self}]
                  \cup [call : {"ping"}, target : Hosts]
                  \cup [call : {"dns"}, target : Domains]
<1>2. BootCalls \in Seq(C)
  BY NetworkAssumption
<1>3. BootCalls[boot] \in C
  <2> HIDE DEF C
  <2> QED BY <1>1, <1>2
<1>4. BootCalls[boot].call = name
  BY DEF BootCall
<1> QED BY <1>1, <1>3, <1>4 DEF Target, Anybody

LEMMA WaitCallTyped == \A w \in {"ping", "dns"} : WaitCall(w) \in CallRecords /\ ~Busy(WaitCall(w))
BY DEF WaitCall, CallRecords, WaitCalls, Busy

LEMMA EmptyOK == StackOK(<<>>)
BY DEF StackOK, HandledOnce

LEMMA BootStep ==
  ASSUME NetInv, BootResolve \/ Ping \/ ResolveDomain
  PROVE  StepOK
<1>1. UNCHANGED linkVars /\ reentered' = reentered
  BY DEF BootResolve, Ping, ResolveDomain
<1>2. StackOK(calls) /\ wire \subseteq WireFrames
  BY <1>1, SameLink
<1>3. \A w \in {"ping", "dns"} : StackOK(<<WaitCall(w)>>)
  <2>1. \A w \in {"ping", "dns"} : <<WaitCall(w)>> = <<WaitCall(w)>> \o <<>>
    OBVIOUS
  <2> QED BY <2>1, EmptyOK, WaitCallTyped, PushOK
<1>4. CASE BootResolve
  <2>1. Target \in Anybody /\ boot' \in Nat \ {0}
    BY <1>4, TargetTyped DEF BootResolve
  <2>2. Packet("none", Target, NoDomain) \in Packets
    BY <2>1 DEF Packet, Packets, Subjects
  <2>3. StackOK(calls')
    BY <1>2, <1>4, <2>1, <2>2, EmptyOK, ResolveCallTyped, CallsOK DEF BootResolve
  <2>4. UNCHANGED socketVars /\ wire' = wire
    BY <1>4 DEF BootResolve
  <2> QED BY <1>1, <2>1, <2>3, <2>4, SameLink DEF StepOK
<1>5. CASE Ping
  <2>1. Target \in Hosts /\ boot' \in Nat \ {0}
    BY <1>5, TargetTyped DEF Ping
  <2>2. Packet("echo_request", Target, NoDomain) \in Packets
    BY <2>1 DEF Packet, Packets, Subjects
  <2>3. SendPacket(Packet("echo_request", Target, NoDomain), <<WaitCall("ping")>>)
        /\ UNCHANGED socketVars
    BY <1>5 DEF Ping
  <2>4. StackOK(calls') /\ wire' \subseteq WireFrames
    BY <1>2, <1>3, <2>2, <2>3, SendPacketOK
  <2> QED BY <1>1, <2>1, <2>3, <2>4, SameLink DEF StepOK
<1>6. CASE ResolveDomain
  <2>1. Target \in Domains /\ boot' \in Nat \ {0}
    BY <1>6, TargetTyped DEF ResolveDomain
  <2>2. Packet("query", DnsServer, Target) \in Packets
    BY <2>1, NetworkAssumption DEF Packet, Packets, Subjects
  <2>3. CASE dnsCache[Target] # NoDomain
    BY <1>1, <1>2, <1>6, <2>1, <2>3, SameLink DEF ResolveDomain, StepOK
  <2>4. CASE dnsCache[Target] = NoDomain
    <3>1. SendPacket(Packet("query", DnsServer, Target), <<WaitCall("dns")>>)
      BY <1>6, <2>4 DEF ResolveDomain
    <3>2. StackOK(calls') /\ wire' \subseteq WireFrames
      BY <1>2, <1>3, <2>2, <3>1, SendPacketOK
    <3>3. DnsPort \in Ports
      BY NetworkAssumption, SocketsAssumption DEF Ports
    <3>4. [SocketsNext]_socketVars
      BY <1>6, <2>4, <3>3 DEF ResolveDomain, SocketsNext
    <3> QED BY <1>1, <2>1, <3>2, <3>4, SameLink DEF StepOK
  <2> QED BY <2>3, <2>4
<1> QED BY <1>4, <1>5, <1>6

LEMMA PollTickStep ==
  ASSUME NetInv, PollTick
  PROVE  StepOK
<1>1. UNCHANGED linkVars /\ reentered' = reentered /\ boot' = boot /\ wire' = wire
      /\ UNCHANGED socketVars /\ Calls(ReceiveCall, <<>>)
  BY DEF PollTick
<1>2. StackOK(calls')
  BY <1>1, SameLink, EmptyOK, ReceiveCallTyped, CallsOK
<1> QED BY <1>1, <1>2, SameLink DEF StepOK

LEMMA SocketCallStep ==
  ASSUME NetInv, SocketCall
  PROVE  StepOK
<1>1. UNCHANGED linkVars /\ reentered' = reentered /\ boot' = boot /\ wire' = wire
      /\ calls' = calls
  BY DEF SocketCall, netVars, linkVars
<1>2. SocketsNext
  BY DEF SocketCall, SocketsNext
<1> QED BY <1>1, <1>2, SameLink DEF StepOK

LEMMA SendtoStep ==
  ASSUME NetInv, NEW s \in Descriptors, NEW h \in Hosts \cup {NoHost}, HandleSendto(s, h)
  PROVE  StepOK
<1>1. UNCHANGED linkVars /\ reentered' = reentered /\ boot' = boot
  BY DEF HandleSendto
<1>2. StackOK(calls) /\ wire \subseteq WireFrames
  BY <1>1, SameLink
<1>3. PICK sends \in BOOLEAN :
        /\ SendFrom(s, h, sends)
        /\ IF sends THEN SendPacket(UserPacket(s, h), <<>>)
           ELSE UNCHANGED <<calls, halted, txBusy, wire>>
  BY DEF HandleSendto
<1>4. SocketsNext
  BY <1>3 DEF SocketsNext
<1>5. Destination(s, h) \in Hosts
  <2>1. sock[s].remote \in Hosts \cup {NoHost}
    BY DEF NetInv, SocketsInv, TypeInv, SocketRecords
  <2>2. Destination(s, h) # NoHost
    BY <1>3 DEF SendFrom
  <2> QED BY <2>1, <2>2 DEF Destination
<1>6. UserPacket(s, h) \in Packets
  BY <1>5 DEF UserPacket, Packet, Packets, Subjects
<1>7. StackOK(calls') /\ wire' \subseteq WireFrames
  <2>1. CASE sends
    BY <1>2, <1>3, <1>6, <2>1, EmptyOK, SendPacketOK
  <2>2. CASE ~sends
    BY <1>2, <1>3, <2>2
  <2> QED BY <2>1, <2>2
<1> QED BY <1>1, <1>4, <1>7, SameLink DEF StepOK

----------------------------------------------------------------------------
(* The theorems.                                                           *)

LEMMA NetNext ==
  ASSUME NetInv, [Next]_vars
  PROVE  NetInv' /\ [SocketsNext]_socketVars
<1>1. CASE UNCHANGED vars
  <2>1. UNCHANGED linkVars /\ reentered' = reentered /\ boot' = boot /\ wire' = wire
        /\ calls' = calls /\ UNCHANGED socketVars
    BY <1>1 DEF vars, netVars, linkVars
  <2>2. StepOK
    BY <2>1, SameLink DEF StepOK
  <2> QED BY <2>2, StepKeepsInv DEF StepOK
<1>2. CASE \E f \in wire : Arrive(f)
  BY <1>2, ArriveStep, StepKeepsInv DEF StepOK
<1>3. CASE Transmitted
  BY <1>3, TransmittedStep, StepKeepsInv DEF StepOK
<1>4. CASE InCall
  <2>1. StepOK
    BY <1>4, ARPStep, EchoReplyStep, EchoRequestStep, DeliverRequestStep, UDPStep, ReturnStep,
       RingEmptyStep, RequestStep, PollStep, CheckCacheStep, WaitStep DEF InCall, Receive
  <2> QED BY <2>1, StepKeepsInv DEF StepOK
<1>5. CASE BootResolve \/ Ping \/ ResolveDomain
  BY <1>5, BootStep, StepKeepsInv DEF StepOK
<1>6. CASE PollTick
  BY <1>6, PollTickStep, StepKeepsInv DEF StepOK
<1>7. CASE SocketCall
  BY <1>7, SocketCallStep, StepKeepsInv DEF StepOK
<1>8. CASE \E s \in Descriptors, h \in Hosts \cup {NoHost} : HandleSendto(s, h)
  BY <1>8, SendtoStep, StepKeepsInv DEF StepOK
<1>9. CASE Overflowed
  BY <1>1, <1>9 DEF Overflowed
<1> QED BY <1>1, <1>2, <1>3, <1>4, <1>5, <1>6, <1>7, <1>8, <1>9 DEF Next

\* The inductive invariant of the stack: types, the sockets' invariant, the ring in
\* step, and one receive call that handles the frame at currentRx_.
THEOREM NetInvTheorem == Spec => []NetInv
<1>1. NetInv /\ [Next]_vars => NetInv'
  BY NetNext
<1> QED BY <1>1, NetInitInv, PTL DEF Spec

\* The driver stays in step with the card until a frame is handled inside another.
THEOREM RxTheorem == Spec => []RxInStep
<1>1. NetInv => RxInStep
  BY DEF NetInv, RxInStep, RingInStep
<1> QED BY <1>1, NetInvTheorem, PTL

\* The whole stack uses the sockets as Sockets says they are used: every step of the
\* network is a step of SocketsSpec or leaves the sockets alone.
THEOREM RefinementTheorem == Spec => SocketsSpec
<1>1. Init => SocketsInit
  BY DEF Init
<1>2. NetInv /\ [Next]_vars => [SocketsNext]_socketVars
  BY NetNext
<1> QED BY <1>1, <1>2, NetInvTheorem, PTL DEF Spec, SocketsSpec

\* So in the whole stack the port table, the registries and the sockets agree.
THEOREM NetworkAgrees == Spec => []TablesAgree
BY RefinementTheorem, AgreeTheorem, PTL
=============================================================================
