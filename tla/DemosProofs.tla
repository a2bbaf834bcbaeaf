---------------------------- MODULE DemosProofs ----------------------------
(***************************************************************************)
(* The demonstrations for every address width, driver spec, number of      *)
(* operations, frame length, payload length and buffer size.               *)
(*                                                                         *)
(* Drivers, frames and zeroing have an invariant each; the phases of       *)
(* kernel_main never run two of them at once.                              *)
(***************************************************************************)
EXTENDS Demos, Integers, TLAPS

(***************************************************************************)
(* Drivers.  While a loop runs every answer so far was Ok, so that the     *)
(* counter is the length of the trace; a loop left by break has one answer *)
(* more than operations done.                                              *)
(***************************************************************************)
Results == {"Ok", "FaultMmio", "FaultIrq", "FaultSyscall", "Stopped"}

ZtdfTypeOK ==
    /\ mmio \in Seq(Regions)
    /\ driver \in Drivers
    /\ ops_done \in Nat
    /\ loop \in {"idle", "running", "broken", "over", "panic"}
    /\ trace \in Seq([op : Ops, result : Results])

\* An answer agrees with the spec read as sets, and a refusal names the kind of
\* operation refused.
Justified(d, op, r) ==
    /\ r = "Ok" => InSpec(d, op)
    /\ r \notin {"Ok", "Stopped"} => ~InSpec(d, op) \/ ReachesTop
    /\ r # "Ok" => /\ IsMmio(op) <=> r = "FaultMmio"
                   /\ op[1] = "Syscall" <=> r = "FaultSyscall"
                   /\ op[1] = "Exit" <=> r = "Stopped"

Loaded == <<"DriverLoaded", driver, 0, 0>>

Verdict(t, n) ==
    IF t.result = "Stopped" THEN <<"DriverStopped", driver, n, 0>>
                            ELSE <<Event[t.result], driver, t.op[2], n>>

ZtdfInv ==
    /\ ZtdfTypeOK
    /\ \A n \in 1 .. Len(trace) : Justified(driver, trace[n].op, trace[n].result)
    /\ loop = "idle" => trace = <<>>
    /\ loop \in {"running", "over", "panic"} =>
         /\ \A n \in 1 .. Len(trace) : trace[n].result = "Ok"
         /\ ops_done = Len(trace)
         /\ logged = <<Loaded>>
    /\ loop = "broken" =>
         /\ Len(trace) = ops_done + 1
         /\ \A n \in 1 .. ops_done : trace[n].result = "Ok"
         /\ trace[ops_done + 1].result # "Ok"
         /\ logged = IF trace[ops_done + 1].result \in Logs[driver]
                     THEN Append(<<Loaded>>, Verdict(trace[ops_done + 1], ops_done))
                     ELSE <<Loaded>>

\* Every operation gets an answer.
LEMMA AnswerType == ASSUME NEW d \in Drivers, NEW op \in Ops PROVE Answer(d, op) \in Results
BY DEF Ops, Answer, IsMmio, Results

\* contains, with a sum that may wrap, never answers yes where the region read
\* as a set of addresses does not contain the address, and is exact for a region
\* that ends below the top.
LEMMA ContainsExact ==
    ASSUME NEW r \in Regions, NEW a \in Addresses
    PROVE  /\ Contains(r, a) => a >= r.start /\ a < r.start + r.len
           /\ a >= r.start /\ a < r.start + r.len => Contains(r, a) \/ Overflows(r)
<1>1. r.start \in Nat /\ r.len \in Nat /\ a \in Nat
  BY AddrSpaceAssumption DEF Regions, Addresses
<1> DEFINE x == r.start + r.len
<1>2. x \in Nat
  BY <1>1
<1>3. x % AddrSpace <= x /\ x % AddrSpace \in Nat /\ (x < AddrSpace => x % AddrSpace = x)
  <2> HIDE DEF x
  <2> QED BY <1>2, AddrSpaceAssumption
<1> QED BY <1>1, <1>2, <1>3, AddrSpaceAssumption DEF Contains, Overflows

\* The kinds of operation, and what each is answered by and compared with.
LEMMA OpKinds ==
    ASSUME NEW d \in Drivers, NEW op \in Ops
    PROVE  /\ op[1] \in {"MmioRead", "MmioWrite", "HandleIrq", "Syscall", "Exit"}
           /\ IsMmio(op) => op[2] \in Addresses
BY DEF Ops, IsMmio

LEMMA MmioAnswer ==
    ASSUME NEW d \in Drivers, NEW op \in Ops, IsMmio(op)
    PROVE  /\ Answer(d, op) = IF MmioAllowed(op[2]) THEN "Ok" ELSE "FaultMmio"
           /\ InSpec(d, op) = \E i \in DOMAIN mmio :
                op[2] >= mmio[i].start /\ op[2] < mmio[i].start + mmio[i].len
<1>1. op[1] # "HandleIrq" /\ op[1] # "Syscall" /\ op[1] # "Exit"
  BY DEF IsMmio
<1> DEFINE Covers(i) == op[2] >= mmio[i].start /\ op[2] < mmio[i].start + mmio[i].len
<1>2. Answer(d, op) = IF MmioAllowed(op[2]) THEN "Ok" ELSE "FaultMmio"
  BY <1>1 DEF Answer
<1>3. InSpec(d, op) = \E i \in DOMAIN mmio : Covers(i)
  <2> HIDE DEF Covers
  <2>1. InSpec(d, op) = CASE IsMmio(op) -> \E i \in DOMAIN mmio : Covers(i)
                          [] op[1] = "HandleIrq" -> op[2] \in SpecOf[d].irqs
                          [] op[1] = "Syscall"   -> op[2] \in SpecOf[d].syscalls
                          [] op[1] = "Exit"      -> TRUE
    BY DEF InSpec, Covers
  <2> QED BY <1>1, <2>1
<1> QED BY <1>2, <1>3

\* What step answers is justified by the spec of the driver.
LEMMA AnswerJustified ==
    ASSUME ZtdfTypeOK, NEW d \in Drivers, NEW op \in Ops
    PROVE  Justified(d, op, Answer(d, op))
<1>1. CASE IsMmio(op)
  <2>1. op[2] \in Addresses
    BY <1>1, OpKinds
  <2>2. \A i \in DOMAIN mmio : mmio[i] \in Regions
    BY DEF ZtdfTypeOK
  <2>3. MmioAllowed(op[2]) => InSpec(d, op)
    BY <1>1, <2>1, <2>2, ContainsExact, MmioAnswer DEF MmioAllowed
  <2>4. ~MmioAllowed(op[2]) => ~InSpec(d, op) \/ ReachesTop
    BY <1>1, <2>1, <2>2, ContainsExact, MmioAnswer DEF MmioAllowed, ReachesTop
  <2> QED BY <1>1, <2>3, <2>4, MmioAnswer DEF Justified, IsMmio
<1>2. CASE op[1] = "HandleIrq"
  BY <1>2 DEF Answer, Justified, InSpec, IsMmio
<1>3. CASE op[1] = "Syscall"
  BY <1>3 DEF Answer, Justified, InSpec, IsMmio
<1>4. CASE op[1] = "Exit"
  BY <1>4 DEF Answer, Justified, InSpec, IsMmio
<1> QED BY <1>1, <1>2, <1>3, <1>4, OpKinds DEF IsMmio

LEMMA ZtdfInitial == ZtdfInit => ZtdfInv
<1> SUFFICES ASSUME ZtdfInit PROVE ZtdfInv
  OBVIOUS
<1>1. mmio \in Seq(Regions)
  BY DEF ZtdfInit
<1>2. <<>> \in Seq([op : Ops, result : Results]) /\ Len(<<>>) = 0
  OBVIOUS
<1> QED BY <1>1, <1>2 DEF ZtdfInit, ZtdfInv, ZtdfTypeOK, Drivers

\* A driver is loaded: nothing attempted yet.
LEMMA LoadInv == ASSUME ZtdfInv, NEW d \in Drivers, Load(d) PROVE ZtdfInv'
<1>1. <<>> \in Seq([op : Ops, result : Results]) /\ Len(<<>>) = 0
  OBVIOUS
<1>2. mmio' \in Seq(Regions)
  BY MmioAssumption DEF Load
<1>3. ZtdfTypeOK'
  BY <1>1, <1>2 DEF ZtdfInv, ZtdfTypeOK, Load
<1> QED BY <1>1, <1>3 DEF ZtdfInv, Load, Loaded

LEMMA UnloadInv == ASSUME ZtdfInv, Unload PROVE ZtdfInv'
<1>1. <<>> \in Seq([op : Ops, result : Results]) /\ Len(<<>>) = 0
  OBVIOUS
<1>2. ZtdfTypeOK'
  <2>1. <<>> \in Seq(Regions)
    OBVIOUS
  <2> QED BY <1>1, <2>1 DEF ZtdfInv, ZtdfTypeOK, Unload
<1> QED BY <1>1, <1>2 DEF ZtdfInv, Unload

LEMMA LoopOverInv == ASSUME ZtdfInv, NEW op \in Ops, LoopOver \/ AttemptPanics(op) PROVE ZtdfInv'
<1>1. /\ loop = "running" /\ loop' \in {"over", "panic"}
      /\ UNCHANGED <<overflow_checks, mmio, driver, ops_done, logged, trace>>
  BY DEF LoopOver, AttemptPanics
<1>2. ZtdfTypeOK'
  BY <1>1 DEF ZtdfInv, ZtdfTypeOK
<1>3. \A n \in 1 .. Len(trace') : Justified(driver, trace[n].op, trace[n].result)'
  BY <1>1 DEF ZtdfInv, Justified, InSpec, ReachesTop
<1> QED BY <1>1, <1>2, <1>3 DEF ZtdfInv, Loaded

\* One round of a loop.
LEMMA AttemptInv == ASSUME ZtdfInv, NEW op \in Ops, Attempt(op) PROVE ZtdfInv'
<1> DEFINE r == Answer(driver, op)
           n == Len(trace)
           t == [op |-> op, result |-> r]
<1>0. /\ driver \in Drivers /\ mmio' = mmio /\ driver' = driver /\ loop = "running"
      /\ trace' = Append(trace, t) /\ n \in Nat /\ ops_done = n
      /\ trace \in Seq([op : Ops, result : Results])
      /\ \A k \in 1 .. n : trace[k].result = "Ok"
      /\ \A k \in 1 .. n : Justified(driver, trace[k].op, trace[k].result)
      /\ logged = <<Loaded>> /\ Loaded' = Loaded
  BY DEF ZtdfInv, ZtdfTypeOK, Attempt, Loaded
<1>1. r \in Results /\ Justified(driver, op, r)
  BY <1>0, AnswerType, AnswerJustified DEF ZtdfInv
<1>2. ops_done' = Counted(r) /\ loop' = (IF r = "Ok" THEN "running" ELSE "broken")
  BY DEF Attempt
<1>3. logged' = IF r \in Logs[driver] THEN Append(logged, Entry(driver, op, r)) ELSE logged
  BY DEF Attempt
<1>4. t \in [op : Ops, result : Results] /\ t.op = op /\ t.result = r
  BY <1>1
<1> HIDE DEF r, t
<1>5. /\ trace' \in Seq([op : Ops, result : Results]) /\ Len(trace') = n + 1
      /\ trace'[n + 1] = t /\ \A k \in 1 .. n : trace'[k] = trace[k]
  BY <1>0, <1>4
<1>6. \A k \in 1 .. n + 1 : k \in 1 .. n \/ k = n + 1
  BY <1>0
<1>7. \A k \in 1 .. n + 1 : Justified(driver, trace'[k].op, trace'[k].result)
  BY <1>0, <1>1, <1>4, <1>5, <1>6
<1>8. \A k \in 1 .. Len(trace') : Justified(driver, trace[k].op, trace[k].result)'
  BY <1>0, <1>5, <1>7 DEF Justified, InSpec, ReachesTop
<1>9. CASE r = "Ok"
  <2>1. loop' = "running" /\ ops_done' = n + 1
    BY <1>9, <1>0, <1>2 DEF Counted
  <2>2. logged' = <<Loaded>>
    BY <1>9, <1>0, <1>3 DEF Logs, UartLogs, MalLogs, EscLogs, NicLogs, Drivers
  <2>3. \A k \in 1 .. n + 1 : trace'[k].result = "Ok"
    BY <1>9, <1>0, <1>4, <1>5, <1>6
  <2>4. ZtdfTypeOK'
    BY <2>1, <1>0, <1>5 DEF ZtdfInv, ZtdfTypeOK
  <2> QED BY <2>1, <2>2, <2>3, <2>4, <1>0, <1>5, <1>8 DEF ZtdfInv
<1>10. CASE r # "Ok"
  <2>1. loop' = "broken" /\ ops_done' = n
    BY <1>10, <1>0, <1>2 DEF Counted
  <2>2. r \in Logs[driver] => Entry(driver, op, r) = Verdict(t, n)
    <3>1. Counted(r) = n
      BY <1>0, <1>10 DEF Counted
    <3>2. Event["Stopped"] = "DriverStopped"
      BY DEF Event
    <3> QED BY <3>1, <3>2, <1>4 DEF Entry, Verdict
  <2>3. logged' = IF r \in Logs[driver] THEN Append(<<Loaded>>, Verdict(t, n)) ELSE <<Loaded>>
    BY <2>2, <1>0, <1>3
  <2>4. ZtdfTypeOK'
    BY <2>1, <1>0, <1>5 DEF ZtdfInv, ZtdfTypeOK
  <2>5. Verdict(trace[ops_done + 1], ops_done)' = Verdict(t, n)
    BY <2>1, <1>0, <1>5 DEF Verdict
  <2> QED BY <2>1, <2>3, <2>4, <2>5, <1>0, <1>4, <1>5, <1>8, <1>10 DEF ZtdfInv
<1> QED BY <1>9, <1>10

\* Both properties of a driver follow.
LEMMA ZtdfProperties == ZtdfInv => DriverBounded /\ AuditTruthful
<1> SUFFICES ASSUME ZtdfInv PROVE DriverBounded /\ AuditTruthful
  OBVIOUS
<1> DEFINE n == Len(trace)
<1>0. n \in Nat /\ ops_done \in Nat
  BY DEF ZtdfInv, ZtdfTypeOK
<1>1. DriverBounded
  BY <1>0 DEF ZtdfInv, ZtdfTypeOK, Justified, DriverBounded
<1>2. \A x, y : /\ Len(<<x>>) = 1 /\ <<x>>[1] = x
                /\ Len(Append(<<x>>, y)) = 2
                /\ Append(<<x>>, y)[1] = x /\ Append(<<x>>, y)[2] = y
  <2> SUFFICES ASSUME NEW x, NEW y
               PROVE  /\ Len(<<x>>) = 1 /\ <<x>>[1] = x
                      /\ Len(Append(<<x>>, y)) = 2
                      /\ Append(<<x>>, y)[1] = x /\ Append(<<x>>, y)[2] = y
    OBVIOUS
  <2>1. <<x>> \in Seq({x, y}) /\ y \in {x, y}
    OBVIOUS
  <2> QED BY <2>1
<1>3. CASE loop \in {"running", "over", "panic"}
  <2>1. logged = <<Loaded>>
    BY <1>3 DEF ZtdfInv
  <2> QED BY <1>1, <1>2, <1>3, <2>1 DEF AuditTruthful, Loaded
<1>4. CASE loop = "broken"
  <2> DEFINE o == Last.op
             r == Last.result
  <2>1. /\ n = ops_done + 1 /\ Last = trace[ops_done + 1] /\ r # "Ok" /\ driver \in Drivers
        /\ logged = IF r \in Logs[driver]
                    THEN Append(<<Loaded>>, Verdict(Last, ops_done)) ELSE <<Loaded>>
        /\ Justified(driver, o, r)
    BY <1>0, <1>4 DEF ZtdfInv, ZtdfTypeOK, Last
  <2>2. /\ IsMmio(o) <=> r = "FaultMmio"
        /\ o[1] = "Syscall" <=> r = "FaultSyscall"
        /\ o[1] = "Exit" <=> r = "Stopped"
    BY <2>1 DEF Justified
  <2>3. Verdict(Last, ops_done) = IF r = "Stopped" THEN <<"DriverStopped", driver, ops_done, 0>>
                                  ELSE <<Event[r], driver, o[2], ops_done>>
    BY DEF Verdict
  <2>4. Account = CASE o[1] = "Exit"    -> <<"DriverStopped", driver, ops_done, 0>>
                    [] o[1] = "Syscall" -> <<"DriverFaultSyscall", driver, o[2], ops_done>>
                    [] IsMmio(o)        -> <<"DriverFaultMmio", driver, o[2], ops_done>>
    <3>1. n - 1 = ops_done
      BY <1>0, <2>1
    <3> QED BY <3>1 DEF Account
  <2> HIDE DEF o, r
  <2>5. CASE r \in Logs[driver]
    <3>1. r \in {"Stopped", "FaultMmio", "FaultSyscall"}
      BY <2>1, <2>5 DEF Logs, UartLogs, MalLogs, EscLogs, NicLogs, Drivers
    <3>2. Account = Verdict(Last, ops_done)
      <4>1. CASE r = "Stopped"
        BY <2>2, <2>3, <2>4, <4>1 DEF IsMmio
      <4>2. CASE r = "FaultMmio"
        BY <2>2, <2>3, <2>4, <4>2 DEF Event, IsMmio
      <4>3. CASE r = "FaultSyscall"
        BY <2>2, <2>3, <2>4, <4>3 DEF Event, IsMmio
      <4> QED BY <3>1, <4>1, <4>2, <4>3
    <3>3. logged[1] = Loaded /\ Len(logged) = 2 /\ logged[2] = Account
      BY <1>2, <2>1, <2>5, <3>2
    <3> QED BY <1>1, <1>4, <3>3 DEF AuditTruthful, Loaded
  <2>6. CASE r \notin Logs[driver]
    <3>1. logged[1] = Loaded /\ Len(logged) = 1
      BY <1>2, <2>1, <2>6
    <3>2. ~ \/ driver = "mal" /\ r = "FaultMmio"
            \/ driver = "esc" /\ r = "FaultSyscall"
            \/ driver = "uart" /\ r = "Stopped"
      BY <2>6 DEF Logs, UartLogs, MalLogs, EscLogs
    <3> QED BY <1>1, <1>4, <2>2, <3>1, <3>2 DEF AuditTruthful, Loaded, o
  <2> QED BY <2>5, <2>6
<1> QED BY <1>1, <1>3, <1>4 DEF AuditTruthful, ZtdfInv, ZtdfTypeOK

(***************************************************************************)
(* Frames.  process_frame's result is always that of the frame at hand,    *)
(* and a frame that was sent is still the frame at hand.                   *)
(***************************************************************************)
AnyFrame == [len : Nat, ethertype : EtherTypes, ihl : Nat, protocol : IpProtos]

Built(n) == [len |-> 42 + n, ethertype |-> "IPv4", ihl |-> 5, protocol |-> "UDP"]

NetInv ==
    /\ frame \in AnyFrame
    /\ result = ProcessFrame(frame)
    /\ sent.built =>
         /\ sent.payload \in Nat /\ frame = Built(sent.payload)
         /\ sent.total_len = LengthFields(sent.payload).total_len
         /\ sent.udp_len = LengthFields(sent.payload).udp_len

LEMMA NetInitial == NetInit => NetInv
BY DEF NetInit, NetInv, NoFrame, NoSent, AnyFrame, EtherTypes, IpProtos

LEMMA ReceiveInv == ASSUME NetInv, ~sent.built, NEW f \in Frames, Receive(f) PROVE NetInv'
<1>1. f \in AnyFrame
  <2>1. FrameLens \subseteq Nat /\ 0 .. 15 \subseteq Nat
    BY NetAssumption
  <2> QED BY <2>1, Zenon DEF Frames, AnyFrame
<1> QED BY <1>1 DEF NetInv, Receive

LEMMA PrintedInv ==
    ASSUME NetInv, ~sent.built,
           frame' = NoFrame, result' = ProcessFrame(NoFrame), sent' = sent
    PROVE  NetInv'
<1>1. NoFrame \in AnyFrame
  BY DEF NoFrame, AnyFrame, EtherTypes, IpProtos
<1> QED BY <1>1 DEF NetInv

LEMMA TransmitInv == ASSUME NEW n \in PayloadLens, Transmit(n) PROVE NetInv'
<1>1. n \in Nat
  BY NetAssumption
<1>2. Built(n) \in AnyFrame
  BY <1>1 DEF Built, AnyFrame, EtherTypes, IpProtos
<1>3. frame' = Built(n) /\ result' = ProcessFrame(Built(n))
  BY <1>1 DEF Transmit, Built
<1>4. /\ sent'.payload = n /\ sent'.total_len = LengthFields(n).total_len
      /\ sent'.udp_len = LengthFields(n).udp_len
  BY DEF Transmit
<1> QED BY <1>1, <1>2, <1>3, <1>4 DEF NetInv

Slice(i, j) == [from |-> i, to |-> j]

\* Where the transport header of a frame starts.
Transport(f) == 14 + 4 * f.ihl

\* What the parsers make of a frame, by how far they get.
LEMMA ParseShapes ==
    ASSUME NEW f \in AnyFrame
    PROVE  \/ /\ f.len < 14
              /\ ProcessFrame(f) = Parsed("InvalidFrame", <<>>, Slice(0, f.len))
           \/ /\ f.len >= 14
              /\ f.ethertype # "IPv4" \/ f.len < 34 \/ f.len < Transport(f)
              /\ \E is : /\ is # "UdpDatagram"
                         /\ ProcessFrame(f) = Parsed(is, <<Slice(0, 14)>>, Slice(14, f.len))
           \/ /\ f.len >= 34 /\ f.len >= Transport(f)
              /\ f.protocol # "UDP" \/ f.len < Transport(f) + 8
              /\ \E is : /\ is # "UdpDatagram"
                         /\ ProcessFrame(f) = Parsed(is, <<Slice(0, 14), Slice(14, 34)>>,
                                                    Slice(Transport(f), f.len))
           \/ /\ f.len >= 34 /\ f.len >= Transport(f) + 8
              /\ f.ethertype = "IPv4" /\ f.protocol = "UDP"
              /\ ProcessFrame(f) = Parsed("UdpDatagram",
                     Append(<<Slice(0, 14), Slice(14, 34)>>,
                            Slice(Transport(f), Transport(f) + 8)),
                     Slice(Transport(f) + 8, f.len))
<1>0. f.len \in Nat /\ f.ihl \in Nat /\ f.ethertype \in EtherTypes /\ f.protocol \in IpProtos
  BY DEF AnyFrame
<1> DEFINE bytes == [from |-> 0, to |-> f.len]
           eth == Front(bytes, 14)
           ip == Rest(bytes, 14)
           transport == Rest(ip, 4 * f.ihl)
<1>1. /\ bytes = Slice(0, f.len) /\ eth = Slice(0, 14) /\ ip = Slice(14, f.len)
      /\ Front(ip, 20) = Slice(14, 34)
      /\ transport = Slice(Transport(f), f.len)
      /\ Front(transport, 8) = Slice(Transport(f), Transport(f) + 8)
      /\ Rest(transport, 8) = Slice(Transport(f) + 8, f.len)
  BY <1>0 DEF Front, Rest, Slice, Transport
<1>2. /\ EtherParses(bytes) <=> f.len >= 14
      /\ Ipv4Parses(ip, f.ihl) <=> f.len >= 34 /\ f.len >= Transport(f)
      /\ UdpParses(transport) <=> f.len >= Transport(f) + 8
  BY <1>0, <1>1 DEF EtherParses, Ipv4Parses, UdpParses, Shorter, Slice, Transport
<1>3. CASE f.len < 14
  <2>0. ~EtherParses(bytes)
    BY <1>0, <1>2, <1>3
  <2>1. ProcessFrame(f) = Parsed("InvalidFrame", <<>>, bytes)
    BY <2>0 DEF ProcessFrame
  <2> QED BY <1>1, <1>3, <2>1
<1>4. CASE f.len >= 14 /\ f.ethertype # "IPv4"
  <2>1. \E is : is # "UdpDatagram" /\ ProcessFrame(f) = Parsed(is, <<eth>>, ip)
    BY <1>0, <1>2, <1>4 DEF ProcessFrame
  <2> QED BY <1>1, <1>4, <2>1
<1>5. CASE f.len >= 14 /\ f.ethertype = "IPv4"
  <2>1. ProcessFrame(f) = ProcessIpv4(f, eth, ip)
    BY <1>0, <1>2, <1>5 DEF ProcessFrame
  <2>2. CASE ~Ipv4Parses(ip, f.ihl)
    <3>1. ProcessFrame(f) = Parsed("InvalidIpv4", <<eth>>, ip)
      BY <2>1, <2>2 DEF ProcessIpv4
    <3>2. f.len < 34 \/ f.len < Transport(f)
      BY <1>0, <1>2, <2>2 DEF Transport
    <3> QED BY <1>1, <1>5, <3>1, <3>2
  <2>3. CASE Ipv4Parses(ip, f.ihl) /\ (f.protocol # "UDP" \/ ~UdpParses(transport))
    <3>1. \E is : /\ is # "UdpDatagram"
                  /\ ProcessFrame(f) = Parsed(is, <<eth, Front(ip, 20)>>, transport)
      BY <1>0, <2>1, <2>3 DEF ProcessIpv4, IpProtos
    <3>2. f.protocol # "UDP" \/ f.len < Transport(f) + 8
      BY <1>0, <1>2, <2>3 DEF Transport
    <3> QED BY <1>1, <1>2, <2>3, <3>1, <3>2
  <2>4. CASE Ipv4Parses(ip, f.ihl) /\ f.protocol = "UDP" /\ UdpParses(transport)
    <3>1. ProcessFrame(f) = Parsed("UdpDatagram",
            Append(<<eth, Front(ip, 20)>>, Front(transport, 8)), Rest(transport, 8))
      BY <2>1, <2>4 DEF ProcessIpv4
    <3> QED BY <1>1, <1>2, <1>5, <2>4, <3>1
  <2> QED BY <2>2, <2>3, <2>4
<1>6. f.len < 14 \/ f.len >= 14
  BY <1>0
<1> QED BY <1>3, <1>4, <1>5, <1>6, Zenon

LEMMA ThreeHeaders ==
    ASSUME NEW x, NEW y, NEW z
    PROVE  LET s == Append(<<x, y>>, z) IN Len(s) = 3 /\ s[1] = x /\ s[2] = y /\ s[3] = z
<1>1. <<x, y>> \in Seq({x, y, z}) /\ z \in {x, y, z}
  OBVIOUS
<1> QED BY <1>1

\* Both properties of a frame follow.
LEMMA NetProperties == NetInv => FramesInBounds /\ SentParses
<1> SUFFICES ASSUME NetInv PROVE FramesInBounds /\ SentParses
  OBVIOUS
<1> DEFINE t == Transport(frame)
           len == frame.len
<1>0. frame \in AnyFrame /\ result = ProcessFrame(frame)
  BY DEF NetInv
<1>1. len \in Nat /\ frame.ihl \in Nat /\ t \in Nat /\ t = 14 + 4 * frame.ihl
  BY DEF NetInv, AnyFrame, Transport
<1>2. \A i, j : Slice(i, j).from = i /\ Slice(i, j).to = j
  BY DEF Slice
<1>w. \A i, j \in Nat : i <= j /\ j <= len => Within(Slice(i, j))
  BY <1>2 DEF Within
<1> HIDE DEF t, len
<1>3. FramesInBounds
  <2>0. ASSUME Within(result.rest),
               \A i \in 1 .. Len(result.headers) : Within(result.headers[i]),
               frame.ihl >= 5 => \A i \in 1 .. Len(result.headers) - 1 :
                                   result.headers[i].to <= result.headers[i + 1].from,
               result.is = "UdpDatagram" <=>
                 /\ frame.ethertype = "IPv4" /\ frame.protocol = "UDP"
                 /\ len >= 34 /\ len >= t + 8
        PROVE  FramesInBounds
    BY <1>1, <2>0 DEF FramesInBounds, len
  <2>1. CASE len < 14 /\ result = Parsed("InvalidFrame", <<>>, Slice(0, len))
    <3>1. result.is = "InvalidFrame" /\ result.headers = <<>> /\ result.rest = Slice(0, len)
      BY <2>1 DEF Parsed
    <3>2. Len(result.headers) = 0
      BY <3>1
    <3>3. Within(result.rest) /\ ~(len >= 34)
      BY <1>1, <1>w, <2>1, <3>1
    <3> QED BY <2>0, <3>1, <3>2, <3>3
  <2>2. ASSUME len >= 14,
               frame.ethertype # "IPv4" \/ len < 34 \/ len < t,
               NEW is, is # "UdpDatagram",
               result = Parsed(is, <<Slice(0, 14)>>, Slice(14, len))
        PROVE  FramesInBounds
    <3>1. result.is = is /\ result.headers = <<Slice(0, 14)>> /\ result.rest = Slice(14, len)
      BY <2>2 DEF Parsed
    <3>2. Len(result.headers) = 1 /\ result.headers[1] = Slice(0, 14)
      BY <3>1
    <3>3. /\ Within(result.rest) /\ Within(Slice(0, 14))
          /\ ~(frame.ethertype = "IPv4" /\ len >= 34 /\ len >= t + 8)
      BY <1>1, <1>w, <2>2, <3>1
    <3>4. \A i \in 1 .. 1 : i = 1
      OBVIOUS
    <3>5. \A i \in 1 .. 1 - 1 : FALSE
      OBVIOUS
    <3> QED BY <2>0, <2>2, <3>1, <3>2, <3>3, <3>4, <3>5
  <2>3. ASSUME len >= 34, len >= t,
               frame.protocol # "UDP" \/ len < t + 8,
               NEW is, is # "UdpDatagram",
               result = Parsed(is, <<Slice(0, 14), Slice(14, 34)>>, Slice(t, len))
        PROVE  FramesInBounds
    <3>1. /\ result.is = is /\ result.headers = <<Slice(0, 14), Slice(14, 34)>>
          /\ result.rest = Slice(t, len)
      BY <2>3 DEF Parsed
    <3>2. /\ Len(result.headers) = 2
          /\ result.headers[1] = Slice(0, 14) /\ result.headers[2] = Slice(14, 34)
      BY <3>1
    <3>3. /\ Within(result.rest) /\ Within(Slice(0, 14)) /\ Within(Slice(14, 34))
          /\ ~(frame.protocol = "UDP" /\ len >= t + 8)
      BY <1>1, <1>w, <2>3, <3>1
    <3>4. \A i \in 1 .. 2 : i = 1 \/ i = 2
      OBVIOUS
    <3>5. \A i \in 1 .. 2 - 1 : result.headers[i].to <= result.headers[i + 1].from
      BY <1>2, <3>2
    <3> QED BY <2>0, <2>3, <3>1, <3>2, <3>3, <3>4, <3>5
  <2>4. CASE /\ len >= 34 /\ len >= t + 8
             /\ frame.ethertype = "IPv4" /\ frame.protocol = "UDP"
             /\ result = Parsed("UdpDatagram",
                  Append(<<Slice(0, 14), Slice(14, 34)>>, Slice(t, t + 8)), Slice(t + 8, len))
    <3>1. /\ result.is = "UdpDatagram" /\ result.rest = Slice(t + 8, len)
          /\ result.headers = Append(<<Slice(0, 14), Slice(14, 34)>>, Slice(t, t + 8))
      BY <2>4 DEF Parsed
    <3>2. /\ Len(result.headers) = 3
          /\ result.headers[1] = Slice(0, 14) /\ result.headers[2] = Slice(14, 34)
          /\ result.headers[3] = Slice(t, t + 8)
      BY <3>1, ThreeHeaders
    <3>3. /\ Within(result.rest) /\ Within(Slice(0, 14)) /\ Within(Slice(14, 34))
          /\ Within(Slice(t, t + 8))
      BY <1>1, <1>w, <2>4, <3>1
    <3>4. \A i \in 1 .. 3 : i = 1 \/ i = 2 \/ i = 3
      OBVIOUS
    <3>5. frame.ihl >= 5 => \A i \in 1 .. 3 - 1 : result.headers[i].to <= result.headers[i + 1].from
      BY <1>1, <1>2, <3>2
    <3> QED BY <2>0, <2>4, <3>1, <3>2, <3>3, <3>4, <3>5, Zenon
  <2>5. \/ len < 14 /\ result = Parsed("InvalidFrame", <<>>, Slice(0, len))
        \/ /\ len >= 14
           /\ frame.ethertype # "IPv4" \/ len < 34 \/ len < t
           /\ \E is : /\ is # "UdpDatagram"
                      /\ result = Parsed(is, <<Slice(0, 14)>>, Slice(14, len))
        \/ /\ len >= 34 /\ len >= t
           /\ frame.protocol # "UDP" \/ len < t + 8
           /\ \E is : /\ is # "UdpDatagram"
                      /\ result = Parsed(is, <<Slice(0, 14), Slice(14, 34)>>, Slice(t, len))
        \/ /\ len >= 34 /\ len >= t + 8
           /\ frame.ethertype = "IPv4" /\ frame.protocol = "UDP"
           /\ result = Parsed("UdpDatagram",
                Append(<<Slice(0, 14), Slice(14, 34)>>, Slice(t, t + 8)), Slice(t + 8, len))
    BY <1>0, ParseShapes, Zenon DEF t, len
  <2> QED BY <2>1, <2>2, <2>3, <2>4, <2>5, Zenon
<1>4. ASSUME sent.built PROVE SentParses
  <2> DEFINE n == sent.payload
  <2>1. n \in Nat /\ frame = Built(n)
    BY <1>4 DEF NetInv
  <2>2. /\ frame.len = 42 + n /\ frame.ethertype = "IPv4" /\ frame.ihl = 5
        /\ frame.protocol = "UDP" /\ t = 34
    BY <1>1, <2>1 DEF Built
  <2>3. ~(frame.len < 14) /\ frame.len >= 34 /\ frame.len >= t /\ frame.len >= t + 8
    BY <2>1, <2>2
  <2>4. result = Parsed("UdpDatagram",
                  Append(<<Slice(0, 14), Slice(14, 34)>>, Slice(34, 42)), Slice(42, 42 + n))
    <3>1. t + 8 = 42 /\ ~(frame.len < 34) /\ ~(frame.len < t) /\ ~(frame.len < t + 8)
      BY <2>1, <2>2
    <3> QED BY <1>0, <2>2, <2>3, <3>1, ParseShapes DEF t
  <2>5. result.is = "UdpDatagram" /\ result.rest = [from |-> 42, to |-> 42 + n]
    BY <2>4 DEF Slice, Parsed
  <2>6. result.headers[1] = Slice(0, 14) /\ result.headers[3] = Slice(34, 42)
    <3>1. result.headers = Append(<<Slice(0, 14), Slice(14, 34)>>, Slice(34, 42))
      BY <2>4 DEF Parsed
    <3> QED BY <3>1, ThreeHeaders
  <2>7. ASSUME n + 28 < U16
        PROVE  sent.total_len = frame.len - 14 /\ sent.udp_len = frame.len - 34
    <3>1. sent.total_len = (28 + n) % U16 /\ sent.udp_len = (8 + n) % U16
      BY <1>4, <2>1 DEF NetInv, LengthFields
    <3>2. \A x \in Nat : x < 65536 => x % 65536 = x
      OBVIOUS
    <3> QED BY <2>1, <2>2, <2>7, <3>1, <3>2 DEF U16
  <2> QED BY <1>2, <2>5, <2>6, <2>7 DEF SentParses
<1> QED BY <1>3, <1>4 DEF SentParses

(***************************************************************************)
(* Zeroing.  The contents of the heap at each step; the first byte of the  *)
(* secret, 0x3C, is why its hash differs from that of the zeroed buffer.   *)
(***************************************************************************)
VmzInv ==
    /\ DOMAIN heap = 0 .. HeapLen - 1
    /\ buf \in 0 .. HeapLen - SECRET_LEN
    /\ step \in {"start", "filled", "zeroed", "freed"}
    /\ step = "start" => \A a \in 0 .. HeapLen - 1 : heap[a] = Neighbour
    /\ step = "filled" => \A a \in 0 .. HeapLen - 1 :
                            a \notin Buffer(buf, SECRET_LEN) => heap[a] = Neighbour
    /\ step \in {"filled", "zeroed"} => secret_hash[0] = 60
    /\ step \in {"zeroed", "freed"} =>
         \A a \in 0 .. HeapLen - 1 :
           heap[a] = IF a \in Buffer(buf, SECRET_LEN) THEN 0 ELSE Neighbour
    /\ step = "freed" => report = [clean |-> TRUE, logged |-> TRUE, checkpoint |-> TRUE]

LEMMA VmzInitial == VmzInit => VmzInv
<1>1. 0 \in 0 .. HeapLen - SECRET_LEN
  BY VmzAssumption
<1> QED BY <1>1 DEF VmzInit, VmzInv

LEMMA FillInv == ASSUME VmzInv, Fill PROVE VmzInv'
<1>b. PICK b : b = buf'
  OBVIOUS
<1>0. /\ HeapLen \in Nat /\ SECRET_LEN \in Nat /\ SECRET_LEN >= 1 /\ b \in Nat
      /\ b + SECRET_LEN <= HeapLen /\ b \in 0 .. HeapLen - SECRET_LEN
  <2>1. b \in 0 .. HeapLen - SECRET_LEN
    BY <1>b DEF Fill
  <2> QED BY <2>1, VmzAssumption
<1>1. /\ DOMAIN heap' = 0 .. HeapLen - 1
      /\ \A a \in 0 .. HeapLen - 1 : heap'[a] = IF a \in Buffer(b, SECRET_LEN)
                                               THEN Secret(a - b) ELSE Neighbour
  BY <1>b DEF VmzInv, Fill
<1>2. heap'[b] = 60
  <2>1. b \in 0 .. HeapLen - 1 /\ b \in Buffer(b, SECRET_LEN) /\ b - b = 0
    BY <1>0 DEF Buffer
  <2>2. Secret(0) = 60
    BY DEF Secret
  <2> QED BY <1>1, <2>1, <2>2
<1>3. secret_hash'[0] = 60
  <2>1. secret_hash' = [i \in 0 .. SECRET_LEN - 1 |-> heap'[b + i]]
    BY <1>b DEF Fill, Digest
  <2>2. 0 \in 0 .. SECRET_LEN - 1 /\ b + 0 = b
    BY <1>0
  <2> QED BY <1>2, <2>1, <2>2
<1>4. step' = "filled"
  BY DEF Fill
<1> QED BY <1>b, <1>0, <1>1, <1>3, <1>4 DEF VmzInv

LEMMA VmzReturnsInv == ASSUME VmzInv, VmzReturns PROVE VmzInv'
<1>1. 0 \in 0 .. HeapLen - SECRET_LEN
  BY VmzAssumption
<1> QED BY <1>1 DEF VmzInv, VmzReturns

LEMMA ZeroInv == ASSUME VmzInv, Zero PROVE VmzInv'
<1>1. /\ DOMAIN heap' = 0 .. HeapLen - 1
      /\ \A a \in 0 .. HeapLen - 1 : heap'[a] = IF a \in Buffer(buf, SECRET_LEN)
                                               THEN 0 ELSE Neighbour
  BY DEF VmzInv, Zero, ZeroRegion
<1>2. step = "filled" /\ step' = "zeroed" /\ buf' = buf /\ secret_hash' = secret_hash
  BY DEF Zero
<1> QED BY <1>1, <1>2 DEF VmzInv

LEMMA ReportInv == ASSUME VmzInv, VerifyAndReport PROVE VmzInv'
<1>0. /\ HeapLen \in Nat /\ SECRET_LEN \in Nat /\ SECRET_LEN >= 1 /\ buf \in Nat
      /\ buf + SECRET_LEN <= HeapLen
  BY VmzAssumption DEF VmzInv
<1>1. /\ step = "zeroed" /\ step' = "freed"
      /\ buf' = buf /\ heap' = heap /\ secret_hash' = secret_hash
  BY DEF VerifyAndReport
<1>2. /\ secret_hash[0] = 60
      /\ \A a \in 0 .. HeapLen - 1 :
           heap[a] = IF a \in Buffer(buf, SECRET_LEN) THEN 0 ELSE Neighbour
  BY <1>1 DEF VmzInv
<1>3. \A a \in Buffer(buf, SECRET_LEN) : a \in 0 .. HeapLen - 1
  BY <1>0 DEF Buffer
<1>4. VerifyZeroed(heap, buf, SECRET_LEN)
  BY <1>2, <1>3 DEF VerifyZeroed
<1>5. secret_hash # Digest(heap, buf)
  <2>1. buf \in Buffer(buf, SECRET_LEN) /\ 0 \in 0 .. SECRET_LEN - 1 /\ buf + 0 = buf
    BY <1>0 DEF Buffer
  <2>2. heap[buf] = 0
    BY <1>2, <1>3, <2>1
  <2>3. Digest(heap, buf)[0] = 0
    BY <2>1, <2>2 DEF Digest
  <2> QED BY <1>2, <2>3
<1>6. report' = [clean |-> TRUE, logged |-> TRUE, checkpoint |-> TRUE]
  BY <1>4, <1>5 DEF VerifyAndReport
<1> QED BY <1>1, <1>2, <1>6 DEF VmzInv

(***************************************************************************)
(* The phases together.  Nothing follows the transmission, which is why    *)
(* the frame that was sent stays the frame at hand.                        *)
(***************************************************************************)
DemosInv ==
    /\ ZtdfInv /\ NetInv /\ VmzInv
    /\ sent.built => next = "done"

LEMMA LastPhase == Order[Follows("transmit")] = "done"
<1>1. Len(Order) = 11 /\ Order[10] = "transmit" /\ Order[11] = "done"
  BY DEF Order
<1>2. \A q \in 2 .. 11 : Order[q - 1] = "transmit" => q = 11
  BY DEF Order
<1>3. 11 \in 2 .. 11 /\ Order[11 - 1] = "transmit"
  BY <1>1
<1>4. Follows("transmit") \in 2 .. 11 /\ Order[Follows("transmit") - 1] = "transmit"
  BY <1>1, <1>3, Zenon DEF Follows
<1> QED BY <1>1, <1>2, <1>4

\* kernel_main's demonstrations keep the invariants of the driver checker, of
\* the packet code and of zeroing, for every value of the constants.
THEOREM DemosInvariant == Spec => []DemosInv
<1>1. Init => DemosInv
  <2> SUFFICES ASSUME Init PROVE DemosInv
    OBVIOUS
  <2>1. ZtdfInv /\ NetInv /\ VmzInv
    BY ZtdfInitial, NetInitial, VmzInitial DEF Init
  <2>2. ~sent.built
    BY DEF Init, NetInit, NoSent
  <2> QED BY <2>1, <2>2 DEF DemosInv
<1>2. DemosInv /\ [Next]_vars => DemosInv'
  <2> SUFFICES ASSUME DemosInv, [Next]_vars PROVE DemosInv'
    OBVIOUS
  <2>0. /\ ZtdfInv /\ NetInv /\ VmzInv
        /\ UNCHANGED ztdfVars => ZtdfInv'
        /\ UNCHANGED netVars => NetInv'
        /\ UNCHANGED vmzVars => VmzInv'
    <3>1. UNCHANGED ztdfVars => ZtdfInv'
      BY DEF DemosInv, ztdfVars, ZtdfInv, ZtdfTypeOK, Justified, InSpec, ReachesTop,
             Loaded, Verdict
    <3>2. UNCHANGED netVars => NetInv'
      BY DEF DemosInv, netVars, NetInv
    <3>3. UNCHANGED vmzVars => VmzInv'
      BY DEF DemosInv, vmzVars, VmzInv
    <3> QED BY <3>1, <3>2, <3>3 DEF DemosInv
  <2>1. next \in Drivers \cup {"axiom", "vmz", "lattice", "parse", "parsed", "transmit"} => ~sent.built
    BY DEF DemosInv, Drivers
  <2>2. CASE VmzDemo
    <3>1. VmzInv'
      BY <2>0, <2>2, FillInv, ZeroInv, ReportInv, VmzReturnsInv DEF VmzDemo, VmzNext
    <3>2. UNCHANGED ztdfVars /\ UNCHANGED netVars /\ sent' = sent /\ ~sent.built
      BY <2>1, <2>2 DEF VmzDemo, netVars
    <3> QED BY <2>0, <3>1, <3>2 DEF DemosInv
  <2>3. ASSUME NEW d \in Drivers, DriverDemo(d) PROVE DemosInv'
    <3>1. ZtdfInv'
      <4>1. CASE Round
        BY <2>0, <4>1, AttemptInv, LoopOverInv, <<"Exit", 0>> \in Ops DEF Round, Ops
      <4> QED BY <2>0, <2>3, <4>1, LoadInv, UnloadInv DEF DriverDemo
    <3>2. UNCHANGED netVars /\ UNCHANGED vmzVars /\ sent' = sent /\ ~sent.built
      BY <2>1, <2>3 DEF DriverDemo, netVars
    <3> QED BY <2>0, <3>1, <3>2 DEF DemosInv
  <2>4. CASE ParseDemo
    <3>1. UNCHANGED ztdfVars /\ UNCHANGED vmzVars /\ sent' = sent /\ ~sent.built
      BY <2>1, <2>4 DEF ParseDemo, Receive
    <3>2. NetInv'
      BY <2>0, <2>4, <3>1, ReceiveInv DEF ParseDemo
    <3> QED BY <2>0, <3>1, <3>2 DEF DemosInv
  <2>5. CASE ParsePrinted
    <3>1. UNCHANGED ztdfVars /\ UNCHANGED vmzVars /\ sent' = sent /\ ~sent.built
      BY <2>1, <2>5 DEF ParsePrinted
    <3>2. NetInv'
      BY <2>0, <2>5, <3>1, PrintedInv DEF ParsePrinted
    <3> QED BY <2>0, <3>1, <3>2 DEF DemosInv
  <2>6. CASE TransmitDemo
    <3>1. UNCHANGED ztdfVars /\ UNCHANGED vmzVars /\ next' = "done"
      BY <2>6, LastPhase DEF TransmitDemo, Goto
    <3>2. NetInv'
      BY <2>6, TransmitInv DEF TransmitDemo
    <3> QED BY <2>0, <3>1, <3>2 DEF DemosInv
  <2>7. CASE UNCHANGED vars
    <3>1. /\ UNCHANGED ztdfVars /\ UNCHANGED netVars /\ UNCHANGED vmzVars
          /\ sent' = sent /\ next' = next
      BY <2>7 DEF vars, netVars
    <3> QED BY <2>0, <3>1 DEF DemosInv
  <2>8. CASE AxiomDemo \/ LatticeDemo
    <3>1. /\ UNCHANGED ztdfVars /\ UNCHANGED netVars /\ UNCHANGED vmzVars
          /\ sent' = sent /\ ~sent.built
      BY <2>1, <2>8 DEF AxiomDemo, LatticeDemo, netVars
    <3> QED BY <2>0, <3>1 DEF DemosInv
  <2> QED BY <2>2, <2>3, <2>4, <2>5, <2>6, <2>7, <2>8 DEF Next
<1> QED BY <1>1, <1>2, PTL DEF Spec

\* Whatever regions, lines and calls a driver's spec lists and whatever it
\* attempts: step lets it do nothing outside its spec, also where start + len
\* wraps, the first refusal is its last operation, and nothing inside the spec is
\* refused unless a region reaches the top of the address space.
THEOREM DriversAreBounded == Spec => []DriverBounded
<1>1. DemosInv => DriverBounded
  BY ZtdfProperties DEF DemosInv
<1> QED BY <1>1, DemosInvariant, PTL

\* Whatever a driver attempts, and however much: an entry about its end gives the
\* operation that ended it and the number of operations done before, and MMIO
\* faults of mal, system-call faults of esc and the exit of uart always have one.
THEOREM AuditIsTruthful == Spec => []AuditTruthful
<1>1. DemosInv => AuditTruthful
  BY ZtdfProperties DEF DemosInv
<1> QED BY <1>1, DemosInvariant, PTL

\* For frames of every length and every claimed header length the parsers read
\* within the frame, and find a datagram exactly where there is one.
THEOREM ParsersStayInBounds == Spec => []FramesInBounds
<1>1. DemosInv => FramesInBounds
  BY NetProperties DEF DemosInv
<1> QED BY <1>1, DemosInvariant, PTL

\* A datagram of any payload length is parsed back to that payload, and its length
\* fields are right as long as it fits in an IPv4 packet.
THEOREM WhatIsSentParses == Spec => []SentParses
<1>1. DemosInv => SentParses
  BY NetProperties DEF DemosInv
<1> QED BY <1>1, DemosInvariant, PTL

\* For every buffer size and place in the heap, what is given back is zeroed and
\* nothing else is.
THEOREM FreedIsZeroed == Spec => []ZeroedBeforeFreed
<1>1. DemosInv => ZeroedBeforeFreed
  BY DEF DemosInv, VmzInv, ZeroedBeforeFreed
<1> QED BY <1>1, DemosInvariant, PTL
=============================================================================
