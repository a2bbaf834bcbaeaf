-------------------------------- MODULE Net --------------------------------
(***************************************************************************)
(* The packet code of kernel/src/net.rs: process_frame with its three      *)
(* parsers, on frames of any shape, and transmit_eipc_udp.                 *)
(*                                                                         *)
(* A frame is its length and the fields the parsers branch on; a slice of  *)
(* it is an interval of offsets, so that a slice beyond the frame, which   *)
(* panics in the code, is one whose bounds are out of order.               *)
(***************************************************************************)
EXTENDS Naturals, Sequences

CONSTANTS FrameLens,   \* lengths of received frames
          PayloadLens  \* lengths of transmitted payloads

ASSUME NetAssumption == FrameLens \subseteq Nat /\ PayloadLens \subseteq Nat

U16 == 65536

EtherTypes == {"IPv4", "ARP", "IPv6", "Other"}
IpProtos   == {"ICMP", "TCP", "UDP", "Other"}
Frames == [len : FrameLens, ethertype : EtherTypes, ihl : 0 .. 15, protocol : IpProtos]

VARIABLES
    frame,   \* the frame at hand, received or built
    result,  \* what process_frame makes of it
    sent     \* the length fields of the frame transmit_eipc_udp built

netVars == <<frame, result, sent>>

NoFrame  == [len |-> 0, ethertype |-> "Other", ihl |-> 0, protocol |-> "Other"]
NoSent   == [payload |-> 0, total_len |-> 0, udp_len |-> 0, built |-> FALSE]

-----------------------------------------------------------------------------
(***************************************************************************)
(* Slices, and the parsers' tests on them.                                 *)
(***************************************************************************)
Shorter(s, n) == s.to < s.from + n             \* s.len() < n
Rest(s, n)   == [from |-> s.from + n, to |-> s.to]
Front(s, n)  == [from |-> s.from, to |-> s.from + n]

EtherParses(s) == ~Shorter(s, 14)

\* bytes[0] & 0xF counts words of four bytes; the low values are let through.
Ipv4Parses_NoIhl(s, ihl) == ~Shorter(s, 20)
Ipv4Parses(s, ihl) == ~Shorter(s, 20) /\ ~Shorter(s, 4 * ihl)

UdpParses(s) == ~Shorter(s, 8)

\* What a parse read, and what it left.
Parsed(is, headers, rest) == [is |-> is, headers |-> headers, rest |-> rest]

ProcessIpv4(f, eth, ip) ==
    LET transport == Rest(ip, 4 * f.ihl)
        heads == <<eth, Front(ip, 20)>>
    IN IF ~Ipv4Parses(ip, f.ihl) THEN Parsed("InvalidIpv4", <<eth>>, ip)
       ELSE IF f.protocol # "UDP"
            THEN Parsed(CASE f.protocol = "ICMP" -> "Icmp"
                          [] f.protocol = "TCP" -> "Tcp"
                          [] OTHER -> "UnknownProto", heads, transport)
       ELSE IF ~UdpParses(transport) THEN Parsed("InvalidUdp", heads, transport)
       ELSE Parsed("UdpDatagram", Append(heads, Front(transport, 8)), Rest(transport, 8))

ProcessFrame(f) ==
    LET bytes == [from |-> 0, to |-> f.len]
        eth == Front(bytes, 14)
        payload == Rest(bytes, 14)
    IN IF ~EtherParses(bytes) THEN Parsed("InvalidFrame", <<>>, bytes)
       ELSE CASE f.ethertype = "ARP"  -> Parsed("Arp", <<eth>>, payload)
              [] f.ethertype = "IPv4" -> ProcessIpv4(f, eth, payload)
              [] OTHER -> Parsed("UnknownEthertype", <<eth>>, payload)

\* The length fields of a frame with a payload of n bytes, cast to u16.
LengthFields_NoUdpHeader(n) == [total_len |-> (20 + n) % U16, udp_len |-> (8 + n) % U16]
LengthFields(n) == [total_len |-> (20 + 8 + n) % U16, udp_len |-> (8 + n) % U16]

-----------------------------------------------------------------------------
NetInit == frame = NoFrame /\ result = ProcessFrame(NoFrame) /\ sent = NoSent

Receive(f) ==
    /\ frame' = f
    /\ result' = ProcessFrame(f)
    /\ UNCHANGED sent

\* transmit_eipc_udp; the frame it builds is also what its receiver parses.
Transmit(n) ==
    LET f == [len |-> 14 + 20 + 8 + n, ethertype |-> "IPv4", ihl |-> 5, protocol |-> "UDP"]
    IN /\ frame' = f
       /\ result' = ProcessFrame(f)
       /\ sent' = [payload |-> n, total_len |-> LengthFields(n).total_len,
                   udp_len |-> LengthFields(n).udp_len, built |-> TRUE]

-----------------------------------------------------------------------------
(***************************************************************************)
(* Properties.                                                             *)
(***************************************************************************)

Within(s) == s.from <= s.to /\ s.to <= frame.len

\* process_frame reads no byte outside the frame, whatever length the header
\* claims: every header and the rest are slices of the frame.  With the five
\* words an IPv4 header has at least, the headers do not overlap.  And a frame
\* counts as a UDP datagram exactly if all three headers fit in it.
FramesInBounds ==
    /\ Within(result.rest)
    /\ \A i \in 1 .. Len(result.headers) : Within(result.headers[i])
    /\ frame.ihl >= 5 => \A i \in 1 .. Len(result.headers) - 1 :
                           result.headers[i].to <= result.headers[i + 1].from
    /\ result.is = "UdpDatagram" <=>
         /\ frame.ethertype = "IPv4" /\ frame.protocol = "UDP"
         /\ frame.len >= 34 /\ frame.len >= 14 + 4 * frame.ihl + 8

\* What transmit_eipc_udp builds is taken for a UDP datagram whose data is the
\* payload, and the length fields of both headers say so as long as the packet
\* is one IPv4 can carry.
SentParses ==
    sent.built =>
      /\ result.is = "UdpDatagram"
      /\ result.rest = [from |-> 42, to |-> 42 + sent.payload]
      /\ sent.payload + 28 < U16 =>
           /\ sent.total_len = frame.len - result.headers[1].to
           /\ sent.udp_len = frame.len - result.headers[3].from
=============================================================================
