------------------------------- MODULE Frame -------------------------------
(***************************************************************************)
(* What crosses the DTLS session in the socket datapath (proxy.go): the    *)
(* 4-tuple a datagram had before interception, then its payload.           *)
(***************************************************************************)
EXTENDS Integers, Sequences

Byte == 0..255
Port == 0..(256 * 256 - 1)

(* netip.AddrPort with an IPv4 address *)
AddrPort == [addr : [1..4 -> Byte], port : Port]

frameHeaderLen == 12

(* binary.BigEndian *)
AppendUint16(n) == <<n \div 256, n % 256>>

Uint16(hi, lo) == hi * 256 + lo

header(src, to) ==
  LET p == AppendUint16(src.port)
      q == AppendUint16(to.port)
  IN  <<src.addr[1], src.addr[2], src.addr[3], src.addr[4], p[1], p[2],
        to.addr[1], to.addr[2], to.addr[3], to.addr[4], q[1], q[2]>>

encodeFrame_Swapped(src, to, payload) == header(to, src) \o payload

encodeFrame(src, to, payload) == header(src, to) \o payload

short_OffByOne(b) == Len(b) <= frameHeaderLen

short(b) == Len(b) < frameHeaderLen

addrPort(b, i) ==
  [addr |-> [k \in 1..4 |-> b[i + k]], port |-> Uint16(b[i + 5], b[i + 6])]

(* decodeFrame of what is not short *)
decodeFrame(b) ==
  [src |-> addrPort(b, 0), dst |-> addrPort(b, 6),
   msg |-> SubSeq(b, frameHeaderLen + 1, Len(b))]
=============================================================================
