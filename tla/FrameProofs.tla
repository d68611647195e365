---------------------------- MODULE FrameProofs ----------------------------
(* Proofs about Frame, for every pair of endpoints and every payload. *)
EXTENDS Frame, SequenceTheorems, TLAPS

(* Two bytes in network order give back the port. *)
LEMMA Uint16Inverse ==
  ASSUME NEW n \in Port
  PROVE  /\ n \div 256 \in Byte /\ n % 256 \in Byte
         /\ Uint16(n \div 256, n % 256) = n
  <1>1. \A k \in Int : \A m \in 0..k : m \in Int /\ 0 <= m /\ m <= k
    OBVIOUS
  <1>2. 256 * 256 - 1 \in Int
    OBVIOUS
  <1>3. n \in Int /\ 0 <= n /\ n <= 256 * 256 - 1
    BY <1>1, <1>2, Zenon DEF Port
  <1> DEFINE q == n \div 256
             r == n % 256
  <1>4. q \in 0..255 /\ r \in 0..255
    BY <1>3
  <1>5. PICK i \in Int, j \in Int : i = q /\ j = r
    BY <1>3
  <1>6. i * 256 + j = n
    BY <1>3, <1>5
  <1> QED
    BY <1>4, <1>5, <1>6, Zenon DEF Byte, Uint16

(* What is where in the header. *)
LEMMA HeaderBytes ==
  ASSUME NEW src \in AddrPort, NEW to \in AddrPort
  PROVE  LET h == header(src, to)
         IN  /\ h \in Seq(Byte) /\ Len(h) = 12
             /\ h[1] = src.addr[1] /\ h[2] = src.addr[2]
             /\ h[3] = src.addr[3] /\ h[4] = src.addr[4]
             /\ h[5] = src.port \div 256 /\ h[6] = src.port % 256
             /\ h[7] = to.addr[1] /\ h[8] = to.addr[2]
             /\ h[9] = to.addr[3] /\ h[10] = to.addr[4]
             /\ h[11] = to.port \div 256 /\ h[12] = to.port % 256
  <1>1. /\ src.port \in Port /\ to.port \in Port
        /\ \A k \in 1..4 : src.addr[k] \in Byte /\ to.addr[k] \in Byte
    BY DEF AddrPort
  <1>2. /\ src.addr[1] \in Byte /\ src.addr[2] \in Byte
        /\ src.addr[3] \in Byte /\ src.addr[4] \in Byte
        /\ to.addr[1] \in Byte /\ to.addr[2] \in Byte
        /\ to.addr[3] \in Byte /\ to.addr[4] \in Byte
    BY <1>1
  <1>3. /\ src.port \div 256 \in Byte /\ src.port % 256 \in Byte
        /\ to.port \div 256 \in Byte /\ to.port % 256 \in Byte
    BY <1>1, Uint16Inverse
  <1>4. header(src, to) =
          <<src.addr[1], src.addr[2], src.addr[3], src.addr[4],
            src.port \div 256, src.port % 256,
            to.addr[1], to.addr[2], to.addr[3], to.addr[4],
            to.port \div 256, to.port % 256>>
    BY DEF header, AppendUint16
  <1> QED
    BY <1>2, <1>3, <1>4

(* Header and payload stay where they are in a frame. *)
LEMMA Concatenated ==
  ASSUME NEW h \in Seq(Byte), NEW payload \in Seq(Byte), Len(h) = 12
  PROVE  /\ h \o payload \in Seq(Byte) /\ Len(h \o payload) = 12 + Len(payload)
         /\ \A k \in 1..12 : (h \o payload)[k] = h[k]
         /\ \A k \in 1..Len(payload) : (h \o payload)[12 + k] = payload[k]
  <1>1. /\ h \o payload \in Seq(Byte) /\ Len(h \o payload) = Len(h) + Len(payload)
        /\ \A i \in 1..(Len(h) + Len(payload)) :
             (h \o payload)[i] = IF i <= Len(h) THEN h[i] ELSE payload[i - Len(h)]
    BY ConcatProperties, Zenon
  <1>2. Len(payload) \in Nat
    OBVIOUS
  <1>3. ASSUME NEW k \in 1..12 PROVE (h \o payload)[k] = h[k]
    BY <1>1, <1>2
  <1>4. ASSUME NEW k \in 1..Len(payload) PROVE (h \o payload)[12 + k] = payload[k]
    <2>1. 12 + k \in 1..(Len(h) + Len(payload)) /\ ~(12 + k <= Len(h)) /\ 12 + k - Len(h) = k
      BY <1>2
    <2> QED
      BY <1>1, <2>1
  <1> QED
    BY <1>1, <1>3, <1>4

(* What decodeFrame reads from the header. *)
LEMMA AddrPortRead ==
  ASSUME NEW ep \in AddrPort, NEW b, NEW i \in Nat,
         b[i + 1] = ep.addr[1], b[i + 2] = ep.addr[2],
         b[i + 3] = ep.addr[3], b[i + 4] = ep.addr[4],
         b[i + 5] = ep.port \div 256, b[i + 6] = ep.port % 256
  PROVE  addrPort(b, i) = ep
  <1>1. ep.port \in Port /\ ep.addr \in [1..4 -> Byte]
        /\ ep = [addr |-> ep.addr, port |-> ep.port]
    BY DEF AddrPort
  <1>2. Uint16(b[i + 5], b[i + 6]) = ep.port
    BY <1>1, Uint16Inverse
  <1>3. ASSUME NEW k \in 1..4 PROVE b[i + k] = ep.addr[k]
    <2>1. k = 1 \/ k = 2 \/ k = 3 \/ k = 4
      BY <1>3
    <2> QED
      BY <2>1
  <1>4. [k \in 1..4 |-> b[i + k]] = ep.addr
    BY <1>1, <1>3
  <1> QED
    BY <1>1, <1>2, <1>4 DEF addrPort

(* "The PFCP payload is copied verbatim", and so is the 4-tuple: what      *)
(* decodeFrame makes of a frame is what encodeFrame was given, for every   *)
(* address, every port up to 65535 and every payload, the empty one too    *)
(* (proxy.go encodeFrame, decodeFrame).                                    *)
THEOREM RoundTrip ==
  ASSUME NEW src \in AddrPort, NEW to \in AddrPort, NEW payload \in Seq(Byte)
  PROVE  LET f == encodeFrame(src, to, payload)
         IN  /\ f \in Seq(Byte) /\ ~short(f)
             /\ decodeFrame(f) = [src |-> src, dst |-> to, msg |-> payload]
  <1> DEFINE h == header(src, to)
             f == h \o payload
  <1>1. /\ h \in Seq(Byte) /\ Len(h) = 12
        /\ h[1] = src.addr[1] /\ h[2] = src.addr[2]
        /\ h[3] = src.addr[3] /\ h[4] = src.addr[4]
        /\ h[5] = src.port \div 256 /\ h[6] = src.port % 256
        /\ h[7] = to.addr[1] /\ h[8] = to.addr[2]
        /\ h[9] = to.addr[3] /\ h[10] = to.addr[4]
        /\ h[11] = to.port \div 256 /\ h[12] = to.port % 256
    BY HeaderBytes
  <1> HIDE DEF h
  <1>2. /\ f \in Seq(Byte) /\ Len(f) = 12 + Len(payload) /\ Len(payload) \in Nat
        /\ \A k \in 1..12 : f[k] = h[k]
        /\ \A k \in 1..Len(payload) : f[12 + k] = payload[k]
    <2>1. h \in Seq(Byte) /\ Len(h) = 12 /\ Len(payload) \in Nat
      BY <1>1
    <2> QED
      BY <2>1, Concatenated
  <1> HIDE DEF f
  <1>3. ~short(f)
    BY <1>2 DEF short, frameHeaderLen
  <1>4. addrPort(f, 0) = src
    <2>1. /\ f[0 + 1] = src.addr[1] /\ f[0 + 2] = src.addr[2]
          /\ f[0 + 3] = src.addr[3] /\ f[0 + 4] = src.addr[4]
          /\ f[0 + 5] = src.port \div 256 /\ f[0 + 6] = src.port % 256
      BY <1>1, <1>2
    <2> QED
      BY <2>1, AddrPortRead
  <1>5. addrPort(f, 6) = to
    <2>1. /\ f[6 + 1] = to.addr[1] /\ f[6 + 2] = to.addr[2]
          /\ f[6 + 3] = to.addr[3] /\ f[6 + 4] = to.addr[4]
          /\ f[6 + 5] = to.port \div 256 /\ f[6 + 6] = to.port % 256
      BY <1>1, <1>2
    <2> QED
      BY <2>1, AddrPortRead
  <1>6. SubSeq(f, frameHeaderLen + 1, Len(f)) = payload
    <2>1. SubSeq(f, 13, Len(f)) = payload
      BY <1>2
    <2>2. frameHeaderLen + 1 = 13
      BY DEF frameHeaderLen
    <2> QED
      BY <2>1, <2>2
  <1>7. encodeFrame(src, to, payload) = f
    BY DEF encodeFrame, f, h
  <1>8. decodeFrame(f) = [src |-> src, dst |-> to, msg |-> payload]
    BY <1>4, <1>5, <1>6, Zenon DEF decodeFrame
  <1> QED
    BY <1>2, <1>3, <1>7, <1>8

(* Any two bytes are those of one port. *)
LEMMA Uint16Total ==
  ASSUME NEW hi \in Byte, NEW lo \in Byte
  PROVE  /\ Uint16(hi, lo) \in Port
         /\ Uint16(hi, lo) \div 256 = hi /\ Uint16(hi, lo) % 256 = lo
  <1>1. hi \in Int /\ 0 <= hi /\ hi <= 255 /\ lo \in Int /\ 0 <= lo /\ lo <= 255
    BY DEF Byte
  <1>2. PICK n \in Int : n = hi * 256 + lo
    BY <1>1
  <1>3. 0 <= n /\ n <= 255 * 256 + 255
    BY <1>1, <1>2
  <1>4. n \div 256 = hi /\ n % 256 = lo
    BY <1>1, <1>2
  <1>5. \A k \in Int : \A m \in Int : 0 <= m /\ m <= k => m \in 0..k
    OBVIOUS
  <1>6. 256 * 256 - 1 \in Int /\ n <= 256 * 256 - 1
    BY <1>3
  <1>7. n \in 0..(256 * 256 - 1)
    BY <1>3, <1>5, <1>6, Zenon
  <1> QED
    BY <1>2, <1>4, <1>7, Zenon DEF Port, Uint16

(* What decodeFrame makes of six bytes is an endpoint, and the header has  *)
(* these bytes for it.                                                     *)
LEMMA AddrPortTotal ==
  ASSUME NEW b, NEW i \in Nat, \A k \in 1..6 : b[i + k] \in Byte
  PROVE  LET ep == addrPort(b, i)
         IN  /\ ep \in AddrPort
             /\ ep.addr[1] = b[i + 1] /\ ep.addr[2] = b[i + 2]
             /\ ep.addr[3] = b[i + 3] /\ ep.addr[4] = b[i + 4]
             /\ ep.port \div 256 = b[i + 5] /\ ep.port % 256 = b[i + 6]
  <1> DEFINE a == [k \in 1..4 |-> b[i + k]]
             p == Uint16(b[i + 5], b[i + 6])
  <1>1. b[i + 5] \in Byte /\ b[i + 6] \in Byte
    OBVIOUS
  <1>2. p \in Port /\ p \div 256 = b[i + 5] /\ p % 256 = b[i + 6]
    BY <1>1, Uint16Total
  <1>3. a \in [1..4 -> Byte] /\ a[1] = b[i + 1] /\ a[2] = b[i + 2] /\ a[3] = b[i + 3] /\ a[4] = b[i + 4]
    OBVIOUS
  <1>4. addrPort(b, i) = [addr |-> a, port |-> p]
    BY DEF addrPort
  <1> HIDE DEF a, p
  <1>5. [addr |-> a, port |-> p] \in AddrPort
    BY <1>2, <1>3, Zenon DEF AddrPort
  <1>6. addrPort(b, i).addr = a /\ addrPort(b, i).port = p
    BY <1>4
  <1> QED
    BY <1>2, <1>3, <1>4, <1>5, <1>6, Zenon

(* decodeFrame loses nothing: any frame of twelve bytes or more is the     *)
(* encoding of the well-formed endpoints and the payload it is decoded to. *)
(* So no two frames decode alike, and a frame that is delivered is the     *)
(* frame that was sent (proxy.go decodeFrame, encodeFrame).                *)
THEOREM DecodeExact ==
  ASSUME NEW b \in Seq(Byte), ~short(b)
  PROVE  LET d == decodeFrame(b)
         IN  /\ d.src \in AddrPort /\ d.dst \in AddrPort /\ d.msg \in Seq(Byte)
             /\ encodeFrame(d.src, d.dst, d.msg) = b
  <1> DEFINE src == addrPort(b, 0)
             to == addrPort(b, 6)
             payload == SubSeq(b, 13, Len(b))
             h == header(src, to)
  <1>1. Len(b) \in Nat /\ Len(b) >= 12 /\ DOMAIN b = 1..Len(b)
    BY DEF short, frameHeaderLen
  <1>2. \A k \in 1..12 : b[k] \in Byte
    BY <1>1
  <1>3. /\ src \in AddrPort
        /\ src.addr[1] = b[1] /\ src.addr[2] = b[2] /\ src.addr[3] = b[3] /\ src.addr[4] = b[4]
        /\ src.port \div 256 = b[5] /\ src.port % 256 = b[6]
    <2>1. \A k \in 1..6 : b[0 + k] \in Byte
      BY <1>2
    <2>2. /\ src \in AddrPort
          /\ src.addr[1] = b[0 + 1] /\ src.addr[2] = b[0 + 2]
          /\ src.addr[3] = b[0 + 3] /\ src.addr[4] = b[0 + 4]
          /\ src.port \div 256 = b[0 + 5] /\ src.port % 256 = b[0 + 6]
      BY <2>1, AddrPortTotal
    <2> HIDE DEF src
    <2> QED
      BY <2>2
  <1>4. /\ to \in AddrPort
        /\ to.addr[1] = b[7] /\ to.addr[2] = b[8] /\ to.addr[3] = b[9] /\ to.addr[4] = b[10]
        /\ to.port \div 256 = b[11] /\ to.port % 256 = b[12]
    <2>1. 6 \in Nat /\ \A k \in 1..6 : b[6 + k] \in Byte
      BY <1>2
    <2>2. /\ to \in AddrPort
          /\ to.addr[1] = b[6 + 1] /\ to.addr[2] = b[6 + 2]
          /\ to.addr[3] = b[6 + 3] /\ to.addr[4] = b[6 + 4]
          /\ to.port \div 256 = b[6 + 5] /\ to.port % 256 = b[6 + 6]
      BY <2>1, AddrPortTotal
    <2> HIDE DEF to
    <2> QED
      BY <2>2
  <1> HIDE DEF src, to
  <1>5. /\ h \in Seq(Byte) /\ Len(h) = 12
        /\ \A k \in 1..12 : h[k] = b[k]
    <2>1. /\ h \in Seq(Byte) /\ Len(h) = 12
          /\ h[1] = b[1] /\ h[2] = b[2] /\ h[3] = b[3] /\ h[4] = b[4] /\ h[5] = b[5] /\ h[6] = b[6]
          /\ h[7] = b[7] /\ h[8] = b[8] /\ h[9] = b[9] /\ h[10] = b[10] /\ h[11] = b[11] /\ h[12] = b[12]
      BY <1>3, <1>4, HeaderBytes
    <2> HIDE DEF h
    <2>2. \A k \in 1..12 : k \in {1, 2, 3, 4, 5, 6, 7, 8, 9, 10, 11, 12}
      OBVIOUS
    <2> QED
      BY <2>1, <2>2
  <1> HIDE DEF h
  <1>6. /\ payload \in Seq(Byte) /\ Len(payload) = Len(b) - 12
        /\ \A k \in 1..(Len(b) - 12) : payload[k] = b[12 + k]
    BY <1>1
  <1> HIDE DEF payload
  <1>7. /\ h \o payload \in Seq(Byte) /\ Len(h \o payload) = 12 + Len(payload)
        /\ \A k \in 1..12 : (h \o payload)[k] = h[k]
        /\ \A k \in 1..Len(payload) : (h \o payload)[12 + k] = payload[k]
    BY <1>5, <1>6, Concatenated, Zenon
  <1>8. h \o payload = b
    <2>1. Len(h \o payload) = Len(b)
      BY <1>1, <1>6, <1>7
    <2>2. ASSUME NEW k \in 1..Len(b) PROVE (h \o payload)[k] = b[k]
      <3>1. CASE k <= 12
        <4>1. k \in 1..12
          BY <1>1, <3>1
        <4> QED
          BY <1>5, <1>7, <4>1, Zenon
      <3>2. CASE k > 12
        <4>1. k - 12 \in 1..(Len(b) - 12) /\ 12 + (k - 12) = k
          BY <1>1, <3>2
        <4> QED
          BY <1>6, <1>7, <4>1
      <3>3. k <= 12 \/ k > 12
        BY <1>1
      <3> QED
        BY <3>1, <3>2, <3>3, Zenon
    <2> QED
      BY <1>7, <2>1, <2>2, SeqEqual
  <1>9. decodeFrame(b) = [src |-> src, dst |-> to, msg |-> payload]
    BY DEF decodeFrame, src, to, payload, frameHeaderLen
  <1>10. encodeFrame(src, to, payload) = b
    BY <1>8 DEF encodeFrame, h
  <1> QED
    BY <1>3, <1>4, <1>6, <1>9, <1>10
=============================================================================
