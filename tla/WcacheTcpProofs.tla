--------------------------- MODULE WcacheTcpProofs ---------------------------
(***************************************************************************)
(* The hooks keep what a client reads in order and whole, for any number   *)
(* of connections and packets, whatever is lost, delayed or sent again and *)
(* whichever calls fail: what they store is the first packet and no other, *)
(* and they send it under the number of the first packet.                  *)
(***************************************************************************)
EXTENDS WcacheTcp, TcpProofs

\* What the server's TCP sends.
Response ==
  {[conn |-> c, seq |-> n, data |-> Payload(n)] : c \in Conn, n \in 1..(Packets + 1)}

WInv ==
  /\ TcpInv(Response)
  /\ temp_path \in BOOLEAN
  /\ object \in {1, NULL}

LEMMA ResponseShape == Shape(Response)
  BY TcpAssumption DEF Shape, Response, Payload

LEMMA InResponse ==
  ASSUME NEW c, NEW n, NEW x, [conn |-> c, seq |-> n, data |-> x] \in Response
  PROVE  c \in Conn /\ n \in 1..(Packets + 1) /\ x = Payload(n)
<1>1. PICK d \in Conn, m \in 1..(Packets + 1) :
        [conn |-> c, seq |-> n, data |-> x] = [conn |-> d, seq |-> m, data |-> Payload(m)]
  BY DEF Response
<1>2. c = d /\ n = m /\ x = Payload(m)
  BY <1>1
<1>3. QED BY <1>2

\* The packet in the cache is the first of the response.
LEMMA ReplyInResponse ==
  ASSUME WInv, object # NULL, NEW c \in Conn
  PROVE  Reply(c) \subseteq Response
<1>1. object = 1 /\ 1 \in 1..(Packets + 1) /\ Payload(1) = 1
  BY TcpAssumption DEF WInv, Payload
<1>2. QED
  BY <1>1 DEF Reply, Response

LEMMA ReadsResponse ==
  ASSUME WInv, NEW c \in Conn, NEW n \in 1..Len(output[c])
  PROVE  output[c][n] = n
<1>1. [conn |-> c, seq |-> n, data |-> output[c][n]] \in Response /\ Len(output[c]) \in 0..Packets
  BY DEF WInv, TcpInv, Progress
<1>2. output[c][n] = Payload(n)
  BY <1>1, InResponse
<1>3. QED BY <1>1, <1>2, TcpAssumption DEF Payload

LEMMA WatchInInv ==
  ASSUME WInv, NEW c \in Conn, watch_in(c)
  PROVE  WInv'
<1>1. /\ UNCHANGED <<app, acked, rcv_nxt, output, object>>
      /\ up' \subseteq Conn
  BY DEF watch_in, WInv, TcpInv, TcpTypes
<1>2. requested' \subseteq Conn /\ arriving' \subseteq Response /\ temp_path' \in BOOLEAN
  <2>1. requested \subseteq Conn /\ arriving \subseteq Response
    BY DEF WInv, TcpInv, TcpTypes
  <2>2. CASE watch_in_miss(c)
    BY <2>1, <2>2 DEF watch_in_miss
  <2>3. CASE watch_in_hit(c)
    BY <2>1, <2>3, ReplyInResponse DEF watch_in_hit
  <2>4. CASE watch_in_not_linear
    BY <2>1, <2>4 DEF watch_in_not_linear, WInv
  <2>5. CASE watch_in_no_device(c)
    BY <2>1, <2>5 DEF watch_in_no_device, WInv
  <2>6. QED BY <2>2, <2>3, <2>4, <2>5 DEF watch_in
<1>3. TcpInv(Response)'
  BY <1>1, <1>2, SendInv DEF WInv, Response, Payload
<1>4. QED BY <1>1, <1>2, <1>3 DEF WInv

LEMMA WatchOutInv ==
  ASSUME WInv, NEW c \in Conn, NEW n \in 1..(Packets + 1), watch_out(c, n)
  PROVE  WInv'
<1>1. UNCHANGED <<app, acked, rcv_nxt, output, requested, up>>
  BY DEF watch_out
<1>2. /\ requested' \subseteq Conn /\ up' \subseteq Conn /\ arriving' \subseteq Response
  BY DEF watch_out, WInv, TcpInv, TcpTypes, Response
<1>3. TcpInv(Response)'
  BY <1>1, <1>2, SendInv DEF WInv, Response, Payload
<1>4. temp_path' \in BOOLEAN /\ object' \in {1, NULL}
  BY DEF watch_out, Store, WInv
<1>5. QED BY <1>3, <1>4 DEF WInv

LEMMA WStep ==
  ASSUME WInv, [WNext]_wVars
  PROVE  WInv'
<1>1. CASE Endpoint /\ UNCHANGED <<temp_path, object>>
  <2>1. TcpInv(Response)'
    BY <1>1, WriteInv, ReceiveInv, ResponseShape
    DEF WInv, Endpoint, Response, Payload
  <2>2. QED BY <1>1, <2>1 DEF WInv
<1>2. CASE \E c \in Conn :
             watch_in(c) \/ \E n \in 1..(Packets + 1) : watch_out(c, n)
  BY <1>2, WatchInInv, WatchOutInv
<1>3. CASE UNCHANGED wVars
  <2>1. requested \subseteq Conn /\ up \subseteq Conn /\ arriving \subseteq Response
    BY DEF WInv, TcpInv, TcpTypes
  <2>2. TcpInv(Response)'
    BY <1>3, <2>1, SendInv DEF WInv, wVars, tcpVars, Response, Payload
  <2>3. QED BY <1>3, <2>2 DEF WInv, wVars
<1>4. QED
  BY <1>1, <1>2, <1>3 DEF WNext

\* The inductive invariant: whatever reaches a client is a packet of the
\* response under its number, and what is cached is the first of them.
THEOREM WcacheTcpInvariant == WSpec => []WInv
<1>1. WInit => WInv
  BY TcpInitInv DEF WInit, WInv
<1>2. QED
  BY <1>1, WStep, PTL DEF WSpec

\* Types; only packets with a payload are stored (hook.c:254).
THEOREM WcacheTcpTypes == WSpec => []WTypeOK
<1>1. WInv => WTypeOK
  <2>1. SUFFICES ASSUME WInv PROVE WTypeOK
    OBVIOUS
  <2>2. \A c \in Conn : output[c] \in Seq(1..Packets)
    <3> SUFFICES ASSUME NEW c \in Conn PROVE output[c] \in Seq(1..Packets)
      OBVIOUS
    <3>1. /\ output[c] \in Seq({pkt.data : pkt \in Response})
          /\ Len(output[c]) \in 0..Packets /\ Packets \in Nat
      BY <2>1, TcpAssumption DEF WInv, TcpInv, Progress
    <3>2. ASSUME NEW n \in 1..Len(output[c]) PROVE output[c][n] \in 1..Packets
      <4>1. n \in 1..Packets
        BY <3>1
      <4>2. QED BY <2>1, <4>1, ReadsResponse, <3>1
    <3>3. QED BY <3>1, <3>2
  <2>3. arriving \subseteq [conn : Conn, seq : 1..(Packets + 1),
                            data : (1..Packets) \cup {FIN}]
    <3>1. arriving \subseteq Response
      BY <2>1 DEF WInv, TcpInv
    <3>2. \A n \in 1..(Packets + 1) : Payload(n) \in (1..Packets) \cup {FIN}
      BY TcpAssumption DEF Payload
    <3>3. QED BY <3>1, <3>2 DEF Response
  <2>4. QED
    BY <2>1, <2>2, <2>3, TcpAssumption DEF WInv, TcpInv, TcpTypes, WTypeOK, TcpTypeOK
<1>2. QED
  BY <1>1, WcacheTcpInvariant, PTL

\* A client reads the response from its beginning and without a gap, though
\* some packets come from the cache (hook.c:155) and some from the server.
THEOREM WcacheTcpIntact == WSpec => []Intact
<1>1. WInv => Intact
  <2>1. SUFFICES ASSUME WInv, NEW c \in Conn
                 PROVE  output[c] = [n \in 1..Len(output[c]) |-> n]
    BY DEF Intact
  <2>2. output[c] \in Seq({pkt.data : pkt \in Response}) /\ Len(output[c]) \in 0..Packets
    BY <2>1 DEF WInv, TcpInv, Progress
  <2>3. ASSUME NEW n \in 1..Len(output[c]) PROVE output[c][n] = n
    BY <2>1, ReadsResponse
  <2>4. QED BY <2>2, <2>3
<1>2. QED
  BY <1>1, WcacheTcpInvariant, PTL

\* A client whose read has returned 0 (client.c:34) has read all of it.
THEOREM WcacheTcpDoneComplete == WSpec => []DoneComplete
<1>1. WInv => DoneComplete
  BY DEF WInv, TcpInv, Progress, DoneComplete
<1>2. QED
  BY <1>1, WcacheTcpInvariant, PTL
=============================================================================
