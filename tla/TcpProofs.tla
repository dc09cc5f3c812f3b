------------------------------ MODULE TcpProofs ------------------------------
(***************************************************************************)
(* What the client's TCP does for the modules that extend Tcp: a client    *)
(* reads packets of the set S that may be on the way to it, in the order   *)
(* of their numbers and without a gap, and its read returns 0 after the    *)
(* last of them.                                                           *)
(***************************************************************************)
EXTENDS Tcp, TLAPS

\* S has the packets of every connection under their numbers, and only the FIN
\* under the last one.
Shape(S) ==
  \A pkt \in S :
    /\ pkt.conn \in Conn
    /\ pkt.seq \in 1..(Packets + 1)
    /\ pkt = [conn |-> pkt.conn, seq |-> pkt.seq, data |-> pkt.data]
    /\ pkt.data = FIN <=> pkt.seq = Packets + 1

TcpTypes ==
  /\ app \in [Conn -> {"idle", "reading", "done"}]
  /\ acked \subseteq Conn /\ requested \subseteq Conn /\ up \subseteq Conn
  /\ rcv_nxt \in [Conn -> 1..(Packets + 2)]
  /\ output = [c \in Conn |-> output[c]]

\* What c has read, and the number it expects next.
Progress(c, S) ==
  /\ output[c] \in Seq({pkt.data : pkt \in S})
  /\ Len(output[c]) \in 0..Packets
  /\ rcv_nxt[c] = IF app[c] = "done" THEN Packets + 2 ELSE Len(output[c]) + 1
  /\ app[c] = "done" => Len(output[c]) = Packets
  /\ \A n \in 1..Len(output[c]) : [conn |-> c, seq |-> n, data |-> output[c][n]] \in S

TcpInv(S) ==
  /\ TcpTypes
  /\ arriving \subseteq S
  /\ \A c \in Conn : Progress(c, S)

LEMMA TcpInitInv ==
  ASSUME NEW S, TcpInit
  PROVE  TcpInv(S)
<1>1. TcpTypes /\ arriving \subseteq S
  BY TcpAssumption DEF TcpInit, TcpTypes
<1>2. ASSUME NEW c \in Conn PROVE Progress(c, S)
  BY TcpAssumption DEF TcpInit, Progress
<1>3. QED
  BY <1>1, <1>2 DEF TcpInv

LEMMA WriteInv ==
  ASSUME NEW S, TcpInv(S), NEW c \in Conn, Write(c) \/ Retransmit(c)
  PROVE  TcpInv(S)'
<1>1. TcpTypes' /\ arriving' \subseteq S
  BY DEF TcpInv, TcpTypes, Write, Retransmit
<1>2. ASSUME NEW d \in Conn PROVE Progress(d, S)'
  BY <1>2 DEF TcpInv, TcpTypes, Progress, Write, Retransmit
<1>3. QED
  BY <1>1, <1>2 DEF TcpInv

\* A step that leaves the client alone and sends packets of S.
LEMMA SendInv ==
  ASSUME NEW S, TcpInv(S), UNCHANGED <<app, acked, rcv_nxt, output>>,
         requested' \subseteq Conn, up' \subseteq Conn, arriving' \subseteq S
  PROVE  TcpInv(S)'
<1>1. ASSUME NEW d \in Conn PROVE Progress(d, S)'
  BY <1>1 DEF TcpInv, Progress
<1>2. QED
  BY <1>1 DEF TcpInv, TcpTypes

\* Packet pkt is the one the client expects.
LEMMA ReceiveNext ==
  ASSUME NEW S, Shape(S), TcpInv(S), NEW pkt \in arriving, Receive(pkt),
         app[pkt.conn] # "done", pkt.seq = rcv_nxt[pkt.conn]
  PROVE  TcpInv(S)'
<1> DEFINE c == pkt.conn
<1>1. pkt \in S /\ c \in Conn /\ pkt.seq = Len(output[c]) + 1
  BY DEF TcpInv, Shape, Progress
<1>2. /\ acked' = acked \cup {c} /\ arriving' = arriving \ {pkt}
      /\ rcv_nxt' = [rcv_nxt EXCEPT ![c] = @ + 1]
      /\ UNCHANGED <<requested, up>>
  BY DEF Receive
<1>3. output[c] \in Seq({p.data : p \in S}) /\ Len(output[c]) \in Nat
  BY <1>1, TcpAssumption DEF TcpInv, Progress
<1>4. /\ Packets \in Nat /\ pkt.seq \in 1..(Packets + 1) /\ rcv_nxt[c] = pkt.seq
      /\ TcpTypes /\ Progress(c, S)
  BY <1>1, TcpAssumption DEF TcpInv, Shape
<1>5. rcv_nxt' \in [Conn -> 1..(Packets + 2)] /\ rcv_nxt'[c] = pkt.seq + 1
  BY <1>1, <1>2, <1>4 DEF TcpTypes
<1>6. acked' \subseteq Conn /\ UNCHANGED <<requested, up>>
  BY <1>1, <1>2, <1>4 DEF TcpTypes
<1>7. CASE pkt.data = FIN
  <2>1. /\ app' = [app EXCEPT ![c] = "done"] /\ UNCHANGED output
        /\ pkt.seq = Packets + 1
    BY <1>1, <1>7 DEF Receive, Shape
  <2>2. TcpTypes'
    BY <1>4, <1>5, <1>6, <2>1 DEF TcpTypes
  <2>3. ASSUME NEW d \in Conn PROVE Progress(d, S)'
    <3>1. CASE d = c
      BY <1>1, <1>4, <1>5, <2>1, <3>1 DEF TcpTypes, Progress
    <3>2. CASE d # c
      BY <1>1, <1>2, <2>1, <3>2 DEF TcpInv, TcpTypes, Progress
    <3>3. QED BY <3>1, <3>2
  <2>4. QED BY <1>2, <2>2, <2>3 DEF TcpInv
<1>8. CASE pkt.data # FIN
  <2>1. /\ output' = [output EXCEPT ![c] = Append(@, pkt.data)] /\ UNCHANGED app
        /\ pkt.seq \in 1..Packets
    BY <1>1, <1>4, <1>8 DEF Receive, TcpInv, Shape
  <2>2. TcpTypes'
    BY <1>4, <1>5, <1>6, <2>1 DEF TcpTypes
  <2>3. ASSUME NEW d \in Conn PROVE Progress(d, S)'
    <3>1. CASE d = c
      <4>1. /\ output'[c] = Append(output[c], pkt.data)
            /\ rcv_nxt'[c] = Len(output[c]) + 2
            /\ app'[c] # "done"
        BY <1>1, <1>4, <1>5, <2>1 DEF TcpTypes
      <4>2. /\ output'[c] \in Seq({p.data : p \in S})
            /\ Len(output'[c]) = Len(output[c]) + 1
            /\ output'[c][Len(output[c]) + 1] = pkt.data
            /\ \A n \in 1..Len(output[c]) : output'[c][n] = output[c][n]
        BY <1>1, <1>3, <4>1
      <4>3. ASSUME NEW n \in 1..Len(output'[c])
            PROVE  [conn |-> c, seq |-> n, data |-> output'[c][n]] \in S
        <5>1. CASE n = Len(output[c]) + 1
          BY <1>1, <4>2, <5>1 DEF Shape
        <5>2. CASE n # Len(output[c]) + 1
          <6>1. n \in 1..Len(output[c])
            BY <1>3, <4>2, <5>2
          <6>2. QED BY <1>1, <4>2, <6>1 DEF TcpInv, Progress
        <5>3. QED BY <5>1, <5>2
      <4>4. QED BY <1>1, <1>4, <2>1, <3>1, <4>1, <4>2, <4>3 DEF Progress
    <3>2. CASE d # c
      BY <1>1, <1>2, <2>1, <3>2 DEF TcpInv, TcpTypes, Progress
    <3>3. QED BY <3>1, <3>2
  <2>4. QED BY <1>2, <2>2, <2>3 DEF TcpInv
<1>9. QED BY <1>7, <1>8

\* A packet the client has already, or one that comes after the end, changes
\* nothing it has read.
LEMMA ReceiveInv ==
  ASSUME NEW S, Shape(S), TcpInv(S), NEW pkt \in arriving, Receive(pkt)
  PROVE  TcpInv(S)'
<1>1. CASE app[pkt.conn] # "done" /\ pkt.seq = rcv_nxt[pkt.conn]
  BY <1>1, ReceiveNext
<1>2. CASE app[pkt.conn] = "done" \/ pkt.seq # rcv_nxt[pkt.conn]
  <2>1. /\ acked' = acked \cup {pkt.conn} /\ arriving' \subseteq S
        /\ UNCHANGED <<app, rcv_nxt, output, requested, up>>
    BY <1>2 DEF Receive, TcpInv
  <2>2. ASSUME NEW d \in Conn PROVE Progress(d, S)'
    BY <2>1, <2>2 DEF TcpInv, Progress
  <2>3. pkt.conn \in Conn
    BY DEF Shape, TcpInv
  <2>4. QED BY <2>1, <2>2, <2>3 DEF TcpInv, TcpTypes
<1>3. QED BY <1>1, <1>2
=============================================================================
