-------------------------- MODULE SampleHookProofs --------------------------
(***************************************************************************)
(* hook/sample.c puts its page in the place of the first packet and of no  *)
(* other, for any number of connections and packets, whichever calls fail  *)
(* and whenever the module comes or goes.                                  *)
(***************************************************************************)
EXTENDS SampleHook, TcpProofs

\* What may be on the way to a client: the server's packets, and app_data.
Sent ==
  {[conn |-> c, seq |-> n, data |-> Payload(n)] : c \in Conn, n \in 1..(Packets + 1)}
  \cup {[conn |-> c, seq |-> 1, data |-> app_data] : c \in index}

MInv ==
  /\ TcpInv(Sent)
  /\ index \subseteq Conn
  /\ pc \in {"start", "pre_ready", "loaded", "pre_gone", "unloaded"}
  /\ hooks \subseteq {"pre", "post"}
  /\ leaked \in BOOLEAN

LEMMA SentShape ==
  ASSUME index \subseteq Conn
  PROVE  Shape(Sent)
<1>1. ASSUME NEW c \in Conn, NEW n \in 1..(Packets + 1)
      PROVE  n = Packets + 1 <=> Payload(n) = FIN
  BY TcpAssumption DEF Payload
<1>2. 1 \in 1..(Packets + 1) /\ 1 # Packets + 1
  BY TcpAssumption
<1>3. QED
  BY <1>1, <1>2, SampleAssumption DEF Shape, Sent

LEMMA InSent ==
  ASSUME NEW c, NEW n, NEW x, [conn |-> c, seq |-> n, data |-> x] \in Sent
  PROVE  x = Payload(n) \/ (c \in index /\ n = 1 /\ x = app_data)
<1>1. CASE \E d \in Conn, m \in 1..(Packets + 1) :
        [conn |-> c, seq |-> n, data |-> x] = [conn |-> d, seq |-> m, data |-> Payload(m)]
  <2>1. PICK d \in Conn, m \in 1..(Packets + 1) :
          [conn |-> c, seq |-> n, data |-> x] = [conn |-> d, seq |-> m, data |-> Payload(m)]
    BY <1>1
  <2>2. n = m /\ x = Payload(m)
    BY <2>1
  <2>3. QED BY <2>2
<1>2. CASE \E d \in index :
        [conn |-> c, seq |-> n, data |-> x] = [conn |-> d, seq |-> 1, data |-> app_data]
  BY <1>2
<1>3. QED BY <1>1, <1>2 DEF Sent

\* A step that leaves the clients and their wishes alone, and sends what may be
\* sent.
LEMMA HookInv ==
  ASSUME MInv, UNCHANGED <<client, index>>,
         requested' \subseteq Conn, up' \subseteq Conn, arriving' \subseteq Sent
  PROVE  TcpInv(Sent)'
<1>1. UNCHANGED Sent
  BY DEF Sent, Payload
<1>2. UNCHANGED <<app, acked, rcv_nxt, output>>
  BY DEF client
<1>3. ASSUME NEW S, S = Sent PROVE TcpInv(S)'
  BY <1>2, <1>3, SendInv DEF MInv
<1>4. QED BY <1>1, <1>3 DEF TcpInv, TcpTypes, Progress

LEMMA PreRoutingInv ==
  ASSUME MInv, NEW c \in Conn, PreRouting(c)
  PROVE  MInv'
<1>1. /\ UNCHANGED <<client, index, pc, hooks>> /\ up' \subseteq Conn
      /\ requested \subseteq Conn /\ arriving \subseteq Sent
  BY DEF PreRouting, MInv, TcpInv, TcpTypes
<1>2. requested' \subseteq Conn /\ arriving' \subseteq Sent /\ leaked' \in BOOLEAN
  <2>1. CASE watch_in_no_buffer(c)
    BY <1>1, <2>1 DEF watch_in_no_buffer, Pass, MInv
  <2>2. CASE watch_in_not_linear
    BY <1>1, <2>2 DEF watch_in_not_linear, Drop
  <2>3. CASE watch_in_other(c)
    BY <1>1, <2>3 DEF watch_in_other, Pass
  <2>4. CASE watch_in_index(c)
    <3>1. Reply(c) \subseteq Sent
      BY <2>4 DEF watch_in_index, Reply, Sent
    <3>2. QED BY <1>1, <2>4, <3>1 DEF watch_in_index, Drop, Pass, MInv
  <2>5. CASE Pass(c) /\ UNCHANGED leaked
    BY <1>1, <2>5 DEF Pass, MInv
  <2>6. QED BY <2>1, <2>2, <2>3, <2>4, <2>5 DEF PreRouting, watch_in
<1>3. TcpInv(Sent)'
  BY <1>1, <1>2, HookInv
<1>4. QED BY <1>1, <1>2, <1>3 DEF MInv

LEMMA PostRoutingInv ==
  ASSUME MInv, NEW c \in Conn, NEW n \in 1..(Packets + 1), PostRouting(c, n)
  PROVE  MInv'
<1>1. /\ UNCHANGED <<client, index, pc, hooks, leaked, requested, up>>
      /\ requested \subseteq Conn /\ up \subseteq Conn /\ arriving \subseteq Sent
  BY DEF PostRouting, MInv, TcpInv, TcpTypes
<1>2. [conn |-> c, seq |-> n, data |-> Payload(n)] \in Sent
  BY DEF Sent
<1>3. arriving' \subseteq Sent
  BY <1>1, <1>2 DEF PostRouting, watch_out
<1>4. TcpInv(Sent)'
  BY <1>1, <1>3, HookInv
<1>5. QED BY <1>1, <1>4 DEF MInv

LEMMA MStep ==
  ASSUME MInv, [MNext]_mVars
  PROVE  MInv'
<1>1. CASE Endpoint
  <2>1. UNCHANGED <<index, pc, hooks, leaked, Sent>>
    BY <1>1 DEF Endpoint, Sent, Payload
  <2>2. ASSUME NEW S, S = Sent PROVE TcpInv(S)'
    BY <1>1, <2>2, WriteInv, ReceiveInv, SentShape DEF MInv, Endpoint
  <2>3. TcpInv(Sent)'
    BY <2>1, <2>2 DEF TcpInv, TcpTypes, Progress
  <2>4. QED BY <2>1, <2>3 DEF MInv
<1>2. CASE \E c \in Conn : PreRouting(c) \/ \E n \in 1..(Packets + 1) : PostRouting(c, n)
  BY <1>2, PreRoutingInv, PostRoutingInv
<1>3. ASSUME UNCHANGED <<tcpVars, index>> PROVE TcpInv(Sent)'
  <2>1. requested \subseteq Conn /\ up \subseteq Conn /\ arriving \subseteq Sent
    BY DEF MInv, TcpInv, TcpTypes
  <2>2. QED BY <1>3, <2>1, HookInv DEF tcpVars, client
<1>4. CASE watch_in_pass
  BY <1>3, <1>4 DEF watch_in_pass, MInv
<1>5. CASE sample_init
  BY <1>3, <1>5 DEF sample_init, Register, MInv
<1>6. CASE sample_exit
  BY <1>3, <1>6 DEF sample_exit, Unregister, MInv
<1>7. CASE UNCHANGED mVars
  BY <1>3, <1>7 DEF mVars, MInv
<1>8. QED
  BY <1>1, <1>2, <1>4, <1>5, <1>6, <1>7 DEF MNext

\* The inductive invariant: only app_data, under number 1 and for those who asked
\* for /index.html, is ever put among the packets of the server.
THEOREM SampleInvariant == MSpec => []MInv
<1>1. MInit => MInv
  BY TcpInitInv DEF MInit, MInv
<1>2. QED
  BY <1>1, MStep, PTL DEF MSpec

\* Types; the only packet that is not the server's is a first one
\* (sample.c:147).
THEOREM SampleTypes == MSpec => []MTypeOK
<1>1. MInv => MTypeOK
  <2>1. SUFFICES ASSUME MInv PROVE MTypeOK
    OBVIOUS
  <2>2. ASSUME NEW pkt \in arriving
        PROVE  /\ pkt.conn \in Conn /\ pkt.seq \in 1..(Packets + 1)
               /\ \/ pkt.data = Payload(pkt.seq)
                  \/ pkt = [conn |-> pkt.conn, seq |-> 1, data |-> app_data]
    <3>1. pkt \in Sent /\ Shape(Sent)
      BY <2>1, SentShape DEF MInv, TcpInv
    <3>2. QED BY <3>1 DEF Shape, Sent
  <2>3. QED BY <2>1, <2>2 DEF MInv, TcpInv, TcpTypes, MTypeOK
<1>2. QED
  BY <1>1, SampleInvariant, PTL

\* A client reads the response as the server sends it, but for app_data as its
\* first packet if it asked for /index.html (sample.c:108).
THEOREM SampleInPlace == MSpec => []InPlace
<1>1. MInv => InPlace
  <2>1. SUFFICES ASSUME MInv, NEW c \in Conn, NEW n \in 1..Len(output[c])
                 PROVE  output[c][n] = n \/ (n = 1 /\ c \in index /\ output[c][n] = app_data)
    BY DEF InPlace
  <2>2. /\ [conn |-> c, seq |-> n, data |-> output[c][n]] \in Sent
        /\ Len(output[c]) \in 0..Packets /\ Packets \in Nat
    BY <2>1, TcpAssumption DEF MInv, TcpInv, Progress
  <2>3. Payload(n) = n
    BY <2>2 DEF Payload
  <2>4. QED BY <2>2, <2>3, InSent
<1>2. QED
  BY <1>1, SampleInvariant, PTL

\* app_data alone does not end a connection (sample.c:157): a client whose read
\* has returned 0 has read as many packets as the response has.
THEOREM SampleDoneComplete == MSpec => []DoneComplete
<1>1. MInv => DoneComplete
  BY DEF MInv, TcpInv, Progress, DoneComplete
<1>2. QED
  BY <1>1, SampleInvariant, PTL
=============================================================================
