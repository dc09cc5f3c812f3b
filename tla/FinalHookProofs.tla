--------------------------- MODULE FinalHookProofs ---------------------------
(***************************************************************************)
(* The numbers keep the pages of hook/final/sample.c apart, for any number *)
(* of connections and any numbers that are apart themselves, whatever is   *)
(* lost, delayed or sent again and whichever calls fail.                   *)
(***************************************************************************)
EXTENDS FinalHook, TLAPS

\* The numbers watch_in may have kept.
Kept == {0} \cup {Isn[c] : c \in index}

\* What may be on the way to a client.
Packet ==
  {[conn |-> c, seq |-> 0, data |-> "ACK"] : c \in Conn}
  \cup {[conn |-> c, seq |-> Isn[c], data |-> "page"] : c \in Conn}
  \cup {[conn |-> c, seq |-> Isn[c] + 1, data |-> "FIN"] : c \in Conn}
  \cup {[conn |-> c, seq |-> s, data |-> "app_data"] : c \in Conn, s \in Kept}

STypes ==
  /\ index \subseteq Conn
  /\ app \in [Conn -> {"idle", "reading", "shut", "done"}]
  /\ acked \subseteq Conn /\ requested \subseteq Conn /\ up \subseteq Conn
  /\ rcv_nxt \in [Conn -> Nat]
  /\ output = [c \in Conn |-> output[c]]
  /\ arriving \subseteq Packet
  /\ sequence_number \in Kept
  /\ oops \in BOOLEAN

\* c has read one page, and one it asked for.
OnePage(c) == output[c] = <<"page">> \/ (c \in index /\ output[c] = <<"app_data">>)

Progress(c) ==
  \/ app[c] # "done" /\ rcv_nxt[c] = Isn[c] /\ output[c] = <<>>
  \/ app[c] # "done" /\ rcv_nxt[c] = Isn[c] + 1 /\ OnePage(c)
  \/ app[c] = "done" /\ rcv_nxt[c] = Isn[c] + 2 /\ OnePage(c)

SInv == STypes /\ \A c \in Conn : Progress(c)

LEMMA IsnType == ASSUME NEW c \in Conn PROVE Isn[c] \in Nat /\ Isn[c] > 0
  BY FinalAssumption

LEMMA PacketsFixed ==
  ASSUME UNCHANGED index PROVE Kept' = Kept /\ Packet' = Packet
<1>1. Kept' = Kept
  BY DEF Kept
<1>2. QED BY <1>1 DEF Packet

\* Under the number a client expects there is the page, the answer to its own
\* request for /index.html, or the FIN after them.
LEMMA NextPacket ==
  ASSUME SInv, NEW pkt \in Packet, pkt.data # "ACK",
         app[pkt.conn] # "done", pkt.seq = rcv_nxt[pkt.conn]
  PROVE  /\ pkt.conn \in Conn
         /\ \/ /\ rcv_nxt[pkt.conn] = Isn[pkt.conn]
               /\ \/ pkt.data = "page"
                  \/ pkt.data = "app_data" /\ pkt.conn \in index
            \/ rcv_nxt[pkt.conn] = Isn[pkt.conn] + 1 /\ pkt.data = "FIN"
<1>1. PICK c \in Conn :
        \/ pkt = [conn |-> c, seq |-> Isn[c], data |-> "page"]
        \/ pkt = [conn |-> c, seq |-> Isn[c] + 1, data |-> "FIN"]
        \/ \E s \in Kept : pkt = [conn |-> c, seq |-> s, data |-> "app_data"]
  BY DEF Packet
<1>2. pkt.conn = c /\ rcv_nxt[c] \in Isn[c]..(Isn[c] + 1) /\ Isn[c] \in Nat /\ Isn[c] > 0
  BY <1>1, IsnType DEF SInv, Progress
<1>3. CASE pkt = [conn |-> c, seq |-> Isn[c], data |-> "page"]
  BY <1>2, <1>3
<1>4. CASE pkt = [conn |-> c, seq |-> Isn[c] + 1, data |-> "FIN"]
  BY <1>2, <1>4
<1>5. CASE \E s \in Kept : pkt = [conn |-> c, seq |-> s, data |-> "app_data"]
  <2>1. pkt.seq \in Kept /\ pkt.data = "app_data" /\ pkt.seq \in Isn[c]..(Isn[c] + 1)
    BY <1>2, <1>5
  <2>2. PICK d \in index : pkt.seq = Isn[d]
    BY <1>2, <2>1 DEF Kept
  <2>3. d = c
    BY <1>2, <2>1, <2>2, FinalAssumption DEF SInv, STypes
  <2>4. QED BY <1>2, <2>1, <2>2, <2>3
<1>6. QED BY <1>1, <1>3, <1>4, <1>5

LEMMA ReceiveInv ==
  ASSUME SInv, NEW pkt \in OnTheWay, Receive(pkt)
  PROVE  SInv'
<1>1. pkt \in Packet /\ STypes
  BY DEF SInv, STypes, OnTheWay, Response, Packet
<1>2. pkt.conn \in Conn
  BY <1>1 DEF Packet
<1>3. /\ UNCHANGED <<index, requested, up, sequence_number, oops>>
      /\ arriving' \subseteq Packet' /\ sequence_number' \in Kept'
      /\ acked' \subseteq Conn
      /\ app[pkt.conn] # "done"
  <2>1. UNCHANGED index
    BY DEF Receive
  <2>2. Kept' = Kept /\ Packet' = Packet
    BY <2>1, PacketsFixed
  <2>3. QED BY <1>1, <1>2, <2>2 DEF Receive, STypes
<1>4. CASE pkt.seq # rcv_nxt[pkt.conn] \/ pkt.data = "ACK"
  <2>1. UNCHANGED <<app, rcv_nxt, output>>
    BY <1>4 DEF Receive
  <2>2. QED BY <1>1, <1>3, <2>1 DEF SInv, STypes, Progress, OnePage
<1>5. CASE pkt.seq = rcv_nxt[pkt.conn] /\ pkt.data # "ACK"
  <2> DEFINE c == pkt.conn
  <2>1. /\ \/ rcv_nxt[c] = Isn[c] /\ pkt.data = "page"
           \/ rcv_nxt[c] = Isn[c] /\ pkt.data = "app_data" /\ c \in index
           \/ rcv_nxt[c] = Isn[c] + 1 /\ pkt.data = "FIN"
        /\ Isn[c] \in Nat /\ Progress(c)
    BY <1>1, <1>2, <1>3, <1>5, NextPacket, IsnType DEF SInv
  <2>2. rcv_nxt' = [rcv_nxt EXCEPT ![c] = @ + 1]
    BY <1>5 DEF Receive
  <2>3. CASE pkt.data = "FIN"
    <3>1. app' = [app EXCEPT ![c] = "done"] /\ UNCHANGED output
      BY <1>5, <2>3 DEF Receive
    <3>2. STypes'
      BY <1>1, <1>2, <1>3, <2>2, <3>1 DEF STypes
    <3>3. ASSUME NEW d \in Conn PROVE Progress(d)'
      <4>1. CASE d = c
        <5>1. rcv_nxt[c] = Isn[c] + 1 /\ OnePage(c) /\ Isn[c] \in Nat
          BY <2>1, <2>3 DEF Progress
        <5>2. rcv_nxt'[c] = Isn[c] + 2 /\ app'[c] = "done"
          BY <1>1, <1>2, <2>2, <3>1, <5>1 DEF STypes
        <5>3. OnePage(c)'
          BY <1>3, <3>1, <5>1 DEF OnePage
        <5>4. QED BY <4>1, <5>2, <5>3 DEF Progress
      <4>2. CASE d # c
        BY <1>1, <1>2, <1>3, <2>2, <3>1, <4>2 DEF STypes, SInv, Progress, OnePage
      <4>3. QED BY <4>1, <4>2
    <3>4. QED BY <3>2, <3>3 DEF SInv
  <2>4. CASE pkt.data # "FIN"
    <3>1. /\ output' = [output EXCEPT ![c] = Append(@, pkt.data)]
          /\ UNCHANGED app
      BY <1>5, <2>4 DEF Receive
    <3>2. STypes'
      <4>1. output' = [d \in Conn |-> output'[d]]
        BY <1>1, <3>1 DEF STypes
      <4>2. rcv_nxt' \in [Conn -> Nat]
        BY <1>1, <1>2, <2>2 DEF STypes
      <4>3. QED BY <1>1, <1>3, <3>1, <4>1, <4>2 DEF STypes
    <3>3. ASSUME NEW d \in Conn PROVE Progress(d)'
      <4>1. CASE d = c
        <5>1. output[c] = <<>> /\ output'[c] = Append(<<>>, pkt.data)
          <6>1. output[c] = <<>>
            BY <2>1, <2>4 DEF Progress
          <6>2. output'[c] = Append(output[c], pkt.data)
            BY <1>1, <1>2, <3>1 DEF STypes
          <6>3. QED BY <6>1, <6>2
        <5>2. OnePage(c)'
          BY <1>3, <2>1, <2>4, <5>1 DEF OnePage
        <5>3. rcv_nxt'[c] = Isn[c] + 1 /\ app'[c] # "done"
          <6>1. rcv_nxt[c] = Isn[c]
            BY <2>1, <2>4
          <6>2. QED BY <1>1, <1>2, <1>3, <1>5, <2>1, <2>2, <3>1, <6>1 DEF STypes
        <5>4. QED BY <4>1, <5>2, <5>3 DEF Progress
      <4>2. CASE d # c
        BY <1>1, <1>2, <1>3, <2>2, <3>1, <4>2 DEF STypes, SInv, Progress, OnePage
      <4>3. QED BY <4>1, <4>2
    <3>4. QED BY <3>2, <3>3 DEF SInv
  <2>5. QED BY <2>3, <2>4
<1>6. QED BY <1>4, <1>5

LEMMA ClientInv ==
  ASSUME SInv, NEW c \in Conn, Write(c) \/ Shutdown(c) \/ Retransmit(c)
  PROVE  SInv'
<1>1. STypes /\ \A d \in Conn : Progress(d)
  BY DEF SInv
<1>2. CASE Write(c) \/ Shutdown(c)
  <2>1. PICK a \in {"reading", "shut"} : app' = [app EXCEPT ![c] = a] /\ app[c] # "done"
    BY <1>2 DEF Write, Shutdown
  <2>2. /\ up' \subseteq Conn
        /\ UNCHANGED <<index, acked, rcv_nxt, output, requested, arriving, sequence_number, oops>>
    BY <1>1, <1>2 DEF Write, Shutdown, STypes
  <2>3. QED BY <1>1, <2>1, <2>2, PacketsFixed DEF SInv, STypes, Progress, OnePage
<1>3. CASE Retransmit(c)
  BY <1>1, <1>3, PacketsFixed DEF Retransmit, SInv, STypes, Progress, OnePage
<1>4. QED BY <1>2, <1>3

LEMMA WatchInInv ==
  ASSUME SInv, NEW pkt \in Incoming, watch_in(pkt)
  PROVE  SInv'
<1>1. STypes /\ pkt[1] \in {"GET", "FIN"} /\ pkt[2] \in Conn
  BY DEF SInv, STypes, Incoming
<1>2. /\ UNCHANGED <<index, app, acked, rcv_nxt, output>>
      /\ up' \subseteq Conn
  BY <1>1 DEF watch_in, STypes
<1>a. Kept' = Kept /\ Packet' = Packet
  BY <1>2, PacketsFixed
<1>3. /\ requested' \subseteq Conn /\ arriving' \subseteq Packet
      /\ sequence_number' \in Kept /\ oops' \in BOOLEAN
  <2>1. CASE watch_in_no_device(pkt)
    BY <1>1, <2>1 DEF watch_in_no_device, STypes
  <2>2. CASE watch_in_fin(pkt[2])
    <3>1. /\ \A a \in Transmitted(Acknowledgment(pkt[2])) : a \subseteq Packet
          /\ \A d \in Transmitted(Answer(pkt[2])) : d \subseteq Packet
      BY <1>1 DEF Transmitted, Acknowledgment, Answer, Packet, STypes
    <3>2. QED BY <1>1, <2>2, <3>1 DEF watch_in_fin, STypes
  <2>3. CASE watch_in_not_linear
    BY <1>1, <2>3 DEF watch_in_not_linear, STypes
  <2>4. CASE watch_in_other(pkt[2])
    BY <1>1, <2>4 DEF watch_in_other, STypes
  <2>5. CASE watch_in_index(pkt[2])
    BY <1>1, <2>5 DEF watch_in_index, STypes, Kept
  <2>6. QED BY <2>1, <2>2, <2>3, <2>4, <2>5 DEF watch_in
<1>4. QED BY <1>1, <1>2, <1>3, <1>a DEF SInv, STypes, Progress, OnePage

LEMMA SInitEstablishes == SInit => SInv
  BY FinalAssumption DEF SInit, SInv, STypes, Progress, Kept

LEMMA SStep == SInv /\ [SNext]_sVars => SInv'
<1>1. SInv /\ UNCHANGED sVars => SInv'
  BY PacketsFixed DEF SInv, sVars, STypes, Progress, OnePage
<1>2. QED
  BY <1>1, ClientInv, ReceiveInv, WatchInInv DEF SNext

\* The inductive invariant: a client has read nothing, one page it asked for, or
\* that page and the FIN.
THEOREM FinalInvariant == SSpec => []SInv
  BY SInitEstablishes, SStep, PTL DEF SSpec

\* Types; the number that is kept is that of a request for /index.html
\* (sample.c:259).
THEOREM FinalTypes == SSpec => []STypeOK
<1>1. SInv => STypeOK
  <2>1. ASSUME SInv, NEW c \in Conn PROVE rcv_nxt[c] \in Isn[c]..(Isn[c] + 2)
    BY <2>1, IsnType DEF SInv, Progress
  <2>2. QED BY <2>1 DEF SInv, STypes, STypeOK, Kept
<1>2. QED
  BY <1>1, FinalInvariant, PTL

\* No client reads the page of /index.html unless it asked for it, and none reads
\* two, though every FIN is answered under the number kept last (sample.c:259).
THEOREM FinalOwnPage == SSpec => []OwnPage
<1>1. SInv => OwnPage
  BY DEF SInv, Progress, OnePage, OwnPage
<1>2. QED
  BY <1>1, FinalInvariant, PTL
=============================================================================
