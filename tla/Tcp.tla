--------------------------------- MODULE Tcp ---------------------------------
(***************************************************************************)
(* TCP around the hooks: the programs of client/ that fetch one page, one  *)
(* connection each, and as much of TCP and of the server as decides what   *)
(* they read and when they stop.  The module that extends this one says    *)
(* what a hook does with the packets.                                      *)
(*                                                                         *)
(* client/client.c, nclient.c and sclient.c do the same here: connect,     *)
(* write the request, read until read returns 0, close.                    *)
(*                                                                         *)
(* Abstractions.                                                           *)
(*  - A sequence number is relative to the initial one of its connection,  *)
(*    and a packet with a payload takes one: the request is number 1, the  *)
(*    packets of the response are 1..Packets, and the FIN that the server  *)
(*    sends after them (Connection: Close) is the next.                    *)
(*  - The three-way handshake and packets that only acknowledge are left   *)
(*    out: the hooks let them pass.                                        *)
(*  - The network delays, reorders and duplicates what it carries.         *)
(***************************************************************************)
EXTENDS Integers, Sequences

CONSTANTS
  Conn,     \* connections, one for each run of a client
  Packets,  \* number of packets the response takes
  FIN       \* what the last packet carries instead of a payload

ASSUME TcpAssumption == Packets \in Nat \ {0} /\ FIN \notin Nat

VARIABLES
  app,        \* "idle", "reading" or "done", for each connection
  acked,      \* the connections whose request was acknowledged
  rcv_nxt,    \* the next number the client's TCP expects
  output,     \* what the client has read
  requested,  \* the connections whose request has reached the server
  up,         \* requests on the way to PRE_ROUTING
  arriving    \* packets on the way to the client

tcpVars == <<app, acked, rcv_nxt, output, requested, up, arriving>>

Payload(n) == IF n > Packets THEN FIN ELSE n

\* connect and write.
Write(c) ==
  /\ app[c] = "idle"
  /\ app' = [app EXCEPT ![c] = "reading"]
  /\ up' = up \cup {c}
  /\ UNCHANGED <<acked, rcv_nxt, output, requested, arriving>>

\* The client's TCP repeats a request nobody has acknowledged.
Retransmit(c) ==
  /\ app[c] = "reading" /\ c \notin acked
  /\ up' = up \cup {c}
  /\ UNCHANGED <<app, acked, rcv_nxt, output, requested, arriving>>

\* The client's TCP takes a packet in order, or one it has already.
Receive(pkt) ==
  /\ pkt \in arriving
  /\ app[pkt.conn] = "done" \/ pkt.seq <= rcv_nxt[pkt.conn]
  /\ arriving' = arriving \ {pkt}
  /\ acked' = acked \cup {pkt.conn}
  /\ IF app[pkt.conn] = "done" \/ pkt.seq # rcv_nxt[pkt.conn]
     THEN UNCHANGED <<app, rcv_nxt, output>>
     ELSE /\ rcv_nxt' = [rcv_nxt EXCEPT ![pkt.conn] = @ + 1]
          /\ IF pkt.data = FIN
             THEN /\ app' = [app EXCEPT ![pkt.conn] = "done"]
                  /\ UNCHANGED output
             ELSE /\ output' = [output EXCEPT ![pkt.conn] = Append(@, pkt.data)]
                  /\ UNCHANGED app
  /\ UNCHANGED <<requested, up>>

TcpInit ==
  /\ app = [c \in Conn |-> "idle"]
  /\ acked = {}
  /\ rcv_nxt = [c \in Conn |-> 1]
  /\ output = [c \in Conn |-> <<>>]
  /\ requested = {} /\ up = {} /\ arriving = {}

\* Every variable of the module has its type.
TcpTypeOK ==
  /\ app \in [Conn -> {"idle", "reading", "done"}]
  /\ acked \subseteq Conn
  /\ rcv_nxt \in [Conn -> 1..(Packets + 2)]
  /\ \A c \in Conn : output[c] \in Seq(1..Packets)
  /\ requested \subseteq Conn /\ up \subseteq Conn
  /\ arriving \subseteq [conn : Conn, seq : 1..(Packets + 1),
                         data : (1..Packets) \cup {FIN}]
=============================================================================
