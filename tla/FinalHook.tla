------------------------------ MODULE FinalHook ------------------------------
(***************************************************************************)
(* The kernel module hook/final/sample.c: it swallows a GET /index.html,   *)
(* keeps the numbers of that packet in two global variables, and answers   *)
(* the FIN of any client with a fixed page under these numbers.  Clients   *)
(* and as much of TCP as decides what they read are around it.             *)
(*                                                                         *)
(* Abstractions.                                                           *)
(*  - Sequence numbers are those of the server's side; a packet with a     *)
(*    payload takes one.  Those of the client's side are left out, with    *)
(*    acknowledgment_number: a packet of a foreign connection is told by   *)
(*    either.                                                              *)
(*  - A response of the server is one packet and a FIN; a client sends its *)
(*    request and its FIN in packets of their own.                         *)
(*  - The module is loaded and stays loaded.  Its hook is one atomic step. *)
(*  - Packets that only acknowledge are left out: the hook lets them pass. *)
(*  - The network delays, reorders and duplicates.  The clients' packets   *)
(*    get as far as PRE_ROUTING.  Once a FIN is sent, or a request has     *)
(*    reached the server, a copy of the FIN or of the response may come at *)
(*    any time.                                                            *)
(***************************************************************************)
EXTENDS Integers, Sequences

CONSTANTS
  Conn,       \* connections
  HalfClose,  \* the connections whose client sends its FIN before it has read
  Isn,        \* number of the first packet of a response, per connection
  MayFail     \* the kernel calls that may fail

\* Connections have numbers of their own, as random initial numbers do but for
\* an accident.
ASSUME FinalAssumption ==
  /\ HalfClose \subseteq Conn
  /\ Isn \in [Conn -> Nat]
  /\ \A c \in Conn : Isn[c] > 0 /\ \A d \in Conn \ {c} : Isn[d] \notin Isn[c]..(Isn[c] + 1)

VARIABLES
  index,      \* the connections that ask for /index.html, chosen in SInit
  app,        \* "idle", "reading", "shut" (FIN sent, still reading) or "done"
  acked,      \* the connections whose request was acknowledged
  rcv_nxt,    \* the next number the client's TCP expects
  output,     \* what the client has read
  requested,  \* the connections whose request has reached the server
  up,         \* the connections with a request on the way to PRE_ROUTING
  arriving,   \* packets on the way to the client
  sequence_number,
  oops        \* TRUE after a memory error

sVars == <<index, app, acked, rcv_nxt, output, requested, up, arriving,
           sequence_number, oops>>

-----------------------------------------------------------------------------
\* The clients and their TCP.  Nothing is modelled after a memory error.

Write(c) ==
  /\ ~oops
  /\ app[c] = "idle"
  /\ app' = [app EXCEPT ![c] = "reading"]
  /\ up' = up \cup {c}
  /\ UNCHANGED <<index, acked, rcv_nxt, output, requested, arriving,
                 sequence_number, oops>>

Shutdown(c) ==
  /\ ~oops
  /\ c \in HalfClose
  /\ app[c] = "reading"
  /\ app' = [app EXCEPT ![c] = "shut"]
  /\ UNCHANGED <<index, acked, rcv_nxt, output, requested, up, arriving,
                 sequence_number, oops>>

Retransmit(c) ==
  /\ ~oops
  /\ app[c] # "idle" /\ c \notin acked
  /\ up' = up \cup {c}
  /\ UNCHANGED <<index, app, acked, rcv_nxt, output, requested, arriving,
                 sequence_number, oops>>

\* A client that has closed reads nothing more, and one acknowledgment is as
\* good as two.  What is useless is not kept on the way.
Useful(pkt) ==
  app[pkt.conn] # "done" /\ (pkt.data = "ACK" => pkt.conn \notin acked)

\* An answer under the numbers of another connection.
Foreign(pkt) == pkt.data = "app_data" /\ pkt.seq # Isn[pkt.conn]

\* The server sends its response and a FIN, again and out of order if need be,
\* to a client whose request has reached it.
Response(c) ==
  {[conn |-> c, seq |-> Isn[c], data |-> "page"],
   [conn |-> c, seq |-> Isn[c] + 1, data |-> "FIN"]}

OnTheWay == arriving \cup UNION {Response(c) : c \in requested}

\* A packet in order, one the client has already, or one it has to discard.
Receive(pkt) ==
  /\ ~oops
  /\ app[pkt.conn] # "done"
  /\ pkt.seq <= rcv_nxt[pkt.conn] \/ Foreign(pkt)
  /\ acked' = IF Foreign(pkt) THEN acked ELSE acked \cup {pkt.conn}
  /\ IF pkt.seq # rcv_nxt[pkt.conn] \/ pkt.data = "ACK"
     THEN UNCHANGED <<app, rcv_nxt, output>>
     ELSE /\ rcv_nxt' = [rcv_nxt EXCEPT ![pkt.conn] = @ + 1]
          /\ IF pkt.data = "FIN"
             THEN /\ app' = [app EXCEPT ![pkt.conn] = "done"]
                  /\ UNCHANGED output
             ELSE /\ output' = [output EXCEPT ![pkt.conn] = Append(@, pkt.data)]
                  /\ UNCHANGED app
  /\ arriving' = {q \in arriving \ {pkt} : Useful(q)'}
  /\ UNCHANGED <<index, requested, up, sequence_number, oops>>

-----------------------------------------------------------------------------
\* watch_in.

\* kfree_skb of the uninitialised new_skb.
watch_in_no_device(pkt) ==
  /\ "ens37" \in MayFail
  /\ requested' = IF pkt[1] = "GET" THEN requested \cup {pkt[2]} ELSE requested
  /\ oops' \in BOOLEAN
  /\ UNCHANGED <<arriving, sequence_number>>

\* Acknowledges what came before the FIN, but not the FIN.  Its own number does
\* not matter.
Acknowledgment(c) == [conn |-> c, seq |-> 0, data |-> "ACK"]

\* Mutant: the answer goes by the ack_seq of the FIN.
Answer_by_fin(c) == [conn |-> c, seq |-> rcv_nxt[c], data |-> "app_data"]

\* Mutant: the answer is numbered as if the request had been of this side.
Answer_past(c) == [conn |-> c, seq |-> sequence_number + 1, data |-> "app_data"]

Answer(c) == [conn |-> c, seq |-> sequence_number, data |-> "app_data"]

\* What dev_queue_xmit does with a packet when it reports success.
Transmitted(pkt) ==
  {{p \in {pkt} : Useful(p)}} \cup {{} : x \in {"xmit_congested"} \cap MayFail}

\* After an error of dev_queue_xmit the FIN passes, to a server that does not
\* know the request.
watch_in_fin(c) ==
  \/ /\ \/ \E a \in Transmitted(Acknowledgment(c)), d \in Transmitted(Answer(c)) :
             arriving' = arriving \cup a \cup d
        \/ "xmit_error" \in MayFail /\ UNCHANGED arriving
        \/ /\ "xmit_error" \in MayFail
           /\ \E a \in Transmitted(Acknowledgment(c)) : arriving' = arriving \cup a
     /\ UNCHANGED <<requested, sequence_number, oops>>
  \/ /\ "alloc_skb" \in MayFail
     /\ oops' = TRUE
     /\ UNCHANGED <<requested, arriving, sequence_number>>

watch_in_not_linear ==
  /\ "skb_linearize" \in MayFail
  /\ UNCHANGED <<requested, arriving, sequence_number, oops>>

watch_in_other(c) ==
  /\ c \notin index
  /\ requested' = requested \cup {c}
  /\ UNCHANGED <<arriving, sequence_number, oops>>

\* Mutant: the length of the request is added to the wrong number.
watch_in_index_past(c) ==
  /\ c \in index
  /\ sequence_number' = Isn[c] + 1
  /\ UNCHANGED <<requested, arriving, oops>>

watch_in_index(c) ==
  /\ c \in index
  /\ sequence_number' = Isn[c]
  /\ UNCHANGED <<requested, arriving, oops>>

\* A FIN is sent again and again, for the answer does not acknowledge it.
Incoming == {"GET"} \X up \cup {"FIN"} \X {c \in Conn : app[c] \in {"shut", "done"}}

watch_in(pkt) ==
  /\ pkt \in Incoming /\ ~oops
  /\ up' = up \ {c \in up : pkt = <<"GET", c>>}
  /\ \/ watch_in_no_device(pkt)
     \/ pkt[1] = "FIN" /\ watch_in_fin(pkt[2])
     \/ /\ pkt[1] = "GET"
        /\ watch_in_not_linear \/ watch_in_other(pkt[2]) \/ watch_in_index(pkt[2])
  /\ UNCHANGED <<index, app, acked, rcv_nxt, output>>

-----------------------------------------------------------------------------
SInit ==
  /\ index \in SUBSET Conn
  /\ app = [c \in Conn |-> "idle"]
  /\ acked = {}
  /\ rcv_nxt = Isn
  /\ output = [c \in Conn |-> <<>>]
  /\ requested = {} /\ up = {} /\ arriving = {}
  /\ sequence_number = 0
  /\ oops = FALSE

SNext ==
  \/ \E c \in Conn : Write(c) \/ Shutdown(c) \/ Retransmit(c)
  \/ \E pkt \in OnTheWay : Receive(pkt)
  \/ \E pkt \in Incoming : watch_in(pkt)

SSpec == SInit /\ [][SNext]_sVars

\* The hook has sent its page to c.
Sent(c) == watch_in(<<"FIN", c>>) /\ Answer(c) \in arriving'

\* The next packet c waits for, or one in its place, reaches it.
Reads(c) ==
  \E pkt \in OnTheWay :
    pkt.conn = c /\ pkt.seq = rcv_nxt[c] /\ pkt.data # "ACK" /\ Receive(pkt)

\* The network and the machines go on, TCP sends again what is not
\* acknowledged, and what is sent again and again is not lost every time.
Fairness ==
  \A c \in Conn :
    /\ WF_sVars(Retransmit(c)) /\ WF_sVars(watch_in(<<"GET", c>>))
    /\ SF_sVars(Sent(c)) /\ WF_sVars(Reads(c))

FairSpec == SSpec /\ Fairness

-----------------------------------------------------------------------------
\* Properties.

\* Types; the number that is kept is that of a request for /index.html.
STypeOK ==
  /\ index \subseteq Conn
  /\ app \in [Conn -> {"idle", "reading", "shut", "done"}]
  /\ acked \subseteq Conn /\ requested \subseteq Conn /\ up \subseteq Conn
  /\ \A c \in Conn : rcv_nxt[c] \in Isn[c]..(Isn[c] + 2)
  /\ sequence_number \in {0} \cup {Isn[c] : c \in index}
  /\ oops \in BOOLEAN

\* The FIN of every client is answered with the page of /index.html, whatever
\* it asked for and whoever asked for /index.html last.  Even so no client
\* reads that page unless it asked for it, and none reads two pages: the
\* numbers keep the other answers out.
OwnPage ==
  \A c \in Conn :
    \/ output[c] \in {<<>>, <<"page">>}
    \/ c \in index /\ output[c] = <<"app_data">>

\* The hook keeps the numbers of one request.  A client that has sent its FIN
\* reads the page of /index.html if those kept in the end are its own, though
\* nobody answers the request, the answer to the FIN may be lost, and requests,
\* FINs and answers of others come in between.
Answered ==
  \A c \in Conn :
    <>[](sequence_number = Isn[c]) =>
      (app[c] = "shut" ~> output[c] # <<>> \/ oops)

\* A client that has sent its FIN is answered even so.  It need not be: the
\* acknowledgment of the FIN covers the request, so that a request whose
\* numbers another one has overwritten, or that watch_in has dropped unread,
\* does not come again.
EachAnswered ==
  \A c \in Conn : c \in index /\ app[c] = "shut" ~> output[c] # <<>> \/ oops

\* sclient.c:83 says that the response has been saved when it has read to the
\* end.
Completes == \A c \in Conn : app[c] = "reading" ~> app[c] = "done"
=============================================================================
