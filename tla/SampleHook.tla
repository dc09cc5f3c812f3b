----------------------------- MODULE SampleHook -----------------------------
(***************************************************************************)
(* The kernel module hook/sample.c: watch_in answers GET /index.html with  *)
(* a fixed page of one packet, app_data, and lets the rest pass; watch_out *)
(* looks at responses and prints.  It is loaded and unloaded while the     *)
(* clients of Tcp fetch their pages.                                       *)
(*                                                                         *)
(* Abstractions.                                                           *)
(*  - app_data takes one number, as the first packet of a response does:   *)
(*    it has the length of the page it stands for (sample.c:45).           *)
(*  - A hook is one atomic step, on one CPU.                               *)
(***************************************************************************)
EXTENDS Tcp

CONSTANTS
  app_data,  \* the fixed page
  MayFail    \* the kernel calls that may fail

ASSUME SampleAssumption == app_data \notin Nat /\ app_data # FIN

VARIABLES
  index,  \* the connections that ask for /index.html, chosen in MInit
  pc,     \* the thread of insmod and then rmmod
  hooks,  \* the registered hooks
  leaked  \* TRUE once a buffer was neither sent nor freed

mVars  == <<tcpVars, index, pc, hooks, leaked>>
client == <<app, acked, rcv_nxt, output>>

-----------------------------------------------------------------------------
\* watch_in, for a packet with the request of c.

Pass(c) == requested' = requested \cup {c} /\ UNCHANGED arriving

Drop == UNCHANGED <<requested, arriving>>

\* The buffer is allocated before the packet is looked at; without a buffer or
\* a device the packet passes.
watch_in_no_buffer(c) ==
  /\ MayFail \cap {"alloc_skb", "ens37"} # {}
  /\ Pass(c)
  /\ UNCHANGED leaked

watch_in_not_linear ==
  /\ "skb_linearize" \in MayFail
  /\ Drop
  /\ leaked' = TRUE

watch_in_other(c) ==
  /\ c \notin index
  /\ Pass(c)
  /\ leaked' = TRUE

\* Mutant: the reply goes under the number after the request's ack_seq.
Reply_past(c) == {[conn |-> c, seq |-> 2, data |-> app_data]}

\* Mutant: the reply closes the connection.
Reply_closes(c) ==
  {[conn |-> c, seq |-> 1, data |-> app_data], [conn |-> c, seq |-> 2, data |-> FIN]}

Reply(c) == {[conn |-> c, seq |-> 1, data |-> app_data]}

\* dev_queue_xmit takes the buffer whether it sends it or not; a congested
\* queue counts as success.
watch_in_index(c) ==
  /\ c \in index
  /\ \/ arriving' = arriving \cup Reply(c) /\ UNCHANGED requested
     \/ "xmit_congested" \in MayFail /\ Drop
     \/ "xmit_error" \in MayFail /\ Pass(c)
  /\ UNCHANGED leaked

watch_in(c) ==
  /\ "pre" \in hooks
  /\ \/ watch_in_no_buffer(c) \/ watch_in_not_linear
     \/ watch_in_other(c) \/ watch_in_index(c)

\* A packet without a payload.
watch_in_pass ==
  /\ "pre" \in hooks
  /\ leaked' = TRUE
  /\ UNCHANGED <<tcpVars, index, pc, hooks>>

\* The request of c at PRE_ROUTING.
PreRouting(c) ==
  /\ c \in up
  /\ up' = up \ {c}
  /\ \/ watch_in(c)
     \/ "pre" \notin hooks /\ Pass(c) /\ UNCHANGED leaked
  /\ UNCHANGED <<client, index, pc, hooks>>

-----------------------------------------------------------------------------
\* Mutant: what does not begin with HTTP/1.1 200 OK is dropped.
watch_out_drops(c, n) ==
  arriving' = IF n = 1 THEN arriving \cup {[conn |-> c, seq |-> n, data |-> n]}
                       ELSE arriving

\* watch_out, for packet n of the response to c.
watch_out(c, n) ==
  \/ arriving' = arriving \cup {[conn |-> c, seq |-> n, data |-> Payload(n)]}
  \/ "skb_linearize" \in MayFail /\ Payload(n) # FIN /\ UNCHANGED arriving

\* The server's TCP sends a packet, again and out of order if need be.
PostRouting(c, n) ==
  /\ c \in requested
  /\ \/ "post" \in hooks /\ watch_out(c, n)
     \/ /\ "post" \notin hooks
        /\ arriving' = arriving \cup {[conn |-> c, seq |-> n, data |-> Payload(n)]}
  /\ UNCHANGED <<client, requested, up, index, pc, hooks, leaked>>

-----------------------------------------------------------------------------
\* The results of nf_register_net_hook are not looked at.
Register(h, from, to) ==
  /\ pc = from /\ pc' = to
  /\ hooks' \in {hooks \cup {h}} \cup {hooks : x \in MayFail \cap {"nf_register"}}
  /\ UNCHANGED <<tcpVars, index, leaked>>

Unregister(h, from, to) ==
  /\ pc = from /\ pc' = to
  /\ hooks' = hooks \ {h}
  /\ UNCHANGED <<tcpVars, index, leaked>>

sample_init == Register("pre", "start", "pre_ready") \/ Register("post", "pre_ready", "loaded")

sample_exit == Unregister("pre", "loaded", "pre_gone") \/ Unregister("post", "pre_gone", "unloaded")

MInit == TcpInit /\ index \in SUBSET Conn /\ pc = "start" /\ hooks = {} /\ leaked = FALSE

Endpoint ==
  /\ \/ \E c \in Conn : Write(c) \/ Retransmit(c)
     \/ \E pkt \in arriving : Receive(pkt)
  /\ UNCHANGED <<index, pc, hooks, leaked>>

MNext ==
  \/ Endpoint
  \/ \E c \in Conn : PreRouting(c) \/ \E n \in 1..(Packets + 1) : PostRouting(c, n)
  \/ watch_in_pass
  \/ sample_init \/ sample_exit

MSpec == MInit /\ [][MNext]_mVars

\* The request goes on to the server, or is answered.
Forwarded(c) ==
  /\ PreRouting(c)
  /\ IF "pre" \in hooks /\ c \in index THEN Reply(c) \subseteq arriving' ELSE c \in requested'

\* A packet of the response the client still waits for goes on to it.
Delivered(c, n) ==
  /\ n >= rcv_nxt[c] /\ app[c] = "reading"
  /\ PostRouting(c, n) /\ arriving' # arriving

\* The machines and the network go on, TCP sends again what nobody has
\* acknowledged, and what is sent again and again is not dropped every time.
Fairness ==
  \A c \in Conn :
    /\ WF_mVars(Endpoint /\ up' # up /\ c \in up' /\ app[c] # "idle")
    /\ WF_mVars(PreRouting(c)) /\ SF_mVars(Forwarded(c))
    /\ \A n \in 1..(Packets + 1) :
         /\ SF_mVars(Delivered(c, n))
         /\ WF_mVars(Endpoint /\ \E pkt \in arriving :
              pkt.conn = c /\ pkt.seq = n /\ pkt \notin arriving')

FairSpec == MSpec /\ Fairness

-----------------------------------------------------------------------------
\* Properties.

\* Types; the only packet that is not the server's is a first one.
MTypeOK ==
  /\ app \in [Conn -> {"idle", "reading", "done"}]
  /\ acked \subseteq Conn /\ requested \subseteq Conn /\ up \subseteq Conn
  /\ rcv_nxt \in [Conn -> 1..(Packets + 2)]
  /\ \A pkt \in arriving :
       /\ pkt.conn \in Conn /\ pkt.seq \in 1..(Packets + 1)
       /\ pkt.data = Payload(pkt.seq) \/ pkt = [conn |-> pkt.conn, seq |-> 1, data |-> app_data]
  /\ index \subseteq Conn
  /\ pc \in {"start", "pre_ready", "loaded", "pre_gone", "unloaded"}
  /\ hooks \subseteq {"pre", "post"}
  /\ leaked \in BOOLEAN

\* Some copies of a request may be answered by watch_in and others reach the
\* server, because a call failed or the module came or went in between.  Even
\* so a client reads the response as the server sends it, but for a first
\* packet of app_data if it asked for /index.html.
InPlace ==
  \A c \in Conn : \A n \in 1..Len(output[c]) :
    output[c][n] = n \/ (n = 1 /\ c \in index /\ output[c][n] = app_data)

\* A client whose read has returned 0 has read as many packets as the response
\* has: app_data alone does not end a connection.
DoneComplete ==
  \A c \in Conn : app[c] = "done" => Len(output[c]) = Packets

\* A client that has written its request reads something, from watch_in or from
\* the server, whichever calls fail and whenever the module comes or goes.
FirstAnswered == \A c \in Conn : app[c] = "reading" ~> output[c] # <<>>

\* A client whose request has reached the server reads to the end, though
\* watch_in may have answered another copy of the request.
ServedCompletes == \A c \in Conn : c \in requested ~> app[c] = "done"

\* A client that has written its request reads to the end (sclient.c:83 says
\* then that the response has been saved).
Completes == \A c \in Conn : app[c] = "reading" ~> app[c] = "done"

\* A client of /index.html reads app_data and nothing else, or nothing of it.
OneSource ==
  \A c \in index : output[c] # <<>> /\ output[c][1] = app_data => Len(output[c]) = 1

\* Every buffer is sent or freed.
NoBufferLost == ~leaked
=============================================================================
