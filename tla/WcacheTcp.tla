------------------------------ MODULE WcacheTcp ------------------------------
(***************************************************************************)
(* The hooks of wcache/hook.c at the level of TCP: what the packet they    *)
(* build carries, which packet of a response they store, and what this     *)
(* does to the clients of Tcp, which all ask for one page.  The store is   *)
(* cut down to that page; WcacheHooks has the rest of it.  WcacheHooks has *)
(* also the allocations of a path, a buffer or a reply that fail: they are *)
(* used unchecked, which takes the machine down, and no client reads       *)
(* anything after that.  Only the one of struct object is looked at.       *)
(***************************************************************************)
EXTENDS Tcp

CONSTANTS
  MayFail,  \* the kernel calls that may fail
  NULL

ASSUME WcacheTcpAssumption == NULL \notin Nat

VARIABLES
  temp_path,  \* TRUE while the path of the page is pending
  object      \* the payload stored for the page, or NULL

wVars == <<tcpVars, temp_path, object>>

-----------------------------------------------------------------------------
\* watch_in, for a packet with the request of c.

\* Mutant: the reply also closes the connection.
Reply_closes(c) ==
  {[conn |-> c, seq |-> 1, data |-> object],
   [conn |-> c, seq |-> 2, data |-> FIN]}

\* seq is the ack_seq of the request, where the response begins.
Reply(c) == {[conn |-> c, seq |-> 1, data |-> object]}

\* Without the device the request passes unseen.  (What kfree_skb does to the
\* uninitialised new_skb is in WcacheHooks.)
watch_in_no_device(c) ==
  /\ "ens37" \in MayFail
  /\ requested' = requested \cup {c}
  /\ UNCHANGED <<temp_path, arriving>>

watch_in_miss(c) ==
  /\ object = NULL
  /\ temp_path' = TRUE
  /\ requested' = requested \cup {c}
  /\ UNCHANGED arriving

watch_in_hit(c) ==
  /\ object # NULL
  /\ temp_path' = FALSE
  /\ \/ arriving' = arriving \cup Reply(c) /\ UNCHANGED requested
     \/ "xmit_congested" \in MayFail /\ UNCHANGED <<arriving, requested>>
     \/ /\ "xmit_error" \in MayFail
        /\ requested' = requested \cup {c}
        /\ UNCHANGED arriving

watch_in_not_linear ==
  /\ "skb_linearize" \in MayFail
  /\ UNCHANGED <<temp_path, requested, arriving>>

watch_in(c) ==
  /\ c \in up
  /\ up' = up \ {c}
  /\ \/ watch_in_no_device(c) \/ watch_in_not_linear
     \/ watch_in_miss(c) \/ watch_in_hit(c)
  /\ UNCHANGED <<object, app, acked, rcv_nxt, output>>

-----------------------------------------------------------------------------
\* watch_out, for packet n of the response to c.

\* Mutant: any packet, even one without a payload, is taken for the response.
Store_any(n) ==
  IF temp_path
  THEN object' = n /\ temp_path' = FALSE
  ELSE UNCHANGED <<object, temp_path>>

\* Only the first packet begins with HTTP/1.1 200 OK.  Without memory for the
\* object the response is not stored, and its path is no longer pending.
Store(n) ==
  IF n = 1
  THEN /\ temp_path' = FALSE
       /\ \/ temp_path /\ object' = n
          \/ (temp_path => "kmalloc" \in MayFail) /\ UNCHANGED object
  ELSE UNCHANGED <<object, temp_path>>

\* Mutant: what the server sends of a cached page is dropped.
watch_out_once(c, n) ==
  /\ c \in requested
  /\ Store(n)
  /\ arriving' = IF object # NULL THEN arriving
                 ELSE arriving \cup {[conn |-> c, seq |-> n, data |-> Payload(n)]}
  /\ UNCHANGED <<app, acked, rcv_nxt, output, requested, up>>

\* The server's TCP sends a packet, again and out of order if need be.
watch_out(c, n) ==
  /\ c \in requested
  /\ \/ /\ Store(n)
        /\ arriving' = arriving \cup {[conn |-> c, seq |-> n, data |-> Payload(n)]}
     \/ /\ "skb_linearize" \in MayFail
        /\ Payload(n) # FIN
        /\ UNCHANGED <<temp_path, object, arriving>>
  /\ UNCHANGED <<app, acked, rcv_nxt, output, requested, up>>

-----------------------------------------------------------------------------
WInit == TcpInit /\ temp_path = FALSE /\ object = NULL

Endpoint ==
  \/ \E c \in Conn : Write(c) \/ Retransmit(c)
  \/ \E pkt \in arriving : Receive(pkt)

WNext ==
  \/ Endpoint /\ UNCHANGED <<temp_path, object>>
  \/ \E c \in Conn :
       watch_in(c) \/ \E n \in 1..(Packets + 1) : watch_out(c, n)

WSpec == WInit /\ [][WNext]_wVars

\* The request goes on to the server, or is answered.
Forwarded(c) ==
  /\ watch_in(c)
  /\ IF object = NULL THEN c \in requested' ELSE Reply(c) \subseteq arriving'

\* A packet of the response the client still waits for goes on to it.
Delivered(c, n) ==
  /\ n >= rcv_nxt[c] /\ app[c] = "reading"
  /\ watch_out(c, n) /\ arriving' # arriving

Steps(A) == A /\ UNCHANGED <<temp_path, object>>

\* The machines and the network go on, TCP sends again what nobody has
\* acknowledged, and what is sent again and again is not dropped every time.
Fairness ==
  /\ \A c \in Conn :
       /\ WF_wVars(Steps(Retransmit(c)))
       /\ WF_wVars(watch_in(c)) /\ SF_wVars(Forwarded(c))
       /\ \A n \in 1..(Packets + 1) : SF_wVars(Delivered(c, n))
  /\ \A pkt \in [conn : Conn, seq : 1..(Packets + 1),
                  data : (1..Packets) \cup {FIN}] : WF_wVars(Steps(Receive(pkt)))

FairSpec == WSpec /\ Fairness

-----------------------------------------------------------------------------
\* Properties.

\* Types; only packets with a payload are stored.
WTypeOK ==
  /\ TcpTypeOK
  /\ temp_path \in BOOLEAN
  /\ object \in (1..Packets) \cup {NULL}

\* Packets from the cache and packets from the server may reach one client,
\* for a request is sent again when its answer is late, and by then it may
\* hit.  What the client reads is the response as the server sends it, from
\* the beginning and without a gap.
Intact == \A c \in Conn : output[c] = [n \in 1..Len(output[c]) |-> n]

\* A client whose read has returned 0 has read all of the response.
DoneComplete ==
  \A c \in Conn : app[c] = "done" => Len(output[c]) = Packets

\* A client whose request has reached the server reads to the end, though its
\* copies of the request may hit the cache when another client has filled it:
\* what the cache sends to it, or keeps from the server, does not get it stuck.
ServedCompletes == \A c \in Conn : c \in requested ~> app[c] = "done"

\* A client that has written its request reads to the end (sclient.c:83 says
\* then that the response has been saved) and test.sh runs the next one.
Completes == \A c \in Conn : app[c] = "reading" ~> app[c] = "done"
=============================================================================
