------------------------------ MODULE HttpFlow ------------------------------
(***************************************************************************)
(* wcache between HTTP clients and a server: what the clients get, with    *)
(* the hooks of WcacheHooks on the way of the packets.  The module is      *)
(* loaded and stays loaded.                                                *)
(*                                                                         *)
(* A client sends one request at a time and takes the packet of the        *)
(* response as its answer; how a connection is opened and ended is left    *)
(* out.  Clients, server and network are not part of the module: the       *)
(* server answers what reaches it with the content of the path, which      *)
(* never changes, or with a 404; the network reorders packets.  Requests   *)
(* and responses are one packet each.                                      *)
(*                                                                         *)
(* up: client to PRE_ROUTING; at_server: beyond PRE_ROUTING; down: server  *)
(* to POST_ROUTING; arrived: beyond POST_ROUTING, and what watch_in sends. *)
(***************************************************************************)
EXTENDS WcacheHooks

CONSTANTS
  Client,
  Method,     \* methods the clients use
  Content,    \* body of each path on the server, NULL where there is none
  Duplicates  \* TRUE if TCP may retransmit what has not been lost

Request == [from : Client, method : Method, path : Path]

ASSUME FlowAssumption ==
  /\ Content \in [Path -> Body \cup {NULL}]
  /\ NULL \notin Body \cup Request
  /\ Duplicates \in BOOLEAN

VARIABLES
  waiting,  \* the request each client has sent and has no answer to, or NULL
  got,      \* the last answer of each client, or NULL
  up, at_server, down, arrived

netVars  == <<up, at_server, down, arrived>>
flowVars == <<waiting, got, netVars>>
fVars    == <<hVars, flowVars>>

Answer(r) == [to |-> r.from, path |-> r.path, body |-> Content[r.path]]

-----------------------------------------------------------------------------
Send(r) ==
  /\ waiting[r.from] = NULL
  /\ waiting' = [waiting EXCEPT ![r.from] = r]
  /\ up' = up \cup {r}
  /\ UNCHANGED <<hVars, got, at_server, down, arrived>>

InFlight(r) ==
  \/ r \in up \cup at_server
  \/ \E a \in down \cup arrived : a.to = r.from /\ a.path = r.path

\* The retransmission timer of the client's TCP.
Resend(c) ==
  /\ waiting[c] # NULL
  /\ Duplicates \/ ~InFlight(waiting[c])
  /\ up' = up \cup {waiting[c]}
  /\ UNCHANGED <<hVars, waiting, got, at_server, down, arrived>>

PreRouting(r) ==
  \/ watch_in_no_device \/ watch_in_not_linear
  \/ r.method # "GET" /\ watch_in_pass
  \/ /\ r.method = "GET"
     /\ watch_in_miss(r.path) \/ watch_in_hit(r.path) \/ watch_in_no_memory

\* What becomes of the packet a hook has looked at: a hook that ended in a
\* memory error has returned nothing.
Accepted    == fault' = "none" /\ verdict' = "NF_ACCEPT"
Transmitted == fault' = "none" /\ reply' # NULL

Forward(r) ==
  /\ r \in up
  /\ up' = up \ {r}
  /\ \/ /\ "pre" \in hooks
        /\ PreRouting(r)
        /\ at_server' = IF Accepted THEN at_server \cup {r} ELSE at_server
        /\ arrived' = IF Transmitted
                      THEN arrived \cup {[to |-> r.from, path |-> r.path,
                                          body |-> reply'[2]]}
                      ELSE arrived
     \/ /\ "pre" \notin hooks
        /\ at_server' = at_server \cup {r}
        /\ UNCHANGED <<hVars, arrived>>
  /\ UNCHANGED <<waiting, got, down>>

Serve(r) ==
  /\ r \in at_server
  /\ at_server' = at_server \ {r}
  /\ down' = down \cup {Answer(r)}
  /\ UNCHANGED <<hVars, waiting, got, up, arrived>>

PostRouting(a) ==
  \/ watch_out_not_linear
  \/ a.body = NULL /\ watch_out_other
  \/ /\ a.body # NULL
     /\ \/ watch_out_unasked
        \/ \E size \in Size :
             watch_out_store(a.body, size) \/ watch_out_no_memory(size)

Deliver(a) ==
  /\ a \in down
  /\ \/ down' = down \ {a}
     \/ Duplicates /\ UNCHANGED down
  /\ \/ /\ "post" \in hooks
        /\ PostRouting(a)
        /\ arrived' = IF Accepted THEN arrived \cup {a} ELSE arrived
     \/ /\ "post" \notin hooks
        /\ arrived' = arrived \cup {a}
        /\ UNCHANGED hVars
  /\ UNCHANGED <<waiting, got, up, at_server>>

\* An answer to a request that is over goes to a closed connection.
Receive(a) ==
  /\ a \in arrived
  /\ arrived' = arrived \ {a}
  /\ IF waiting[a.to] # NULL /\ waiting[a.to].path = a.path
     THEN /\ got' = [got EXCEPT ![a.to] = a]
          /\ waiting' = [waiting EXCEPT ![a.to] = NULL]
     ELSE UNCHANGED <<waiting, got>>
  /\ UNCHANGED <<hVars, up, at_server, down>>

-----------------------------------------------------------------------------
FInit ==
  /\ HInit
  /\ waiting = [c \in Client |-> NULL]
  /\ got = [c \in Client |-> NULL]
  /\ up = {} /\ at_server = {} /\ down = {} /\ arrived = {}

FNext ==
  \/ \E r \in Request : Send(r) \/ Forward(r) \/ Serve(r)
  \/ \E c \in Client : Resend(c)
  \/ \E a \in down : Deliver(a)
  \/ \E a \in arrived : Receive(a)
  \/ wcache_init /\ UNCHANGED flowVars

FSpec == FInit /\ [][FNext]_fVars

\* The request goes on to the server, or is answered.
ForwardKept(r) == Forward(r) /\ (at_server' # at_server \/ arrived' # arrived)

\* The response goes on to the client.
DeliverKept(a) == Deliver(a) /\ a \in arrived'

\* Every packet is handled at some time, TCP retransmits what was lost, and
\* what is sent again and again is not dropped every time.
Fairness ==
  /\ \A r \in Request :
       /\ WF_fVars(Forward(r)) /\ SF_fVars(ForwardKept(r))
       /\ WF_fVars(Serve(r))
  /\ WF_fVars(\E a \in down : Deliver(a))
  /\ SF_fVars(\E a \in down : DeliverKept(a))
  /\ WF_fVars(\E a \in arrived : Receive(a))
  /\ \A c \in Client : WF_fVars(Resend(c))

FairSpec == FSpec /\ Fairness

-----------------------------------------------------------------------------
\* Properties.

\* Types; an answer goes to the client that asked.
FTypeOK ==
  /\ HTypeOK
  /\ waiting \in [Client -> Request \cup {NULL}]
  /\ up \subseteq Request /\ at_server \subseteq Request
  /\ \A a \in down \cup arrived :
       a.to \in Client /\ a.path \in Path /\ a.body \in Body \cup {NULL}
  /\ \A c \in Client : got[c] # NULL => got[c].to = c

\* What is cached under a path is what the server has there.  watch_out knows
\* the path of a response only from the last GET that watch_in saw, so this
\* depends on who else uses the module and on what else the network carries.
Coherent == \A o \in Counted : obj_heap[o].body = Content[Text(o)]

\* README.md:2 says that a request for cached content is answered with that
\* content: whoever answers, a client gets what the server has at the path it
\* asked for.
AnswersOwnRequest ==
  \A c \in Client : got[c] # NULL => got[c].body = Content[got[c].path]

\* To the clients the module is not there: with packets lost and calls failing
\* they send, and are answered, as by the server alone.
Service == INSTANCE WebService

Transparent == Service!Spec

\* A client that waits gets an answer, from the server or from the cache, even
\* if watch_in drops its request without one now and then, unless a hook ends
\* in a memory error.
AlwaysAnswered ==
  \A c \in Client :
    waiting[c] # NULL ~> waiting[c] = NULL \/ fault # "none"
=============================================================================
