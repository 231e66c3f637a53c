------------------------------- MODULE OamRelay -------------------------------
(***************************************************************************)
(* The relay between the UDP clients of port 6885 and the OAM channel of   *)
(* the PHY (mac_feu_fapi.c). The timer of the main loop polls the socket;  *)
(* answers come back through callbacks of the PCIe library. One client     *)
(* address is kept: the sender of the last datagram.                       *)
(***************************************************************************)
EXTENDS Integers, Sequences

CONSTANTS Clients,    \* UDP clients
          Tracer,     \* the address phyTrace.str names, the first client
          MaxReqs     \* bound: datagrams sent

VARIABLES
    server,      \* server_fd: "none", "bound" or "dead" (exit after a failed bind)
    queue,       \* datagrams in the socket
    client,      \* clientaddr[0]
    chan,        \* messages on the PHY's OAM channel, with who asked
    recvd,       \* datagrams received
    replies,     \* <<asker, address, message>> of each answer sent
    serial,      \* datagrams so far
    registered   \* the response callbacks are registered

oamVars == <<server, queue, client, chan, recvd, replies, serial, registered>>

(* The message ids oamConfigMsgDec tells apart. *)
P19Requests == {"param", "config", "start", "dfe_config", "stop"}
OamRequests == {"temp_get", "ecpri_get", "ecpri_set", "ecpri_test", "ecpri_err"}

OamInit ==
    /\ server = "none" /\ queue = << >> /\ client = Tracer
    /\ chan = {} /\ recvd = {} /\ replies = << >> /\ serial = 0 /\ registered = FALSE

(* A client sends a request (external). *)
ClientSends(c, id) ==
    /\ serial < MaxReqs
    /\ serial' = serial + 1
    /\ queue' = IF server = "bound" THEN Append(queue, [from |-> c, id |-> id, n |-> serial']) ELSE queue
    /\ UNCHANGED <<server, client, chan, recvd, replies, registered>>

(* The first oamRecvAppMsg: the socket, the default address, bind and the  *)
(* registration; a failed bind ends the program.                           *)
Bind ==
    /\ server = "none"
    /\ \/ server' = "bound" /\ registered' = TRUE /\ client' = Tracer
       \/ server' = "dead" /\ UNCHANGED <<registered, client>>
    /\ UNCHANGED <<queue, chan, recvd, replies, serial>>

(* p19_config_req wraps the whole message, oam_config_req only what        *)
(* follows the general header.                                             *)
Forwarded(m) ==
    CASE m.id \in P19Requests -> {[type |-> "p19", body |-> "whole", msg |-> m]}
      [] m.id \in OamRequests -> {[type |-> "oam", body |-> "tail", msg |-> m]}
      [] OTHER -> {}

Receive_KeepsClient ==
    /\ server = "bound" /\ queue # << >>
    /\ queue' = Tail(queue)
    /\ chan' = chan \cup Forwarded(Head(queue))
    /\ recvd' = recvd \cup {Head(queue)}
    /\ UNCHANGED <<server, client, replies, serial, registered>>

(* recvfrom takes one datagram and its sender, oamConfigMsgDec forwards    *)
(* it or drops an unknown one; an empty socket is no error.                *)
Receive ==
    /\ server = "bound" /\ queue # << >>
    /\ client' = Head(queue).from
    /\ queue' = Tail(queue)
    /\ chan' = chan \cup Forwarded(Head(queue))
    /\ recvd' = recvd \cup {Head(queue)}
    /\ UNCHANGED <<server, replies, serial, registered>>

(* p19_config_rsp / oam_config_rsp with oamSendAppRsp: the answer to m     *)
(* goes to the address kept at this moment.                                *)
Reply(m) ==
    /\ registered
    /\ replies' = Append(replies, <<m.msg.from, client, m>>)
    /\ chan' = chan \ {m}

Answer ==
    /\ \E m \in chan : Reply(m)
    /\ UNCHANGED <<server, queue, client, recvd, serial, registered>>

OamNext ==
    \/ \E c \in Clients, id \in {"config", "ecpri_get", "dfe_start"} : ClientSends(c, id)
    \/ Bind \/ Receive \/ Answer

OamSpec == OamInit /\ [][OamNext]_oamVars

----------------------------------------------------------------------------
(* An answer reaches the client that asked, unless a datagram of the       *)
(* client it reaches, be it one the relay drops, was received after the    *)
(* question: one address is kept for all requests under way (oamSendAppRsp *)
(* sends to clientaddr[0], recvfrom overwrites it).                        *)
RepliesHome ==
    [][Len(replies') > Len(replies) =>
          LET r == replies'[Len(replies')]
          IN  r[1] # r[2] => \E d \in recvd : d.n > r[3].msg.n /\ d.from = r[2]]_oamVars
===============================================================================
