----------------------------- MODULE Middleware -----------------------------
(***************************************************************************)
(* What a component can observe of one connection to RabbitMQ.  A          *)
(* connection is "open"; "broken" when the peer is gone and pika has not   *)
(* noticed (nobody services the heartbeats of a connection that is only    *)
(* published on); "closed" once pika knows.  Nothing ever reopens one.     *)
(*                                                                         *)
(* RabbitMQ and pika themselves are external: the outcomes below are what  *)
(* send() in middleware_rabbitmq.py can return to its caller.  There are   *)
(* no publisher confirms, so a publish on a broken connection may return   *)
(* normally although nothing was delivered, and may raise although the     *)
(* message was routed.                                                     *)
(***************************************************************************)

LinkStates == {"open", "broken", "closed"}

\* How a send can end: was the message routed, did the call raise, and the
\* state of the connection afterwards.
SendOutcomes(link) ==
    {out \in [delivered : BOOLEAN, raised : BOOLEAN, link : LinkStates] :
        \/ link = "open"   /\ out.link = "open"   /\ out.delivered /\ ~out.raised
        \/ link = "broken" /\ out.link = "broken" /\ ~out.delivered /\ ~out.raised
        \/ link = "broken" /\ out.link = "closed" /\ out.raised
        \/ link = "closed" /\ out.link = "closed" /\ ~out.delivered /\ out.raised}

=============================================================================
