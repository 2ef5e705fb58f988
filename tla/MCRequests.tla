----------------------------- MODULE MCRequests -----------------------------
(***************************************************************************)
(* An instance of Requests for TLC: a client logs in and sends two          *)
(* messages, with bodies of one byte (a frame has 8 then).                  *)
(***************************************************************************)
EXTENDS Requests

Frame(type, body) == [type |-> type, body |-> body]
Messages == <<Frame(Auth, <<1>>), Frame(OneMessage, <<2>>),
              Frame(OneMessage, <<3>>)>>
=============================================================================
