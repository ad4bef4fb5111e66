---------------------------- MODULE MCXpcReceive ----------------------------
(***************************************************************************)
(* A root channel that begins with a keepalive, as after do_handshake, and *)
(* a reply channel with a message larger than the windows.                 *)
(***************************************************************************)
EXTENDS XpcReceive

Body(n)   == [len |-> n, body |-> TRUE]
Empty(n)  == [len |-> n, body |-> FALSE]

MCScript == (1 :> <<Empty(1), Body(1)>>) @@ (3 :> <<Body(3), Body(1)>>)
MCReceives == {<<1>>, <<3>>, <<1, 3>>}
=============================================================================
