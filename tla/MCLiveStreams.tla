---------------------------- MODULE MCLiveStreams ----------------------------
(* One stream of one host, a viewer who follows the host and connects once *)
(* or twice, two chunks.                                                   *)
EXTENDS LiveStreams, TLC

CONSTANTS s1, host, fan, h1, v1, v2

MCRooms == {s1}
MCUsers == {host, fan}
MCConns == {h1, v1, v2}
MCOwner == (h1 :> host) @@ (v1 :> fan) @@ (v2 :> fan)
MCHost == (s1 :> host)
MCCidOf == [q \in Seqs |-> q]
=============================================================================
