----------------------------- MODULE MCChannels -----------------------------
(* Small instances of Channels for TLC: a root with two subchannels, of which *)
(* S is sequential.                                                          *)
EXTENDS Channels, TLC

CONSTANTS j1, j2, j3, root, A, S, rootCapacity, throttle

TreeParent == [c \in Channels |-> root]
TreePath   == [c \in Channels |-> {c, root}]
TreeOrder  == <<A, S, root>>

MixedHome == (j1 :> A) @@ (j2 :> S) @@ (j3 :> S)

JobKey       == (j1 :> 2) @@ (j2 :> 3) @@ (j3 :> 1)
TreeCapacity == (root :> rootCapacity) @@ (A :> 2) @@ (S :> 1)
TreeThrottle == (root :> 0) @@ (A :> throttle) @@ (S :> 0)
=============================================================================
