-------------------------- MODULE MCChannelMembers --------------------------
(* A small instance of ChannelMembers: one local user and two remote users *)
(* behind one link, who are interchangeable.                               *)
EXTENDS ChannelMembers, TLC

CONSTANTS a, r1, r2, l1

OneLink == (r1 :> l1) @@ (r2 :> l1)
RemoteSymmetry == Permutations({r1, r2})
=============================================================================
