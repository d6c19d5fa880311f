------------------------------ MODULE MCMembership ---------------------------
(* Instances of Membership for TLC. *)
EXTENDS Membership, TLC

Symmetry ==
    Permutations(User) \cup Permutations(Invite) \cup Permutations(Request)
==============================================================================
