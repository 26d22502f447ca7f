------------------------------- MODULE MCNicknames -------------------------------
(* Instances of Nicknames.tla: two client threads, two devices, two names. *)
EXTENDS Nicknames, TLC

CONSTANTS c1, c2, gpu, nic, A, B

Symmetries == Permutations(Clients) \cup Permutations(Devices) \cup Permutations(Names)
=============================================================================
