---------------------------- MODULE MCAdmission ----------------------------
EXTENDS Admission, TLC

\* Two spellings of one image, a rejected one, an absent and an explicit TTL.
MCCommands ==
    {[image |-> "alpine", ttl |-> 0, outbound |-> FALSE],
     [image |-> "docker.io/library/alpine:latest", ttl |-> 0, outbound |-> FALSE],
     [image |-> "alpine", ttl |-> 2, outbound |-> FALSE],
     [image |-> "alpine", ttl |-> 0, outbound |-> TRUE]}
MCNormalImage == [i \in {"alpine", "docker.io/library/alpine:latest"} |-> "alpine"]
Symmetry == Permutations(Clients)
=============================================================================
