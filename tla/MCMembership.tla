---------------------------- MODULE MCMembership ----------------------------
(* Two clients and the seeder on one project, three repository lists, an    *)
(* unclaimed project that has no paths, and one that has some.              *)
EXTENDS Membership, TLC

CONSTANTS c1, c2, empty, ours, seeded, bare, placed

MCClients == {c1, c2}
MCRepos == {empty, ours, seeded}
MCRests == {bare, placed}
MCPathless == {bare}
MCSymmetry == Permutations(MCClients)
=============================================================================
