----------------------------- MODULE MCGovernor -----------------------------
(* Small instances of the governor for TLC. *)
EXTENDS Governor, TLC

CONSTANTS a1, a2

Slow == [voting_delay |-> 1, voting_period |-> 1, proposal_threshold |-> 2, quorum |-> 3]

\* No delay, no quorum: set_config takes it, initialize would not.
Fast == [voting_delay |-> 0, voting_period |-> 1, proposal_threshold |-> 1, quorum |-> 0]

MCConfigs == {Slow, Fast}

Symmetry == Permutations(Accounts)
=============================================================================
