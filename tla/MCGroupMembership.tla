------------------------- MODULE MCGroupMembership -------------------------
(* The founder of a group, two more users and one or two request threads.  *)
EXTENDS GroupMembership, TLC

CONSTANTS founder, ann, bob, thread1, thread2

MCUsers == {founder, ann, bob}
MCThreads == {thread1, thread2}
MCOneThread == {thread1}
MCSymmetry == Permutations({ann, bob}) \union Permutations(MCThreads)
=============================================================================
