----------------------------- MODULE MCUploads -----------------------------
(***************************************************************************)
(* A small instance of PresignedUploads: two threads, a token of either    *)
(* key and user, one with a bad signature and one without a kid.           *)
(***************************************************************************)
EXTENDS PresignedUploads, TLC

CONSTANTS alice, bob

Signed(user, k) == [form |-> "signed", kid |-> k, sub |-> user, good |-> TRUE]

MCTokens == { Signed(alice, 1), Signed(bob, 2),
              [Signed(alice, 2) EXCEPT !.good = FALSE],
              [Signed(alice, 1) EXCEPT !.form = "nokid"] }

ThreadSymmetry == Permutations(Threads)
=============================================================================
