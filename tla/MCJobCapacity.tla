----------------------------- MODULE MCJobCapacity -----------------------------
(***************************************************************************)
(* JobCapacity with a handful of candidates and openings.                  *)
(***************************************************************************)
EXTENDS JobCapacity, TLC

LifecycleKinds == {"move", "edit", "publish"}
PublishKinds == {"move", "publish"}

Alike == Permutations(Requests) \cup Permutations(Candidates)

=============================================================================
