------------------------- MODULE MCAsyncJobQueue -------------------------
(***************************************************************************)
(* A small instance of the queue under its most general clients.           *)
(***************************************************************************)
EXTENDS AsyncJobQueue, TLC

(* Jobs and workers differ only by their names, and every property checked *)
(* here is one of safety.                                                  *)
NameSymmetry == Permutations(Jobs) \cup Permutations(Workers)

=============================================================================
