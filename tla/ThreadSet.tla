------------------------------ MODULE ThreadSet ------------------------------
(* The threads that use an object of the library.                           *)
EXTENDS FiniteSets

CONSTANTS
  Threads,
  NoThread  \* the owner of a free mutex

ASSUME ThreadsAssumption ==
  /\ IsFiniteSet(Threads)
  /\ NoThread \notin Threads
=============================================================================
