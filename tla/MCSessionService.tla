--------------------------- MODULE MCSessionService ---------------------------
(* SessionService for TLC.                                                    *)
EXTENDS SessionService, TLC

\* Requests differ in nothing.
Symmetric == Permutations(Handlers)
=============================================================================
