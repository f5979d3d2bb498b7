------------------------- MODULE MCServerLifecycle -------------------------
(***************************************************************************)
(* Instance of ServerLifecycle for TLC.                                    *)
(***************************************************************************)
EXTENDS ServerLifecycle

\* No limit, no attempt at all, and a limit that is reached after two.
SomePolicies == {-1, 0, 2}
=============================================================================
