------------------------------- MODULE MCWriter -------------------------------
(***************************************************************************)
(* CardWriter for TLC.                                                     *)
(***************************************************************************)
EXTENDS CardWriter

\* The first byte of each field but the first equals the acknowledge byte of the
\* field before it.
DataTwins == {<<6, 0>>, <<12, 1>>, <<18, 2>>}

=============================================================================
