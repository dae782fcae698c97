----------------------------- MODULE MCSearchIndex ----------------------------
(***************************************************************************)
(* Values for the constants of SearchIndex.  No symmetry: the run checks     *)
(* temporal properties.                                                     *)
(***************************************************************************)
EXTENDS SearchIndex

CONSTANT k1

\* A row of message_mappings, where there is one, holds k1.
OneStored == {k1}
=============================================================================
