--------------------------- MODULE MCRemediation ---------------------------
(***************************************************************************)
(* Module Remediation for TLC.  Runs and directives are interchangeable:   *)
(* neither the initial states nor any action or property names one of      *)
(* them, and only safety is checked.                                       *)
(***************************************************************************)
EXTENDS Remediation, TLC

Symmetry == Permutations(Run) \cup Permutations(Directive)
=============================================================================
