-------------------------------- MODULE Checks --------------------------------
(* Validations are lists of checks made in order: the first that fails gives *)
(* the fault, and "none" is success.                                         *)
EXTENDS Sequences, SequencesExt

Check(fails, fault) == [fails |-> fails, fault |-> fault]

FirstFault(checks) ==
    LET failed == {i \in DOMAIN checks : checks[i].fails}
    IN  IF failed = {} THEN "none" ELSE checks[Min(failed)].fault

(* The first fault of a list of things that are validated one by one.        *)
FirstFaultOf(things, Fault(_)) ==
    LET failed == {i \in DOMAIN things : Fault(things[i]) # "none"}
    IN  IF failed = {} THEN "none" ELSE Fault(things[Min(failed)])

(* The first of a list that is of some kind, when there is one.              *)
FirstWith(things, Test(_)) == things[Min({i \in DOMAIN things : Test(things[i])})]
=============================================================================
