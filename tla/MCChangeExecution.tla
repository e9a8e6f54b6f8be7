-------------------------- MODULE MCChangeExecution --------------------------
(***************************************************************************)
(* Instances of ChangeExecution for TLC.  A configuration picks its        *)
(* proposals from the ones below by name; file1 begins with two anchors,   *)
(* file2 is absent, and budgets are two units, two files, two commands and *)
(* two rollback steps.                                                     *)
(***************************************************************************)
EXTENDS ChangeExecution, TLC

\* The runs of an instance differ in their names only; used where no liveness
\* property is checked.
RunSymmetry == Permutations(Runs)

Unit(type, file, anchor, mark) ==
    [type |-> type, file |-> file, anchor |-> anchor, mark |-> mark]

ProposalUnits ==
    [feature   |-> << Unit("patch", "file1", "a", "m1"), Unit("create", "file2", "a", "m2") >>,
     rewrite   |-> << Unit("overwrite", "file1", "a", "m3") >>,
     \* with a manual check
     reviewed  |-> << Unit("patch", "file1", "b", "m4") >>,
     \* two patches of one file, that both apply
     twice     |-> << Unit("patch", "file1", "a", "m1"), Unit("patch", "file1", "b", "m2") >>,
     \* the second patch looks for what the first one replaces
     conflict  |-> << Unit("patch", "file1", "a", "m1"), Unit("patch", "file1", "a", "m2") >>,
     \* more units, and more commands, than the budgets allow
     large     |-> << Unit("overwrite", "file3", "a", "m5"), Unit("patch", "file1", "a", "m1"),
                      Unit("create", "file2", "a", "m2") >>,
     slow      |-> << Unit("patch", "file1", "a", "m1") >>,
     forbidden |-> << Unit("patch", "file4", "a", "m1") >>,
     other     |-> << Unit("overwrite", "file3", "a", "m5") >>]

ProposalChecks ==
    [feature   |-> << "advisory", "critical" >>,
     rewrite   |-> << "critical", "disallowed" >>,
     reviewed  |-> << "advisory", "critical" >>,
     twice     |-> << "critical" >>,
     conflict  |-> << "critical" >>,
     large     |-> << "critical" >>,
     slow      |-> << "advisory", "advisory", "critical" >>,
     forbidden |-> << "critical" >>,
     other     |-> << "critical" >>]

MCSubsystem == [p \in Proposals |-> IF p = "other" THEN "side" ELSE "core"]
MCUnits == [p \in Proposals |-> ProposalUnits[p]]
MCChecks == [p \in Proposals |-> ProposalChecks[p]]
MCManualReview == Proposals \cap {"reviewed"}

MCMarks == {"a", "b", "c", "m1", "m2", "m3", "m4", "m5", "torn"}
MCFiles == {"file1", "file2", "file3", "file4"}
MCContent ==
    [f \in MCFiles |-> CASE f = "file1" -> {"a", "b"}
                         [] f = "file2" -> {}
                         [] OTHER -> {"a", "c"}]

====
