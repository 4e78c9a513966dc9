---------------------------- MODULE MCCodegenRepair ----------------------------
(* CodegenRepair on TLC, with the route and recursion limits of the code, a turn *)
(* budget scaled down from 64 + 12, and projects and prompts scaled down from     *)
(* 32000 and 90000 characters; one of the prompts needs each round of compaction. *)
EXTENDS CodegenRepair

\* A fix for each way of being classified, and one with the wordings of a defect and
\* of the format of an output.
MCFixes == {{"defect"}, {"output", "naming"}, {"output", "naming", "defect"},
            {"confirmation"}, {"model", "change"}, {"model"}}

File(path, place, lines) ==
    [path |-> path, place |-> place, acts |-> place > 8, views |-> FALSE, lines |-> lines]

Code(n, size, wanted) == [i \in 1..n |-> [size |-> size, rank |-> IF i = wanted THEN 1 ELSE 0]]

MCProjects ==
    { {},
      {File(1, 1, Code(2, 2, 1)), File(2, 9, <<>>)},
      {File(1, 1, Code(8, 2, 5)), File(2, 9, Code(4, 3, 0)), File(3, 7, Code(3, 5, 0))},
      {File(1, 2, Code(9, 1, 9)), File(2, 1, Code(9, 2, 1)), File(3, 3, Code(9, 3, 0)),
       File(4, 11, Code(6, 2, 0)), File(5, 5, Code(6, 2, 3))} }

MCContexts == {[ir |-> 0, modules |-> 0, names |-> 0], [ir |-> 20, modules |-> 9, names |-> 1],
               [ir |-> 5, modules |-> 30, names |-> 6], [ir |-> 50, modules |-> 50, names |-> 28]}
===============================================================================
