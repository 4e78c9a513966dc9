------------------------------ MODULE MCPipeline ------------------------------
(* Pipeline on TLC: one failing gate per repair phase, and gate 20, which has   *)
(* none, with the code's own retry limits.                                      *)
EXTENDS PipelineProperties, Repl

MCFailingGates == {1, 3, 5, 12, 19, 20}

(* Every front end on one job, with two gates that may fail.  States that differ *)
(* only in what no guard of Pipeline or Repl and no property of that run reads   *)
(* are taken for one.                                                            *)
MCFewFailingGates == {3, 12}

Unread(s) == [s EXCEPT !.visual = "none", !.artifact = "none", !.failed = FALSE,
                       !.conf = "none"]

Read == <<Unread(state), idx, completed, ctl, saved.status = "none",
          Unread(saved.state), saved.idx, saved.completed>>
===============================================================================
