------------------------------ MODULE MCAgentLoop ------------------------------
(* AgentLoop on TLC: three turns of at most two calls, one way to fail.           *)
EXTENDS AgentLoopProperties

\* A result may be short, long or very long, and so may a nudge: every pass of the
\* shortening is the last one for some conversation, and some do not fit after all.
MCChars ==
    [at \in {"user", "assistant", "tool"} \X (0..2) |->
        CASE at[1] = "user" -> <<4, 9, 46>>[at[2] + 1]
          [] at[1] = "assistant" -> 3 + 3 * at[2]
          [] at[1] = "tool" -> 1 + 20 * at[2]]
MCToolLimits == <<16, 8, 3>>
MCPlainLimits == <<7, 5, 2>>

MCDiagnostics == {"error: not declared"}
===============================================================================
