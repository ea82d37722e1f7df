---------------------------- MODULE MCMetalRuntime ----------------------------
EXTENDS MetalRuntime

\* c is urgent and overtakes; a and c sample alike, b does not.
MCPrompt == [x \in Clients |-> CASE x = "a" -> 3 [] x = "b" -> 1 [] x = "c" -> 2]
MCMaxTokens == [x \in Clients |-> IF x = "b" THEN 5 ELSE 4]
MCEndsAt == [x \in Clients |-> CASE x = "a" -> {1, 9} [] x = "b" -> {2, 9} [] x = "c" -> {9}]
MCParams == [x \in Clients |-> IF x = "b" THEN 1 ELSE 0]
MCPriority == [x \in Clients |-> IF x = "c" THEN 1 ELSE 0]
==============================================================================
