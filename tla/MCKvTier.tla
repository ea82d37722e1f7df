------------------------------- MODULE MCKvTier -------------------------------
EXTENDS KvTier

\* One client asks for the first block of the prompt the others ask for.
MCWant == [r \in Requests |-> IF r = "c" THEN 1 ELSE 2]
==============================================================================
