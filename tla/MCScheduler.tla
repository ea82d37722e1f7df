---------------------------- MODULE MCScheduler ----------------------------
EXTENDS Scheduler

\* Two chunks of prefill, three tokens: eight pages hold both prompts but not
\* both completions, so one request is preempted.
MCPrompt == [c \in Clients |-> 3]
MCMaxTokens == [c \in Clients |-> 3]

\* A model with the mixed launch and asynchronous prefill, and one without
\* either whose one-token chunks run ahead of decoding.
MCSetups == {[mixed |-> TRUE, async |-> TRUE, short |-> 0],
             [mixed |-> FALSE, async |-> FALSE, short |-> 1]}
=============================================================================
