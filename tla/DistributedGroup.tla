--------------------------- MODULE DistributedGroup ---------------------------
(***************************************************************************)
(* Serving one model with several ranks (DistributedSchedulerGroup in      *)
(* infer/src/request_handle.rs, the permits and the token coordinator of   *)
(* scheduler/types.rs, multiproc_relay.rs and the worker loop of main.rs). *)
(* Every request is given to one scheduler per rank.  The schedulers take  *)
(* their turns on their own; they meet in the collectives of the forward   *)
(* pass, and rank 0 decides each token.                                    *)
(*                                                                         *)
(* mode "threads": the ranks are threads of one process, each with its own *)
(* queue, and the token of a step is published under the request.  mode    *)
(* "relay": ranks above 0 are processes fed through TCP streams, and the   *)
(* token is an NCCL broadcast.                                             *)
(*                                                                         *)
(* A rank's turn is reduced to: drain the queue, admit into free slots,    *)
(* preempt when KV pages are short, one forward over everything running,   *)
(* one token per row (Scheduler has the rest).  D_Word is a faulty variant *)
(* of the definition D that follows it.                                    *)
(***************************************************************************)
EXTENDS Integers, Sequences, SequencesExt, FiniteSets

CONSTANTS
    Clients,      \* threads that call submit, each one request after another
    MaxRequests,  \* bound: requests of a client
    NumRanks,
    NumSlots,
    MaxWaiting,   \* max_waiting of every handle
    MaxTokens,
    Words,        \* the tokens a rank may sample, besides the stop token
    Modes,        \* the modes explored
    HangUps,      \* clients that may drop their stream
    MaxFaults,    \* bound: relay writes that fail
    MaxPreempts   \* bound: preemptions, on all ranks together

ASSUME GroupAssumption ==
    /\ NumRanks \in Nat \ {0, 1} /\ NumSlots \in Nat \ {0}
    /\ MaxWaiting \in Nat \ {0} /\ MaxTokens \in Nat \ {0}
    /\ "stop" \notin Words /\ Modes \subseteq {"threads", "relay"}

VARIABLES
    mode,
    client,         \* client -> where its call is and how many it made
    lock,           \* holder of submission_lock
    waiting_count,  \* rank -> count shared by handle and scheduler
    request_rx,     \* rank -> the scheduler's channel
    wire,           \* rank -> envelopes in its TCP stream
    queue,          \* rank -> requests drained and not admitted
    running,        \* rank -> requests in slots
    at,             \* rank -> where its scheduler is
    rows,           \* rank -> the rows of its forward, then those left to sync
    history,        \* rank -> request -> generated_tokens
    published,      \* request -> state of its DistributedTokenCoordinator
    ended,          \* rank -> requests it finished
    order,          \* history: rank -> requests in the order they were queued
    closed,         \* requests whose client hung up
    faults,
    restarted,      \* history: requests rank 0 has preempted
    preempts

allGroupVars == <<mode, client, lock, waiting_count, request_rx, wire, queue, running, at, rows,
          history, published, ended, order, closed, faults, restarted, preempts>>
kvVars == <<restarted, preempts>>
rankVars == <<queue, running, at, rows, history, published, ended, kvVars>>
groupVars == <<client, lock, wire, order, closed, faults>>

Ranks == 0..NumRanks - 1
Requests == Clients \X (1..MaxRequests)
Tokens == Words \cup {"stop"}
Current(c) == <<c, client[c].calls>>

GroupInit ==
    /\ mode \in Modes
    /\ client = [c \in Clients |-> [at |-> "idle", calls |-> 0, rank |-> 0]]
    /\ lock = {} /\ faults = 0 /\ closed = {} /\ restarted = {} /\ preempts = 0
    /\ waiting_count = [r \in Ranks |-> 0]
    /\ request_rx = [r \in Ranks |-> <<>>] /\ wire = [r \in Ranks |-> <<>>]
    /\ queue = [r \in Ranks |-> <<>>] /\ running = [r \in Ranks |-> <<>>]
    /\ at = [r \in Ranks |-> "drain"] /\ rows = [r \in Ranks |-> <<>>]
    /\ history = [r \in Ranks |-> [q \in Requests |-> <<>>]]
    /\ published = [q \in Requests |-> [step |-> -1, token |-> "none"]]
    /\ ended = [r \in Ranks |-> {}] /\ order = [r \in Ranks |-> <<>>]

-----------------------------------------------------------------------------
\* DistributedSchedulerGroup::submit.  Handles of other processes are reached
\* through the relay, so only rank 0 has a permit there.
LocalRanks == IF mode = "threads" THEN Ranks ELSE {0}
Holds(c, r) == /\ r \in LocalRanks
               /\ \/ client[c].at = "reserve" /\ r < client[c].rank
                  \/ client[c].at = "send" /\ (mode = "threads" => r >= client[c].rank)

\* The call of c is now at where, about to turn to rank r.
Move(c, where, r) == client' = [client EXCEPT ![c] = [at |-> where, calls |-> @.calls, rank |-> r]]

Submit_NoLock(c) ==
    /\ client[c].at = "idle" /\ client[c].calls < MaxRequests
    /\ lock' = lock \cup {c}
    /\ client' = [client EXCEPT ![c] = [at |-> "reserve", calls |-> @.calls + 1, rank |-> 0]]
    /\ UNCHANGED <<mode, waiting_count, request_rx, wire, order, closed, faults, rankVars>>
Submit(c) ==
    /\ client[c].at = "idle" /\ client[c].calls < MaxRequests
    /\ lock = {} /\ lock' = {c}
    /\ client' = [client EXCEPT ![c] = [at |-> "reserve", calls |-> @.calls + 1, rank |-> 0]]
    /\ UNCHANGED <<mode, waiting_count, request_rx, wire, order, closed, faults, rankVars>>

\* reserve_submission of the next local handle; the broadcast goes to rank 1 first.
Reserve(c) ==
    LET r == client[c].rank IN
    /\ client[c].at = "reserve" /\ waiting_count[r] < MaxWaiting
    /\ waiting_count' = [waiting_count EXCEPT ![r] = @ + 1]
    /\ IF r + 1 \in LocalRanks THEN Move(c, "reserve", r + 1)
       ELSE Move(c, "send", IF mode = "threads" THEN 0 ELSE 1)
    /\ UNCHANGED <<mode, lock, request_rx, wire, order, closed, faults, rankVars>>

\* submit returns SubmitError: the permits not used are dropped, then the lock.
DropPermits_Keep(c) == UNCHANGED waiting_count
DropPermits(c) ==
    waiting_count' = [r \in Ranks |-> IF Holds(c, r) THEN waiting_count[r] - 1 ELSE waiting_count[r]]

GiveUp(c) == /\ DropPermits(c) /\ lock' = lock \ {c}
             /\ Move(c, "idle", 0)

Full(c) ==
    /\ client[c].at = "reserve" /\ waiting_count[client[c].rank] >= MaxWaiting
    /\ GiveUp(c)
    /\ UNCHANGED <<mode, request_rx, wire, order, closed, faults, rankVars>>

\* SchedulerSubmissionPermit::submit, or the write to one worker's stream.
Send(c) ==
    LET r == client[c].rank
        last == r = IF mode = "threads" THEN NumRanks - 1 ELSE 0 IN
    /\ client[c].at = "send"
    /\ IF r \in LocalRanks
       THEN /\ request_rx' = [request_rx EXCEPT ![r] = Append(@, Current(c))]
            /\ order' = [order EXCEPT ![r] = Append(@, Current(c))]
            /\ UNCHANGED wire
       ELSE /\ wire' = [wire EXCEPT ![r] = Append(@, Current(c))]
            /\ UNCHANGED <<request_rx, order>>
    /\ IF last THEN Move(c, "stream", 0)
       ELSE Move(c, "send", IF r + 1 \in Ranks THEN r + 1 ELSE 0)
    /\ lock' = IF last THEN lock \ {c} ELSE lock
    /\ UNCHANGED <<mode, waiting_count, closed, faults, rankVars>>

\* broadcast stops at the first stream it cannot write.
BroadcastFails(c) ==
    /\ client[c].at = "send" /\ client[c].rank \notin LocalRanks
    /\ faults < MaxFaults /\ faults' = faults + 1
    /\ GiveUp(c)
    /\ UNCHANGED <<mode, request_rx, wire, order, closed, rankVars>>

\* The client reads its stream to the end, which is rank 0's.
StreamEnds(c) ==
    /\ client[c].at = "stream" /\ Current(c) \in ended[0]
    /\ Move(c, "idle", 0)
    /\ UNCHANGED <<mode, lock, waiting_count, request_rx, wire, order, closed, faults, rankVars>>

HangUp(c) ==
    /\ c \in HangUps /\ client[c].at = "stream" /\ closed' = closed \cup {Current(c)}
    /\ Move(c, "idle", 0)
    /\ UNCHANGED <<mode, lock, waiting_count, request_rx, wire, order, faults, rankVars>>

\* The relay thread of a worker process; a full queue loses the request.
RelayReceive(r) ==
    LET q == Head(wire[r])
        fits == waiting_count[r] < MaxWaiting IN
    /\ wire[r] # <<>> /\ wire' = [wire EXCEPT ![r] = Tail(@)]
    /\ IF fits
       THEN /\ waiting_count' = [waiting_count EXCEPT ![r] = @ + 1]
            /\ request_rx' = [request_rx EXCEPT ![r] = Append(@, q)]
            /\ order' = [order EXCEPT ![r] = Append(@, q)]
       ELSE UNCHANGED <<waiting_count, request_rx, order>>
    /\ UNCHANGED <<mode, client, lock, closed, faults, rankVars>>

-----------------------------------------------------------------------------
\* The scheduler of rank r

Go(r, where) == at' = [at EXCEPT ![r] = where]

\* drain_request_rx
Drain(r) ==
    /\ at[r] = "drain" /\ request_rx[r] # <<>>
    /\ queue' = [queue EXCEPT ![r] = Append(@, Head(request_rx[r]))]
    /\ request_rx' = [request_rx EXCEPT ![r] = Tail(@)]
    /\ waiting_count' = [waiting_count EXCEPT ![r] = @ - 1]
    /\ UNCHANGED <<mode, groupVars, running, at, rows, history, published, ended, kvVars>>

HasWork(r) == queue[r] # <<>> \/ running[r] # <<>>

\* The channel is empty; with nothing to do the scheduler waits here.
Drained(r) ==
    /\ at[r] = "drain" /\ request_rx[r] = <<>> /\ HasWork(r) /\ Go(r, "plan")
    /\ UNCHANGED <<mode, groupVars, waiting_count, request_rx, queue, running, rows, history,
                   published, ended, kvVars>>

\* Only rank 0's stream has a client that can leave.
Gone(r, q) == r = 0 /\ q \in closed

\* How many waiting requests find a slot.
Admitted(r) == LET free == NumSlots - Len(running[r]) IN
    IF Len(queue[r]) < free THEN Len(queue[r]) ELSE free

\* retract_decode_to_fit: whom a rank short of KV pages may preempt, those with
\* the fewest generated tokens first and never all of its decode rows.
Retractable(r, decode) ==
    {V \in SUBSET decode : /\ V = {} \/ V # decode
                           /\ \A v \in V, u \in decode \ V : Len(history[r][v]) <= Len(history[r][u])}

\* assign_slots, preemption (requeue_preempted_decode: back to the head of the
\* queue with the same coordinator and no generated token), then the forward over
\* every row left.
Launch(r) ==
    LET n == Admitted(r)
        all == running[r] \o SubSeq(queue[r], 1, n)
        live == SelectSeq(all, LAMBDA q : ~Gone(r, q)) IN
    /\ at[r] = "plan"
    /\ \E V \in Retractable(r, ToSet(running[r]) \cap ToSet(live)) :
       \E back \in SetToSeqs(V) :
          LET batch == SelectSeq(live, LAMBDA q : q \notin V) IN
          /\ \A i, j \in DOMAIN back :
                 i < j => Len(history[r][back[i]]) >= Len(history[r][back[j]])
          /\ preempts + Cardinality(V) <= MaxPreempts
          /\ preempts' = preempts + Cardinality(V)
          /\ restarted' = IF r = 0 THEN restarted \cup V ELSE restarted
          /\ history' = [history EXCEPT ![r] = [q \in Requests |-> IF q \in V THEN <<>> ELSE @[q]]]
          /\ queue' = [queue EXCEPT ![r] = back \o SubSeq(@, n + 1, Len(@))]
          /\ running' = [running EXCEPT ![r] = batch]
          /\ rows' = [rows EXCEPT ![r] = batch]
          /\ Go(r, IF batch = <<>> THEN "drain" ELSE "forward")
    /\ ended' = [ended EXCEPT ![r] = @ \cup (ToSet(all) \ ToSet(live))]
    /\ UNCHANGED <<mode, groupVars, waiting_count, request_rx, published>>

\* The collectives of a forward complete when every rank has entered them.
Forward ==
    /\ \A r \in Ranks : at[r] = "forward"
    /\ at' = [r \in Ranks |-> "sync"]
    /\ UNCHANGED <<mode, groupVars, waiting_count, request_rx, queue, running, rows, history,
                   published, ended, kvVars>>

\* The head row of each rank in rs takes its token: a stop token ends it, any
\* other is appended and may reach the limit.
Apply(rs, token) ==
    LET q(r) == Head(rows[r])
        over(r) == token = "stop" \/ Len(history[r][q(r)]) + 1 >= MaxTokens IN
    /\ history' = [r \in Ranks |-> IF r \in rs /\ token # "stop"
                                   THEN [history[r] EXCEPT ![q(r)] = Append(@, token)] ELSE history[r]]
    /\ ended' = [r \in Ranks |-> IF r \in rs /\ over(r) THEN ended[r] \cup {q(r)} ELSE ended[r]]
    /\ running' = [r \in Ranks |-> IF r \in rs /\ over(r)
                                   THEN SelectSeq(running[r], LAMBDA x : x # q(r)) ELSE running[r]]
    /\ rows' = [r \in Ranks |-> IF r \in rs THEN Tail(rows[r]) ELSE rows[r]]
    /\ at' = [r \in Ranks |-> IF r \in rs /\ Len(rows[r]) = 1 THEN "drain" ELSE at[r]]
    /\ UNCHANGED <<mode, groupVars, waiting_count, request_rx, queue, kvVars>>

\* finish_slot_with_error for the head row
Fail(r) ==
    LET q == Head(rows[r]) IN
    /\ ended' = [ended EXCEPT ![r] = @ \cup {q}]
    /\ running' = [running EXCEPT ![r] = SelectSeq(@, LAMBDA x : x # q)]
    /\ rows' = [rows EXCEPT ![r] = Tail(@)]
    /\ at' = [at EXCEPT ![r] = IF Len(rows[r]) = 1 THEN "drain" ELSE @]
    /\ UNCHANGED <<mode, groupVars, waiting_count, request_rx, queue, history, published, kvVars>>

Step(r) == Len(history[r][Head(rows[r])])
Slot(r) == published[Head(rows[r])]

\* synchronize_token, rank 0: publish what was sampled, unless the step was
\* published already.
Publish ==
    \E token \in Tokens :
        /\ mode = "threads" /\ at[0] = "sync"
        /\ Slot(0).step = Step(0) => token = Slot(0).token
        /\ published' = [published EXCEPT ![Head(rows[0])] = [step |-> Step(0), token |-> token]]
        /\ Apply({0}, token)

\* synchronize_token, the others: what this rank sampled itself is overridden.
Follow_Local(r) ==
    /\ mode = "threads" /\ r # 0 /\ at[r] = "sync" /\ Slot(r).step = Step(r)
    /\ \E token \in Tokens : Apply({r}, token)
    /\ UNCHANGED published
Follow(r) ==
    /\ mode = "threads" /\ r # 0 /\ at[r] = "sync" /\ Slot(r).step = Step(r)
    /\ Apply({r}, Slot(r).token) /\ UNCHANGED published

StepSkipped(r) ==
    /\ mode = "threads" /\ r # 0 /\ at[r] = "sync" /\ Slot(r).step > Step(r)
    /\ Fail(r)

\* DISTRIBUTED_TOKEN_WAIT_TIMEOUT, five minutes, outlasts any step of rank 0
\* that can be taken: it fires only when rank 0 waits for somebody else.
WaitTimesOut(r) ==
    /\ mode = "threads" /\ r # 0 /\ at[r] = "sync" /\ Slot(r).step < Step(r)
    /\ at[0] = "forward" \/ (at[0] = "drain" /\ request_rx[0] = <<>> /\ ~HasWork(0))
    /\ Fail(r)

\* The broadcast pairs the calls of the ranks in the order they are made,
\* whatever request they are for.
BroadcastToken ==
    \E token \in Tokens :
        /\ mode = "relay" /\ \A r \in Ranks : at[r] = "sync"
        /\ Apply(Ranks, token) /\ UNCHANGED published

-----------------------------------------------------------------------------
CallStep(c) == Reserve(c) \/ Full(c) \/ Send(c)
RankStep(r) == Drain(r) \/ Drained(r) \/ Launch(r)
TokenStep == \/ Publish \/ BroadcastToken
             \/ \E r \in Ranks : Follow(r) \/ StepSkipped(r) \/ WaitTimesOut(r)

GroupNext ==
    \/ \E c \in Clients : Submit(c) \/ CallStep(c) \/ BroadcastFails(c) \/ StreamEnds(c) \/ HangUp(c)
    \/ \E r \in Ranks : RelayReceive(r) \/ RankStep(r)
    \/ Forward \/ TokenStep

GroupSpec == GroupInit /\ [][GroupNext]_allGroupVars

-----------------------------------------------------------------------------
\* waiting_count is what is in the scheduler's channel and the permits not yet
\* used or dropped, so the bound of reserve_submission is never overrun and the
\* scheduler's fetch_sub never wraps (types.rs:1160).
CountExact ==
    \A r \in Ranks : waiting_count[r] = Len(request_rx[r]) + Cardinality({c \in Clients : Holds(c, r)})

\* Two requests that reach two ranks are queued in the same order on both,
\* although clients submit concurrently (submission_lock, request_handle.rs:97).
SameOrder ==
    \A r \in Ranks : \A i, j \in DOMAIN order[0] :
        (i < j /\ order[0][i] \in ToSet(order[r]) /\ order[0][j] \in ToSet(order[r])) =>
            \E k, l \in DOMAIN order[r] : k < l /\ order[r][k] = order[0][i] /\ order[r][l] = order[0][j]

\* With the coordinator of one process, which names request and step, a
\* follower's tokens of a request that rank 0 has not preempted are rank 0's as
\* far as they go, even when the ranks' turns drift apart, the follower preempts
\* it, steps are skipped or waits time out (types.rs:150).
FollowersAgree ==
    mode = "threads" => \A r \in Ranks, q \in Requests \ restarted :
                            IsPrefix(history[r][q], history[0][q])
==============================================================================
