----------------------------- MODULE MetalRuntime -----------------------------
(***************************************************************************)
(* Serving on the Metal backend: the thread of backend/metal/runtime.rs,   *)
(* the scheduler it asks for each step (scheduler.rs) and the packed       *)
(* decode batch of request_state.rs, for a compiled Qwen3.5 model without  *)
(* draft model and prefix cache.  Such a request never joins a mixed       *)
(* batch: a step with both kinds of rows decodes, then prefills.           *)
(*                                                                         *)
(* The KV rows of the decoding requests live in one packed batch between   *)
(* steps: a row is padded on the left up to the common length, and the     *)
(* request's own arrays are stale until the batch is synced back.          *)
(*                                                                         *)
(* The i-th token of a request's text is <<client, i>>: the model samples  *)
(* it when it was fed exactly the tokens before it, in order, and <<client,*)
(* 0>> otherwise.  D_Word is a faulty variant of the definition D that     *)
(* follows it.                                                             *)
(***************************************************************************)
EXTENDS Integers, Sequences, SequencesExt, FiniteSets, FiniteSetsExt, Selections

CONSTANTS
    Clients,         \* each submits one request, named by its client
    Prompt,          \* client -> prompt length
    MaxTokens,       \* client -> max_tokens
    EndsAt,          \* client -> which generated token may be the ending one
    StopStrings,     \* clients whose ending token completes a stop string, not EOS
    Params,          \* client -> its sampling parameters
    Priority,        \* client -> its priority
    MaxRunning,      \* max_running_requests
    MaxBatchTokens,  \* max_batch_tokens
    MaxWaiting,      \* bound of the handle's queue
    HangUps,         \* clients that may drop their stream
    MaxFaults        \* bound: activations and forward passes that fail

ASSUME MetalAssumption ==
    /\ Prompt \in [Clients -> Nat \ {0}] /\ MaxTokens \in [Clients -> Nat \ {0}]
    /\ Priority \in [Clients -> Nat] /\ EndsAt \in [Clients -> SUBSET (Nat \ {0})]
    /\ MaxRunning \in Nat \ {0} /\ MaxBatchTokens \in Nat \ {0} /\ MaxWaiting \in Nat \ {0}

VARIABLES
    called,         \* clients that submitted
    closed,         \* clients that dropped their stream
    request_rx,     \* the channel
    waiting_count,  \* count of the handle
    arrival,        \* scheduler: requests by arrival_order
    waiting,        \* scheduler: waiting
    requests,       \* scheduler: keys of requests
    admitted,       \* scheduler: those with admitted set
    pending,        \* runtime: keys of pending
    active,         \* runtime: keys of active
    req,            \* request -> its MetalRequestState
    session,        \* requests whose C++ session is active
    cache,          \* qwen35_decode_batch_cache
    open,           \* rows of the decode under way and their tokens
    at, step,       \* where the thread is, and the step it executes
    ends,           \* client -> the number of its ending token
    out,            \* client -> tokens put in its stream
    done,           \* clients that were sent the final delta
    faults

clientVars == <<called, request_rx, ends>>
tables == <<arrival, waiting, requests, admitted, pending>>
metalVars == <<clientVars, closed, waiting_count, tables, active, req, session, cache, open, at,
               step, out, done, faults>>

None == [ids |-> <<>>]
NoStep == [decode |-> <<>>, prefill |-> {}, budget |-> 0]
NewRequest == [cursor |-> 0, generated |-> 0, last |-> <<>>, phase |-> "prefill",
               kv |-> <<>>, cache_len |-> 0, fed |-> <<>>]

MetalInit ==
    /\ called = {} /\ closed = {} /\ request_rx = <<>> /\ waiting_count = 0
    /\ arrival = <<>> /\ waiting = <<>> /\ requests = {} /\ admitted = {}
    /\ pending = {} /\ active = {} /\ req = [c \in Clients |-> NewRequest]
    /\ session = {} /\ cache = None /\ open = <<>> /\ at = "loop" /\ step = NoStep
    /\ ends \in {e \in [Clients -> UNION {EndsAt[c] : c \in Clients}] : \A c \in Clients : e[c] \in EndsAt[c]}
    /\ out = [c \in Clients |-> <<>>] /\ done = {} /\ faults = 0

-----------------------------------------------------------------------------
\* The clients

Submit(c) ==
    /\ c \notin called /\ waiting_count < MaxWaiting
    /\ called' = called \cup {c} /\ request_rx' = Append(request_rx, c)
    /\ waiting_count' = waiting_count + 1
    /\ UNCHANGED <<closed, ends, tables, active, req, session, cache, open, at, step, out, done, faults>>

HangUp(c) ==
    /\ c \in HangUps \cap called /\ c \notin closed \cup done
    /\ closed' = closed \cup {c}
    /\ UNCHANGED <<clientVars, waiting_count, tables, active, req, session, cache, open, at, step,
                   out, done, faults>>

-----------------------------------------------------------------------------
\* The scheduler

Arrived(c) == LET all == arrival \o request_rx IN CHOOSE i \in DOMAIN all : all[i] = c
Earlier(c, d) == Arrived(c) < Arrived(d)
\* compare_priority_waiting, compare_decode_order
Before(c, d) == Priority[c] > Priority[d] \/ (Priority[c] = Priority[d] /\ Earlier(c, d))
First(s, Less(_, _)) == CHOOSE c \in s : \A d \in s \ {c} : Less(c, d)

\* MetalScheduler::step over the requests the runtime has: all that decode,
\* and one that prefills, admitted now if none is under way.  queue is waiting,
\* in is the admitted requests.
DecodeRows(running) ==
    LET rows == {c \in running : req[c].phase = "decode"} IN
    CHOOSE q \in [1..Cardinality(rows) -> rows] : \A i, j \in DOMAIN q : i < j => Before(q[i], q[j])

PrefillRow_NewOnly(running, queue, in, cap) ==
    IF cap > 0 /\ Cardinality(in) < MaxRunning /\ queue # {} THEN {First(queue, Before)} ELSE {}
PrefillRow(running, queue, in, cap) ==
    LET prefilling == {c \in running : req[c].phase = "prefill"} IN
    IF cap <= 0 THEN {}
    ELSE IF prefilling # {} THEN {First(prefilling, Earlier)}
    ELSE IF Cardinality(in) < MaxRunning /\ queue # {} THEN {First(queue, Before)}
    ELSE {}

Least(a, b) == IF a < b THEN a ELSE b

Plan(running, queue, in) ==
    LET decode == DecodeRows(running)
        cap == MaxBatchTokens - Len(decode)
        prefill == PrefillRow(running, queue, in, cap)
        progress(c) == IF c \in running THEN req[c].cursor ELSE 0 IN
    [decode |-> decode, prefill |-> prefill,
     budget |-> IF prefill = {} THEN 0
                ELSE Least(cap, Min({Prompt[c] - progress(c) : c \in prefill}))]

\* Where the thread goes next: activate, decode, prefill, loop.  An idle step
\* goes round the loop ("again" and "loop" are one place, so that a turn is
\* never a stuttering step).
FromDecode(s, running) == IF s.prefill \subseteq running /\ s.prefill # {} THEN "prefill" ELSE "loop"
FromActivate(s, running) == IF s.decode # <<>> THEN "decode" ELSE FromDecode(s, running)
FromPlan(s, running) ==
    IF s = NoStep THEN IF at = "loop" THEN "again" ELSE "loop"
    ELSE IF s.prefill \subseteq running THEN FromActivate(s, running) ELSE "activate"

\* When the thread has a step to take; with none it blocks on the channel.
Busy == at \notin {"loop", "again"} \/ request_rx # <<>> \/ active # {} \/ waiting # <<>>

\* One turn of the loop: drain_incoming_requests, reap_closed_clients and the
\* plan.
Reaped == Len(Keeping(request_rx, closed)) + Cardinality(pending \cap closed)

Turn ==
    LET fresh == Keeping(request_rx, Clients \ closed)
        running == active \ closed
        queue == ToSet(waiting \o fresh) \ closed
        planned == Plan(running, queue, admitted \ closed)
        new == planned.prefill \ running IN
    /\ at \in {"loop", "again"} /\ Busy
    /\ request_rx' = <<>> /\ arrival' = arrival \o fresh
    /\ waiting_count' = waiting_count - Reaped
    /\ waiting' = Keeping(waiting \o fresh, Clients \ (closed \cup new))
    /\ requests' = (requests \cup ToSet(fresh)) \ closed
    /\ admitted' = (admitted \ closed) \cup new
    /\ pending' = (pending \cup ToSet(fresh)) \ closed
    /\ active' = running /\ session' = session \ closed
    /\ step' = planned /\ at' = FromPlan(planned, running)
    /\ UNCHANGED <<called, closed, ends, req, cache, open, out, done, faults>>

-----------------------------------------------------------------------------
\* The requests cs leave the scheduler and the runtime; dropping one ends its
\* session (ResumableRequestState::cleanup_once).
Gone_KeepSession(cs) ==
    /\ requests' = requests \ cs /\ admitted' = admitted \ cs /\ UNCHANGED session
Gone(cs) ==
    /\ requests' = requests \ cs /\ admitted' = admitted \ cs /\ session' = session \ cs

Fault == faults < MaxFaults /\ faults' = faults + 1

\* activate_pending_request: the request may be refused, its client gone, or
\* the request state fail to be created.
Activate ==
    \E c \in step.prefill :
        /\ at = "activate" /\ pending' = pending \ {c} /\ waiting_count' = waiting_count - 1
        /\ \/ /\ c \notin closed /\ active' = active \cup {c}
              /\ req' = [req EXCEPT ![c] = NewRequest]
              /\ UNCHANGED <<requests, admitted, session, faults>>
           \/ /\ (c \in closed /\ UNCHANGED faults) \/ (c \notin closed /\ Fault)
              /\ Gone({c}) /\ UNCHANGED <<active, req>>
        /\ at' = FromActivate(step, active')
        /\ UNCHANGED <<clientVars, closed, arrival, waiting, cache, open, step, out, done>>

-----------------------------------------------------------------------------
\* The packed batch

Pad == <<"pad", 0>>
Padding(n) == [i \in 1..n |-> Pad]
Strip(row, pad) == SubSeq(row, pad + 1, Len(row))

\* What the model samples after the tokens kv.
Sampled(kv) == LET c == kv[1][1] IN
    IF kv = [i \in DOMAIN kv |-> <<c, i>>] THEN <<c, Len(kv) + 1>> ELSE <<c, 0>>

\* record_sampled_token
Record(c, r, token) ==
    [r EXCEPT !.last = token, !.generated = @ + 1,
              !.phase = IF (token = <<c, Prompt[c] + ends[c]>> /\ c \notin StopStrings)
                           \/ r.generated + 1 >= MaxTokens[c] THEN "finished" ELSE "decode"]

OwnRow(r, len) == Padding(len - r.cache_len) \o SubSeq(r.kv, 1, r.cache_len)

\* try_build_qwen35_packed_decode_batch
Build(ids, rs) ==
    LET len == Max({rs[c].cache_len : c \in ToSet(ids)}) IN
    [ids |-> ids, len |-> len, prev |-> <<>>,
     pad  |-> [i \in DOMAIN ids |-> len - rs[ids[i]].cache_len],
     rows |-> [i \in DOMAIN ids |-> OwnRow(rs[ids[i]], len)]]

Indices(ids, keep) == Keeping([i \in DOMAIN ids |-> i], {i \in DOMAIN ids : ids[i] \in keep})
Picked(s, ix) == [i \in DOMAIN ix |-> s[ix[i]]]

\* retain_rows with shrink_time_axis: the columns that no row needs any more go.
Retain_KeepPad(b, ix) ==
    LET cut == Min(ToSet(Picked(b.pad, ix))) IN
    IF ix = [i \in DOMAIN b.ids |-> i] THEN b
    ELSE [ids |-> Picked(b.ids, ix), len |-> b.len - cut,
          prev |-> IF b.prev = <<>> THEN <<>> ELSE Picked(b.prev, ix),
          pad |-> Picked(b.pad, ix),
          rows |-> [i \in DOMAIN ix |-> Strip(b.rows[ix[i]], cut)]]
Retain(b, ix) ==
    LET cut == Min(ToSet(Picked(b.pad, ix))) IN
    IF ix = [i \in DOMAIN b.ids |-> i] THEN b
    ELSE [ids |-> Picked(b.ids, ix), len |-> b.len - cut,
          prev |-> IF b.prev = <<>> THEN <<>> ELSE Picked(b.prev, ix),
          pad |-> [i \in DOMAIN ix |-> b.pad[ix[i]] - cut],
          rows |-> [i \in DOMAIN ix |-> Strip(b.rows[ix[i]], cut)]]

\* admit_rows: new rows at the end; the pipeline starts again.
Admit(b, ids, rs) ==
    LET row(i) == IF i <= Len(b.ids) THEN b.rows[i] ELSE OwnRow(rs[ids[i]], b.len)
        pad(i) == IF i <= Len(b.ids) THEN b.pad[i] ELSE b.len - rs[ids[i]].cache_len IN
    [b EXCEPT !.ids = ids, !.prev = <<>>,
              !.rows = [i \in DOMAIN ids |-> row(i)], !.pad = [i \in DOMAIN ids |-> pad(i)]]

\* invalidate_qwen35_decode_batch_cache: the rows of requests still there go
\* back to their owners (sync_qwen35_packed_decode_batch).
Synced(b, here, rs) ==
    LET keep == ToSet(b.ids) \cap here
        s == Retain(b, Indices(b.ids, keep))
        i(c) == CHOOSE k \in DOMAIN s.ids : s.ids[k] = c
        own(c) == Strip(s.rows[i(c)], s.pad[i(c)]) IN
    IF keep = {} THEN rs
    ELSE [c \in Clients |-> IF c \in keep THEN [rs[c] EXCEPT !.kv = own(c), !.cache_len = Len(own(c))]
                            ELSE rs[c]]

\* What execute_qwen35_packed_decode_batch makes of the cached batch for the
\* rows ids: leave it, shrink it, grow it, or sync it back and build again.
retained_row_indices(ids) == ids = Picked(cache.ids, Indices(cache.ids, ToSet(ids)))
admit_row_indices(ids) == /\ cache # None /\ IsStrictPrefix(cache.ids, ids)
                          /\ \A i \in Len(cache.ids) + 1..Len(ids) : req[ids[i]].cache_len <= cache.len

Adjusted(ids) ==
    IF retained_row_indices(ids)
    THEN [batch |-> Retain(cache, Indices(cache.ids, ToSet(ids))), rs |-> req, drained |-> {}]
    ELSE IF admit_row_indices(ids)
    THEN [batch |-> Admit(cache, ids, req), rs |-> req, drained |-> ToSet(ids) \ ToSet(cache.ids)]
    ELSE LET rs == Synced(cache, ToSet(ids) \cup (active \ ToSet(step.decode)), req) IN
         [batch |-> Build(ids, rs), rs |-> rs, drained |-> ToSet(ids)]

qwen35_can_batch_sample(ids) == \A i \in DOMAIN ids : Params[ids[i]] = Params[ids[1]]

\* decode_qwen35_packed_batch.  Without prev_sampled the rows are fed their
\* last tokens and the samples returned; with it (the pipelined variant) the
\* rows are fed, and the callers given, what was sampled in the call before.
Input(b, rs) == IF b.prev = <<>> THEN [i \in DOMAIN b.ids |-> rs[b.ids[i]].last] ELSE b.prev
Returned(b, sampled) == IF b.prev = <<>> THEN sampled ELSE b.prev

Forward(b, rs) ==
    LET input == Input(b, rs)
        rows == [i \in DOMAIN b.ids |-> Append(b.rows[i], input[i])]
        sampled == [i \in DOMAIN b.ids |-> Sampled(Strip(rows[i], b.pad[i]))]
        tokens == Returned(b, sampled)
        next == [b EXCEPT !.rows = rows, !.len = @ + 1,
                          !.prev = IF qwen35_can_batch_sample(b.ids) THEN sampled ELSE <<>>]
        i(c) == CHOOSE k \in DOMAIN b.ids : b.ids[k] = c
        fed(c) == [rs[c] EXCEPT !.fed = Append(@, input[i(c)]), !.cache_len = next.len - b.pad[i(c)]] IN
    [batch |-> next,
     open |-> [k \in DOMAIN b.ids |-> [id |-> b.ids[k], token |-> tokens[k]]],
     rs |-> [c \in Clients |-> IF c \in ToSet(b.ids) THEN Record(c, fed(c), tokens[i(c)]) ELSE rs[c]]]

\* execute_decode_batch up to the tokens; the rows leave active meanwhile.
Decode ==
    LET gone == ToSet(step.decode) \cap closed
        ids == Keeping(step.decode, Clients \ closed)
        adjusted == Adjusted(ids)
        result == Forward(adjusted.batch, adjusted.rs)
        finished == {c \in ToSet(ids) : result.rs[c].phase = "finished"} IN
    /\ at = "decode"
    /\ active' = active \ ToSet(step.decode)
    /\ requests' = requests \ gone /\ admitted' = admitted \ gone
    /\ IF ids = <<>>
       THEN /\ cache' = None /\ session' = session \ gone
            /\ at' = FromDecode(step, active') /\ UNCHANGED <<req, open>>
       ELSE /\ cache' = result.batch /\ req' = result.rs /\ open' = result.open /\ at' = "deliver"
            /\ session' = session \ (gone \cup adjusted.drained \cup finished)
    /\ UNCHANGED <<clientVars, closed, waiting_count, arrival, waiting, pending, step, out, done, faults>>

\* The forward pass fails or panics: every row is cancelled.
DecodeFails ==
    /\ at = "decode" /\ Fault /\ Gone(ToSet(step.decode))
    /\ active' = active \ ToSet(step.decode) /\ cache' = None
    /\ at' = FromDecode(step, active')
    /\ UNCHANGED <<clientVars, closed, waiting_count, arrival, waiting, pending, req, open, step,
                   out, done>>

\* process_token, then finish_or_requeue_decoded_request.
StopHit(c, token) == c \in StopStrings /\ token = <<c, Prompt[c] + ends[c]>>

Keep(c, token) ==
    /\ out' = [out EXCEPT ![c] = Append(@, token)]
    /\ IF req'[c].phase = "finished" \/ StopHit(c, token)
       THEN Gone({c}) /\ done' = done \cup {c} /\ active' = active \ {c}
       ELSE active' = active \cup {c} /\ UNCHANGED <<requests, admitted, session, done>>

\* handle_detached_postprocess_error: the stream's consumer is gone.
Lose(c) == c \in closed /\ Gone({c}) /\ active' = active \ {c} /\ UNCHANGED <<out, done>>

\* After the last row the finished ones leave the cached batch.
Compacted(running) ==
    LET keep == ToSet(cache.ids) \cap running IN
    IF keep = {} THEN None ELSE Retain(cache, Indices(cache.ids, keep))

Deliver ==
    LET row == Head(open) IN
    /\ at = "deliver" /\ UNCHANGED req
    /\ Keep(row.id, row.token) \/ Lose(row.id)
    /\ open' = Tail(open)
    /\ IF Len(open) = 1
       THEN cache' = Compacted(active') /\ at' = FromDecode(step, active')
       ELSE UNCHANGED <<cache, at>>
    /\ UNCHANGED <<clientVars, closed, waiting_count, arrival, waiting, pending, step, faults>>

-----------------------------------------------------------------------------
\* execute_prefill_chunk.  drain_other_qwen35_cpp_sessions ends the sessions of the
\* active requests first; a decode has done so before, so it cannot fail here.
Fed(c) ==
    LET r == req[c]
        chunk == [i \in 1..step.budget |-> <<c, r.cursor + i>>] IN
    [r EXCEPT !.cursor = @ + step.budget, !.cache_len = @ + step.budget,
              !.kv = SubSeq(@, 1, r.cache_len) \o chunk, !.fed = @ \o chunk]

Prefill ==
    \E c \in step.prefill :
        LET r == Fed(c)
            others == session \ active IN
        /\ at = "prefill" /\ c \notin closed /\ at' = "loop"
        /\ IF r.cursor < Prompt[c]
           THEN /\ req' = [req EXCEPT ![c] = r] /\ session' = others \cup {c}
                /\ UNCHANGED <<requests, admitted, active, out, done>>
           ELSE LET token == Sampled(r.kv)
                    recorded == Record(c, r, token) IN
                /\ req' = [req EXCEPT ![c] = recorded]
                /\ out' = [out EXCEPT ![c] = Append(@, token)]
                /\ IF recorded.phase = "finished" \/ StopHit(c, token)
                   THEN /\ requests' = requests \ {c} /\ admitted' = admitted \ {c} /\ session' = others
                        /\ done' = done \cup {c} /\ active' = active \ {c}
                   ELSE session' = others \cup {c} /\ UNCHANGED <<requests, admitted, active, done>>
        /\ UNCHANGED <<clientVars, closed, waiting_count, arrival, waiting, pending, cache, open,
                       step, faults>>

\* The client is gone, or the forward pass fails or panics.
PrefillFails ==
    \E c \in step.prefill :
        /\ at = "prefill"
        /\ (c \in closed /\ UNCHANGED faults) \/ (c \notin closed /\ Fault)
        /\ requests' = requests \ {c} /\ admitted' = admitted \ {c} /\ session' = session \ active
        /\ active' = active \ {c} /\ at' = "loop"
        /\ UNCHANGED <<clientVars, closed, waiting_count, arrival, waiting, pending, req, cache, open,
                       step, out, done>>

-----------------------------------------------------------------------------
RuntimeStep == Turn \/ Activate \/ Decode \/ DecodeFails \/ Deliver \/ Prefill \/ PrefillFails

MetalNext == RuntimeStep \/ \E c \in Clients : Submit(c) \/ HangUp(c)

\* The thread keeps running: weak fairness of RuntimeStep, which changes the
\* state whenever Busy holds; TLC is slow to find that out by itself.
Fairness == []<>~Busy \/ []<><<RuntimeStep>>_metalVars

MetalSpec == MetalInit /\ [][MetalNext]_metalVars /\ Fairness

-----------------------------------------------------------------------------
\* The tables of scheduler and runtime name the same requests: an admitted
\* request is active (or a row of the decode under way), so the scheduler finds
\* a snapshot of it and never panics (scheduler.rs:455); waiting ones are
\* pending and counted, though clients leave and steps fail at any point; and
\* the one C++ session belongs to a request that will drain it
\* (request_state.rs:1247).
TablesAgree ==
    LET rows == {open[i].id : i \in DOMAIN open}
        activating == IF at = "activate" THEN step.prefill ELSE {} IN
    /\ requests = pending \cup active \cup rows
    /\ admitted = active \cup rows \cup activating
    /\ ToSet(waiting) = pending \ activating
    /\ waiting_count = Len(request_rx) + Cardinality(pending)
    /\ session \subseteq active \cup rows /\ Cardinality(session) <= 1

\* However the packed batch was built, grown, compacted, synced back and built
\* again, the columns of a row after its padding are the tokens its own request
\* was fed, and a request outside it has them in its own arrays
\* (request_state.rs:870).
RowsAligned ==
    /\ \A i \in DOMAIN cache.ids :
          LET r == req[cache.ids[i]] IN
          /\ Strip(cache.rows[i], cache.pad[i]) = r.fed
          /\ r.cache_len = cache.len - cache.pad[i] /\ Len(cache.rows[i]) = cache.len
    /\ \A c \in active : c \notin ToSet(cache.ids) => req[c].kv = req[c].fed /\ req[c].cache_len = Len(req[c].fed)

\* A request is answered with a final delta unless its client leaves or a step
\* fails; then it leaves the scheduler.  Higher priorities and decodes that take
\* from the prefill budget only delay it.
Served ==
    \A c \in Clients : (c \in called) ~>
        \/ c \in done \cup closed
        \/ faults > 0 /\ c \notin requests \cup ToSet(request_rx)

\* "Each scheduler call thus receives one new token per state"
\* (request_state.rs:2791): no token of the text is put in the stream twice.
OneNewTokenPerCall == \A c \in Clients : \A i, j \in DOMAIN out[c] : out[c][i] = out[c][j] => i = j
=============================================================================
