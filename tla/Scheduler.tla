------------------------------ MODULE Scheduler ------------------------------
(***************************************************************************)
(* The CUDA scheduler loop and its emit worker: intake, admission, the     *)
(* pipelined launch / readback of prefill and decode batches, preemption,  *)
(* cleanup, and the thread that turns tokens into client deltas and        *)
(* answers the stop-string gate.  Pages hold one token; prefix cache,      *)
(* speculation and multi-rank serving are switched off.                    *)
(*                                                                         *)
(* The scheduler thread owns the record s; every operator below maps one   *)
(* value of it to the next, as the &mut self methods do.  An operator      *)
(* named D_Word is a faulty variant of the definition D below it; no       *)
(* specification uses it.                                                  *)
(***************************************************************************)
EXTENDS Integers, SequencesExt

CONSTANTS Clients,        \* one request each
          NumSlots,
          Prompt,         \* prompt tokens of each client
          MaxTokens,      \* completion limit of each client
          StopClients,    \* clients whose request carries a stop string
          PoolPages,
          ChunkTokens,    \* prefill chunk
          StreamInterval, \* tokens between flushes of an ungated stream
          Setups,         \* what the served model and the config may be: mixed
                          \* (decode + prefill in one launch), async (a prefill
                          \* completes on a later turn), short (prompts prefilled
                          \* ahead of decoding when there is no mixed launch)
          HangUps,        \* clients that may disconnect
          InputSlack,     \* REQUEST_INPUT_SLACK_TOKENS
          MaxFaults       \* bound on failing GPU calls

ASSUME ConstantsAssumption ==
    /\ NumSlots \in Nat \ {0} /\ PoolPages \in Nat /\ MaxFaults \in Nat /\ InputSlack \in Nat
    /\ ChunkTokens \in Nat \ {0} /\ StreamInterval \in Nat \ {0}
    /\ Prompt \in [Clients -> Nat \ {0}] /\ MaxTokens \in [Clients -> Nat]
    /\ StopClients \subseteq Clients /\ HangUps \subseteq Clients
    /\ Setups \subseteq [mixed : BOOLEAN, async : BOOLEAN, short : Nat]

Slots == 1..NumSlots
NoReq == [id |-> 0]
NoBatch == [decode |-> <<>>, mixed |-> <<>>]

VARIABLES pc,          \* where the scheduler thread is in run_inner / step
          s,           \* the scheduler's own state
          unsent,      \* clients whose request is still to come
          requestRx,   \* request channel
          emitEvents,  \* GateReady events, worker to scheduler
          emitting,    \* the worker's map from request id to stream state
          closed,      \* clients that dropped their receiver
          shown,       \* characters each client has received
          ends,        \* terminal deltas each client has received
          faults       \* failed GPU calls so far

vars == <<pc, s, unsent, requestRx, emitEvents, emitting, closed, shown, ends, faults>>

Monus(a, b) == IF a > b THEN a - b ELSE 0

-----------------------------------------------------------------------------
(* Requests, queues and the page pool *)

Live(q, i) == q.active[i] # NoReq
Alive(q, i) == Live(q, i) /\ q.active[i].client \notin closed
Phase(q, i, p) == Live(q, i) /\ q.active[i].phase = p

UsedPages(q) == FoldLeft(LAMBDA n, i : n + q.seqLen[i], 0, [i \in Slots |-> i])
FreePages(q) == PoolPages - UsedPages(q)

Without(seq, i) == SelectSeq(seq, LAMBDA x : x # i)

QueueFront(q, i) == [q EXCEPT !.prefillQueue = <<i>> \o Without(@, i)]
QueuePrefill(q, i) ==
    [q EXCEPT !.prefillQueue = IF Contains(@, i) THEN @ ELSE Append(@, i)]

MoveToDecode(q, i) ==
    [q EXCEPT !.prefillQueue = Without(@, i),
              !.active[i].phase = "Decoding",
              !.runningBatch = IF Contains(@, i) THEN @ ELSE Append(@, i)]

EmitGated(q, i) == Live(q, i) /\ <<q.active[i].id, i>> \in q.gate

DeferredWouldReachMax(q, i) ==
    /\ \E k \in DOMAIN q.deferred.decode : q.deferred.decode[k].slot = i
    /\ Len(q.active[i].gen) + 1 >= q.active[i].maxTokens

RunnableDecode(q, i) ==
    /\ Alive(q, i) /\ q.active[i].phase = "Decoding"
    /\ ~EmitGated(q, i)
    /\ ~DeferredWouldReachMax(q, i)

RowSlots(rows) == {rows[k].slot : k \in DOMAIN rows}
PendingSlots(q) == RowSlots(q.pendingDecode.decode) \cup RowSlots(q.pendingDecode.mixed)
    \cup RowSlots(q.deferred.decode) \cup RowSlots(q.deferred.mixed)
    \cup RowSlots(q.pendingPrefill)
PendingGpuWork(q) == PendingSlots(q) # {}

-----------------------------------------------------------------------------
(* Talking to the emit worker, and leaving a slot *)

Send(q, cmd) == [q EXCEPT !.emitRx = Append(@, cmd)]

DispatchEmit_GateFirstOnly(q, i) ==
    LET r == q.active[i]
        new == SubSeq(r.gen, r.dispatched + 1, Len(r.gen))
        cmd == [op |-> "Append", id |-> r.id, client |-> r.client, tokens |-> new,
                stops |-> r.stop /\ r.dispatched = 0, gated |-> r.stop /\ r.dispatched = 0]
    IN IF ~Live(q, i) \/ new = <<>> THEN q
       ELSE [Send(q, cmd) EXCEPT !.active[i].dispatched = Len(r.gen),
                                 !.gate = IF r.stop THEN @ \cup {<<r.id, i>>} ELSE @]

DispatchEmit(q, i) ==
    LET r == q.active[i]
        new == SubSeq(r.gen, r.dispatched + 1, Len(r.gen))
        cmd == [op |-> "Append", id |-> r.id, client |-> r.client, tokens |-> new,
                stops |-> r.stop /\ r.dispatched = 0, gated |-> r.stop]
        sent == [Send(q, cmd) EXCEPT
                    !.active[i].dispatched = Len(r.gen),
                    !.gate = IF r.stop THEN {g \in @ : g[1] # r.id} \cup {<<r.id, i>>}
                             ELSE @]
    IN IF ~Live(q, i) \/ new = <<>> THEN q ELSE sent

QueueEmitFinish(q, i, reason) ==
    LET r == q.active[i] IN
    Send(q, [op |-> "Finish", id |-> r.id, client |-> r.client, tokens |-> r.gen,
             reason |-> reason, stops |-> r.stop /\ r.dispatched = 0])

FinishSlot(q, i) ==
    IF ~Live(q, i) THEN q
    ELSE LET r == q.active[i] IN
         [Send(q, [op |-> "Abort", id |-> r.id]) EXCEPT
            !.active[i].phase = "Finished",
            !.active[i].finishPending = FALSE,
            !.gate = {g \in @ : g[1] # r.id},
            !.prefillQueue = Without(@, i),
            !.runningBatch = Without(@, i)]

FinishRequest_AbortFirst(q, i, reason) ==
    IF Live(q, i) THEN QueueEmitFinish(FinishSlot(q, i), i, reason) ELSE q

FinishRequest(q, i, reason) ==
    IF Live(q, i) THEN FinishSlot(QueueEmitFinish(q, i, reason), i) ELSE q

(* The error delta bypasses the emit worker. *)
FinishWithError(q, i) ==
    IF Live(q, i)
    THEN FinishSlot([q EXCEPT !.errors = @ \cup {q.active[i].client}], i)
    ELSE q

(* The limit was reached: a request with stop strings waits for its gate. *)
ReachedMax(q, i) ==
    IF q.active[i].stop THEN [q EXCEPT !.active[i].finishPending = TRUE]
    ELSE FinishRequest(q, i, "Length")

-----------------------------------------------------------------------------
(* Readback: what a completed batch does to its slots.  toks[i] is the token *)
(* the model sampled for slot i: text, text that completes a stop string,    *)
(* or the end-of-sequence token.                                             *)

ApplyDecodeToken_FinishedToo(q, i, tok) ==
    LET pushed == [q EXCEPT !.active[i].gen = Append(@, tok)] IN
    CASE ~Live(q, i) -> q
      [] Live(q, i) /\ tok = "eos" -> FinishRequest(q, i, "Stop")
      [] OTHER -> IF Len(pushed.active[i].gen) >= q.active[i].maxTokens
                  THEN ReachedMax(pushed, i) ELSE pushed

ApplyDecodeToken(q, i, tok) ==
    LET pushed == [q EXCEPT !.active[i].gen = Append(@, tok)] IN
    CASE ~Phase(q, i, "Decoding") -> q
      [] Phase(q, i, "Decoding") /\ tok = "eos" -> FinishRequest(q, i, "Stop")
      [] OTHER -> IF Len(pushed.active[i].gen) >= q.active[i].maxTokens
                  THEN ReachedMax(pushed, i) ELSE pushed

ApplyPrefillCompletionToken(q, i, tok) ==
    LET sent == DispatchEmit([q EXCEPT !.active[i].gen = Append(@, tok)], i) IN
    CASE tok = "eos" -> FinishRequest(q, i, "Stop")
      [] tok # "eos" /\ Len(sent.active[i].gen) >= q.active[i].maxTokens
           -> ReachedMax(sent, i)
      [] OTHER -> MoveToDecode(sent, i)

FinishPrefillRow_NoRequeue(q, row, tok) ==
    LET i == row.slot IN
    CASE ~Live(q, i) -> q
      [] Live(q, i) /\ (~Alive(q, i) \/ Phase(q, i, "Finished")) -> FinishSlot(q, i)
      [] OTHER -> IF row.next < Prompt[q.active[i].client]
                  THEN [q EXCEPT !.active[i].progress = row.next]
                  ELSE ApplyPrefillCompletionToken(q, i, tok)

FinishPrefillRow(q, row, tok) ==
    LET i == row.slot IN
    CASE ~Live(q, i) -> q
      [] Live(q, i) /\ (~Alive(q, i) \/ Phase(q, i, "Finished")) -> FinishSlot(q, i)
      [] OTHER -> IF row.next < Prompt[q.active[i].client]
                  THEN QueueFront([q EXCEPT !.active[i].progress = row.next], i)
                  ELSE ApplyPrefillCompletionToken(q, i, tok)

FinishPrefillBatch(q, rows, toks) ==
    FoldLeft(LAMBDA u, row : FinishPrefillRow(u, row, toks[row.slot]), q, rows)

ApplySampledDecodeTokens(q, batch, toks) ==
    FinishPrefillBatch(
        FoldLeft(LAMBDA u, row : ApplyDecodeToken(u, row.slot, toks[row.slot]),
                 q, batch.decode),
        batch.mixed, toks)

FailRows(q, rows) == FoldLeft(LAMBDA u, row : FinishWithError(u, row.slot), q, rows)

-----------------------------------------------------------------------------
(* Admission *)

AdmitOrDefer_Forget(acc, c) ==
    LET q == acc.q
        need == Monus(Prompt[c] + 1, q.seqLen[acc.free[1]])
        r == [id |-> q.nextId, client |-> c, maxTokens |-> acc.limit[c], gen |-> <<>>,
              dispatched |-> 0, phase |-> "Prefilling", progress |-> 0,
              finishPending |-> FALSE, stop |-> c \in StopClients]
        placed == [q EXCEPT !.active[acc.free[1]] = r, !.nextId = @ + 1]
    IN IF acc.free = <<>> \/ need > acc.budget THEN acc
       ELSE [acc EXCEPT !.budget = @ - need, !.free = Tail(@),
                        !.q = QueuePrefill(placed, acc.free[1])]

(* Deferred requests are put back before their equals. *)
AdmitOrDefer(acc, c) ==
    LET q == acc.q
        need == Monus(Prompt[c] + 1, q.seqLen[acc.free[1]])
        r == [id |-> q.nextId, client |-> c, maxTokens |-> acc.limit[c], gen |-> <<>>,
              dispatched |-> 0, phase |-> "Prefilling", progress |-> 0,
              finishPending |-> FALSE, stop |-> c \in StopClients]
        placed == [q EXCEPT !.active[acc.free[1]] = r, !.nextId = @ + 1]
    IN IF acc.free = <<>> \/ need > acc.budget
       THEN [acc EXCEPT !.deferred = <<c>> \o @]
       ELSE [acc EXCEPT !.budget = @ - need,
                        !.free = Tail(@),
                        !.q = IF r.maxTokens = 0
                              THEN FinishRequest(placed, acc.free[1], "Length")
                              ELSE QueuePrefill(placed, acc.free[1])]

(* RequestLengthContract::clamp_max_tokens; a longer prompt was rejected. *)
Clamped(c) == LET room == Monus(Monus(PoolPages, 1), Prompt[c] + 1) IN
              IF MaxTokens[c] < room THEN MaxTokens[c] ELSE room

AssignSlots(q) ==
    LET budget == FoldLeft(LAMBDA n, i :
                      IF ~Alive(q, i) \/ Phase(q, i, "Finished") THEN n
                      ELSE Monus(n, Monus(Prompt[q.active[i].client] + 1, q.seqLen[i])),
                      FreePages(q), [i \in Slots |-> i])
        start == [q |-> [q EXCEPT !.waiting = <<>>], budget |-> budget,
                  limit |-> [c \in Clients |-> Clamped(c)],
                  free |-> SelectSeq([i \in Slots |-> i], LAMBDA i : ~Live(q, i)),
                  deferred |-> <<>>]
        done == FoldLeft(AdmitOrDefer, start,
                         SelectSeq(q.waiting, LAMBDA c : c \notin closed))
    IN [done.q EXCEPT !.waiting = done.deferred]

-----------------------------------------------------------------------------
(* Planning and launching *)

PrefillTokens(q, i) ==
    LET rest == Prompt[q.active[i].client] - q.active[i].progress
    IN IF rest <= ChunkTokens + 1 THEN rest ELSE ChunkTokens

(* Pages for the chunk and, when it completes the prompt, the first token. *)
PrefillGrowth(q, i) ==
    LET r == q.active[i] IN
    PrefillTokens(q, i) +
        (IF PrefillTokens(q, i) + r.progress = Prompt[r.client] /\ r.maxTokens > Len(r.gen)
         THEN 1 ELSE 0)

(* Pages left once every decoding request has its remaining tokens reserved. *)
PrefillBudget(q) ==
    FoldLeft(LAMBDA n, i : IF Alive(q, i) /\ Phase(q, i, "Decoding")
                           THEN Monus(n, Monus(q.active[i].maxTokens, Len(q.active[i].gen)))
                           ELSE n,
             FreePages(q), q.runningBatch)

Schedulable(q, i) == Alive(q, i) /\ Phase(q, i, "Prefilling")

(* collect_prefill_candidates drops what cannot be prefilled from the queue. *)
CollectCandidates(q) ==
    FoldLeft(LAMBDA u, i : CASE Live(u, i) /\ ~Alive(u, i) -> FinishSlot(u, i)
                             [] Schedulable(u, i) -> u
                             [] OTHER -> [u EXCEPT !.prefillQueue = Without(@, i)],
             q, q.prefillQueue)

SelectCandidates(q, queue) ==
    FoldLeft(LAMBDA a, i : IF Schedulable(q, i) /\ PrefillGrowth(q, i) <= a.left
                           THEN [left |-> a.left - PrefillGrowth(q, i),
                                 chosen |-> Append(a.chosen, i)]
                           ELSE a,
             [left |-> PrefillBudget(q), chosen |-> <<>>], queue).chosen

PrefillRow(q, i) == [slot |-> i, id |-> q.active[i].id,
                     next |-> q.active[i].progress + PrefillTokens(q, i)]

(* The launch takes the rows off the queue and their tokens into the pool. *)
PrepareRows(q, chosen) ==
    FoldLeft(LAMBDA u, i : [u EXCEPT !.prefillQueue = Without(@, i),
                                     !.seqLen[i] = @ + PrefillTokens(q, i)],
             q, chosen)

StepPrefillBatch(q, chosen, toks, fails) ==
    LET picked == SelectCandidates(q, chosen)
        rows == [k \in DOMAIN picked |-> PrefillRow(q, picked[k])]
        launched == PrepareRows(q, picked)
    IN CASE rows = <<>> -> q
         [] rows # <<>> /\ fails -> FailRows(PrepareRows(q, picked), rows)
         [] rows # <<>> /\ ~fails /\ q.setup.async
              -> [launched EXCEPT !.pendingPrefill = rows]
         [] OTHER -> FinishPrefillBatch(launched, rows, toks)

(* running_decode_slots: hung-up clients are finished on the way. *)
DropClosedDecodes(q) ==
    FoldLeft(LAMBDA u, i : IF Live(u, i) /\ ~Alive(u, i) THEN FinishSlot(u, i) ELSE u,
             q, q.runningBatch)

(* Recompute mode: the request goes back to the front of the queue with its *)
(* prompt and stop strings only.                                            *)
RequeuePreemptedDecode(q, i) ==
    [FinishSlot([q EXCEPT !.seqLen[i] = 0, !.active[i].stop = FALSE], i)
        EXCEPT !.waiting = <<q.active[i].client>> \o @,
               !.preempted = @ \cup {q.active[i].client}]

Precedes(q, i, j) ==
    LET a == q.active[i] b == q.active[j] IN
    \/ Len(a.gen) < Len(b.gen)
    \/ Len(a.gen) = Len(b.gen) /\ Prompt[a.client] > Prompt[b.client]

RetractVictim(q, rows) ==
    CHOOSE k \in DOMAIN rows : \A m \in DOMAIN rows :
        /\ m < k => Precedes(q, rows[k], rows[m])
        /\ m > k => ~Precedes(q, rows[m], rows[k])

RetractDecodeToFit(acc, extra) ==
    FoldLeft(LAMBDA a, k :
                LET v == RetractVictim(a.q, a.rows) IN
                IF Len(a.rows) + extra > FreePages(a.q) /\ Len(a.rows) > 1
                THEN [q |-> RequeuePreemptedDecode(a.q, a.rows[v]),
                      rows |-> RemoveAt(a.rows, v)]
                ELSE a,
             acc, acc.rows)

AllocateDecodeTokens_Unchecked(acc) ==
    FoldLeft(LAMBDA a, i : [q |-> [a.q EXCEPT !.seqLen[i] = @ + 1],
                            rows |-> Append(a.rows, i)],
             [q |-> acc.q, rows |-> <<>>], acc.rows)

(* A row that gets no page although nobody is left to preempt finishes. *)
AllocateDecodeTokens(acc) ==
    FoldLeft(LAMBDA a, i : IF FreePages(a.q) > 0
                           THEN [q |-> [a.q EXCEPT !.seqLen[i] = @ + 1],
                                 rows |-> Append(a.rows, i)]
                           ELSE [a EXCEPT !.q = FinishRequest(a.q, i, "Length")],
             [q |-> acc.q, rows |-> <<>>], acc.rows)

DecodeRows(q, rows) == [k \in DOMAIN rows |-> [slot |-> rows[k], id |-> q.active[rows[k]].id]]

CollectDecode(q) ==
    LET u == DropClosedDecodes(q) IN
    [q |-> u, rows |-> SelectSeq(u.runningBatch, LAMBDA i : RunnableDecode(u, i))]

(* Rows with their page allocated go to the GPU, or fail together. *)
LaunchDecodeRows(a, mixed, fails) ==
    IF fails THEN FailRows(FailRows(a.q, mixed), DecodeRows(a.q, a.rows))
    ELSE IF a.rows = <<>> THEN a.q
    ELSE [a.q EXCEPT !.pendingDecode = [decode |-> DecodeRows(a.q, a.rows),
                                        mixed |-> mixed]]

StepDecodeLaunch(q, fails) ==
    LaunchDecodeRows(AllocateDecodeTokens(RetractDecodeToFit(CollectDecode(q), 0)),
                     <<>>, fails)

(* Decode rows are retracted until they and the selected chunks fit. *)
RetractForMixed(acc, cands) ==
    FoldLeft(LAMBDA a, k :
                LET chosen == SelectCandidates(a.q, cands)
                    extra == FoldLeft(LAMBDA n, i : n + PrefillTokens(a.q, i), 0, chosen)
                IN IF chosen = <<>> THEN a ELSE RetractDecodeToFit(a, extra),
             acc, acc.rows)

StepMixedLaunch(q, cands, toks, lowered, fails) ==
    LET collected == CollectDecode(q)
        alloc == AllocateDecodeTokens(RetractForMixed(collected, cands))
        chosen == SelectCandidates(alloc.q, cands)
        rows == [k \in DOMAIN chosen |-> PrefillRow(alloc.q, chosen[k])]
        split == StepPrefillBatch(alloc.q, chosen, toks, FALSE)
    IN CASE collected.rows = <<>> \/ alloc.rows = <<>>
              -> StepPrefillBatch(alloc.q, cands, toks, fails)
         [] chosen = <<>> /\ alloc.rows # <<>> -> LaunchDecodeRows(alloc, <<>>, fails)
         [] chosen # <<>> /\ alloc.rows # <<>> /\ (lowered \/ fails)
              -> LaunchDecodeRows([alloc EXCEPT !.q = PrepareRows(@, chosen)], rows, fails)
         [] OTHER -> LaunchDecodeRows([alloc EXCEPT !.q = split], <<>>, FALSE)

HasDecode(q) == \E k \in DOMAIN q.runningBatch : RunnableDecode(q, q.runningBatch[k])

(* plan_step and launch_legacy_step_plan: Idle, Decode, Mixed, Split, Prefill. *)
PlanAndLaunch(q, toks, lowered, fails) ==
    LET u == CollectCandidates(q)
        cands == SelectCandidates(u, u.prefillQueue)
        first == StepPrefillBatch(u, cands, toks, fails)
        short == q.setup.short > 0 /\ \A k \in DOMAIN cands :
                     PrefillTokens(u, cands[k]) <= q.setup.short
    IN CASE ~HasDecode(q) -> first
         [] HasDecode(q) /\ (cands = <<>> \/ (q.deferred # NoBatch /\ ~q.setup.mixed))
              -> StepDecodeLaunch(u, fails)
         [] HasDecode(q) /\ cands # <<>> /\ q.setup.mixed
              -> StepMixedLaunch(u, cands, toks, lowered, fails)
         [] OTHER -> IF short THEN first ELSE StepDecodeLaunch(first, FALSE)

-----------------------------------------------------------------------------
(* The end of a turn *)

DispatchDecodeEmits(q) == FoldLeft(DispatchEmit, q, q.runningBatch)

CleanupSlot_InFlightToo(q, i) ==
    LET u == IF Live(q, i) /\ ~Alive(q, i) THEN FinishSlot(q, i) ELSE q IN
    IF Phase(u, i, "Finished")
    THEN [u EXCEPT !.active[i] = NoReq, !.seqLen[i] = 0,
                   !.prefillQueue = Without(@, i), !.runningBatch = Without(@, i)]
    ELSE u

CleanupSlot(q, i) ==
    LET u == IF Live(q, i) /\ ~Alive(q, i) THEN FinishSlot(q, i) ELSE q IN
    CASE i \in PendingSlots(q) -> q
      [] i \notin PendingSlots(q) /\ Phase(u, i, "Finished")
           -> [u EXCEPT !.active[i] = NoReq, !.seqLen[i] = 0,
                        !.prefillQueue = Without(@, i), !.runningBatch = Without(@, i)]
      [] OTHER -> u

HandleEmitEvent(q, ev) ==
    LET hits == {g \in q.gate : g[1] = ev.id}
        i == (CHOOSE g \in hits : TRUE)[2]
        u == [q EXCEPT !.gate = @ \ hits]
    IN CASE hits = {} -> q
         [] hits # {} /\ u.active[i].id # ev.id -> u
         [] hits # {} /\ u.active[i].id = ev.id /\ ev.finished -> FinishSlot(u, i)
         [] hits # {} /\ u.active[i].id = ev.id /\ ~ev.finished
              /\ u.active[i].finishPending -> FinishRequest(u, i, "Length")
         [] OTHER -> u

-----------------------------------------------------------------------------
(* Actions of the scheduler thread *)

Init ==
    /\ pc = "intake"
    /\ \E setup \in Setups :
       s = [setup |-> setup, waiting |-> <<>>, active |-> [i \in Slots |-> NoReq], nextId |-> 1,
            seqLen |-> [i \in Slots |-> 0], prefillQueue |-> <<>>, runningBatch |-> <<>>,
            pendingPrefill |-> <<>>, pendingDecode |-> NoBatch, deferred |-> NoBatch,
            gate |-> {}, emitRx |-> <<>>, errors |-> {}, preempted |-> {}]
    /\ unsent = Clients
    /\ requestRx = <<>> /\ emitEvents = <<>> /\ emitting = <<>>
    /\ closed = {} /\ faults = 0
    /\ shown = [c \in Clients |-> 0] /\ ends = [c \in Clients |-> <<>>]

worker == <<emitEvents, emitting, shown>>
outside == <<unsent, requestRx, closed>>

AdmitsPrompt(c) == Prompt[c] < Monus(Monus(PoolPages, 1), InputSlack)

(* drain_request_rx: too long a prompt is answered here. *)
DrainRequests ==
    LET open == SelectSeq(requestRx, LAMBDA c : c \notin closed) IN
    /\ s' = [s EXCEPT !.waiting = @ \o SelectSeq(open, AdmitsPrompt)]
    /\ ends' = [c \in Clients |-> IF Contains(open, c) /\ ~AdmitsPrompt(c)
                                  THEN Append(ends[c], [reason |-> "Length", n |-> 0])
                                  ELSE ends[c]]
    /\ requestRx' = <<>>

Intake == /\ pc = "intake" /\ pc' = "events"
          /\ DrainRequests
          /\ UNCHANGED <<worker, unsent, closed, faults>>

TakeEmitEvent == /\ emitEvents # <<>>
                 /\ s' = HandleEmitEvent(s, Head(emitEvents))
                 /\ emitEvents' = Tail(emitEvents)
                 /\ UNCHANGED <<emitting, shown, ends, outside, faults>>

DrainEmitEvent == pc = "events" /\ TakeEmitEvent /\ UNCHANGED pc

EventsDrained == /\ pc = "events" /\ emitEvents = <<>> /\ pc' = "wait"
                 /\ UNCHANGED <<s, worker, ends, outside, faults>>

GateBound == /\ s.waiting = <<>> /\ s.prefillQueue = <<>> /\ ~PendingGpuWork(s)
             /\ s.gate # {} /\ ~HasDecode(s)
Quiet == /\ s.waiting = <<>> /\ ~PendingGpuWork(s)
         /\ \A i \in Slots : ~Live(s, i)

(* wait_for_wakeup: block only when no turn of the loop could progress. *)
Proceed == /\ pc = "wait" /\ ~GateBound /\ ~Quiet /\ pc' = "assign"
           /\ UNCHANGED <<s, worker, ends, outside, faults>>
WakeByEmit == pc = "wait" /\ GateBound /\ pc' = "assign" /\ TakeEmitEvent
WakeByRequest == /\ pc = "wait" /\ (GateBound \/ Quiet) /\ requestRx # <<>>
                 /\ pc' = "assign" /\ DrainRequests
                 /\ UNCHANGED <<worker, unsent, closed, faults>>
(* Every handle was dropped and nothing is left to do. *)
ShutDown == /\ pc = "wait" /\ Quiet /\ ~GateBound /\ unsent = {} /\ requestRx = <<>>
            /\ pc' = "stopped"
            /\ UNCHANGED <<s, worker, ends, outside, faults>>

Assign == /\ pc = "assign"
          /\ s' = AssignSlots(s)
          /\ pc' = "prefill"
          /\ UNCHANGED <<worker, ends, outside, faults>>

SampledTokens(q, slots) ==
    {t \in [Slots -> {"text", "stop", "eos"}] :
        \A i \in Slots : IF i \in slots /\ Live(q, i)
                         THEN t[i] = "stop" => q.active[i].stop
                         ELSE t[i] = "text"}

NoPrefillPending == /\ pc = "prefill" /\ s.pendingPrefill = <<>> /\ pc' = "deferred"
                    /\ UNCHANGED <<s, worker, ends, outside, faults>>
PrefillReady ==
    /\ pc = "prefill" /\ s.pendingPrefill # <<>> /\ pc' = "deferred"
    /\ \E toks \in SampledTokens(s, RowSlots(s.pendingPrefill)) :
          s' = FinishPrefillBatch([s EXCEPT !.pendingPrefill = <<>>], s.pendingPrefill, toks)
    /\ UNCHANGED <<worker, ends, outside, faults>>
(* The turn ends here: nothing is launched or dispatched. *)
PrefillNotReady == /\ pc = "prefill" /\ s.pendingPrefill # <<>> /\ pc' = "cleanup"
                   /\ UNCHANGED <<s, worker, ends, outside, faults>>
PrefillFails ==
    /\ pc = "prefill" /\ s.pendingPrefill # <<>> /\ pc' = "deferred"
    /\ faults < MaxFaults /\ faults' = faults + 1
    /\ s' = FailRows([s EXCEPT !.pendingPrefill = <<>>], s.pendingPrefill)
    /\ UNCHANGED <<worker, ends, outside>>

Batch(b) == RowSlots(b.decode) \cup RowSlots(b.mixed)

NoDeferred == /\ pc = "deferred" /\ s.deferred = NoBatch /\ pc' = "pending"
              /\ UNCHANGED <<s, worker, ends, outside, faults>>
DeferredReady ==
    /\ pc = "deferred" /\ s.deferred # NoBatch /\ pc' = "pending"
    /\ \E toks \in SampledTokens(s, Batch(s.deferred)) :
          s' = ApplySampledDecodeTokens([s EXCEPT !.deferred = NoBatch], s.deferred, toks)
    /\ UNCHANGED <<worker, ends, outside, faults>>
(* With a second batch in flight the turn ends here. *)
DeferredNotReady ==
    /\ pc = "deferred" /\ s.deferred # NoBatch
    /\ pc' = IF s.pendingDecode # NoBatch THEN "cleanup" ELSE "launch"
    /\ UNCHANGED <<s, worker, ends, outside, faults>>

NoPending == /\ pc = "pending" /\ s.pendingDecode = NoBatch /\ pc' = "launch"
             /\ UNCHANGED <<s, worker, ends, outside, faults>>
PendingReady ==
    /\ pc = "pending" /\ s.pendingDecode # NoBatch /\ pc' = "launch"
    /\ \E toks \in SampledTokens(s, Batch(s.pendingDecode)) :
          s' = ApplySampledDecodeTokens([s EXCEPT !.pendingDecode = NoBatch],
                                        s.pendingDecode, toks)
    /\ UNCHANGED <<worker, ends, outside, faults>>
PendingNotReady ==
    /\ pc = "pending" /\ s.pendingDecode # NoBatch /\ pc' = "launch"
    /\ s' = [s EXCEPT !.deferred = s.pendingDecode, !.pendingDecode = NoBatch]
    /\ UNCHANGED <<worker, ends, outside, faults>>
(* finish_pending_decode_with_error: every row, finished or not. *)
DecodeReadbackFails ==
    /\ faults < MaxFaults /\ faults' = faults + 1
    /\ \/ /\ pc = "deferred" /\ s.deferred # NoBatch /\ pc' = "pending"
          /\ s' = FailRows(FailRows([s EXCEPT !.deferred = NoBatch], s.deferred.decode),
                           s.deferred.mixed)
       \/ /\ pc = "pending" /\ s.pendingDecode # NoBatch /\ pc' = "launch"
          /\ s' = FailRows(FailRows([s EXCEPT !.pendingDecode = NoBatch],
                                    s.pendingDecode.decode), s.pendingDecode.mixed)
    /\ UNCHANGED <<worker, ends, outside>>

Launch ==
    /\ pc = "launch" /\ pc' = "dispatch"
    /\ \E toks \in SampledTokens(s, IF s.setup.async THEN {} ELSE ToSet(s.prefillQueue)),
          lowered \in BOOLEAN :
          s' = PlanAndLaunch(s, toks, lowered, FALSE)
    /\ UNCHANGED <<worker, ends, outside, faults>>
LaunchFails ==
    /\ pc = "launch" /\ pc' = "dispatch"
    /\ faults < MaxFaults /\ faults' = faults + 1
    /\ s' = PlanAndLaunch(s, [i \in Slots |-> "text"], TRUE, TRUE)
    /\ UNCHANGED <<worker, ends, outside>>

Dispatch == /\ pc = "dispatch" /\ pc' = "cleanup"
            /\ s' = DispatchDecodeEmits(s)
            /\ UNCHANGED <<worker, ends, outside, faults>>

Cleanup == /\ pc = "cleanup" /\ pc' = "intake"
           /\ s' = FoldLeft(CleanupSlot, s, [i \in Slots |-> i])
           /\ UNCHANGED <<worker, ends, outside, faults>>

SchedulerStep ==
    \/ Intake \/ DrainEmitEvent \/ EventsDrained
    \/ Proceed \/ WakeByEmit \/ WakeByRequest \/ ShutDown
    \/ Assign \/ NoPrefillPending \/ PrefillReady \/ PrefillNotReady \/ PrefillFails
    \/ NoDeferred \/ DeferredReady \/ DeferredNotReady
    \/ NoPending \/ PendingReady \/ PendingNotReady \/ DecodeReadbackFails
    \/ Launch \/ LaunchFails \/ Dispatch \/ Cleanup

-----------------------------------------------------------------------------
(* The emit worker *)

StopAt(tokens) == SelectInSeq(tokens, LAMBDA x : x = "stop")

Forget(id) == Restrict(emitting, DOMAIN emitting \ {id})

(* A closed receiver swallows what is sent to it. *)
Deliver(c, n) ==
    shown' = IF c \in closed THEN shown ELSE [shown EXCEPT ![c] = @ + n]
Terminate(c, reason, n) ==
    ends' = IF c \in closed THEN ends
            ELSE [ends EXCEPT ![c] = Append(@, [reason |-> reason, n |-> n])]

StreamState(cmd) == IF cmd.id \in DOMAIN emitting THEN emitting[cmd.id]
                    ELSE [client |-> cmd.client, tokens |-> <<>>, decoded |-> 0,
                          sent |-> 0, stops |-> cmd.stops]

WorkerAppend ==
    LET cmd == Head(s.emitRx)
        st == StreamState(cmd)
        tokens == st.tokens \o cmd.tokens
        flush == cmd.gated \/ Len(tokens) - st.decoded >= StreamInterval
        found == flush /\ st.stops /\ StopAt(tokens) # 0
        upTo == CASE ~flush -> st.sent
                  [] found -> StopAt(tokens) - 1
                  [] OTHER -> IF st.stops THEN Len(tokens) - 1 ELSE Len(tokens)
        sent == IF upTo > st.sent THEN upTo ELSE st.sent
    IN /\ s.emitRx # <<>> /\ cmd.op = "Append"
       /\ s' = [s EXCEPT !.emitRx = Tail(@)]
       /\ Deliver(st.client, sent - st.sent)
       /\ IF found THEN Terminate(st.client, "Stop", Len(tokens)) ELSE UNCHANGED ends
       /\ emitEvents' = IF cmd.gated
                        THEN Append(emitEvents, [id |-> cmd.id, finished |-> found])
                        ELSE emitEvents
       /\ emitting' = IF found THEN Forget(cmd.id)
                      ELSE (cmd.id :> [st EXCEPT !.tokens = tokens, !.sent = sent,
                                         !.decoded = IF flush THEN Len(tokens) ELSE @])
                           @@ emitting
       /\ UNCHANGED <<pc, outside, faults>>

(* Without stream state the whole text is sent again from the scheduler's copy. *)
WorkerFinish ==
    LET cmd == Head(s.emitRx)
        st == StreamState(cmd)
        tokens == IF Len(cmd.tokens) > Len(st.tokens) THEN cmd.tokens ELSE st.tokens
        last == IF st.stops /\ StopAt(tokens) # 0 THEN StopAt(tokens) - 1 ELSE Len(tokens)
    IN /\ s.emitRx # <<>> /\ cmd.op = "Finish"
       /\ s' = [s EXCEPT !.emitRx = Tail(@)]
       /\ Deliver(st.client, Monus(last, st.sent))
       /\ Terminate(st.client, cmd.reason, Len(tokens))
       /\ emitting' = Forget(cmd.id)
       /\ UNCHANGED <<pc, emitEvents, outside, faults>>

WorkerAbort ==
    /\ s.emitRx # <<>> /\ Head(s.emitRx).op = "Abort"
    /\ s' = [s EXCEPT !.emitRx = Tail(@)]
    /\ emitting' = Forget(Head(s.emitRx).id)
    /\ UNCHANGED <<pc, emitEvents, shown, ends, outside, faults>>

WorkerStep == WorkerAppend \/ WorkerFinish \/ WorkerAbort

-----------------------------------------------------------------------------
(* Clients *)

Submit(c) == /\ c \in unsent
             /\ unsent' = unsent \ {c} /\ requestRx' = Append(requestRx, c)
             /\ UNCHANGED <<pc, s, worker, ends, closed, faults>>

HangUp(c) == /\ c \in HangUps \ (closed \cup unsent)
             /\ closed' = closed \cup {c}
             /\ UNCHANGED <<pc, s, worker, ends, unsent, requestRx, faults>>

Stopped == pc = "stopped" /\ s.emitRx = <<>> /\ UNCHANGED vars

Next == \/ SchedulerStep
        \/ WorkerStep
        \/ \E c \in Clients : Submit(c) \/ HangUp(c)
        \/ Stopped

(* Both threads keep running, requests are sent, and a batch that is polled    *)
(* again and again completes.  The first and the last are weak fairness of     *)
(* SchedulerStep and strong fairness of the Ready actions, with the condition  *)
(* that enables them written out.                                              *)
CanStep == /\ pc # "stopped"
           /\ pc = "wait" => \/ ~GateBound /\ ~Quiet
                             \/ requestRx # <<>>
                             \/ GateBound /\ emitEvents # <<>>
                             \/ Quiet /\ ~GateBound /\ unsent = {}
Fairness ==
    /\ []<>(~CanStep) \/ []<><<SchedulerStep>>_vars
    /\ WF_vars(WorkerStep) /\ \A c \in Clients : WF_vars(Submit(c))
    /\ <>[](~(pc = "prefill" /\ s.pendingPrefill # <<>>)) \/ []<><<PrefillReady>>_vars
    /\ <>[](~(pc = "deferred" /\ s.deferred # NoBatch)) \/ []<><<DeferredReady>>_vars

Spec == Init /\ [][Next]_vars
FairSpec == Spec /\ Fairness

-----------------------------------------------------------------------------
(* Properties *)

Ids == 1..(s.nextId - 1)

Waiting(i) == Phase(s, i, "Prefilling") /\ s.active[i].finishPending

(* No request is lost in its slot: a prefilling one is queued, on the GPU, or *)
(* waits for the worker's verdict on its last token; a decoding one is in the *)
(* running batch; and the queues name only requests in the phase they stand   *)
(* for, once the turn has planned.                                            *)
NoSlotForgotten ==
    \A i \in Slots :
        /\ Phase(s, i, "Prefilling") =>
              Contains(s.prefillQueue, i) \/ i \in PendingSlots(s) \/ Waiting(i)
        /\ Phase(s, i, "Decoding") <=> Contains(s.runningBatch, i)
        /\ Contains(s.prefillQueue, i) => Phase(s, i, "Prefilling")

(* A gated slot is never waited for in vain: the token it was gated for is on  *)
(* its way to the worker, or the worker's answer on its way back.              *)
GateAnswered ==
    \A g \in s.gate :
        \/ \E k \in DOMAIN s.emitRx : s.emitRx[k].op = "Append" /\ s.emitRx[k].id = g[1]
                                      /\ s.emitRx[k].gated
        \/ \E k \in DOMAIN emitEvents : emitEvents[k].id = g[1]

AllRows(q) == q.pendingPrefill \o q.pendingDecode.decode \o q.pendingDecode.mixed
              \o q.deferred.decode \o q.deferred.mixed

(* A batch in flight is read back by the request it was launched for: cleanup *)
(* and admission never give its slot to another one.                          *)
ReadbackOwner ==
    \A k \in DOMAIN AllRows(s) :
        LET row == AllRows(s)[k] IN Live(s, row.slot) /\ s.active[row.slot].id = row.id

(* Slots never hold more pages than the pool has, and a free slot holds none. *)
PagesBalanced == /\ UsedPages(s) <= PoolPages
                 /\ \A i \in Slots : ~Live(s, i) => s.seqLen[i] = 0

(* Every character a plain request generated reaches its client exactly once *)
(* before the terminal delta, which counts them; a preempted request may have *)
(* been streamed in part before it started over.                              *)
TextComplete(c) == ends[c] # <<>> /\ c \notin closed => shown[c] = ends[c][1].n
TextMatchesUsage == \A c \in Clients \ (StopClients \cup s.preempted) : TextComplete(c)

(* What the worker and the scheduler do together keeps the promise made to a  *)
(* client whose request carries no stop string.                               *)
Status(c) == CASE c \in closed \cup s.errors -> "gone"
               [] c \notin closed \cup s.errors /\ ends[c] # <<>> -> "ended"
               [] OTHER -> "open"
Streams == INSTANCE ClientStream WITH
    Clients <- Clients \ StopClients,
    status <- [c \in Clients \ StopClients |-> Status(c)],
    text <- [c \in Clients \ StopClients |-> IF Status(c) = "gone" THEN 0 ELSE shown[c]]
StreamPromise == Streams!Spec

(* A client that stays is answered: preempted, gated, deferred and queued       *)
(* requests all come to their terminal delta.                                   *)
Answered == \A c \in Clients : <>(ends[c] # <<>> \/ c \in closed \cup s.errors)
=============================================================================
