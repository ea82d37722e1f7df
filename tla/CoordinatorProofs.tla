-------------------------- MODULE CoordinatorProofs --------------------------
(***************************************************************************)
(* Proofs about Coordinator for every queue capacity, number of tickets,   *)
(* block-list length and set of regions: first who holds a region, then    *)
(* what the client may rely on (the queue counters, the headroom computed  *)
(* from them, and the lifecycle of a ticket).                              *)
(***************************************************************************)
EXTENDS Coordinator, FiniteSetTheorems, TLAPS

USE CapacityAssumption, MaxTicketAssumption, MaxBlocksAssumption,
    CounterModAssumption

\* A command as the client submits it: a fetch or a store has blocks.
Fresh(c) == c \in Command /\ (c.kind /= "plan" => c.blocks /= << >>)

\* What the program counters say about the commands in the two threads' hands.
Control ==
    /\ \A i \in DOMAIN cmds : cmds[i] = Shutdown \/ Fresh(cmds[i])
    /\ pc \in {"start", "queued", "check", "block"} => Fresh(cur)
    /\ pc = "block" => cur.kind /= "plan"
    /\ pc \in {"fail", "done", "finish"} => cur \in Command
    /\ cpc = "submitting" => carg.kind \in QueueKind
    /\ cpc \in {"submitting", "cancelling"} => carg.ticket \in Tickets

TypeInv == TypeOK /\ Control

------------------------------------------------------------------------------
(* Sequences *)

\* A send puts one element behind those of the channel.
LEMMA AppendElements ==
    ASSUME NEW S, NEW s \in Seq(S), NEW e \in S, NEW t, t = Append(s, e)
    PROVE  /\ t \in Seq(S)
           /\ Len(t) = Len(s) + 1
           /\ \A i \in DOMAIN t :
                  (i \in DOMAIN s /\ t[i] = s[i]) \/ (i = Len(s) + 1 /\ t[i] = e)
           /\ \A i \in DOMAIN s : i \in DOMAIN t /\ t[i] = s[i]
           /\ Len(s) + 1 \in DOMAIN t /\ t[Len(s) + 1] = e
  OBVIOUS

\* A receive takes the first element and moves the others up by one.
LEMMA TailElements ==
    ASSUME NEW S, NEW s \in Seq(S), s /= << >>, NEW t, t = Tail(s)
    PROVE  /\ t \in Seq(S)
           /\ Len(t) = Len(s) - 1
           /\ \A i \in DOMAIN t : i + 1 \in DOMAIN s /\ t[i] = s[i + 1]
           /\ \A i \in DOMAIN s : i = 1 \/ (i - 1 \in DOMAIN t /\ s[i] = t[i - 1])
           /\ 1 \in DOMAIN s /\ Head(s) = s[1] /\ Head(s) \in S
  OBVIOUS

------------------------------------------------------------------------------
(* Types *)

\* A new coordinator, built with empty channels, is well typed.
LEMMA TypeInit == Init => TypeInv
  BY SMT DEF Init, TypeInv, TypeOK, ChannelTypes, ControlTypes, PoolTypes,
     ClientTypes, ThreadTypes, HistoryTypes, Control, Tickets, QueueKind, QueueOutcome,
     NoTicket, Shutdown, Command, Fresh

\* The wrapping increments and decrements stay in the counters' range.
LEMMA CounterSteps ==
    ASSUME NEW f \in [QueueKind -> 0..CounterMod - 1], NEW k
    PROVE  /\ Inc(f, k) \in [QueueKind -> 0..CounterMod - 1]
           /\ Dec(f, k) \in [QueueKind -> 0..CounterMod - 1]
  <1>1. ASSUME NEW n \in Nat PROVE n % CounterMod \in 0..CounterMod - 1
    BY SMT
  <1>2. CASE k \in QueueKind
    <2>1. f[k] + 1 \in Nat /\ f[k] + CounterMod - 1 \in Nat
      BY <1>2, SMT
    <2>2. /\ (f[k] + 1) % CounterMod \in 0..CounterMod - 1
          /\ (f[k] + CounterMod - 1) % CounterMod \in 0..CounterMod - 1
      BY <2>1, <1>1
    <2> QED  BY <2>2, <1>2, Zenon DEF Inc, Dec
  <1>3. CASE k \notin QueueKind
    BY <1>3, Zenon DEF Inc, Dec
  <1> QED  BY <1>2, <1>3

\* What a step leaves alone keeps its type.
LEMMA Frames ==
    /\ ChannelTypes /\ UNCHANGED chanVars => ChannelTypes'
    /\ ControlTypes /\ UNCHANGED ctrlVars => ControlTypes'
    /\ PoolTypes /\ UNCHANGED poolVars => PoolTypes'
    /\ ClientTypes /\ UNCHANGED clientVars => ClientTypes'
    /\ ThreadTypes /\ UNCHANGED coordVars => ThreadTypes'
    /\ HistoryTypes /\ UNCHANGED histVars => HistoryTypes'
  BY DEF ChannelTypes, ControlTypes, PoolTypes, ClientTypes, ThreadTypes,
     HistoryTypes, chanVars, ctrlVars, poolVars, clientVars, coordVars, histVars

\* try_send_ticket with a well-formed command keeps the types.
LEMMA TrySendType ==
    ASSUME TypeInv,
           NEW kind \in QueueKind, NEW blocks, TrySend(kind, blocks),
           Fresh([kind |-> kind, ticket |-> nextTicket, blocks |-> blocks]),
           kind = "store" => Range(blocks) \subseteq Regions
    PROVE  TypeInv'
  <1> DEFINE c == [kind |-> kind, ticket |-> nextTicket, blocks |-> blocks]
  <1>1. c \in Command \cup {Shutdown} /\ Fresh(c)
    BY DEF Fresh
  <1>2. /\ \/ cmds' = Append(cmds, c) /\ Len(cmds) < Capacity
           \/ cmds' = cmds
        /\ UNCHANGED <<events, cmdTx, evRx, coordVars>>
        /\ nextTicket \in Tickets
    BY DEF TrySend
  <1> HIDE DEF c
  <1>3. /\ ChannelTypes'
        /\ \A i \in DOMAIN cmds' : cmds'[i] = Shutdown \/ Fresh(cmds'[i])
    <2>1. CASE cmds' = cmds
      BY <1>2, <2>1 DEF TypeInv, TypeOK, ChannelTypes, Control
    <2>2. CASE cmds' = Append(cmds, c) /\ Len(cmds) < Capacity
      <3>1. /\ cmds' \in Seq(Command \cup {Shutdown})
            /\ Len(cmds') = Len(cmds) + 1
            /\ \A i \in DOMAIN cmds' :
                  cmds'[i] = c \/ (i \in DOMAIN cmds /\ cmds'[i] = cmds[i])
        <4>1. cmds \in Seq(Command \cup {Shutdown})
          BY DEF TypeInv, TypeOK, ChannelTypes
        <4> QED  BY <1>1, <2>2, <4>1, AppendElements, SMT
      <3>2. Len(cmds') <= Capacity
        BY <2>2, <3>1 DEF TypeInv, TypeOK, ChannelTypes
      <3>3. \A i \in DOMAIN cmds' : cmds'[i] = Shutdown \/ Fresh(cmds'[i])
        BY <1>1, <3>1, Zenon DEF TypeInv, Control
      <3> QED  BY <1>2, <3>1, <3>2, <3>3, Zenon DEF TypeInv, TypeOK, ChannelTypes
    <2> QED  BY <1>2, <2>1, <2>2
  <1>4. ControlTypes'
    <2>1. nextTicket' \in 1..MaxTicket + 1
      BY DEF TrySend, TypeInv, TypeOK, ControlTypes, Tickets
    <2>2. rejected' \in [QueueKind -> Nat]
      <3>1. \/ rejected' = rejected
            \/ rejected' = [rejected EXCEPT ![kind] = @ + 1]
        BY Zenon DEF TrySend
      <3> QED  BY <3>1 DEF TypeInv, TypeOK, ControlTypes
    <2> QED  BY <2>1, <2>2, Zenon DEF TrySend, TypeInv, TypeOK, ControlTypes
  <1>5. PoolTypes'
    <2>1. /\ storeWaiting' = storeWaiting \/ (kind = "store" /\
                 storeWaiting' = [storeWaiting EXCEPT ![nextTicket] = Range(blocks)])
          /\ planned' = planned \/
                 planned' = [planned EXCEPT ![nextTicket] = Range(blocks) \cap Regions]
          /\ UNCHANGED <<pool, owned, stale>>
      BY Zenon DEF TrySend
    <2> QED  BY <1>2, <2>1 DEF TypeInv, TypeOK, PoolTypes
  <1>6. ClientTypes' /\ (cpc' \in {"submitting", "cancelling"} =>
                          carg'.kind \in QueueKind /\ carg'.ticket \in Tickets)
    BY <1>2 DEF TrySend, TypeInv, TypeOK, ClientTypes
  <1>7. HistoryTypes'
    BY <1>2 DEF TrySend, TypeInv, TypeOK, HistoryTypes
  <1>8. ThreadTypes' /\ UNCHANGED <<pc, cur>>
    BY <1>2, Frames DEF TypeInv, TypeOK, coordVars
  <1>9. Control'
    BY <1>3, <1>6, <1>8 DEF TypeInv, Control
  <1> QED  BY <1>3, <1>4, <1>5, <1>6, <1>7, <1>8, <1>9 DEF TypeInv, TypeOK

\* on_submit, cancel and the region calls of the scheduler keep the types.
LEMMA ClientType ==
    ASSUME TypeInv
    PROVE  /\ on_submit => TypeInv'
           /\ \A t \in Tickets : cancel(t) => TypeInv'
           /\ cancel_insert => TypeInv'
           /\ \A r \in Regions : ReserveRegion(r) \/ ReleaseRegion(r) => TypeInv'
  <1> USE DEF TypeInv, TypeOK
  <1>1. ASSUME on_submit PROVE TypeInv'
    <2>1. ControlTypes'
      <3>1. queued' \in [QueueKind -> 0..CounterMod - 1]
        BY <1>1, CounterSteps DEF on_submit, ControlTypes
      <3>2. submitted' \in [QueueKind -> Nat]
        BY <1>1 DEF on_submit, ControlTypes, Control
      <3> QED  BY <1>1, <3>1, <3>2 DEF on_submit, ControlTypes, Control
    <2>2. ClientTypes' /\ Control'
      BY <1>1 DEF on_submit, ClientTypes, Control, NoTicket, chanVars, coordVars
    <2> QED  BY <1>1, <2>1, <2>2, Frames DEF on_submit
  <1>2. ASSUME NEW t \in Tickets, cancel(t) PROVE TypeInv'
    <2>1. HistoryTypes'
      BY <1>2 DEF cancel, HistoryTypes
    <2>2. ClientTypes' /\ Control'
      BY <1>2 DEF cancel, ClientTypes, Control, clientVars, chanVars, coordVars
    <2> QED  BY <1>2, <2>1, <2>2, Frames DEF cancel
  <1>3. ASSUME cancel_insert PROVE TypeInv'
    <2>1. ControlTypes'
      BY <1>3 DEF cancel_insert, ControlTypes, Control
    <2>2. ClientTypes' /\ Control'
      BY <1>3 DEF cancel_insert, ClientTypes, Control, NoTicket, chanVars, coordVars
    <2> QED  BY <1>3, <2>1, <2>2, Frames DEF cancel_insert
  <1>4. ASSUME NEW r \in Regions, ReserveRegion(r) \/ ReleaseRegion(r) PROVE TypeInv'
    <2>1. PoolTypes'
      BY <1>4, SMT DEF ReserveRegion, ReleaseRegion, Forget, Release, PoolTypes
    <2>2. Control'
      BY <1>4 DEF ReserveRegion, ReleaseRegion, Control, chanVars, coordVars, clientVars
    <2> QED  BY <1>4, <2>1, <2>2, Frames DEF ReserveRegion, ReleaseRegion
  <1> QED  BY <1>1, <1>2, <1>3, <1>4

\* handle_coordinator_event keeps the types.
LEMMA DrainType == TypeInv /\ DrainEvent => TypeInv'
  <1> SUFFICES ASSUME TypeInv, DrainEvent PROVE TypeInv'
    OBVIOUS
  <1> USE DEF TypeInv, TypeOK
  <1> DEFINE e == Head(events)
  <1>1. e \in Event /\ events' \in Seq(Event) /\ Len(events') = Len(events) - 1
    BY TailElements, SMT DEF DrainEvent, ChannelTypes
  <1>2. ChannelTypes'
    BY <1>1 DEF DrainEvent, ChannelTypes
  <1>3. e.ticket \in Tickets /\ e.regions \subseteq Regions
        /\ e.type \in {"queued"} \cup QueueOutcome
    BY <1>1 DEF Event
  <1> HIDE DEF e
  <1>4. HistoryTypes'
    BY <1>3 DEF DrainEvent, HistoryTypes, e
  <1>5. PoolTypes'
    <2>1. CASE UNCHANGED poolVars
      BY <2>1, Frames
    <2>2. CASE EndStore(e)
      <3>1. /\ storeWaiting' = [storeWaiting EXCEPT ![e.ticket] = {}]
            /\ planned' = planned /\ owned' \subseteq owned
            /\ pool' \subseteq pool /\ stale' \subseteq stale \cup storeWaiting[e.ticket]
        BY <2>2 DEF EndStore, Forget, Release
      <3> QED  BY <1>3, <3>1 DEF PoolTypes
    <2>3. CASE EndFetch(e)
      <3>1. /\ planned' = [planned EXCEPT ![e.ticket] = {}]
            /\ storeWaiting' = storeWaiting
            /\ owned' \subseteq owned \cup e.regions \cup stale /\ pool' \subseteq pool
            /\ stale' \subseteq stale \cup e.regions \cup planned[e.ticket]
        BY <2>3, SMT DEF EndFetch, Forget, Release
      <3> QED  BY <1>3, <3>1 DEF PoolTypes
    <2> QED  BY <2>1, <2>2, <2>3 DEF DrainEvent, e
  <1>6. Control'
    BY DEF DrainEvent, Control, clientVars, coordVars
  <1> QED  BY <1>2, <1>4, <1>5, <1>6, Frames DEF DrainEvent

\* The four steps of Drop for Scheduler keep the types.
LEMMA DropType ==
    TypeInv /\ (try_send_shutdown \/ DropHandle \/ DropEvents \/ Join) => TypeInv'
  <1> SUFFICES ASSUME TypeInv, try_send_shutdown \/ DropHandle \/ DropEvents \/ Join
               PROVE  TypeInv'
    OBVIOUS
  <1> USE DEF TypeInv, TypeOK
  <1>1. ClientTypes'
    BY DEF try_send_shutdown, DropHandle, DropEvents, Join, ClientTypes
  <1>2. /\ ChannelTypes'
        /\ \A i \in DOMAIN cmds' : cmds'[i] = Shutdown \/ Fresh(cmds'[i])
    <2>1. CASE cmds' = Append(cmds, Shutdown) /\ Len(cmds) < Capacity
                /\ UNCHANGED <<events, cmdTx, evRx>>
      <3>1. /\ cmds' \in Seq(Command \cup {Shutdown})
            /\ Len(cmds') = Len(cmds) + 1
            /\ \A i \in DOMAIN cmds' :
                  cmds'[i] = Shutdown \/ (i \in DOMAIN cmds /\ cmds'[i] = cmds[i])
        BY <2>1, AppendElements, SMT DEF ChannelTypes
      <3>2. \A i \in DOMAIN cmds' : cmds'[i] = Shutdown \/ Fresh(cmds'[i])
        BY <3>1, Zenon DEF Control
      <3> QED  BY <2>1, <3>1, <3>2 DEF ChannelTypes
    <2>2. CASE UNCHANGED cmds
      <3>1. /\ events' = events \/ events' = << >>
            /\ cmdTx' = cmdTx \/ cmdTx' = FALSE
            /\ evRx' = evRx \/ evRx' = FALSE
        BY Zenon DEF try_send_shutdown, DropHandle, DropEvents, Join, chanVars
      <3>2. events' \in Seq(Event) /\ Len(events') <= Capacity
        <4>1. CASE events' = events
          BY <4>1 DEF ChannelTypes
        <4>2. CASE events' = << >>
          BY <4>2
        <4> QED  BY <3>1, <4>1, <4>2
      <3>3. cmdTx' \in BOOLEAN /\ evRx' \in BOOLEAN
        BY <3>1, Zenon DEF ChannelTypes
      <3> QED  BY <2>2, <3>2, <3>3, Zenon DEF ChannelTypes, Control
    <2> QED  BY <2>1, <2>2 DEF try_send_shutdown, DropHandle, DropEvents, Join, chanVars
  <1>3. Control'
    BY <1>2 DEF try_send_shutdown, DropHandle, DropEvents, Join, Control, coordVars
  <1> QED
    BY <1>1, <1>2, <1>3, Frames DEF try_send_shutdown, DropHandle, DropEvents, Join

\* What a handler emits about its command is an event.
LEMMA MsgType ==
    ASSUME cur \in Command, NEW type \in {"queued"} \cup QueueOutcome,
           NEW regions \in SUBSET Regions
    PROVE  Msg(type, regions) \in Event
  BY DEF Msg, Command, Event, QueueKind

\* Emitting appends one event or none.
LEMMA EmitType ==
    ASSUME ChannelTypes, NEW e \in Event, NEW next, Emit(e, next),
           UNCHANGED <<cmds, cmdTx, evRx>>
    PROVE  ChannelTypes' /\ pc' \in {next, "errored"}
  <1>1. /\ events' = events \/ (events' = Append(events, e) /\ Len(events) < Capacity)
        /\ pc' \in {next, "errored"}
    BY Zenon DEF Emit, emit_required, emit_observability
  <1>2. CASE events' = events
    BY <1>1, <1>2, Zenon DEF ChannelTypes
  <1>3. CASE events' = Append(events, e) /\ Len(events) < Capacity
    <2>1. events' \in Seq(Event) /\ Len(events') = Len(events) + 1
      BY <1>3, AppendElements, SMT DEF ChannelTypes
    <2>2. Len(events') <= Capacity
      BY <1>3, <2>1 DEF ChannelTypes
    <2> QED  BY <1>1, <2>1, <2>2, Zenon DEF ChannelTypes
  <1> QED  BY <1>1, <1>2, <1>3

\* The command a loop has taken blocks from is still a command.
LEMMA BlocksType ==
    ASSUME cur \in Command
    PROVE  /\ [cur EXCEPT !.blocks = << >>] \in Command
           /\ cur.blocks /= << >> /\ cur.kind /= "plan" =>
                 [cur EXCEPT !.blocks = Tail(@)] \in Command
  <1>1. CASE cur \in [kind : {"plan"}, ticket : Tickets, blocks : {<< >>}]
    BY <1>1 DEF Command
  <1>2. CASE cur \in [kind : {"fetch"}, ticket : Tickets, blocks : Seq(Source)]
    <2>1. cur.blocks \in Seq(Source) /\ << >> \in Seq(Source)
      BY <1>2
    <2>2. cur.blocks /= << >> => Tail(cur.blocks) \in Seq(Source)
      BY <2>1, TailElements, SMT
    <2>3. \A b \in Seq(Source) : [cur EXCEPT !.blocks = b] \in
              [kind : {"fetch"}, ticket : Tickets, blocks : Seq(Source)]
      BY <1>2, Zenon
    <2> QED  BY <2>1, <2>2, <2>3, Zenon DEF Command
  <1>3. CASE cur \in [kind : {"store"}, ticket : Tickets, blocks : Seq(Regions)]
    <2>1. cur.blocks \in Seq(Regions) /\ << >> \in Seq(Regions)
      BY <1>3
    <2>2. cur.blocks /= << >> => Tail(cur.blocks) \in Seq(Regions)
      BY <2>1, TailElements, SMT
    <2>3. \A b \in Seq(Regions) : [cur EXCEPT !.blocks = b] \in
              [kind : {"store"}, ticket : Tickets, blocks : Seq(Regions)]
      BY <1>3, Zenon
    <2> QED  BY <2>1, <2>2, <2>3, Zenon DEF Command
  <1> QED  BY <1>1, <1>2, <1>3 DEF Command

\* Every step of the coordinator thread keeps the types.
LEMMA ThreadType == TypeInv /\ CoordinatorThread => TypeInv'
  <1> SUFFICES ASSUME TypeInv, CoordinatorThread PROVE TypeInv'
    OBVIOUS
  <1> USE DEF TypeInv, TypeOK
  <1>1. ASSUME run_once PROVE TypeInv'
    <2>1. CASE cmds /= << >> /\ cmds' = Tail(cmds)
      <3>1. /\ cmds' \in Seq(Command \cup {Shutdown})
            /\ Len(cmds') = Len(cmds) - 1
            /\ \A i \in DOMAIN cmds' : i + 1 \in DOMAIN cmds /\ cmds'[i] = cmds[i + 1]
            /\ 1 \in DOMAIN cmds /\ Head(cmds) = cmds[1]
        BY <2>1, TailElements, SMT DEF ChannelTypes
      <3>2. \A i \in DOMAIN cmds' : cmds'[i] = Shutdown \/ Fresh(cmds'[i])
        BY <3>1, Zenon DEF Control
      <3>3. ChannelTypes'
        BY <1>1, <3>1 DEF run_once, ChannelTypes
      <3>4. Head(cmds) = Shutdown \/ Fresh(Head(cmds))
        BY <3>1 DEF Control
      <3>5. ThreadTypes' /\ Control'
        BY <1>1, <2>1, <3>2, <3>4 DEF run_once, ThreadTypes, Control, Fresh, clientVars
      <3> QED  BY <1>1, <3>3, <3>5, Frames DEF run_once
    <2>2. CASE UNCHANGED <<cmds, cur>> /\ pc' = "exited"
      <3>1. ChannelTypes'
        BY <1>1, <2>2, Zenon DEF run_once, ChannelTypes
      <3>2. ThreadTypes' /\ Control'
        BY <1>1, <2>2 DEF run_once, ThreadTypes, Control, clientVars
      <3> QED  BY <1>1, <3>1, <3>2, Frames DEF run_once
    <2> QED  BY <1>1, <2>1, <2>2 DEF run_once
  <1>2. ASSUME on_start PROVE TypeInv'
    <2>1. ControlTypes'
      BY <1>2, CounterSteps DEF on_start, ControlTypes
    <2>2. ThreadTypes' /\ Control'
      BY <1>2 DEF on_start, ThreadTypes, Control, clientVars, chanVars
    <2> QED  BY <1>2, <2>1, <2>2, Frames DEF on_start
  <1>3. ASSUME EmitQueued PROVE TypeInv'
    <2>1. cur \in Command /\ Msg("queued", {}) \in Event
      BY <1>3, MsgType DEF EmitQueued, Control, Fresh
    <2>2. ChannelTypes' /\ pc' \in {"check", "errored"}
      BY <1>3, <2>1, EmitType DEF EmitQueued
    <2>3. ThreadTypes' /\ Control'
      BY <1>3, <2>2 DEF EmitQueued, ThreadTypes, Control, clientVars
    <2> QED  BY <1>3, <2>2, <2>3, Frames DEF EmitQueued
  <1>4. ASSUME NEW class \in {"failed", "cancelled"}, FailBlock(class), cur \in Command,
               UNCHANGED <<chanVars, ctrlVars, owned, storeWaiting, planned, stale, clientVars, histVars>>
        PROVE  TypeInv'
    <2>1. cur' \in Command
      BY <1>4, BlocksType DEF FailBlock
    <2>2. ThreadTypes' /\ Control'
      BY <1>4, <2>1 DEF FailBlock, ThreadTypes, Control, QueueOutcome, clientVars, chanVars
    <2>3. PoolTypes'
      BY <1>4 DEF FailBlock, PoolTypes
    <2> QED  BY <1>4, <2>2, <2>3, Frames
  <1>5. ASSUME NextBlock, pc = "block", staged' \subseteq Regions, pool' \subseteq Regions,
               UNCHANGED <<chanVars, ctrlVars, owned, storeWaiting, planned, stale, clientVars, histVars>>
        PROVE  TypeInv'
    <2>1. cur \in Command /\ cur.kind /= "plan" /\ cur.blocks /= << >>
      BY <1>5 DEF Control, Fresh
    <2>2. cur' \in Command /\ cur'.kind = cur.kind /\ cur'.blocks = Tail(cur.blocks)
      BY <1>5, <2>1, BlocksType DEF NextBlock, Command
    <2>3. pc' = "block" => cur'.blocks /= << >>
      BY <1>5, <2>2 DEF NextBlock
    <2>4. ThreadTypes' /\ Control'
      BY <1>5, <2>1, <2>2, <2>3 DEF NextBlock, ThreadTypes, Control, Fresh, clientVars,
         chanVars
    <2>5. PoolTypes'
      BY <1>5 DEF PoolTypes
    <2> QED  BY <1>5, <2>4, <2>5, Frames
  <1>6. ASSUME CheckCancelled PROVE TypeInv'
    <2>1. cur \in Command
      BY <1>6 DEF CheckCancelled, Control, Fresh
    <2>2. CASE FailBlock("cancelled")
      BY <1>4, <1>6, <2>1, <2>2 DEF CheckCancelled
    <2>3. CASE /\ pc' = IF cur.kind = "plan" THEN "done" ELSE "block"
               /\ UNCHANGED <<pool, cur, staged, outcome>>
      <3>1. ThreadTypes' /\ Control'
        BY <1>6, <2>1, <2>3 DEF CheckCancelled, ThreadTypes, Control, clientVars, chanVars
      <3> QED  BY <1>6, <2>3, <3>1, Frames DEF CheckCancelled, poolVars
    <2> QED  BY <1>6, <2>2, <2>3 DEF CheckCancelled
  <1>7. ASSUME StoreBlock \/ FetchBlock PROVE TypeInv'
    <2>1. cur \in Command /\ pc = "block"
      BY <1>7 DEF StoreBlock, FetchBlock, Control, Fresh
    <2>2. CASE \E class \in {"failed", "cancelled"} : FailBlock(class)
      BY <1>4, <1>7, <2>1, <2>2 DEF StoreBlock, FetchBlock
    <2>3. CASE NextBlock /\ UNCHANGED <<pool, staged>>
      BY <1>5, <1>7, <2>1, <2>3 DEF StoreBlock, FetchBlock, PoolTypes, ThreadTypes
    <2>4. CASE NextBlock /\ \E r \in Regions \ pool : /\ pool' = pool \cup {r}
                                                     /\ staged' = staged \cup {r}
      BY <1>5, <1>7, <2>1, <2>4 DEF StoreBlock, FetchBlock, PoolTypes, ThreadTypes
    <2> QED  BY <1>7, <2>2, <2>3, <2>4, Zenon DEF StoreBlock, FetchBlock
  <1>8. ASSUME report_failure \/ EmitCompleted PROVE TypeInv'
    <2>1. cur \in Command
      BY <1>8 DEF report_failure, EmitCompleted, Control
    <2>2. Msg(outcome, {}) \in Event /\ Msg("completed", staged) \in Event
      BY <2>1, MsgType DEF ThreadTypes, QueueOutcome
    <2>3. ChannelTypes' /\ pc' \in {"finish", "errored"}
      BY <1>8, <2>2, EmitType, Zenon DEF report_failure, EmitCompleted
    <2>4. ThreadTypes' /\ Control'
      BY <1>8, <2>1, <2>3 DEF report_failure, EmitCompleted, ThreadTypes, Control,
         QueueOutcome, clientVars
    <2> QED  BY <1>8, <2>3, <2>4, Frames DEF report_failure, EmitCompleted
  <1>9. ASSUME on_finish PROVE TypeInv'
    <2>1. ControlTypes'
      <3>1. inFlight' \in [QueueKind -> 0..CounterMod - 1]
        BY <1>9, CounterSteps DEF on_finish, ControlTypes
      <3>2. settled' \in [QueueKind -> [QueueOutcome -> Nat]]
        <4>1. cur.kind \in QueueKind /\ outcome \in QueueOutcome
          BY <1>9 DEF on_finish, Control, Command, QueueKind, ThreadTypes
        <4>2. settled[cur.kind] \in [QueueOutcome -> Nat]
          BY <4>1 DEF ControlTypes
        <4> DEFINE row == [settled[cur.kind] EXCEPT ![outcome] = @ + 1]
        <4>3. row \in [QueueOutcome -> Nat]
          BY <4>1, <4>2
        <4>4. settled' = [settled EXCEPT ![cur.kind] = row]
          BY <1>9 DEF on_finish
        <4> HIDE DEF row
        <4> QED  BY <4>1, <4>3, <4>4, Zenon DEF ControlTypes
      <3> QED  BY <1>9, <3>1, <3>2, Zenon DEF on_finish, ControlTypes
    <2>2. ThreadTypes' /\ Control'
      BY <1>9 DEF on_finish, ThreadTypes, Control, QueueOutcome, clientVars, chanVars
    <2> QED  BY <1>9, <2>1, <2>2, Frames DEF on_finish
  <1> QED
    BY <1>1, <1>2, <1>3, <1>6, <1>7, <1>8, <1>9, Zenon DEF CoordinatorThread

\* What a submit call hands to try_send_ticket.
LEMMA SubmitCommand ==
    ASSUME TypeInv, Submit
    PROVE  \E kind, blocks :
              /\ kind \in QueueKind /\ TrySend(kind, blocks)
              /\ Fresh([kind |-> kind, ticket |-> nextTicket, blocks |-> blocks])
              /\ [kind |-> kind, ticket |-> nextTicket, blocks |-> blocks] \in Command
              /\ kind = "fetch" => Range(blocks) \cap Regions \subseteq owned
              /\ kind = "store" =>
                    Range(blocks) \subseteq owned \ ((UNION Range(storeWaiting)) \ stale)
  <1>1. nextTicket \in Tickets
    BY DEF Submit, submit_prefetch_plan, submit_fetch, submit_store, TrySend
  <1>2. CASE submit_prefetch_plan
    <2>1. Fresh([kind |-> "plan", ticket |-> nextTicket, blocks |-> << >>])
      BY <1>1 DEF Fresh, Command
    <2> QED  BY <1>2, <2>1 DEF submit_prefetch_plan, QueueKind, Fresh
  <1>3. CASE submit_fetch
    <2> DEFINE F == owned \cup {"tier", "gpu"}
    <2>1. PICK blocks \in BlockLists(F) : TrySend("fetch", blocks)
      BY <1>3 DEF submit_fetch
    <2>2. F \subseteq Source
      BY DEF TypeInv, TypeOK, PoolTypes, Source
    <2> HIDE DEF F
    <2>3. blocks \in Seq(Source) /\ blocks /= << >> /\ Range(blocks) \subseteq F
      BY <2>2 DEF BlockLists, Range
    <2>4. Fresh([kind |-> "fetch", ticket |-> nextTicket, blocks |-> blocks])
      BY <1>1, <2>3 DEF Fresh, Command
    <2>5. Range(blocks) \cap Regions \subseteq owned
      BY <2>3, RegionsAssumption DEF F
    <2> QED  BY <2>1, <2>4, <2>5 DEF QueueKind, Fresh
  <1>4. CASE submit_store
    <2> DEFINE F == owned \ ((UNION Range(storeWaiting)) \ stale)
    <2>1. PICK blocks \in BlockLists(F) : TrySend("store", blocks)
      BY <1>4 DEF submit_store
    <2>2. F \subseteq Regions
      BY DEF TypeInv, TypeOK, PoolTypes
    <2> HIDE DEF F
    <2>3. blocks \in Seq(Regions) /\ blocks /= << >> /\ Range(blocks) \subseteq F
      BY <2>2 DEF BlockLists, Range
    <2>4. Fresh([kind |-> "store", ticket |-> nextTicket, blocks |-> blocks])
      BY <1>1, <2>3 DEF Fresh, Command
    <2> QED  BY <2>1, <2>2, <2>3, <2>4 DEF QueueKind, Fresh, F
  <1> QED  BY <1>2, <1>3, <1>4 DEF Submit

\* The three submit calls keep the types.
LEMMA SubmitType == TypeInv /\ Submit => TypeInv'
  <1> SUFFICES ASSUME TypeInv, Submit PROVE TypeInv'
    OBVIOUS
  <1>1. owned \subseteq Regions
    BY DEF TypeInv, TypeOK, PoolTypes
  <1>2. PICK kind, blocks :
           /\ kind \in QueueKind /\ TrySend(kind, blocks)
           /\ Fresh([kind |-> kind, ticket |-> nextTicket, blocks |-> blocks])
           /\ kind = "store" => Range(blocks) \subseteq owned
    BY SubmitCommand
  <1> QED  BY <1>1, <1>2, TrySendType

\* TypeInv is inductive.
LEMMA TypeStep == TypeInv /\ [Next]_vars => TypeInv'
  <1> SUFFICES ASSUME TypeInv, [Next]_vars PROVE TypeInv'
    OBVIOUS
  <1>1. CASE Client
    BY <1>1, SubmitType, ClientType, DrainType, DropType, Zenon DEF Client
  <1>2. CASE CoordinatorThread
    BY <1>2, ThreadType
  <1>3. CASE UNCHANGED vars
    BY <1>3, Frames DEF vars, TypeInv, TypeOK, Control, chanVars, clientVars, coordVars
  <1> QED  BY <1>1, <1>2, <1>3 DEF Next, Ended

\* The counters of the shared CoordinatorControl stay in range although they
\* wrap, neither channel ever exceeds its capacity, and each thread only
\* holds commands its handler can run.
THEOREM TypeCorrect == Spec => []TypeOK
  <1>1. TypeInv => TypeOK
    BY DEF TypeInv
  <1> QED  BY <1>1, TypeInit, TypeStep, PTL DEF Spec

------------------------------------------------------------------------------
(* Tickets and regions *)

\* A ticket is in one place: a command of the channel, the command under way,
\* or events already sent; the loop is over before the outcome is.
TicketOrder ==
    /\ \A i \in DOMAIN cmds : cmds[i].ticket < nextTicket
    /\ \A i, j \in DOMAIN cmds :
           i /= j /\ cmds[i] /= Shutdown => cmds[i].ticket /= cmds[j].ticket
    /\ cur.ticket < nextTicket
    /\ \A i \in DOMAIN cmds : cmds[i] /= Shutdown => cmds[i].ticket /= cur.ticket
    /\ \A i \in DOMAIN events : \A j \in DOMAIN cmds : events[i].ticket /= cmds[j].ticket
    /\ \A i \in DOMAIN events :
           /\ events[i].ticket < nextTicket
           /\ Terminal(events[i]) /\ events[i].ticket = cur.ticket => cur.blocks = << >>
    /\ pc \in {"fail", "done", "finish"} => cur.blocks = << >>

\* Regions are staged by a running fetch only, and travel in FetchCompleted only.
StagedOnlyByFetch ==
    /\ staged /= {} => pc \in {"block", "done"} /\ cur.kind = "fetch"
    /\ \A i \in DOMAIN events :
           events[i].regions /= {} => events[i].kind = "fetch" /\ events[i].type = "completed"

Inv == TypeInv /\ TicketOrder /\ StagedOnlyByFetch /\ RegionOwnership /\ StoreSourceLive

\* The invariant holds of a new coordinator.
LEMMA InvInit == Init => Inv
  <1> SUFFICES ASSUME Init PROVE TicketOrder /\ StagedOnlyByFetch /\ RegionOwnership
                                 /\ StoreSourceLive
    BY TypeInit DEF Inv
  <1>1. cmds = << >> /\ events = << >> /\ DOMAIN cmds = {} /\ DOMAIN events = {}
    BY DEF Init
  <1>2. TicketOrder /\ StagedOnlyByFetch
    BY <1>1 DEF Init, TicketOrder, StagedOnlyByFetch, Shutdown
  <1>3. RegionOwnership
    BY <1>1 DEF Init, RegionOwnership, RegionPartition, RegionClaims, EventRegions,
       RegionsOf
  <1>4. StoreSourceLive
    BY <1>1 DEF Init, StoreSourceLive, Range, Shutdown
  <1> QED  BY <1>2, <1>3, <1>4

\* Ticket 0 is Shutdown's; every other command and every event has its own.
LEMMA TicketTypes ==
    ASSUME TypeInv
    PROVE  /\ nextTicket \in Nat
           /\ \A i \in DOMAIN cmds : /\ cmds[i].ticket \in Nat
                                     /\ cmds[i] /= Shutdown => cmds[i].ticket > 0
           /\ \A i \in DOMAIN events : events[i].ticket \in Nat /\ events[i].ticket > 0
           /\ cur.ticket \in Nat /\ (cur \in Command => cur.ticket > 0)
           /\ Shutdown.ticket = 0 /\ Shutdown.blocks = << >>
  <1> USE DEF TypeInv, TypeOK
  <1>1. \A c \in Command : c.ticket \in Nat /\ c.ticket > 0
    BY DEF Command, Tickets
  <1>2. Shutdown.ticket = 0 /\ Shutdown.blocks = << >>
    BY DEF Shutdown
  <1>3. \A i \in DOMAIN cmds : cmds[i] \in Command \/ cmds[i] = Shutdown
    BY DEF Control, Fresh
  <1>4. \A i \in DOMAIN events : events[i] \in Event
    BY DEF ChannelTypes
  <1>5. \A e \in Event : e.ticket \in Nat /\ e.ticket > 0
    BY DEF Event, Tickets
  <1>6. nextTicket \in Nat /\ (cur \in Command \/ cur = Shutdown)
    BY DEF ControlTypes, ThreadTypes
  <1> QED  BY <1>1, <1>2, <1>3, <1>4, <1>5, <1>6

\* The actions that neither touch the channels nor the coordinator thread.
LEMMA QuietSteps ==
    on_submit \/ (\E t \in Tickets : cancel(t)) \/ cancel_insert \/ DropHandle \/ Join
    \/ UNCHANGED vars
      => UNCHANGED <<cmds, events, evRx, nextTicket, poolVars, coordVars>>
  BY Zenon DEF on_submit, cancel, cancel_insert, DropHandle, Join, vars, chanVars,
     ctrlVars, poolVars, coordVars

\* How the turns of the two loops change the command under way.
LEMMA LoopSteps ==
    ASSUME Inv, CheckCancelled \/ StoreBlock \/ FetchBlock
    PROVE  /\ UNCHANGED <<cmds, events, evRx, nextTicket, owned, storeWaiting, planned, stale>>
           /\ cur'.ticket = cur.ticket /\ cur'.kind = cur.kind
           /\ cur'.blocks = << >> \/ cur'.blocks = cur.blocks \/
                 (pc = "block" /\ cur'.blocks = Tail(cur.blocks))
           /\ cur.blocks = << >> => cur'.blocks = << >>
           /\ pc' \in {"fail", "done", "finish"} => cur'.blocks = << >>
  <1> USE DEF chanVars, ctrlVars
  <1>1. UNCHANGED <<cmds, events, evRx, nextTicket, owned, storeWaiting, planned, stale>>
    BY Zenon DEF CheckCancelled, StoreBlock, FetchBlock
  <1>2. cur \in Command
    BY DEF Inv, TypeInv, Control, Fresh, CheckCancelled, StoreBlock, FetchBlock
  <1>3. ASSUME NEW b PROVE LET c == [cur EXCEPT !.blocks = b]
                           IN  c.ticket = cur.ticket /\ c.kind = cur.kind /\ c.blocks = b
    BY <1>2 DEF Command
  <1>4. CASE \E class : FailBlock(class)
    BY <1>1, <1>3, <1>4 DEF FailBlock
  <1>5. CASE CheckCancelled /\ UNCHANGED cur
    <2>1. cur.kind = "plan" => cur.blocks = << >>
      BY <1>2 DEF Command
    <2>2. pc' \in {"fail", "done", "finish"} => cur.kind = "plan" \/ cur'.blocks = << >>
      BY <1>3, <1>5 DEF CheckCancelled, FailBlock
    <2> QED  BY <1>1, <1>5, <2>1, <2>2
  <1>6. CASE NextBlock /\ pc = "block"
    <2>1. cur.blocks /= << >>
      BY <1>6 DEF Inv, TypeInv, Control, Fresh
    <2>2. cur'.blocks = Tail(cur.blocks) /\ cur'.ticket = cur.ticket /\ cur'.kind = cur.kind
      BY <1>3, <1>6 DEF NextBlock
    <2>3. pc' \in {"fail", "done", "finish"} => Tail(cur.blocks) = << >>
      BY <1>6 DEF NextBlock
    <2> QED  BY <1>1, <1>6, <2>1, <2>2, <2>3
  <1> QED  BY <1>4, <1>5, <1>6, Zenon DEF CheckCancelled, StoreBlock, FetchBlock

\* How the emitting actions change the event channel.
LEMMA EmitSteps ==
    ASSUME Inv, EmitQueued \/ report_failure \/ EmitCompleted
    PROVE  /\ UNCHANGED <<cmds, evRx, nextTicket, cur, poolVars>>
           /\ pc' \in {"check", "finish", "errored"}
           /\ pc' = "finish" => pc \in {"fail", "done"}
           /\ staged' = {} \/ staged' = staged
           /\ \E e \in Event :
                 /\ e.ticket = cur.ticket /\ e.kind = cur.kind
                 /\ Terminal(e) => pc \in {"fail", "done"}
                 /\ e.regions /= {} => e.type = "completed"
                 /\ \/ e.regions = staged /\ staged' = {}
                    \/ e.regions = {} /\ staged' = staged /\ pc /= "done"
                 /\ \/ events' = Append(events, e)
                    \/ events' = events /\ (~evRx \/ cur.kind = "plan")
  <1> USE DEF ctrlVars
  <1>1. cur \in Command
    BY DEF Inv, TypeInv, Control, Fresh, EmitQueued, report_failure, EmitCompleted
  <1>2. /\ UNCHANGED <<cmds, evRx, nextTicket, cur, poolVars>>
        /\ staged' = {} \/ staged' = staged
    BY Zenon DEF EmitQueued, report_failure, EmitCompleted
  <1>3. ASSUME NEW e, NEW next, Emit(e, next)
        PROVE  /\ pc' \in {next, "errored"}
               /\ \/ events' = Append(events, e)
                  \/ events' = events /\ (~evRx \/ cur.kind = "plan")
    BY <1>3, Zenon DEF Emit, emit_required, emit_observability
  <1>4. ASSUME NEW type \in {"queued"} \cup QueueOutcome, NEW regions \in SUBSET Regions
        PROVE  /\ Msg(type, regions) \in Event
               /\ Msg(type, regions).ticket = cur.ticket
               /\ Msg(type, regions).kind = cur.kind
               /\ Msg(type, regions).type = type
               /\ Msg(type, regions).regions = regions
    BY <1>1, MsgType DEF Msg
  <1>5. outcome \in QueueOutcome /\ staged \in SUBSET Regions
    BY DEF Inv, TypeInv, TypeOK, ThreadTypes
  <1>6. CASE EmitQueued
    <2> DEFINE e == Msg("queued", {})
    <2>1. /\ e \in Event /\ e.ticket = cur.ticket /\ e.kind = cur.kind
          /\ e.type = "queued" /\ e.regions = {}
      BY <1>4
    <2>2. Emit(e, "check") /\ staged' = staged /\ pc = "queued"
      BY <1>6 DEF EmitQueued
    <2> HIDE DEF e
    <2>3. ~Terminal(e)
      BY <2>1 DEF Terminal, QueueOutcome
    <2>4. /\ pc' \in {"check", "errored"}
          /\ \/ events' = Append(events, e)
             \/ events' = events /\ (~evRx \/ cur.kind = "plan")
      BY <1>3, <2>2
    <2> QED  BY <1>2, <2>1, <2>2, <2>3, <2>4
  <1>7. CASE report_failure
    <2> DEFINE e == Msg(outcome, {})
    <2>1. e \in Event /\ e.ticket = cur.ticket /\ e.kind = cur.kind /\ e.regions = {}
      <3>1. outcome \in {"queued"} \cup QueueOutcome /\ {} \in SUBSET Regions
        BY <1>5
      <3> QED  BY <1>4, <3>1, Zenon
    <2>2. Emit(e, "finish") /\ staged' = staged /\ pc = "fail"
      BY <1>7 DEF report_failure
    <2> HIDE DEF e
    <2>3. /\ pc' \in {"finish", "errored"}
          /\ \/ events' = Append(events, e)
             \/ events' = events /\ (~evRx \/ cur.kind = "plan")
      BY <1>3, <2>2
    <2> QED  BY <1>2, <2>1, <2>2, <2>3
  <1>8. CASE EmitCompleted
    <2> DEFINE e == Msg("completed", staged)
    <2>1. /\ e \in Event /\ e.ticket = cur.ticket /\ e.kind = cur.kind
          /\ e.type = "completed" /\ e.regions = staged
      BY <1>4, <1>5 DEF QueueOutcome
    <2>2. Emit(e, "finish") /\ staged' = {} /\ pc = "done"
      BY <1>8 DEF EmitCompleted
    <2> HIDE DEF e
    <2>3. /\ pc' \in {"finish", "errored"}
          /\ \/ events' = Append(events, e)
             \/ events' = events /\ (~evRx \/ cur.kind = "plan")
      BY <1>3, <2>2
    <2> QED  BY <1>2, <2>1, <2>2, <2>3
  <1> QED  BY <1>6, <1>7, <1>8

\* The scheduler's calls keep every ticket in one place.
LEMMA TicketOrderClient == Inv /\ Client => TicketOrder'
  <1> SUFFICES ASSUME Inv, Client PROVE TicketOrder'
    OBVIOUS
  <1>1. ASSUME UNCHANGED <<cmds, events, nextTicket, cur, pc>> PROVE TicketOrder'
    <2>1. TicketOrder
      BY DEF Inv
    <2> QED  BY <1>1, <2>1, ZenonT(60) DEF TicketOrder, Terminal
  <1> USE TicketTypes DEF Inv, TicketOrder
  <1>2. ASSUME NEW c, c = Shutdown \/ (c \in Command /\ c.ticket = nextTicket),
               cmds' = Append(cmds, c),
               nextTicket' = IF c = Shutdown THEN nextTicket ELSE nextTicket + 1,
               UNCHANGED <<events, cur, pc>>
        PROVE  TicketOrder'
    <2>1. \A i \in DOMAIN cmds' : cmds'[i] = c \/ (i \in DOMAIN cmds /\ cmds'[i] = cmds[i])
      BY <1>2, AppendElements, SMT DEF TypeInv, TypeOK, ChannelTypes
    <2>2. \A i, j \in DOMAIN cmds' : i /= j =>
             \/ i \in DOMAIN cmds /\ cmds'[i] = cmds[i]
             \/ j \in DOMAIN cmds /\ cmds'[j] = cmds[j]
      BY <1>2, AppendElements, SMT DEF TypeInv, TypeOK, ChannelTypes
    <2>3. c.ticket \in Nat /\ (c.ticket = 0 \/ c.ticket = nextTicket) /\ c.ticket < nextTicket'
      BY <1>2 DEF Shutdown
    <2>4. c /= Shutdown => c.ticket = nextTicket
      BY <1>2
    <2> QED
      BY <1>2, <2>1, <2>2, <2>3, <2>4
  <1>3. CASE Submit
    <2>1. PICK kind, blocks :
            /\ kind \in QueueKind /\ TrySend(kind, blocks)
            /\ [kind |-> kind, ticket |-> nextTicket, blocks |-> blocks] \in Command
      BY <1>3, SubmitCommand
    <2> DEFINE c == [kind |-> kind, ticket |-> nextTicket, blocks |-> blocks]
    <2>2. /\ cmds' = Append(cmds, c) \/ cmds' = cmds
          /\ UNCHANGED <<events, cur, pc>> /\ nextTicket' = nextTicket + 1
      BY <2>1, Zenon DEF TrySend, coordVars
    <2>3. c \in Command /\ c.ticket = nextTicket /\ c /= Shutdown
      BY <2>1 DEF Shutdown, QueueKind
    <2> HIDE DEF c
    <2>4. CASE cmds' = Append(cmds, c)
      BY <1>2, <2>2, <2>3, <2>4
    <2>5. CASE cmds' = cmds
      BY <2>2, <2>5
    <2> QED  BY <2>2, <2>4, <2>5
  <1>4. CASE on_submit \/ (\E t \in Tickets : cancel(t)) \/ cancel_insert \/ DropHandle \/ Join
    BY <1>1, <1>4, QuietSteps, Zenon DEF coordVars
  <1>5. CASE \E r \in Regions : ReserveRegion(r) \/ ReleaseRegion(r)
    BY <1>1, <1>5, Zenon DEF ReserveRegion, ReleaseRegion, chanVars, ctrlVars, coordVars
  <1>6. CASE DrainEvent
    <2>1. UNCHANGED <<cmds, nextTicket, cur, pc>>
      BY <1>6, Zenon DEF DrainEvent, ctrlVars, coordVars
    <2>2. \A i \in DOMAIN events' : i + 1 \in DOMAIN events /\ events'[i] = events[i + 1]
      BY <1>6, TailElements, SMT DEF DrainEvent, TypeInv, TypeOK, ChannelTypes
    <2> QED  BY <2>1, <2>2 DEF Terminal
  <1>7. CASE try_send_shutdown
    <2>1. /\ cmds' = Append(cmds, Shutdown) \/ cmds' = cmds
          /\ UNCHANGED <<events, nextTicket, cur, pc>>
      BY <1>7, Zenon DEF try_send_shutdown, ctrlVars, coordVars
    <2> QED  BY <1>1, <1>2, <2>1
  <1>8. CASE DropEvents
    <2>1. DOMAIN events' = {} /\ UNCHANGED <<cmds, nextTicket, cur, pc>>
      BY <1>8 DEF DropEvents, ctrlVars, coordVars
    <2>2. /\ \A i \in DOMAIN cmds' : cmds'[i].ticket < nextTicket'
          /\ \A i, j \in DOMAIN cmds' : i /= j /\ cmds'[i] /= Shutdown => cmds'[i].ticket /= cmds'[j].ticket
          /\ cur'.ticket < nextTicket'
          /\ \A i \in DOMAIN cmds' : cmds'[i] /= Shutdown => cmds'[i].ticket /= cur'.ticket
          /\ pc' \in {"fail", "done", "finish"} => cur'.blocks = <<>>
      BY <2>1, ZenonT(30)
    <2> HIDE DEF Inv
    <2> QED  BY <2>1, <2>2, Zenon DEF TicketOrder
  <1> QED
    BY <1>3, <1>4, <1>5, <1>6, <1>7, <1>8, Zenon DEF Client

\* So do the steps of the coordinator thread.
LEMMA TicketOrderThread == Inv /\ CoordinatorThread => TicketOrder'
  <1> SUFFICES ASSUME Inv, CoordinatorThread PROVE TicketOrder'
    OBVIOUS
  <1> USE TicketTypes DEF Inv, TicketOrder
  <1>1. CASE run_once
    <2>1. CASE cmds' = Tail(cmds) /\ cmds /= << >>
      <3>1. /\ \A i \in DOMAIN cmds' : /\ i + 1 \in DOMAIN cmds /\ i + 1 /= 1
                                      /\ cmds'[i] = cmds[i + 1]
            /\ \A i, j \in DOMAIN cmds' : i /= j => i + 1 /= j + 1
            /\ 1 \in DOMAIN cmds /\ Head(cmds) = cmds[1]
        BY <2>1, TailElements, SMT DEF TypeInv, TypeOK, ChannelTypes
      <3>2. UNCHANGED <<events, nextTicket>> /\ pc' \in {"exited", "start"}
        BY <1>1, Zenon DEF run_once, ctrlVars
      <3>3. cur' = cur \/ (cur' = cmds[1] /\ cmds[1] /= Shutdown)
        BY <1>1, <2>1, <3>1 DEF run_once
      <3>4. CASE cur' = cur
        BY <3>1, <3>2, <3>4 DEF Terminal
      <3>5. CASE cur' = cmds[1] /\ cmds[1] /= Shutdown
        BY <3>1, <3>2, <3>5
      <3> QED  BY <3>3, <3>4, <3>5
    <2>2. CASE UNCHANGED <<cmds, cur>> /\ pc' = "exited"
      BY <1>1, <2>2 DEF run_once, ctrlVars
    <2> QED  BY <1>1, <2>1, <2>2 DEF run_once
  <1>2. CASE on_start
    BY <1>2 DEF on_start, chanVars
  <1>3. CASE EmitQueued \/ report_failure \/ EmitCompleted
    <2>1. PICK e \in Event :
             /\ e.ticket = cur.ticket /\ (Terminal(e) => pc \in {"fail", "done"})
             /\ events' = Append(events, e) \/ events' = events
      BY <1>3, EmitSteps, Zenon
    <2>2. /\ UNCHANGED <<cmds, nextTicket, cur>>
          /\ pc' \in {"fail", "done", "finish"} => pc \in {"fail", "done"}
      BY <1>3, EmitSteps
    <2>3. \A i \in DOMAIN events' : events'[i] = e \/ (i \in DOMAIN events /\ events'[i] = events[i])
      <3>1. CASE events' = events
        BY <3>1
      <3>2. CASE events' = Append(events, e)
        BY <3>2, AppendElements, SMT DEF TypeInv, TypeOK, ChannelTypes
      <3> QED  BY <2>1, <3>1, <3>2
    <2>4. e.ticket > 0 /\ cur /= Shutdown
      BY <1>3, <2>1 DEF Event, Tickets
    <2>5. \A j \in DOMAIN cmds : cmds[j].ticket /= e.ticket
      BY <2>1, <2>4
    <2> QED  BY <2>1, <2>2, <2>3, <2>5
  <1>4. CASE CheckCancelled \/ StoreBlock \/ FetchBlock
    BY <1>4, LoopSteps
  <1>5. CASE on_finish
    <2>1. UNCHANGED <<cmds, events, nextTicket>> /\ cur' = Shutdown /\ pc' = "recv"
      BY <1>5, Zenon DEF on_finish, chanVars
    <2> QED  BY <2>1
  <1> QED
    BY <1>1, <1>2, <1>3, <1>4, <1>5, Zenon DEF CoordinatorThread

\* Only a fetch under way holds staged regions (AllocatedRegions).
LEMMA StagedStep == Inv /\ [Next]_vars => StagedOnlyByFetch'
  <1> SUFFICES ASSUME Inv, [Next]_vars PROVE StagedOnlyByFetch'
    OBVIOUS
  <1> USE DEF Inv, StagedOnlyByFetch
  <1>1. ASSUME UNCHANGED <<staged, pc, cur>>,
               \A i \in DOMAIN events' : \E j \in DOMAIN events : events'[i] = events[j]
        PROVE  StagedOnlyByFetch'
    BY <1>1
  <1>2. CASE Client \/ UNCHANGED vars
    <2>1. UNCHANGED <<staged, pc, cur>>
      BY <1>2, QuietSteps, Zenon
         DEF Client, Submit, submit_prefetch_plan, submit_fetch, submit_store, TrySend,
             ReserveRegion, ReleaseRegion, DrainEvent, try_send_shutdown, DropEvents,
             coordVars
    <2>2. \/ events' = events \/ events' = << >>
          \/ events /= << >> /\ events' = Tail(events)
      BY <1>2, QuietSteps, Zenon
         DEF Client, Submit, submit_prefetch_plan, submit_fetch, submit_store, TrySend,
             ReserveRegion, ReleaseRegion, DrainEvent, try_send_shutdown, DropEvents,
             chanVars
    <2>3. \A i \in DOMAIN events' : \E j \in DOMAIN events : events'[i] = events[j]
      <3>1. CASE events' = events
        BY <3>1
      <3>2. CASE events' = << >>
        BY <3>2
      <3>3. CASE events /= << >> /\ events' = Tail(events)
        <4>1. \A i \in DOMAIN events' : i + 1 \in DOMAIN events /\ events'[i] = events[i + 1]
          BY <3>3, TailElements, SMT DEF TypeInv, TypeOK, ChannelTypes
        <4> QED  BY <4>1
      <3> QED  BY <2>2, <3>1, <3>2, <3>3
    <2> QED  BY <1>1, <2>1, <2>3
  <1>3. CASE EmitQueued \/ report_failure \/ EmitCompleted
    <2>1. PICK e \in Event :
             /\ e.kind = cur.kind /\ (e.regions /= {} => e.type = "completed")
             /\ \/ e.regions = staged /\ staged' = {}
                \/ e.regions = {} /\ staged' = staged /\ pc /= "done"
             /\ events' = Append(events, e) \/ events' = events
      BY <1>3, EmitSteps, Zenon
    <2>2. e.regions /= {} => e.kind = "fetch" /\ e.type = "completed"
      BY <2>1
    <2>3. \A i \in DOMAIN events' : events'[i] = e \/ (i \in DOMAIN events /\ events'[i] = events[i])
      <3>1. CASE events' = events
        BY <3>1
      <3>2. CASE events' = Append(events, e)
        BY <3>2, AppendElements, SMT DEF TypeInv, TypeOK, ChannelTypes
      <3> QED  BY <2>1, <3>1, <3>2
    <2>4. staged' = {}
      BY <1>3, <2>1 DEF EmitQueued, report_failure, EmitCompleted
    <2> QED  BY <2>2, <2>3, <2>4
  <1>4. CASE CheckCancelled \/ StoreBlock \/ FetchBlock
    <2>1. events' = events /\ cur'.kind = cur.kind
      BY <1>4, LoopSteps
    <2>2. staged' /= {} => pc' \in {"block", "done"} /\ cur.kind = "fetch"
      <3>1. CASE CheckCancelled
        BY <3>1 DEF CheckCancelled, FailBlock
      <3>2. CASE StoreBlock \/ FetchBlock
        BY <3>2 DEF StoreBlock, FetchBlock, FailBlock, NextBlock
      <3> QED  BY <1>4, <3>1, <3>2
    <2> QED  BY <2>1, <2>2
  <1>5. CASE run_once \/ on_start \/ on_finish
    BY <1>5 DEF run_once, on_start, on_finish, chanVars
  <1> QED
    BY <1>2, <1>3, <1>4, <1>5, Zenon DEF Next, CoordinatorThread, Ended

\* Region r in one of the events of the channel es, and in no two of them.
In(es, r)   == \E i \in DOMAIN es : r \in es[i].regions
Once(es, r) == \A i, j \in DOMAIN es : r \in es[i].regions /\ r \in es[j].regions => i = j

\* What RegionOwnership says of one region.
Held(r) ==
    /\ r \in pool <=> r \in owned \/ r \in staged \/ In(events, r)
    /\ ~(r \in owned /\ r \in staged)
    /\ In(events, r) => r \notin owned /\ r \notin staged
    /\ Once(events, r)
    /\ \A t \in Tickets : r \in storeWaiting[t] \/ r \in planned[t] => r \in owned
    /\ \A t, u \in Tickets : r \in storeWaiting[t] /\ r \in storeWaiting[u] => t = u

\* The regions nobody lost are held one by one.
LEMMA HeldRegions ==
    RegionPartition /\ RegionClaims <=> \A r : r \notin stale => Held(r)
  <1>1. \A r : r \in EventRegions <=> In(events, r)
    BY DEF EventRegions, RegionsOf, In
  <1>2. RegionPartition <=>
           \A r : r \notin stale =>
              /\ r \in pool <=> r \in owned \/ r \in staged \/ In(events, r)
              /\ ~(r \in owned /\ r \in staged)
              /\ In(events, r) => r \notin owned /\ r \notin staged
              /\ Once(events, r)
    BY <1>1 DEF RegionPartition, Once
  <1>3. RegionClaims <=>
           \A r : r \notin stale =>
              /\ \A t \in Tickets : r \in storeWaiting[t] \/ r \in planned[t] => r \in owned
              /\ \A t, u \in Tickets : r \in storeWaiting[t] /\ r \in storeWaiting[u] => t = u
    BY DEF RegionClaims
  <1> QED  BY <1>2, <1>3, Zenon DEF Held

\* A sent event adds its own regions to those of the channel.
LEMMA RegionSent ==
    ASSUME NEW es \in Seq(Event), NEW e \in Event, NEW fs, fs = Append(es, e), NEW r
    PROVE  /\ In(fs, r) <=> In(es, r) \/ r \in e.regions
           /\ Once(es, r) /\ ~(In(es, r) /\ r \in e.regions) => Once(fs, r)
  <1>1. /\ \A i \in DOMAIN fs : (i \in DOMAIN es /\ fs[i] = es[i]) \/ (i = Len(es) + 1 /\ fs[i] = e)
        /\ \A i \in DOMAIN es : i \in DOMAIN fs /\ fs[i] = es[i]
        /\ Len(es) + 1 \in DOMAIN fs /\ fs[Len(es) + 1] = e
    BY AppendElements
  <1>2. In(fs, r) <=> In(es, r) \/ r \in e.regions
    BY <1>1, Zenon DEF In
  <1>3. Once(es, r) /\ ~(In(es, r) /\ r \in e.regions) => Once(fs, r)
    BY <1>1, Zenon DEF In, Once
  <1> QED  BY <1>2, <1>3

\* A drained event takes its regions, and no others, out of the channel.
LEMMA RegionDrained ==
    ASSUME NEW es \in Seq(Event), es /= << >>, NEW fs, fs = Tail(es), NEW r
    PROVE  /\ In(es, r) <=> r \in Head(es).regions \/ In(fs, r)
           /\ Once(es, r) => Once(fs, r) /\ ~(r \in Head(es).regions /\ In(fs, r))
  <1>1. /\ \A i \in DOMAIN fs : i + 1 \in DOMAIN es /\ fs[i] = es[i + 1] /\ i + 1 /= 1
        /\ \A i \in DOMAIN es : i = 1 \/ (i - 1 \in DOMAIN fs /\ es[i] = fs[i - 1])
        /\ 1 \in DOMAIN es /\ Head(es) = es[1]
        /\ \A i, j \in DOMAIN fs : i + 1 = j + 1 => i = j
    BY TailElements, SMT
  <1>2. In(es, r) <=> r \in Head(es).regions \/ In(fs, r)
    <2>1. ASSUME NEW i \in DOMAIN es, r \in es[i].regions
          PROVE  r \in Head(es).regions \/ \E j \in DOMAIN fs : r \in fs[j].regions
      <3>1. CASE i = 1
        BY <1>1, <2>1, <3>1
      <3>2. CASE i - 1 \in DOMAIN fs /\ es[i] = fs[i - 1]
        BY <2>1, <3>2
      <3> QED  BY <1>1, <3>1, <3>2
    <2>2. r \in Head(es).regions \/ In(fs, r) => In(es, r)
      BY <1>1, Zenon DEF In
    <2> QED  BY <2>1, <2>2, Zenon DEF In
  <1>3. Once(es, r) => Once(fs, r)
    BY <1>1, Zenon DEF Once
  <1>4. Once(es, r) => ~(r \in Head(es).regions /\ In(fs, r))
    BY <1>1, Zenon DEF Once, In
  <1> QED  BY <1>2, <1>3, <1>4

\* The end of a store takes its regions from whoever holds them.
LEMMA StoreEndHeld ==
    ASSUME TypeInv, NEW e \in Event, EndStore(e), NEW r, r \notin stale', Held(r),
           staged' = staged, In(events', r) <=> In(events, r), Once(events', r)
    PROVE  r \notin stale /\ Held(r)'
  <1>1. /\ e.ticket \in Tickets /\ storeWaiting \in [Tickets -> SUBSET Regions]
        /\ planned' = planned /\ planned \in [Tickets -> SUBSET Regions]
    BY DEF EndStore, Event, TypeInv, TypeOK, PoolTypes
  <1> DEFINE W == storeWaiting[e.ticket]
  <1>2. /\ storeWaiting' = [storeWaiting EXCEPT ![e.ticket] = {}]
        /\ pool' = pool \ W /\ stale' = stale \cup (W \cap Named')
        /\ owned' = owned \/ \E other \in SUBSET (W \cap stale) : owned' = owned \ (W \ other)
    BY Zenon DEF EndStore, Forget, Release
  <1> HIDE DEF W
  <1>3. r \notin stale /\ (r \in W => r \notin Named')
    BY <1>2
  <1>4. /\ \A t \in Tickets : t /= e.ticket => storeWaiting'[t] = storeWaiting[t]
        /\ storeWaiting'[e.ticket] = {}
    BY <1>1, <1>2
  <1>5. CASE r \in W
    <2>1. r \in owned
      BY <1>1, <1>5 DEF Held, W
    <2>2. r \notin owned' /\ \A t \in Tickets : r \notin storeWaiting'[t] /\ r \notin planned'[t]
      <3>1. /\ \A t \in Tickets : storeWaiting'[t] \subseteq UNION Range(storeWaiting')
            /\ \A t \in Tickets : planned'[t] \subseteq UNION Range(planned')
        BY <1>1, <1>2 DEF Range
      <3>2. /\ r \notin owned' /\ r \notin UNION Range(storeWaiting')
            /\ r \notin UNION Range(planned')
        BY <1>3, <1>5 DEF Named
      <3> QED  BY <3>1, <3>2, Zenon
    <2> QED  BY <1>2, <1>3, <1>5, <2>1, <2>2 DEF Held
  <1>6. CASE r \notin W
    <2>1. (r \in owned' <=> r \in owned) /\ (r \in pool' <=> r \in pool)
      BY <1>2, <1>6
    <2>2. \A t \in Tickets : r \in storeWaiting'[t] => r \in storeWaiting[t]
      BY <1>4
    <2> QED  BY <1>1, <1>3, <2>1, <2>2, Zenon DEF Held
  <1> QED  BY <1>5, <1>6

\* The end of a fetch gives or releases the regions it staged, and releases the
\* planned ones, or keeps them.
LEMMA FetchEndHeld ==
    ASSUME TypeInv, NEW e \in Event, EndFetch(e), NEW r, r \notin stale', Held(r),
           staged' = staged, In(events, r) <=> r \in e.regions \/ In(events', r),
           ~(r \in e.regions /\ In(events', r)), Once(events', r),
           e.regions /= {} => e.type = "completed"
    PROVE  r \notin stale /\ Held(r)'
  <1>1. /\ e.ticket \in Tickets /\ storeWaiting \in [Tickets -> SUBSET Regions]
        /\ storeWaiting' = storeWaiting /\ planned \in [Tickets -> SUBSET Regions]
        /\ planned' = [planned EXCEPT ![e.ticket] = {}]
    BY DEF EndFetch, Event, TypeInv, TypeOK, PoolTypes
  <1> DEFINE P == planned[e.ticket]
  <1>2. /\ \A t \in Tickets : t /= e.ticket => planned'[t] = planned[t]
        /\ planned'[e.ticket] = {}
        /\ r \in P => r \in owned
        /\ \A t \in Tickets : storeWaiting'[t] \subseteq UNION Range(storeWaiting')
        /\ \A t \in Tickets : planned'[t] \subseteq UNION Range(planned')
    BY <1>1 DEF Range, Held
  <1>3. r \in e.regions => r \notin owned /\ r \notin staged /\ r \in pool
    BY DEF Held
  <1>4. /\ \A t \in Tickets : r \in planned'[t] => r \in planned[t]
        /\ Once(events', r)
    BY <1>2
  <1>5. CASE e.type /= "completed" /\ UNCHANGED <<pool, owned, stale>>
    BY <1>1, <1>4, <1>5, Zenon DEF Held
  <1>6. CASE Forget(P) /\ Release(e.regions \cup P)
    <2>1. /\ r \notin stale /\ (r \in e.regions \cup P => r \notin Named')
          /\ r \in pool' <=> r \in pool /\ r \notin e.regions /\ r \notin P
          /\ r \in owned' <=> r \in owned /\ r \notin P
      BY <1>6 DEF Forget, Release
    <2>2. CASE r \in P
      <3>1. \A t \in Tickets : r \notin storeWaiting'[t] /\ r \notin planned'[t]
        <4>1. /\ r \notin UNION Range(storeWaiting')
              /\ r \notin UNION Range(planned')
          BY <2>1, <2>2 DEF Named
        <4> QED  BY <1>2, <4>1, Zenon
      <3> QED  BY <1>2, <1>4, <2>1, <2>2, <3>1 DEF Held
    <2>3. CASE r \notin P
      BY <1>1, <1>3, <1>4, <2>1, <2>3, Zenon DEF Held
    <2> QED  BY <2>2, <2>3
  <1>7. CASE \E homes \in SUBSET e.regions : \E again \in SUBSET (P \cap stale) :
                /\ owned' = owned \cup homes \cup again
                /\ Release(e.regions \ homes)
    <2>1. PICK homes \in SUBSET e.regions : \E again \in SUBSET (P \cap stale) :
                /\ owned' = owned \cup homes \cup again
                /\ Release(e.regions \ homes)
      BY <1>7, Zenon
    <2>2. /\ r \notin stale
          /\ r \in pool' <=> r \in pool /\ ~(r \in e.regions /\ r \notin homes)
          /\ r \in owned' <=> r \in owned \/ r \in homes
          /\ r \in homes => r \in e.regions
      BY <2>1 DEF Release
    <2> QED  BY <1>1, <1>3, <1>4, <2>2, Zenon DEF Held
  <1> QED  BY <1>5, <1>6, <1>7, Zenon DEF EndFetch

\* No step of either thread loses a region or gives it two holders, and only a
\* release makes a region stale.
LEMMA OwnershipStep == Inv /\ [Next]_vars => RegionOwnership' /\ (evRx' => stale \subseteq stale')
  <1> SUFFICES ASSUME Inv, [Next]_vars, evRx', NEW r, r \notin stale'
               PROVE  r \notin stale /\ Held(r)'
    <2>1. (RegionPartition /\ RegionClaims <=> \A r : r \notin stale => Held(r))'
      BY HeldRegions, PTL
    <2> QED  BY <2>1, Zenon DEF RegionOwnership
  <1> DEFINE frame == UNCHANGED <<pool, owned, storeWaiting, planned, stale, staged, events>>
  <1>1. evRx
    BY QuietSteps, EmitSteps, LoopSteps, Zenon
       DEF Next, Client, CoordinatorThread, Ended, Submit, submit_prefetch_plan,
           submit_fetch, submit_store, TrySend, ReserveRegion, ReleaseRegion, DrainEvent,
           try_send_shutdown, DropEvents, run_once, on_start, on_finish, chanVars, vars
  <1>2. r \notin stale => Held(r)
    BY <1>1, HeldRegions DEF Inv, RegionOwnership
  <1>3. /\ events \in Seq(Event) /\ storeWaiting \in [Tickets -> SUBSET Regions]
        /\ planned \in [Tickets -> SUBSET Regions] /\ TypeInv
    BY DEF Inv, TypeInv, TypeOK, ChannelTypes, PoolTypes
  <1>4. ASSUME frame PROVE r \notin stale /\ Held(r)'
    BY <1>2, <1>4, Zenon DEF Held
  <1>5. CASE Submit
    <2>1. PICK kind, blocks :
            /\ kind \in QueueKind /\ TrySend(kind, blocks)
            /\ kind = "fetch" => Range(blocks) \cap Regions \subseteq owned
            /\ kind = "store" =>
                  Range(blocks) \subseteq owned \ ((UNION Range(storeWaiting)) \ stale)
      BY <1>3, <1>5, SubmitCommand, Zenon
    <2>2. UNCHANGED <<pool, owned, stale, staged, events>> /\ nextTicket \in Tickets
      BY <2>1, Zenon DEF TrySend, coordVars
    <2>3. Held(r) /\ r \notin stale
      BY <1>2, <2>2
    <2>4. /\ \A t \in Tickets : t /= nextTicket => storeWaiting'[t] = storeWaiting[t]
          /\ \A t \in Tickets : t /= nextTicket => planned'[t] = planned[t]
          /\ \/ storeWaiting'[nextTicket] = storeWaiting[nextTicket]
             \/ storeWaiting'[nextTicket] = Range(blocks) /\ kind = "store"
          /\ \/ planned'[nextTicket] = planned[nextTicket]
             \/ planned'[nextTicket] = Range(blocks) \cap Regions /\ kind = "fetch"
      <3>1. /\ storeWaiting' = storeWaiting \/ (kind = "store" /\
                  storeWaiting' = [storeWaiting EXCEPT ![nextTicket] = Range(blocks)])
            /\ planned' = planned \/ (kind = "fetch" /\
                  planned' = [planned EXCEPT ![nextTicket] = Range(blocks) \cap Regions])
        BY <2>1, Zenon DEF TrySend
      <3> QED  BY <1>3, <2>2, <3>1
    <2>5. \A t \in Tickets : r \in storeWaiting[t] => r \in UNION Range(storeWaiting)
      BY <1>3 DEF Range
    <2>6. \A t \in Tickets : r \in storeWaiting'[t] \/ r \in planned'[t] => r \in owned
      BY <2>1, <2>3, <2>4 DEF Held
    <2>7. \A t, u \in Tickets : r \in storeWaiting'[t] /\ r \in storeWaiting'[u] => t = u
      <3>1. \A t \in Tickets : kind = "store" /\ r \in Range(blocks) => r \notin storeWaiting[t]
        BY <2>1, <2>3, <2>5
      <3> QED  BY <2>3, <2>4, <3>1, Zenon DEF Held
    <2> QED  BY <2>2, <2>3, <2>6, <2>7, Zenon DEF Held
  <1>6. CASE on_submit \/ (\E t \in Tickets : cancel(t)) \/ cancel_insert \/ DropHandle
             \/ Join \/ UNCHANGED vars
    BY <1>4, <1>6, QuietSteps, Zenon DEF poolVars, coordVars
  <1>7. CASE \E g \in Regions : ReserveRegion(g) \/ ReleaseRegion(g)
    <2>1. PICK g \in Regions : ReserveRegion(g) \/ ReleaseRegion(g)
      BY <1>7
    <2>2. UNCHANGED <<events, staged, storeWaiting, planned>>
      BY <2>1, Zenon DEF ReserveRegion, ReleaseRegion, chanVars, coordVars
    <2>3. CASE ReserveRegion(g)
      <3>1. g \notin pool /\ pool' = pool \cup {g} /\ owned' = owned \cup {g} /\ stale' = stale
        BY <2>3 DEF ReserveRegion
      <3> QED  BY <1>2, <2>2, <3>1 DEF Held
    <2>4. CASE ReleaseRegion(g)
      <3>1. /\ r \notin stale /\ (r = g => r \notin Named')
            /\ r \in pool' <=> r \in pool /\ r /= g
            /\ r \in owned' <=> r \in owned /\ r /= g
            /\ g \in owned
        BY <2>4, SMT DEF ReleaseRegion, Forget, Release
      <3>2. CASE r = g
        <4>1. \A t \in Tickets : r \notin storeWaiting[t] /\ r \notin planned[t]
          <5>1. /\ \A t \in Tickets : storeWaiting[t] \subseteq UNION Range(storeWaiting)
                /\ \A t \in Tickets : planned[t] \subseteq UNION Range(planned)
            BY <1>3 DEF Range
          <5>2. /\ r \notin UNION Range(storeWaiting)
                /\ r \notin UNION Range(planned)
            BY <2>2, <3>1, <3>2 DEF Named
          <5> QED  BY <5>1, <5>2, Zenon
        <4> QED  BY <1>2, <2>2, <3>1, <3>2, <4>1 DEF Held
      <3>3. CASE r /= g
        BY <1>2, <2>2, <3>1, <3>3, Zenon DEF Held
      <3> QED  BY <3>2, <3>3
    <2> QED  BY <2>1, <2>3, <2>4
  <1>8. CASE DrainEvent
    <2> DEFINE e == Head(events)
    <2>1. events /= << >> /\ events' = Tail(events) /\ staged' = staged
      BY <1>8 DEF DrainEvent, coordVars
    <2>2. /\ In(events, r) <=> r \in e.regions \/ In(events', r)
          /\ Once(events, r) => Once(events', r) /\ ~(r \in e.regions /\ In(events', r))
      BY <1>3, <2>1, RegionDrained, Zenon
    <2>3. e \in Event
      BY <1>3, <2>1, TailElements
    <2>4. e.regions /= {} => e.kind = "fetch" /\ e.type = "completed"
      BY <1>3, <2>1, TailElements, SMT DEF Inv, StagedOnlyByFetch
    <2>5. \/ (~Terminal(e) \/ e.kind = "plan") /\ UNCHANGED poolVars
          \/ e.kind = "store" /\ EndStore(e)
          \/ EndFetch(e)
      BY <1>8, Zenon DEF DrainEvent
    <2> HIDE DEF e
    <2>6. stale \subseteq stale'
      BY <2>5, SMT DEF EndStore, EndFetch, Release, poolVars
    <2>7. Held(r) /\ r \notin stale
      BY <1>2, <2>6
    <2>8. Once(events', r) /\ ~(r \in e.regions /\ In(events', r))
      BY <2>2, <2>7, Zenon DEF Held
    <2>9. CASE (~Terminal(e) \/ e.kind = "plan") /\ UNCHANGED poolVars
      <3>1. r \notin e.regions
        BY <2>4, <2>9 DEF Terminal, QueueOutcome
      <3>2. (In(events', r) <=> In(events, r)) /\ UNCHANGED poolVars
        BY <2>2, <2>9, <3>1
      <3> QED  BY <2>1, <2>7, <2>8, <3>2, Zenon DEF Held, poolVars
    <2>10. CASE e.kind = "store" /\ EndStore(e)
      <3>1. In(events', r) <=> In(events, r)
        BY <2>2, <2>4, <2>10
      <3> QED  BY <1>3, <2>1, <2>3, <2>7, <2>8, <2>10, <3>1, StoreEndHeld
    <2>11. CASE EndFetch(e)
      BY <1>3, <2>1, <2>2, <2>3, <2>4, <2>7, <2>8, <2>11, FetchEndHeld
    <2> QED  BY <2>5, <2>9, <2>10, <2>11
  <1>9. CASE try_send_shutdown
    BY <1>4, <1>9, Zenon DEF try_send_shutdown, poolVars, coordVars
  <1>10. CASE EmitQueued \/ report_failure \/ EmitCompleted
    <2>1. PICK e \in Event :
             /\ \/ e.regions = staged /\ staged' = {}
                \/ e.regions = {} /\ staged' = staged
             /\ \/ events' = Append(events, e)
                \/ events' = events /\ (~evRx \/ cur.kind = "plan")
      BY <1>10, EmitSteps, Zenon
    <2>2. UNCHANGED <<pool, owned, storeWaiting, planned, stale>>
      BY <1>10, EmitSteps, Zenon DEF poolVars
    <2>3. CASE events' = Append(events, e)
      <3>1. /\ In(events', r) <=> In(events, r) \/ r \in e.regions
            /\ Once(events, r) /\ ~(In(events, r) /\ r \in e.regions) => Once(events', r)
        BY <1>3, <2>3, RegionSent, Zenon
      <3>2. Held(r) /\ r \notin stale
        BY <1>2, <2>2
      <3>3. r \in staged <=> r \in staged' \/ r \in e.regions
        BY <2>1
      <3>4. r \in e.regions => r \notin staged'
        BY <2>1
      <3> QED  BY <2>2, <3>1, <3>2, <3>3, <3>4, Zenon DEF Held
    <2>4. CASE events' = events /\ cur.kind = "plan"
      <3>1. staged = {}
        BY <2>4 DEF Inv, StagedOnlyByFetch
      <3> QED  BY <1>4, <2>1, <2>2, <2>4, <3>1
    <2> QED  BY <1>1, <2>1, <2>3, <2>4
  <1>11. CASE CheckCancelled \/ StoreBlock \/ FetchBlock
    <2>1. UNCHANGED <<events, owned, storeWaiting, planned, stale>>
      BY <1>11, LoopSteps
    <2>2. Held(r) /\ r \notin stale
      BY <1>2, <2>1
    <2>3. \/ pool' = pool \ staged /\ staged' = {}
          \/ UNCHANGED <<pool, staged>>
          \/ \E g \in Regions \ pool : pool' = pool \cup {g} /\ staged' = staged \cup {g}
      BY <1>11, Zenon DEF CheckCancelled, StoreBlock, FetchBlock, FailBlock
    <2>4. \/ r \notin pool' /\ r \notin staged' /\ r \in staged
          \/ (r \in pool' <=> r \in pool) /\ (r \in staged' <=> r \in staged)
          \/ r \notin pool /\ r \in pool' /\ r \in staged'
          \/ r \notin staged /\ r \notin staged' /\ (r \in pool' <=> r \in pool)
      BY <2>3
    <2> QED  BY <2>1, <2>2, <2>4, Zenon DEF Held
  <1>12. CASE run_once \/ on_start \/ on_finish
    BY <1>4, <1>12, Zenon DEF run_once, on_start, on_finish, chanVars, poolVars
  <1>13. CASE DropEvents
    BY <1>13 DEF DropEvents
  <1> QED
    BY <1>5, <1>6, <1>7, <1>8, <1>9, <1>10, <1>11, <1>12, <1>13, Zenon
       DEF Next, Client, CoordinatorThread, Ended

\* What StoreSourceLive says of one region and one command.
Sourced(r, c) ==
    c.kind = "store" /\ r \in Range(c.blocks) => r \in storeWaiting[c.ticket]

\* No step releases a region that a queued or running store reads.
LEMMA SourceStep == Inv /\ [Next]_vars => StoreSourceLive'
  <1> SUFFICES ASSUME Inv, [Next]_vars, evRx', NEW r, r \notin stale'
               PROVE  (\A i \in DOMAIN cmds' : Sourced(r, cmds[i])') /\ Sourced(r, cur)'
    <2> SUFFICES ASSUME Inv, [Next]_vars, evRx',
                        NEW c \in Range(cmds') \cup {cur'}, c.kind = "store",
                        NEW r \in Range(c.blocks), r \notin stale'
                 PROVE  r \in pool' /\ r \in storeWaiting'[c.ticket]
      BY DEF StoreSourceLive
    <2>1. (\A i \in DOMAIN cmds' : Sourced(r, cmds[i])') /\ Sourced(r, cur)'
      OBVIOUS
    <2>2. r \in storeWaiting'[c.ticket]
      BY <2>1 DEF Sourced, Range
    <2>3. c.ticket \in Tickets
      <3>1. TypeInv'
        BY TypeStep DEF Inv
      <3>2. c \in Command \/ c = Shutdown
        BY <3>1 DEF TypeInv, TypeOK, ChannelTypes, ThreadTypes, Range
      <3> QED  BY <3>2 DEF Command, Shutdown
    <2>4. RegionPartition' /\ RegionClaims'
      BY OwnershipStep DEF RegionOwnership
    <2> QED  BY <2>2, <2>3, <2>4 DEF RegionPartition, RegionClaims
  <1>1. evRx
    BY QuietSteps, EmitSteps, LoopSteps, Zenon
       DEF Next, Client, CoordinatorThread, Ended, Submit, submit_prefetch_plan,
           submit_fetch, submit_store, TrySend, ReserveRegion, ReleaseRegion, DrainEvent,
           try_send_shutdown, DropEvents, run_once, on_start, on_finish, chanVars, vars
  <1>2. (\A i \in DOMAIN cmds : Sourced(r, cmds[i])) /\ Sourced(r, cur)
    <2>1. r \notin stale
      BY OwnershipStep
    <2> QED  BY <1>1, <2>1 DEF Inv, StoreSourceLive, Sourced, Range
  <1>3. /\ cmds \in Seq(Command \cup {Shutdown}) /\ storeWaiting \in [Tickets -> SUBSET Regions]
        /\ events \in Seq(Event) /\ nextTicket \in Nat /\ TypeInv
    BY TicketTypes DEF Inv, TypeInv, TypeOK, ChannelTypes, PoolTypes
  <1>4. Range(<< >>) = {} /\ Shutdown.kind /= "store"
    BY DEF Range, Shutdown
  <1>5. ASSUME UNCHANGED <<cmds, cur, storeWaiting>>
        PROVE  (\A i \in DOMAIN cmds' : Sourced(r, cmds[i])') /\ Sourced(r, cur)'
    BY <1>2, <1>5 DEF Sourced
  <1>6. CASE Submit
    <2>1. PICK kind, blocks :
            /\ kind \in QueueKind /\ TrySend(kind, blocks)
            /\ [kind |-> kind, ticket |-> nextTicket, blocks |-> blocks] \in Command
      BY <1>3, <1>6, SubmitCommand, Zenon
    <2> DEFINE c == [kind |-> kind, ticket |-> nextTicket, blocks |-> blocks]
    <2>2. /\ \/ cmds' = Append(cmds, c)
             \/ cmds' = cmds /\ storeWaiting' = storeWaiting
          /\ cur' = cur /\ nextTicket \in Tickets
      BY <2>1, Zenon DEF TrySend, coordVars
    <2>3. /\ \A t \in Tickets : t /= nextTicket => storeWaiting'[t] = storeWaiting[t]
          /\ kind = "store" /\ cmds' /= cmds => storeWaiting'[nextTicket] = Range(blocks)
      BY <1>3, <2>1 DEF TrySend
    <2>4. c \in Command /\ c.ticket = nextTicket /\ c.kind = kind /\ c.blocks = blocks
      BY <2>1
    <2> HIDE DEF c
    <2>5. ASSUME NEW d \in Command, Sourced(r, d), d.ticket < nextTicket
          PROVE  d.kind = "store" /\ r \in Range(d.blocks) => r \in storeWaiting'[d.ticket]
      <3>1. d.ticket \in Tickets /\ d.ticket /= nextTicket
        BY <1>3, <2>5 DEF Command, Tickets
      <3> QED  BY <2>3, <2>5, <3>1 DEF Sourced
    <2>6. CASE cmds' = cmds /\ storeWaiting' = storeWaiting
      BY <1>5, <2>2, <2>6
    <2>7. CASE cmds' = Append(cmds, c)
      <3>1. /\ \A i \in DOMAIN cmds' :
                 cmds'[i] = c \/ (i \in DOMAIN cmds /\ cmds'[i] = cmds[i])
            /\ Len(cmds') = Len(cmds) + 1
        BY <1>3, <2>4, <2>7, AppendElements, SMT
      <3>2. cmds' /= cmds
        BY <1>3, <3>1
      <3>3. Sourced(r, cur)'
        BY <1>2, <1>4, <2>2, <2>5 DEF Sourced, Inv, TicketOrder, TypeInv, TypeOK, ThreadTypes
      <3>4. ASSUME NEW i \in DOMAIN cmds' PROVE Sourced(r, cmds[i])'
        <4>1. CASE cmds'[i] = c
          BY <2>3, <2>4, <3>2, <4>1 DEF Sourced
        <4>2. CASE i \in DOMAIN cmds /\ cmds'[i] = cmds[i]
          <5>1. cmds[i] \in Command \/ cmds[i] = Shutdown
            BY <4>2 DEF Inv, TypeInv, Control, Fresh
          <5>2. cmds[i].ticket < nextTicket /\ Sourced(r, cmds[i])
            BY <1>2, <4>2 DEF Inv, TicketOrder
          <5> QED  BY <1>4, <2>5, <4>2, <5>1, <5>2 DEF Sourced
        <4> QED  BY <3>1, <4>1, <4>2
      <3> QED  BY <3>3, <3>4
    <2> QED  BY <2>2, <2>6, <2>7
  <1>7. CASE on_submit \/ (\E t \in Tickets : cancel(t)) \/ cancel_insert \/ DropHandle
             \/ Join \/ UNCHANGED vars
    BY <1>5, <1>7, QuietSteps, Zenon DEF poolVars, coordVars
  <1>8. CASE (\E g \in Regions : ReserveRegion(g) \/ ReleaseRegion(g)) \/ on_start
             \/ EmitQueued \/ report_failure \/ EmitCompleted
    BY <1>5, <1>8, EmitSteps, Zenon
       DEF ReserveRegion, ReleaseRegion, on_start, chanVars, coordVars, poolVars
  <1>9. CASE DrainEvent
    <2> DEFINE e == Head(events)
    <2>1. UNCHANGED <<cmds, cur>>
      BY <1>9, Zenon DEF DrainEvent, coordVars
    <2>2. 1 \in DOMAIN events /\ e = events[1] /\ e \in Event
      BY <1>3, <1>9, TailElements, SMT DEF DrainEvent
    <2>3. e.ticket \in Tickets
      BY <2>2 DEF Event
    <2> HIDE DEF e
    <2>4. \/ storeWaiting' = storeWaiting
          \/ Terminal(e) /\ storeWaiting' = [storeWaiting EXCEPT ![e.ticket] = {}]
      BY <1>9, Zenon DEF DrainEvent, EndStore, EndFetch, poolVars, e
    <2>5. CASE Terminal(e) /\ storeWaiting' = [storeWaiting EXCEPT ![e.ticket] = {}]
      <3>1. \A t : t /= e.ticket => storeWaiting'[t] = storeWaiting[t]
        BY <1>3, <2>3, <2>5
      <3>2. \A i \in DOMAIN cmds : cmds[i].ticket /= e.ticket
        BY <2>2 DEF Inv, TicketOrder
      <3>3. cur.ticket = e.ticket => cur.blocks = << >>
        BY <2>2, <2>5 DEF Inv, TicketOrder
      <3> QED  BY <1>2, <1>4, <2>1, <3>1, <3>2, <3>3 DEF Sourced
    <2> QED  BY <1>5, <2>1, <2>4, <2>5
  <1>10. CASE try_send_shutdown
    <2>1. /\ cmds' = Append(cmds, Shutdown) \/ cmds' = cmds
          /\ UNCHANGED <<cur, storeWaiting>>
      BY <1>10, Zenon DEF try_send_shutdown, coordVars, poolVars
    <2>2. \A i \in DOMAIN cmds' :
             cmds'[i] = Shutdown \/ (i \in DOMAIN cmds /\ cmds'[i] = cmds[i])
      <3>1. CASE cmds' = Append(cmds, Shutdown)
        BY <1>3, <3>1, AppendElements, SMT
      <3> QED  BY <2>1, <3>1
    <2> QED  BY <1>2, <1>4, <2>1, <2>2 DEF Sourced
  <1>11. CASE CheckCancelled \/ StoreBlock \/ FetchBlock
    <2>1. /\ UNCHANGED <<cmds, storeWaiting>> /\ cur'.ticket = cur.ticket
          /\ cur'.kind = cur.kind
          /\ \/ cur'.blocks = << >> \/ cur'.blocks = cur.blocks
             \/ pc = "block" /\ cur'.blocks = Tail(cur.blocks)
      BY <1>11, LoopSteps
    <2>2. pc = "block" /\ cur.kind = "store" => Range(Tail(cur.blocks)) \subseteq Range(cur.blocks)
      <3> SUFFICES ASSUME pc = "block", cur.kind = "store"
                   PROVE  Range(Tail(cur.blocks)) \subseteq Range(cur.blocks)
        OBVIOUS
      <3>1. cur.blocks \in Seq(Regions) /\ cur.blocks /= << >>
        BY DEF Inv, TypeInv, Control, Fresh, Command
      <3>2. \A i \in DOMAIN Tail(cur.blocks) :
               i + 1 \in DOMAIN cur.blocks /\ Tail(cur.blocks)[i] = cur.blocks[i + 1]
        BY <3>1, TailElements
      <3> QED  BY <3>2, Zenon DEF Range
    <2> QED  BY <1>2, <1>4, <2>1, <2>2 DEF Sourced
  <1>12. CASE run_once
    <2>1. CASE cmds' = Tail(cmds) /\ cmds /= << >>
      <3>1. /\ \A i \in DOMAIN cmds' : i + 1 \in DOMAIN cmds /\ cmds'[i] = cmds[i + 1]
            /\ 1 \in DOMAIN cmds /\ Head(cmds) = cmds[1]
        BY <1>3, <2>1, TailElements, SMT
      <3>2. storeWaiting' = storeWaiting /\ (cur' = cur \/ cur' = Head(cmds))
        BY <1>12, <2>1 DEF run_once, poolVars
      <3> QED  BY <1>2, <3>1, <3>2 DEF Sourced
    <2> QED  BY <1>5, <1>12, <2>1 DEF run_once, poolVars
  <1>13. CASE on_finish
    <2>1. UNCHANGED <<cmds, storeWaiting>> /\ cur' = Shutdown
      BY <1>13, Zenon DEF on_finish, chanVars, poolVars
    <2> QED  BY <1>2, <1>4, <2>1 DEF Sourced
  <1>14. CASE DropEvents
    BY <1>14 DEF DropEvents
  <1> QED
    BY <1>6, <1>7, <1>8, <1>9, <1>10, <1>11, <1>12, <1>13, <1>14, Zenon
       DEF Next, Client, CoordinatorThread, Ended

\* Inv is inductive.
LEMMA InvStep == Inv /\ [Next]_vars => Inv'
  <1> SUFFICES ASSUME Inv, [Next]_vars PROVE Inv'
    OBVIOUS
  <1>1. TypeInv'
    BY TypeStep DEF Inv
  <1>2. TicketOrder'
    <2>1. CASE UNCHANGED vars
      BY <2>1 DEF Inv, TicketOrder, vars, chanVars, ctrlVars, coordVars
    <2> QED  BY <2>1, TicketOrderClient, TicketOrderThread DEF Next, Ended
  <1>3. StagedOnlyByFetch' /\ RegionOwnership' /\ StoreSourceLive'
    BY StagedStep, OwnershipStep, SourceStep
  <1> QED  BY <1>1, <1>2, <1>3 DEF Inv

\* For every capacity, number of tickets and pool size, no interleaving of the
\* scheduler thread and the coordinator thread leaks a host-pinned region or
\* gives it to two holders while the client listens.
THEOREM RegionsOwned == Spec => []RegionOwnership
  <1>1. Inv => RegionOwnership
    BY DEF Inv
  <1> QED  BY <1>1, InvInit, InvStep, PTL DEF Spec

\* A queued or running store always finds its source regions reserved.
THEOREM StoreSourcesLive == Spec => []StoreSourceLive
  <1>1. Inv => StoreSourceLive
    BY DEF Inv
  <1> QED  BY <1>1, InvInit, InvStep, PTL DEF Spec

------------------------------------------------------------------------------
(* Counting the commands of a kind *)

AnyCommand == Command \cup {Shutdown}

OfKind(s, k) == {i \in DOMAIN s : s[i].kind = k}

\* A finite channel holds a natural number of commands of each kind.
LEMMA OfKindFinite ==
    ASSUME NEW s \in Seq(AnyCommand), NEW k
    PROVE  IsFiniteSet(OfKind(s, k)) /\ Cardinality(OfKind(s, k)) \in Nat
  <1>1. OfKind(s, k) \in SUBSET (1..Len(s)) /\ Len(s) \in Nat
    BY DEF OfKind
  <1>2. IsFiniteSet(1..Len(s))
    BY <1>1, FS_Interval
  <1> QED  BY <1>1, <1>2, FS_Subset, FS_CardinalityType

\* A send adds one to the count of the command's own kind.
LEMMA OfKindAppend ==
    ASSUME NEW s \in Seq(AnyCommand), NEW c \in AnyCommand, NEW k
    PROVE  Cardinality(OfKind(Append(s, c), k)) =
               IF c.kind = k THEN Cardinality(OfKind(s, k)) + 1
                             ELSE Cardinality(OfKind(s, k))
  <1> DEFINE t == Append(s, c)
  <1>1. IsFiniteSet(OfKind(s, k)) /\ Cardinality(OfKind(s, k)) \in Nat
    BY OfKindFinite
  <1>2. Len(s) + 1 \notin OfKind(s, k)
    BY DEF OfKind
  <1>3. CASE c.kind = k
    <2>1. OfKind(t, k) = OfKind(s, k) \cup {Len(s) + 1}
      BY <1>3 DEF OfKind
    <2>2. PICK S, x : S = OfKind(s, k) /\ x = Len(s) + 1
      OBVIOUS
    <2>3. Cardinality(S \cup {x}) = Cardinality(S) + 1
      BY <1>1, <1>2, <2>2, FS_AddElement
    <2> QED  BY <1>3, <2>1, <2>2, <2>3
  <1>4. CASE c.kind /= k
    <2>1. OfKind(t, k) = OfKind(s, k)
      BY <1>4 DEF OfKind
    <2> QED  BY <1>1, <1>4, <2>1
  <1> QED  BY <1>3, <1>4

\* A receive takes one from the count of the first command's kind.
LEMMA OfKindTail ==
    ASSUME NEW s \in Seq(AnyCommand), s /= << >>, NEW k
    PROVE  /\ Cardinality(OfKind(Tail(s), k)) \in Nat
           /\ Cardinality(OfKind(s, k)) =
                  IF Head(s).kind = k THEN Cardinality(OfKind(Tail(s), k)) + 1
                                      ELSE Cardinality(OfKind(Tail(s), k))
  <1> DEFINE t == Tail(s)
  <1>1. IsFiniteSet(OfKind(s, k)) /\ Cardinality(OfKind(s, k)) \in Nat
    BY OfKindFinite
  <1>2. t \in Seq(AnyCommand)
    BY TailElements
  <1>3. IsFiniteSet(OfKind(t, k)) /\ Cardinality(OfKind(t, k)) \in Nat
    BY <1>2, OfKindFinite
  <1>4. PICK rest : rest = OfKind(s, k) \ {1}
    OBVIOUS
  <1>5. Cardinality(rest) = Cardinality(OfKind(t, k))
    <2> DEFINE f == [i \in OfKind(t, k) |-> i + 1]
    <2>1. f \in [OfKind(t, k) -> rest]
      BY <1>4, TailElements DEF OfKind
    <2>2. \A i, j \in OfKind(t, k) : f[i] = f[j] => i = j
      BY DEF OfKind
    <2>3. \A j \in rest : \E i \in OfKind(t, k) : f[i] = j
      <3>1. ASSUME NEW j \in rest PROVE j - 1 \in OfKind(t, k) /\ f[j - 1] = j
        BY <1>4, <3>1, TailElements DEF OfKind
      <3> QED  BY <3>1
    <2> HIDE DEF f
    <2>4. f \in Bijection(OfKind(t, k), rest)
      BY <2>1, <2>2, <2>3 DEF Bijection, Injection, Surjection, IsInjective
    <2>5. ExistsBijection(OfKind(t, k), rest)
      BY <2>4 DEF ExistsBijection
    <2> QED  BY <1>3, <2>5, FS_Bijection
  <1>6. 1 \in OfKind(s, k) <=> Head(s).kind = k
    BY TailElements DEF OfKind
  <1>7. PICK all : all = OfKind(s, k)
    OBVIOUS
  <1>8. Cardinality(rest) = IF 1 \in all THEN Cardinality(all) - 1 ELSE Cardinality(all)
    BY <1>1, <1>4, <1>7, FS_RemoveElement
  <1>9. Cardinality(all) = Cardinality(rest) + (IF 1 \in all THEN 1 ELSE 0)
    BY <1>1, <1>7, <1>8
  <1> QED  BY <1>3, <1>5, <1>6, <1>7, <1>9

\* Disjoint sets are counted one after the other.
LEMMA DisjointUnion ==
    ASSUME NEW A, NEW B, IsFiniteSet(A), IsFiniteSet(B), A \cap B = {}
    PROVE  IsFiniteSet(A \cup B) /\ Cardinality(A \cup B) = Cardinality(A) + Cardinality(B)
  <1>1. /\ IsFiniteSet(A \cup B)
        /\ Cardinality(A \cup B) = Cardinality(A) + Cardinality(B) - Cardinality(A \cap B)
    BY FS_Union
  <1>2. Cardinality(A) \in Nat /\ Cardinality(B) \in Nat /\ Cardinality(A \cap B) = 0
    BY FS_CardinalityType, FS_EmptySet
  <1> QED  BY <1>1, <1>2

\* A channel that holds commands only is as long as its three kinds together.
LEMMA OfKindTotal ==
    ASSUME NEW s \in Seq(AnyCommand), \A i \in DOMAIN s : s[i] \in Command
    PROVE  Len(s) = Cardinality(OfKind(s, "plan")) + Cardinality(OfKind(s, "fetch"))
                    + Cardinality(OfKind(s, "store"))
  <1>1. PICK p, f, w : p = OfKind(s, "plan") /\ f = OfKind(s, "fetch")
                       /\ w = OfKind(s, "store")
    OBVIOUS
  <1>2. /\ IsFiniteSet(p) /\ Cardinality(p) \in Nat
        /\ IsFiniteSet(f) /\ Cardinality(f) \in Nat
        /\ IsFiniteSet(w) /\ Cardinality(w) \in Nat
    BY <1>1, OfKindFinite
  <1>3. p \cap f = {} /\ (p \cup f) \cap w = {}
    BY <1>1 DEF OfKind
  <1>4. \A i \in DOMAIN s : s[i].kind \in QueueKind
    BY DEF Command, QueueKind
  <1>5. (p \cup f) \cup w = 1..Len(s) /\ Len(s) \in Nat
    BY <1>1, <1>4 DEF OfKind, QueueKind
  <1>6. IsFiniteSet(p \cup f) /\ Cardinality(p \cup f) = Cardinality(p) + Cardinality(f)
    BY <1>2, <1>3, DisjointUnion
  <1>7. Cardinality((p \cup f) \cup w) = Cardinality(p \cup f) + Cardinality(w)
    BY <1>2, <1>3, <1>6, DisjointUnion
  <1>8. Cardinality(1..Len(s)) = Len(s)
    <2>1. PICK n \in Nat : n = Len(s)
      BY <1>5
    <2>2. Cardinality(1..n) = IF 1 > n THEN 0 ELSE n - 1 + 1
      BY FS_Interval
    <2>3. Cardinality(1..n) = n
      BY <2>2
    <2> QED  BY <2>1, <2>3
  <1> QED  BY <1>1, <1>2, <1>5, <1>6, <1>7, <1>8

------------------------------------------------------------------------------
(* Counters *)

\* One kind's books: q queued, u submit calls that have not counted yet, c
\* commands in the channel, p taken but not started, f in flight, r running,
\* s submitted, d settled, n tickets minted.  The last conjunct bounds what is
\* waiting by the tickets there are, so that queued is exact modulo its width.
Books(q, u, c, p, f, r, s, d, n) ==
    /\ (q + u) % CounterMod = c + p
    /\ f = r
    /\ s + u = c + p + r + d
    /\ s + u <= n

BookTypes(q, u, c, p, f, r, s, d, n) ==
    /\ q \in 0..CounterMod - 1 /\ u \in {0, 1} /\ c \in Nat /\ p \in {0, 1}
    /\ f \in 0..CounterMod - 1 /\ r \in {0, 1} /\ s \in Nat /\ d \in Nat
    /\ n \in 0..MaxTicket

Accounts(k) ==
    Books(queued[k], Unrecorded(k), InChannel(k), Popped(k), inFlight[k], Running(k),
          submitted[k], Settled(k), nextTicket - 1)

\* No shutdown hint waits in the channel before the client drops.
NoHint == ~Dropping => \A i \in DOMAIN cmds : cmds[i] /= Shutdown

CountInv == (\A k \in QueueKind : Accounts(k)) /\ NoHint

\* What a submitted, counted, taken, started or finished command moves in the
\* books of its kind, with counters that wrap.
LEMMA BooksSteps ==
    ASSUME NEW q, NEW u, NEW c, NEW p, NEW f, NEW r, NEW s, NEW d, NEW n,
           BookTypes(q, u, c, p, f, r, s, d, n), Books(q, u, c, p, f, r, s, d, n)
    PROVE  /\ u = 0 => Books(q, 1, c + 1, p, f, r, s, d, n + 1) \/ n = MaxTicket
           /\ Books(q, u, c, p, f, r, s, d, n + 1)
           /\ u = 1 => Books((q + 1) % CounterMod, 0, c, p, f, r, s + 1, d, n)
           /\ p = 0 /\ c > 0 => Books(q, u, c - 1, 1, f, r, s, d, n)
           /\ p = 1 /\ r = 0 => Books((q + CounterMod - 1) % CounterMod, u, c, 0,
                                      (f + 1) % CounterMod, 1, s, d, n)
           /\ r = 1 => Books(q, u, c, p, (f + CounterMod - 1) % CounterMod, 0, s, d + 1, n)
  <1>1. c + p < CounterMod /\ c + p + r + d <= MaxTicket
    BY DEF Books, BookTypes
  <1>2. q + u = c + p \/ (q + u = CounterMod /\ c + p = 0)
    BY DEF Books, BookTypes
  <1>3. u = 0 => Books(q, 1, c + 1, p, f, r, s, d, n + 1) \/ n = MaxTicket
    BY <1>1, <1>2 DEF Books, BookTypes
  <1>4. Books(q, u, c, p, f, r, s, d, n + 1)
    BY DEF Books, BookTypes
  <1>5. u = 1 => Books((q + 1) % CounterMod, 0, c, p, f, r, s + 1, d, n)
    BY <1>1, <1>2 DEF Books, BookTypes
  <1>6. p = 0 /\ c > 0 => Books(q, u, c - 1, 1, f, r, s, d, n)
    BY <1>1, <1>2 DEF Books, BookTypes
  <1>7. p = 1 /\ r = 0 => Books((q + CounterMod - 1) % CounterMod, u, c, 0,
                                (f + 1) % CounterMod, 1, s, d, n)
    BY <1>1, <1>2 DEF Books, BookTypes
  <1>8. r = 1 => Books(q, u, c, p, (f + CounterMod - 1) % CounterMod, 0, s, d + 1, n)
    BY <1>1, <1>2 DEF Books, BookTypes
  <1> QED  BY <1>3, <1>4, <1>5, <1>6, <1>7, <1>8

\* The books are kept in naturals.
LEMMA CountTypes ==
    ASSUME TypeInv, NEW k \in QueueKind
    PROVE  /\ queued[k] \in 0..CounterMod - 1 /\ inFlight[k] \in 0..CounterMod - 1
           /\ Unrecorded(k) \in {0, 1} /\ Popped(k) \in {0, 1} /\ Running(k) \in {0, 1}
           /\ InChannel(k) \in Nat /\ InChannel(k) = Cardinality(OfKind(cmds, k))
           /\ submitted[k] \in Nat /\ Settled(k) \in Nat
           /\ nextTicket - 1 \in 0..MaxTicket
  <1>1. cmds \in Seq(AnyCommand)
    BY DEF TypeInv, TypeOK, ChannelTypes, AnyCommand
  <1>2. InChannel(k) = Cardinality(OfKind(cmds, k))
    BY DEF InChannel, OfKind
  <1>3. InChannel(k) \in Nat
    BY <1>1, <1>2, OfKindFinite
  <1>4. Settled(k) \in Nat
    BY DEF TypeInv, TypeOK, ControlTypes, Settled, QueueOutcome
  <1>5. /\ queued[k] \in 0..CounterMod - 1 /\ inFlight[k] \in 0..CounterMod - 1
        /\ submitted[k] \in Nat /\ nextTicket - 1 \in 0..MaxTicket
    BY DEF TypeInv, TypeOK, ControlTypes
  <1> QED  BY <1>2, <1>3, <1>4, <1>5 DEF Unrecorded, Popped, Running

\* A step that writes no counter and takes or sends no command of the kind, and
\* whose threads stay on the same side of on_submit, on_start and on_finish.
LEMMA AccountsKept ==
    ASSUME NEW k \in QueueKind, Accounts(k),
           UNCHANGED <<queued, inFlight, submitted, settled, nextTicket, InChannel(k),
                       Unrecorded(k), Popped(k), Running(k)>>
    PROVE  Accounts(k)'
  <1>1. Settled(k)' = Settled(k)
    BY DEF Settled
  <1> QED  BY <1>1, Zenon DEF Accounts

\* The client's calls keep the books.
LEMMA AccountsClient ==
    ASSUME TypeInv, Client, NEW k \in QueueKind, Accounts(k)
    PROVE  Accounts(k)'
  <1>1. PICK q, u, c, p, f, r, s, d, n :
          /\ q = queued[k] /\ u = Unrecorded(k) /\ c = InChannel(k) /\ p = Popped(k)
          /\ f = inFlight[k] /\ r = Running(k) /\ s = submitted[k] /\ d = Settled(k)
          /\ n = nextTicket - 1
    OBVIOUS
  <1>2. BookTypes(q, u, c, p, f, r, s, d, n) /\ c \in Nat /\ u \in {0, 1}
    BY <1>1, CountTypes, Zenon DEF BookTypes
  <1>3. Books(q, u, c, p, f, r, s, d, n)
    BY <1>1, Zenon DEF Accounts
  <1>4. /\ u = 0 => Books(q, 1, c + 1, p, f, r, s, d, n + 1) \/ n = MaxTicket
        /\ Books(q, u, c, p, f, r, s, d, n + 1)
        /\ u = 1 => Books((q + 1) % CounterMod, 0, c, p, f, r, s + 1, d, n)
    BY <1>2, <1>3, BooksSteps
  <1>5. nextTicket \in Nat /\ cmds \in Seq(AnyCommand)
    BY DEF TypeInv, TypeOK, ControlTypes, ChannelTypes, AnyCommand
  <1>6. CASE Submit
    <2>1. PICK kind, blocks :
              /\ kind \in QueueKind /\ TrySend(kind, blocks)
              /\ [kind |-> kind, ticket |-> nextTicket, blocks |-> blocks] \in Command
      BY <1>6, SubmitCommand
    <2>2. /\ UNCHANGED <<queued, inFlight, submitted, settled, pc, cur>>
          /\ cpc = "idle" /\ nextTicket \in Tickets /\ nextTicket' = nextTicket + 1
      BY <2>1, Zenon DEF TrySend, coordVars
    <2>3. /\ queued'[k] = q /\ inFlight'[k] = f /\ submitted'[k] = s
          /\ Popped(k)' = p /\ Running(k)' = r /\ Settled(k)' = d
      BY <1>1, <2>2 DEF Popped, Running, Settled
    <2>4. nextTicket' - 1 = n + 1 /\ n /= MaxTicket /\ u = 0
      BY <1>1, <1>5, <2>2 DEF Unrecorded, Tickets
    <2>5. CASE /\ cmds' = Append(cmds, [kind |-> kind, ticket |-> nextTicket,
                                        blocks |-> blocks])
               /\ cpc' = "submitting"
               /\ carg' = [kind |-> kind, ticket |-> nextTicket]
      <3>1. PICK cmd \in Command : cmd = [kind |-> kind, ticket |-> nextTicket,
                                          blocks |-> blocks]
        BY <2>1
      <3>2. Cardinality(OfKind(cmds', k)) =
                IF cmd.kind = k THEN Cardinality(OfKind(cmds, k)) + 1
                                ELSE Cardinality(OfKind(cmds, k))
        <4>1. PICK old, new : old = cmds /\ new = cmds'
          OBVIOUS
        <4>2. old \in Seq(AnyCommand) /\ new = Append(old, cmd)
              /\ cmd \in AnyCommand
          BY <1>5, <2>5, <3>1, <4>1 DEF AnyCommand
        <4>3. Cardinality(OfKind(Append(old, cmd), k)) =
                  IF cmd.kind = k THEN Cardinality(OfKind(old, k)) + 1
                                  ELSE Cardinality(OfKind(old, k))
          BY <4>2, OfKindAppend, Zenon
        <4> QED  BY <4>1, <4>2, <4>3, Zenon
      <3>3. InChannel(k)' = IF kind = k THEN c + 1 ELSE c
        BY <1>1, <3>1, <3>2 DEF InChannel, OfKind
      <3>4. Unrecorded(k)' = IF kind = k THEN 1 ELSE 0
        BY <2>5 DEF Unrecorded
      <3>5. CASE kind = k
        <4>1. InChannel(k)' = c + 1 /\ Unrecorded(k)' = 1
          BY <3>3, <3>4, <3>5
        <4> QED  BY <1>4, <2>3, <2>4, <4>1 DEF Accounts
      <3>6. CASE kind /= k
        <4>1. InChannel(k)' = c /\ Unrecorded(k)' = u
          BY <1>2, <2>4, <3>3, <3>4, <3>6
        <4> QED  BY <1>4, <2>3, <2>4, <4>1 DEF Accounts
      <3> QED  BY <3>5, <3>6
    <2>6. CASE UNCHANGED <<cmds, cpc, carg>>
      <3>1. InChannel(k)' = c /\ Unrecorded(k)' = u
        BY <1>1, <2>6 DEF InChannel, Unrecorded
      <3> QED  BY <1>4, <2>3, <2>4, <3>1 DEF Accounts
    <2> QED  BY <2>1, <2>5, <2>6 DEF TrySend
  <1>7. CASE on_submit
    <2>1. /\ UNCHANGED <<cmds, nextTicket, inFlight, settled, pc, cur>>
          /\ cpc = "submitting" /\ carg.kind \in QueueKind /\ cpc' = "idle"
          /\ submitted' = [submitted EXCEPT ![carg.kind] = @ + 1]
          /\ queued' = [queued EXCEPT ![carg.kind] = (@ + 1) % CounterMod]
      BY <1>7 DEF on_submit, chanVars, coordVars, TypeInv, Control, Inc
    <2>2. /\ inFlight'[k] = f /\ Popped(k)' = p /\ Running(k)' = r /\ Settled(k)' = d
          /\ InChannel(k)' = c /\ nextTicket' - 1 = n /\ Unrecorded(k)' = 0
      BY <1>1, <2>1 DEF Popped, Running, Settled, InChannel, Unrecorded
    <2>3. submitted \in [QueueKind -> Nat] /\ queued \in [QueueKind -> 0..CounterMod - 1]
      BY DEF TypeInv, TypeOK, ControlTypes
    <2>4. CASE carg.kind = k
      <3>1. u = 1 /\ submitted'[k] = s + 1 /\ queued'[k] = (q + 1) % CounterMod
        BY <1>1, <2>1, <2>3, <2>4 DEF Unrecorded
      <3> QED  BY <1>4, <2>2, <3>1 DEF Accounts
    <2>5. CASE carg.kind /= k
      <3>1. u = 0 /\ submitted'[k] = s /\ queued'[k] = q
        BY <1>1, <2>1, <2>3, <2>5 DEF Unrecorded
      <3> QED  BY <1>3, <2>2, <3>1 DEF Accounts
    <2> QED  BY <2>4, <2>5
  <1>8. CASE try_send_shutdown
    <2>1. /\ UNCHANGED <<queued, inFlight, submitted, settled, nextTicket, pc, cur>>
          /\ cpc = "idle" /\ cpc' = "dropHandle"
          /\ cmds' = Append(cmds, Shutdown) \/ cmds' = cmds
      BY <1>8 DEF try_send_shutdown, ctrlVars, coordVars
    <2>2. InChannel(k)' = InChannel(k)
      <3>1. CASE cmds' = Append(cmds, Shutdown)
        <4>1. PICK cmd \in AnyCommand : cmd = Shutdown
          BY DEF AnyCommand
        <4>2. PICK old : old = cmds
          OBVIOUS
        <4>3. Cardinality(OfKind(Append(old, cmd), k)) =
                  IF cmd.kind = k THEN Cardinality(OfKind(old, k)) + 1
                                  ELSE Cardinality(OfKind(old, k))
          BY <1>5, <4>2, OfKindAppend, Zenon
        <4>4. cmd.kind /= k
          BY <4>1 DEF Shutdown, QueueKind
        <4>5. Cardinality(OfKind(cmds', k)) = Cardinality(OfKind(cmds, k))
          BY <3>1, <4>1, <4>2, <4>3, <4>4, Zenon
        <4> QED  BY <4>5 DEF InChannel, OfKind
      <3> QED  BY <2>1, <3>1 DEF InChannel
    <2>3. UNCHANGED <<Unrecorded(k), Popped(k), Running(k)>>
      BY <2>1 DEF Unrecorded, Popped, Running
    <2> QED  BY <2>1, <2>2, <2>3, AccountsKept
  <1>9. CASE UNCHANGED <<cmds, queued, inFlight, submitted, settled, nextTicket, pc, cur>>
             /\ cpc /= "submitting" /\ cpc' /= "submitting"
    <2>1. UNCHANGED <<InChannel(k), Unrecorded(k), Popped(k), Running(k)>>
      BY <1>9 DEF InChannel, Unrecorded, Popped, Running
    <2> QED  BY <1>9, <2>1, AccountsKept
  <1>10. (\E t \in Tickets : cancel(t)) \/ cancel_insert
         \/ (\E g \in Regions : ReserveRegion(g) \/ ReleaseRegion(g))
         \/ DrainEvent \/ DropHandle \/ DropEvents \/ Join
           => /\ UNCHANGED <<cmds, queued, inFlight, submitted, settled, nextTicket, pc, cur>>
              /\ cpc /= "submitting" /\ cpc' /= "submitting"
    BY DEF cancel, cancel_insert, ReserveRegion, ReleaseRegion, DrainEvent, DropHandle,
       DropEvents, Join, chanVars, ctrlVars, coordVars, clientVars
  <1> QED  BY <1>6, <1>7, <1>8, <1>9, <1>10, Zenon DEF Client

\* The coordinator thread's steps keep the books.
LEMMA AccountsThread ==
    ASSUME TypeInv, CoordinatorThread, NEW k \in QueueKind, Accounts(k)
    PROVE  Accounts(k)'
  <1>1. PICK q, u, c, p, f, r, s, d, n :
          /\ q = queued[k] /\ u = Unrecorded(k) /\ c = InChannel(k) /\ p = Popped(k)
          /\ f = inFlight[k] /\ r = Running(k) /\ s = submitted[k] /\ d = Settled(k)
          /\ n = nextTicket - 1
    OBVIOUS
  <1>2. BookTypes(q, u, c, p, f, r, s, d, n) /\ c \in Nat /\ d \in Nat
    BY <1>1, CountTypes, Zenon DEF BookTypes
  <1>3. Books(q, u, c, p, f, r, s, d, n)
    BY <1>1, Zenon DEF Accounts
  <1>4. /\ p = 0 /\ c > 0 => Books(q, u, c - 1, 1, f, r, s, d, n)
        /\ p = 1 /\ r = 0 => Books((q + CounterMod - 1) % CounterMod, u, c, 0,
                                   (f + 1) % CounterMod, 1, s, d, n)
        /\ r = 1 => Books(q, u, c, p, (f + CounterMod - 1) % CounterMod, 0, s, d + 1, n)
    BY <1>2, <1>3, BooksSteps
  <1>5. /\ queued \in [QueueKind -> 0..CounterMod - 1]
        /\ inFlight \in [QueueKind -> 0..CounterMod - 1]
        /\ settled \in [QueueKind -> [QueueOutcome -> Nat]]
        /\ cmds \in Seq(AnyCommand)
    BY DEF TypeInv, TypeOK, ControlTypes, ChannelTypes, AnyCommand
  <1>6. CASE run_once
    <2>1. /\ UNCHANGED <<queued, inFlight, submitted, settled, nextTicket, cpc, carg>>
          /\ pc = "recv"
      BY <1>6 DEF run_once, ctrlVars, clientVars
    <2>2. /\ queued'[k] = q /\ inFlight'[k] = f /\ submitted'[k] = s /\ Settled(k)' = d
          /\ Unrecorded(k)' = u /\ nextTicket' - 1 = n /\ p = 0 /\ r = 0
      BY <1>1, <2>1 DEF Settled, Unrecorded, Popped, Running
    <2>3. CASE cmds /= << >> /\ cmds' = Tail(cmds)
      <3>1. PICK old, h : old = cmds /\ h = Head(cmds)
        OBVIOUS
      <3>2. /\ Cardinality(OfKind(Tail(old), k)) \in Nat
            /\ Cardinality(OfKind(old, k)) =
                   IF Head(old).kind = k THEN Cardinality(OfKind(Tail(old), k)) + 1
                                         ELSE Cardinality(OfKind(Tail(old), k))
        BY <1>5, <2>3, <3>1, OfKindTail, Zenon
      <3>3. /\ Cardinality(OfKind(cmds', k)) \in Nat
            /\ Cardinality(OfKind(cmds, k)) =
                   IF h.kind = k THEN Cardinality(OfKind(cmds', k)) + 1
                                 ELSE Cardinality(OfKind(cmds', k))
        BY <2>3, <3>1, <3>2, Zenon
      <3>4. InChannel(k)' \in Nat /\ c = IF h.kind = k THEN InChannel(k)' + 1 ELSE InChannel(k)'
        BY <1>1, <3>3 DEF InChannel, OfKind
      <3>5. CASE h.kind = k
        <4>1. c > 0 /\ InChannel(k)' = c - 1
          BY <3>4, <3>5
        <4>2. h /= Shutdown
          BY <3>5 DEF Shutdown, QueueKind
        <4>3. Popped(k)' = 1 /\ Running(k)' = 0
          BY <1>6, <2>3, <3>1, <3>5, <4>2 DEF run_once, Popped, Running
        <4> QED  BY <1>4, <2>2, <4>1, <4>3 DEF Accounts
      <3>6. CASE h.kind /= k
        <4>1. InChannel(k)' = c
          BY <3>4, <3>6
        <4>2. Popped(k)' = 0 /\ Running(k)' = 0
          BY <1>6, <2>3, <3>1, <3>6 DEF run_once, Popped, Running
        <4> QED  BY <1>3, <2>2, <4>1, <4>2 DEF Accounts
      <3> QED  BY <3>5, <3>6
    <2>4. CASE pc' = "exited" /\ UNCHANGED <<cmds, cur>>
      <3>1. InChannel(k)' = c /\ Popped(k)' = 0 /\ Running(k)' = 0
        BY <1>1, <2>4 DEF InChannel, Popped, Running
      <3> QED  BY <1>3, <2>2, <3>1 DEF Accounts
    <2> QED  BY <1>6, <2>3, <2>4 DEF run_once
  <1>7. CASE on_start
    <2>1. /\ UNCHANGED <<cmds, submitted, settled, nextTicket, cpc, carg, cur>>
          /\ pc = "start" /\ pc' = "queued" /\ cur.kind \in QueueKind
          /\ queued' = [queued EXCEPT ![cur.kind] = (@ + CounterMod - 1) % CounterMod]
          /\ inFlight' = [inFlight EXCEPT ![cur.kind] = (@ + 1) % CounterMod]
      BY <1>7 DEF on_start, chanVars, clientVars, Dec, Inc, TypeInv, Control, Fresh, Command,
         QueueKind
    <2>2. /\ submitted'[k] = s /\ Settled(k)' = d /\ InChannel(k)' = c
          /\ Unrecorded(k)' = u /\ nextTicket' - 1 = n /\ Popped(k)' = 0 /\ r = 0
      BY <1>1, <2>1 DEF Settled, InChannel, Unrecorded, Popped, Running
    <2>3. CASE cur.kind = k
      <3>1. /\ p = 1 /\ Running(k)' = 1 /\ inFlight'[k] = (f + 1) % CounterMod
            /\ queued'[k] = (q + CounterMod - 1) % CounterMod
        BY <1>1, <1>5, <2>1, <2>3 DEF Popped, Running
      <3> QED  BY <1>4, <2>2, <3>1 DEF Accounts
    <2>4. CASE cur.kind /= k
      <3>1. /\ p = 0 /\ Running(k)' = 0 /\ inFlight'[k] = f /\ queued'[k] = q
        BY <1>1, <1>5, <2>1, <2>4 DEF Popped, Running
      <3> QED  BY <1>3, <2>2, <3>1 DEF Accounts
    <2> QED  BY <2>3, <2>4
  <1>8. CASE on_finish
    <2>1. /\ UNCHANGED <<cmds, queued, submitted, nextTicket, cpc, carg>>
          /\ pc = "finish" /\ pc' = "recv"
          /\ cur.kind \in QueueKind /\ outcome \in QueueOutcome
          /\ inFlight' = [inFlight EXCEPT ![cur.kind] = (@ + CounterMod - 1) % CounterMod]
          /\ settled' = [settled EXCEPT ![cur.kind][outcome] = @ + 1]
      BY <1>8 DEF on_finish, chanVars, clientVars, Dec, TypeInv, TypeOK, ThreadTypes,
         Control, Command, QueueKind
    <2>2. /\ submitted'[k] = s /\ queued'[k] = q /\ InChannel(k)' = c
          /\ Unrecorded(k)' = u /\ nextTicket' - 1 = n
          /\ p = 0 /\ Popped(k)' = 0 /\ Running(k)' = 0
      BY <1>1, <2>1 DEF InChannel, Unrecorded, Popped, Running
    <2>3. PICK row \in [QueueOutcome -> Nat] : row = settled[k]
      BY <1>5
    <2>4. CASE cur.kind = k
      <3>1. settled'[k] = [row EXCEPT ![outcome] = @ + 1]
        BY <1>5, <2>1, <2>3, <2>4
      <3>2. Settled(k)' = d + 1
        BY <1>1, <2>1, <2>3, <3>1 DEF Settled, QueueOutcome
      <3>3. r = 1 /\ inFlight'[k] = (f + CounterMod - 1) % CounterMod
        BY <1>1, <1>5, <2>1, <2>4 DEF Running
      <3> QED  BY <1>4, <2>2, <3>2, <3>3 DEF Accounts
    <2>5. CASE cur.kind /= k
      <3>1. settled'[k] = settled[k] /\ inFlight'[k] = f /\ r = 0
        BY <1>1, <1>5, <2>1, <2>5 DEF Running
      <3>2. Settled(k)' = d
        BY <1>1, <3>1 DEF Settled
      <3> QED  BY <1>3, <2>2, <3>1, <3>2 DEF Accounts
    <2> QED  BY <2>4, <2>5
  <1>9. ASSUME EmitQueued \/ CheckCancelled \/ StoreBlock \/ FetchBlock
               \/ report_failure \/ EmitCompleted
        PROVE  Accounts(k)'
    <2>1. /\ UNCHANGED <<cmds, queued, inFlight, submitted, settled, nextTicket, cpc, carg>>
          /\ pc \in {"queued", "check", "block", "fail", "done"}
          /\ cur \in Command
      BY <1>9 DEF EmitQueued, CheckCancelled, StoreBlock, FetchBlock, report_failure,
         EmitCompleted, chanVars, ctrlVars, clientVars, TypeInv, Control, Fresh
    <2>2. pc' \in {"check", "block", "fail", "done", "finish", "errored"}
      BY <1>9 DEF EmitQueued, CheckCancelled, StoreBlock, FetchBlock, report_failure,
         EmitCompleted, Emit, emit_required, emit_observability, FailBlock, NextBlock
    <2>3. cur'.kind = cur.kind
      <3>1. \A b : [cur EXCEPT !.blocks = b].kind = cur.kind
        BY <2>1 DEF Command
      <3>2. cur' = cur \/ \E b : cur' = [cur EXCEPT !.blocks = b]
        BY <1>9, Zenon DEF EmitQueued, CheckCancelled, StoreBlock, FetchBlock,
           report_failure, EmitCompleted, FailBlock, NextBlock
      <3> QED  BY <3>1, <3>2
    <2>4. UNCHANGED <<InChannel(k), Unrecorded(k), Popped(k), Running(k)>>
      BY <2>1, <2>2, <2>3 DEF InChannel, Unrecorded, Popped, Running
    <2> QED  BY <2>1, <2>4, AccountsKept
  <1> QED  BY <1>6, <1>7, <1>8, <1>9, Zenon DEF CoordinatorThread

\* Only the first step of Drop sends the shutdown hint.
LEMMA NoHintStep == TypeInv /\ NoHint /\ [Next]_vars => NoHint'
  <1> SUFFICES ASSUME TypeInv, NoHint, [Next]_vars, ~Dropping'
               PROVE  \A i \in DOMAIN cmds' : cmds'[i] /= Shutdown
    BY DEF NoHint
  <1> USE DEF Dropping
  <1>0. cmds \in Seq(AnyCommand)
    BY DEF TypeInv, TypeOK, ChannelTypes, AnyCommand
  <1>1. CASE Submit
    <2>1. PICK kind, blocks :
              /\ kind \in QueueKind /\ TrySend(kind, blocks)
              /\ [kind |-> kind, ticket |-> nextTicket, blocks |-> blocks] \in Command
      BY <1>1, SubmitCommand
    <2>2. PICK cmd : cmd = [kind |-> kind, ticket |-> nextTicket, blocks |-> blocks]
      OBVIOUS
    <2>3. cmd /= Shutdown /\ cmd \in AnyCommand
      BY <2>1, <2>2 DEF Shutdown, QueueKind, AnyCommand
    <2>4. cpc = "idle" /\ (cmds' = cmds \/ cmds' = Append(cmds, cmd))
      BY <2>1, <2>2, Zenon DEF TrySend
    <2>5. CASE cmds' = cmds
      BY <2>4, <2>5 DEF NoHint
    <2>6. CASE cmds' = Append(cmds, cmd)
      <3>1. \A i \in DOMAIN cmds' : (i \in DOMAIN cmds /\ cmds'[i] = cmds[i]) \/ cmds'[i] = cmd
        BY <1>0, <2>3, <2>6, AppendElements
      <3>2. \A i \in DOMAIN cmds : cmds[i] /= Shutdown
        BY <2>4 DEF NoHint
      <3> QED  BY <2>3, <3>1, <3>2, Zenon
    <2> QED  BY <2>4, <2>5, <2>6
  <1>2. CASE run_once
    <2>1. ~Dropping /\ (cmds' = cmds \/ (cmds /= << >> /\ cmds' = Tail(cmds)))
      BY <1>2 DEF run_once, clientVars
    <2>2. CASE cmds /= << >> /\ cmds' = Tail(cmds)
      <3>1. \A i \in DOMAIN cmds' : i + 1 \in DOMAIN cmds /\ cmds'[i] = cmds[i + 1]
        BY <1>0, <2>2, TailElements
      <3> QED  BY <2>1, <3>1, Zenon DEF NoHint
    <2> QED  BY <2>1, <2>2 DEF NoHint
  <1>3. CASE cmds' = cmds /\ ~Dropping
    BY <1>3 DEF NoHint
  <1>4. on_submit \/ (\E t \in Tickets : cancel(t)) \/ cancel_insert
        \/ (\E g \in Regions : ReserveRegion(g) \/ ReleaseRegion(g)) \/ DrainEvent
          => cmds' = cmds /\ ~Dropping
    BY DEF on_submit, cancel, cancel_insert, ReserveRegion, ReleaseRegion, DrainEvent, chanVars
  <1>5. ~(try_send_shutdown \/ DropHandle \/ DropEvents \/ Join)
    BY DEF try_send_shutdown, DropHandle, DropEvents, Join
  <1>6. on_start \/ EmitQueued \/ CheckCancelled \/ StoreBlock \/ FetchBlock
        \/ report_failure \/ EmitCompleted \/ on_finish \/ UNCHANGED vars
          => cmds' = cmds /\ ~Dropping
    BY DEF on_start, EmitQueued, CheckCancelled, StoreBlock, FetchBlock, report_failure,
       EmitCompleted, on_finish, vars, chanVars, clientVars
  <1> QED  BY <1>1, <1>2, <1>3, <1>4, <1>5, <1>6, Zenon DEF Next, Client, CoordinatorThread,
              Ended

\* The counting invariant holds of a new coordinator.
LEMMA CountInit == Init => CountInv
  <1> SUFFICES ASSUME Init PROVE CountInv
    OBVIOUS
  <1>1. ASSUME NEW k \in QueueKind PROVE Accounts(k)
    <2>1. InChannel(k) = 0
      <3>1. {i \in DOMAIN cmds : cmds[i].kind = k} = {}
        BY DEF Init
      <3> QED  BY <3>1, FS_EmptySet, Zenon DEF InChannel
    <2>2. /\ queued[k] = 0 /\ inFlight[k] = 0 /\ submitted[k] = 0 /\ Settled(k) = 0
          /\ Unrecorded(k) = 0 /\ Popped(k) = 0 /\ Running(k) = 0 /\ nextTicket - 1 = 0
      BY <1>1 DEF Init, Settled, Unrecorded, Popped, Running, QueueOutcome
    <2>3. Books(0, 0, 0, 0, 0, 0, 0, 0, 0)
      BY DEF Books
    <2> QED  BY <2>1, <2>2, <2>3 DEF Accounts
  <1>2. NoHint
    BY DEF Init, NoHint
  <1> QED  BY <1>1, <1>2 DEF CountInv

\* Every step keeps it.
LEMMA CountStep == TypeInv /\ CountInv /\ [Next]_vars => CountInv'
  <1> SUFFICES ASSUME TypeInv, CountInv, [Next]_vars PROVE CountInv'
    OBVIOUS
  <1>1. ASSUME NEW k \in QueueKind PROVE Accounts(k)'
    <2>1. Accounts(k)
      BY DEF CountInv
    <2>2. CASE UNCHANGED vars
      <3>1. UNCHANGED <<InChannel(k), Unrecorded(k), Popped(k), Running(k)>>
        BY <2>2 DEF vars, chanVars, clientVars, coordVars, InChannel, Unrecorded, Popped,
           Running
      <3> QED  BY <2>1, <2>2, <3>1, AccountsKept DEF vars, ctrlVars
    <2> QED  BY <2>1, <2>2, AccountsClient, AccountsThread DEF Next, Ended
  <1> QED  BY <1>1, NoHintStep DEF CountInv

\* The queue counters account for every command of each kind in every
\* interleaving of try_send, on_submit, on_start and on_finish, for every
\* counter width that exceeds the number of tickets.
THEOREM CountersExact == Spec => []QueueAccounting
  <1>1. CountInv => QueueAccounting
    BY Zenon DEF CountInv, Accounts, Books, QueueAccounting
  <1> QED  BY <1>1, TypeInit, TypeStep, CountInit, CountStep, PTL DEF Spec

\* The headroom the spill loop reads between two calls is never more than the
\* free places of the command channel, although the coordinator thread takes
\* commands and moves the counters while it is read.
THEOREM HeadroomIsReal == Spec => []SubmitHeadroom
  <1>1. TypeInv /\ CountInv => SubmitHeadroom
    <2> SUFFICES ASSUME TypeInv, CountInv, cpc = "idle"
                 PROVE  Len(cmds) + coordinator_submit_headroom <= Capacity
      BY DEF SubmitHeadroom
    <2>1. ASSUME NEW k \in QueueKind
          PROVE  queued[k] \in Nat /\ inFlight[k] \in Nat /\ InChannel(k) \in Nat
                 /\ InChannel(k) <= queued[k]
      <3>1. /\ queued[k] \in 0..CounterMod - 1 /\ inFlight[k] \in 0..CounterMod - 1
            /\ Popped(k) \in {0, 1} /\ InChannel(k) \in Nat
        BY CountTypes
      <3>2. (queued[k] + Unrecorded(k)) % CounterMod = InChannel(k) + Popped(k)
        BY <2>1 DEF CountInv, Accounts, Books
      <3>3. Unrecorded(k) = 0
        BY DEF Unrecorded
      <3>4. queued[k] % CounterMod = queued[k]
        BY <3>1
      <3> QED  BY <3>1, <3>2, <3>3, <3>4
    <2>2. Len(cmds) = InChannel("plan") + InChannel("fetch") + InChannel("store")
      <3>1. \A i \in DOMAIN cmds : cmds[i] \in Command
        BY DEF TypeInv, Control, Fresh, CountInv, NoHint, Dropping
      <3>2. PICK s : s = cmds
        OBVIOUS
      <3>3. s \in Seq(AnyCommand) /\ \A i \in DOMAIN s : s[i] \in Command
        BY <3>1, <3>2 DEF TypeInv, TypeOK, ChannelTypes, AnyCommand
      <3>4. Len(s) = Cardinality(OfKind(s, "plan")) + Cardinality(OfKind(s, "fetch"))
                     + Cardinality(OfKind(s, "store"))
        BY <3>3, OfKindTotal, Zenon
      <3> QED  BY <3>2, <3>4, Zenon DEF InChannel, OfKind
    <2>3. "plan" \in QueueKind /\ "fetch" \in QueueKind /\ "store" \in QueueKind
      BY DEF QueueKind
    <2>4. Active \in Nat /\ Len(cmds) <= Active
      <3>1. PICK a, b, c, x, y, z, i, j, l :
              /\ a = queued["plan"] /\ b = queued["fetch"] /\ c = queued["store"]
              /\ x = InChannel("plan") /\ y = InChannel("fetch") /\ z = InChannel("store")
              /\ i = inFlight["plan"] /\ j = inFlight["fetch"] /\ l = inFlight["store"]
        OBVIOUS
      <3>2. a \in Nat /\ i \in Nat /\ x \in Nat /\ x <= a
        BY <2>1, <2>3, <3>1, Zenon
      <3>3. b \in Nat /\ j \in Nat /\ y \in Nat /\ y <= b
        BY <2>1, <2>3, <3>1, Zenon
      <3>4. c \in Nat /\ l \in Nat /\ z \in Nat /\ z <= c
        BY <2>1, <2>3, <3>1, Zenon
      <3>5. Len(cmds) = x + y + z /\ Active = a + b + c + i + j + l
        BY <2>2, <3>1, Zenon DEF Active
      <3> QED  BY <3>2, <3>3, <3>4, <3>5
    <2>5. Len(cmds) \in Nat /\ Len(cmds) <= Capacity
      BY DEF TypeInv, TypeOK, ChannelTypes
    <2> QED  BY <2>4, <2>5 DEF coordinator_submit_headroom
  <1> QED  BY <1>1, TypeInit, TypeStep, CountInit, CountStep, PTL DEF Spec

------------------------------------------------------------------------------
(* The lifecycle of a ticket *)

\* The client knows the ticket is queued, or will before it drains event n.
Announced(t, n) ==
    \/ obs[t] = "queued"
    \/ \E j \in DOMAIN events : /\ j < n /\ events[j].kind /= "plan"
                                /\ events[j].ticket = t /\ events[j].type = "queued"

\* What an event of the channel says continues what the client knows.
EventFollows(i) ==
    /\ events[i].type = "queued" => obs[events[i].ticket] = "pending"
    /\ Terminal(events[i]) => Announced(events[i].ticket, i)
    /\ \A j \in DOMAIN events :
           events[j].kind /= "plan" /\ i < j /\ events[i].ticket = events[j].ticket
           => events[i].type = "queued" /\ Terminal(events[j])
    /\ events[i].type = "cancelled" => events[i].ticket \in cancelReq

ChannelAnswers ==
    evRx => \A i \in DOMAIN events : events[i].kind /= "plan" => EventFollows(i)

\* What the command under way has still to say continues it too.
ThreadAnswers ==
    evRx /\ cur.kind \in {"fetch", "store"} =>
        /\ pc \in {"start", "queued"} =>
               /\ obs[cur.ticket] = "pending"
               /\ \A i \in DOMAIN events : events[i].ticket /= cur.ticket
        /\ pc \in {"check", "block", "fail", "done"} =>
               /\ Announced(cur.ticket, Len(events) + 1)
               /\ \A i \in DOMAIN events :
                      Terminal(events[i]) => events[i].ticket /= cur.ticket

ChannelPending ==
    \A i \in DOMAIN cmds :
        cmds[i].kind \in {"fetch", "store"} => obs[cmds[i].ticket] = "pending"

\* A ticket is cancelled only after the client asked for it.
CancelAsked ==
    /\ cancelled \subseteq cancelReq
    /\ cpc = "cancelling" => carg.ticket \in cancelReq
    /\ pc = "fail" /\ outcome = "cancelled" => cur.ticket \in cancelReq

\* A ticket not minted yet is unknown, and the client listens until it drops.
Minted ==
    /\ \A t \in Tickets : t >= nextTicket => obs[t] = "none"
    /\ ~evRx => cpc \in {"join", "joined"}

LifeInv == ChannelAnswers /\ ThreadAnswers /\ ChannelPending /\ CancelAsked /\ Minted

\* No ticket is known to a new coordinator.
LEMMA LifeInit == Init => LifeInv
  <1> SUFFICES ASSUME Init PROVE LifeInv
    OBVIOUS
  <1>1. DOMAIN cmds = {} /\ DOMAIN events = {}
    BY DEF Init
  <1> QED  BY <1>1 DEF Init, LifeInv, ChannelAnswers, ThreadAnswers, ChannelPending,
              CancelAsked, Minted, Shutdown

\* A cancellation reaches the coordinator thread from the client only.
LEMMA CancelStep ==
    ASSUME TypeInv, CancelAsked, [Next]_vars
    PROVE  CancelAsked' /\ cancelReq \subseteq cancelReq'
  <1> USE DEF CancelAsked
  <1>1. CASE UNCHANGED <<cancelled, cancelReq, cpc, carg, pc, outcome, cur>>
    BY <1>1, Zenon
  <1>2. CASE Submit
    BY <1>2, Zenon DEF Submit, submit_prefetch_plan, submit_fetch, submit_store, TrySend,
       coordVars
  <1>3. CASE on_submit \/ (\E t \in Tickets : cancel(t)) \/ cancel_insert
    BY <1>3 DEF on_submit, cancel, cancel_insert, coordVars, histVars, ctrlVars, clientVars
  <1>4. CASE \/ \E g \in Regions : ReserveRegion(g) \/ ReleaseRegion(g)
             \/ DrainEvent \/ UNCHANGED vars
    BY <1>1, <1>4, Zenon DEF ReserveRegion, ReleaseRegion, DrainEvent, vars, ctrlVars,
       clientVars, coordVars, histVars
  <1>5. CASE try_send_shutdown \/ DropHandle \/ DropEvents \/ Join
    BY <1>5 DEF try_send_shutdown, DropHandle, DropEvents, Join, ctrlVars, coordVars, histVars
  <1>6. ASSUME CoordinatorThread PROVE /\ UNCHANGED <<cpc, carg, cancelReq>>
                                       /\ cancelled' \subseteq cancelled
    BY <1>6 DEF CoordinatorThread, run_once, on_start, EmitQueued, CheckCancelled, StoreBlock,
       FetchBlock, report_failure, EmitCompleted, on_finish, ctrlVars, clientVars, histVars
  <1>7. CASE CheckCancelled \/ StoreBlock \/ FetchBlock
    <2>1. cur \in Command
      BY <1>7 DEF CheckCancelled, StoreBlock, FetchBlock, TypeInv, Control, Fresh
    <2>2. [cur EXCEPT !.blocks = << >>].ticket = cur.ticket
      BY <2>1 DEF Command
    <2>3. pc' = "fail" => \/ FailBlock("cancelled") /\ cur.ticket \in cancelled
                         \/ FailBlock("failed")
      BY <1>7, Zenon DEF CheckCancelled, StoreBlock, FetchBlock, NextBlock
    <2>4. pc' = "fail" /\ outcome' = "cancelled" => cur'.ticket \in cancelReq
      BY <2>2, <2>3 DEF FailBlock
    <2> QED  BY <1>6, <1>7, <2>4 DEF CoordinatorThread
  <1>8. CASE run_once \/ on_start \/ EmitQueued \/ report_failure \/ EmitCompleted \/ on_finish
    <2>1. pc' /= "fail"
      BY <1>8 DEF run_once, on_start, EmitQueued, report_failure, EmitCompleted, on_finish,
         Emit, emit_required, emit_observability
    <2> QED  BY <1>6, <1>8, <2>1 DEF CoordinatorThread
  <1> QED  BY <1>2, <1>3, <1>4, <1>5, <1>7, <1>8, Zenon DEF Next, Client, CoordinatorThread,
              Ended

\* Tickets are minted in order, and the receiver outlives every other call.
LEMMA MintedStep == Inv /\ Minted /\ [Next]_vars => Minted'
  <1> SUFFICES ASSUME Inv, Minted, [Next]_vars PROVE Minted'
    OBVIOUS
  <1> USE DEF Minted
  <1>0. /\ nextTicket \in Nat /\ obs \in [Tickets -> {"none", "rejected", "unobserved",
                                          "pending", "queued"} \cup QueueOutcome]
        /\ \A t \in Tickets : t \in Nat
    BY DEF Inv, TypeInv, TypeOK, ControlTypes, HistoryTypes, Tickets
  <1>1. CASE UNCHANGED <<nextTicket, obs, evRx, cpc>>
    BY <1>1, Zenon
  <1>2. CASE Submit
    <2>1. /\ cpc = "idle" /\ evRx' = evRx /\ nextTicket' = nextTicket + 1
          /\ \E x : obs' = [obs EXCEPT ![nextTicket] = x]
      BY <1>2, Zenon DEF Submit, submit_prefetch_plan, submit_fetch, submit_store, TrySend
    <2>2. ASSUME NEW t \in Tickets, t >= nextTicket' PROVE obs'[t] = "none"
      BY <1>0, <2>1, <2>2
    <2> QED  BY <2>1, <2>2
  <1>3. CASE DrainEvent
    <2>1. /\ cpc = "idle" /\ events /= << >> /\ UNCHANGED <<evRx, nextTicket, cpc>>
          /\ obs' = obs \/ obs' = [obs EXCEPT ![Head(events).ticket] = Head(events).type]
      BY <1>3 DEF DrainEvent, ctrlVars, clientVars
    <2>2. Head(events).ticket < nextTicket /\ Head(events).ticket \in Nat
      BY <2>1, TailElements, TicketTypes DEF Inv, TypeInv, TypeOK, ChannelTypes, TicketOrder
    <2>3. ASSUME NEW t \in Tickets, t >= nextTicket PROVE obs'[t] = obs[t]
      BY <1>0, <2>1, <2>2, <2>3
    <2> QED  BY <2>1, <2>3
  <1>4. CASE \/ on_submit \/ (\E t \in Tickets : cancel(t)) \/ cancel_insert
             \/ \E g \in Regions : ReserveRegion(g) \/ ReleaseRegion(g)
             \/ try_send_shutdown \/ DropHandle \/ DropEvents \/ Join
    BY <1>4 DEF on_submit, cancel, cancel_insert, ReserveRegion, ReleaseRegion,
       try_send_shutdown, DropHandle, DropEvents, Join, chanVars, ctrlVars, clientVars, histVars
  <1>5. CoordinatorThread \/ UNCHANGED vars => UNCHANGED <<nextTicket, obs, evRx, cpc>>
    BY Zenon DEF CoordinatorThread, run_once, on_start, EmitQueued, CheckCancelled, StoreBlock,
       FetchBlock, report_failure, EmitCompleted, on_finish, vars, chanVars, ctrlVars,
       clientVars, histVars
  <1> QED  BY <1>1, <1>2, <1>3, <1>4, <1>5, Zenon DEF Next, Client, Ended

Answers == ChannelAnswers /\ ThreadAnswers /\ ChannelPending

\* A step that leaves the events and what the client knows of their tickets
\* alone leaves what they say in place.
LEMMA EventsKept ==
    ASSUME ChannelAnswers, events' = events, evRx' = evRx, cancelReq \subseteq cancelReq',
           \A i \in DOMAIN events : obs'[events[i].ticket] = obs[events[i].ticket]
    PROVE  ChannelAnswers'
  <1> SUFFICES ASSUME evRx, NEW i \in DOMAIN events, events[i].kind /= "plan"
               PROVE  EventFollows(i)'
    BY DEF ChannelAnswers
  <1>1. EventFollows(i)
    BY DEF ChannelAnswers
  <1>2. Terminal(events[i]) => Announced(events[i].ticket, i)'
    BY <1>1 DEF EventFollows, Announced
  <1> QED  BY <1>1, <1>2 DEF EventFollows, Terminal

\* The same for the command under way, which may move on within its phase.
LEMMA ThreadKept ==
    ASSUME ThreadAnswers, events' = events, evRx' = evRx, cur'.kind = cur.kind,
           cur'.ticket = cur.ticket,
           cur.kind \in {"fetch", "store"} => obs'[cur.ticket] = obs[cur.ticket],
           pc' \in {"start", "queued"} => pc \in {"start", "queued"},
           pc' \in {"check", "block", "fail", "done"} =>
               pc \in {"check", "block", "fail", "done"}
    PROVE  ThreadAnswers'
  <1> SUFFICES ASSUME evRx, cur.kind \in {"fetch", "store"}
               PROVE  /\ pc' \in {"start", "queued"} =>
                             /\ obs'[cur.ticket] = "pending"
                             /\ \A i \in DOMAIN events : events[i].ticket /= cur.ticket
                      /\ pc' \in {"check", "block", "fail", "done"} =>
                             /\ Announced(cur.ticket, Len(events) + 1)'
                             /\ \A i \in DOMAIN events :
                                    Terminal(events[i]) => events[i].ticket /= cur.ticket
    BY Zenon DEF ThreadAnswers, Announced, Terminal
  <1>1. CASE pc' \in {"start", "queued"}
    BY <1>1 DEF ThreadAnswers
  <1>2. CASE pc' \in {"check", "block", "fail", "done"}
    <2>1. /\ Announced(cur.ticket, Len(events) + 1)
          /\ \A i \in DOMAIN events : Terminal(events[i]) => events[i].ticket /= cur.ticket
      BY <1>2 DEF ThreadAnswers
    <2>2. Announced(cur.ticket, Len(events) + 1)'
      BY <2>1 DEF Announced
    <2> QED  BY <1>2, <2>1, <2>2
  <1> QED  BY <1>1, <1>2

\* An emitted event that continues what the client will know by then.
LEMMA EventSent ==
    ASSUME ChannelAnswers, events \in Seq(Event), NEW e \in Event,
           events' = Append(events, e), UNCHANGED <<obs, evRx, cancelReq>>,
           e.kind /= "plan" =>
               /\ e.type = "queued" => obs[e.ticket] = "pending"
               /\ Terminal(e) => Announced(e.ticket, Len(events) + 1)
               /\ \A i \in DOMAIN events :
                      events[i].kind /= "plan" /\ events[i].ticket = e.ticket
                      => events[i].type = "queued" /\ Terminal(e)
               /\ e.type = "cancelled" => e.ticket \in cancelReq
    PROVE  /\ ChannelAnswers'
           /\ \A t, n : Announced(t, n) => Announced(t, n)'
  <1>1. /\ \A i \in DOMAIN events' : (i \in DOMAIN events /\ events'[i] = events[i])
                                     \/ (i = Len(events) + 1 /\ events'[i] = e)
        /\ \A i \in DOMAIN events : i \in DOMAIN events' /\ events'[i] = events[i]
        /\ Len(events') = Len(events) + 1
    BY AppendElements
  <1>2. \A i \in DOMAIN events : i \in Nat /\ i < Len(events) + 1
    OBVIOUS
  <1>3. ASSUME NEW t, NEW n, Announced(t, n) PROVE Announced(t, n)'
    BY <1>1, <1>3, Zenon DEF Announced
  <1>4. ASSUME evRx, NEW i \in DOMAIN events', events'[i].kind /= "plan"
        PROVE  EventFollows(i)'
    <2>1. CASE i \in DOMAIN events /\ events'[i] = events[i]
      <3>1. EventFollows(i)
        BY <1>4, <2>1 DEF ChannelAnswers
      <3>2. /\ events'[i].type = "queued" => obs'[events'[i].ticket] = "pending"
            /\ events'[i].type = "cancelled" => events'[i].ticket \in cancelReq'
        BY <2>1, <3>1 DEF EventFollows
      <3>3. (Terminal(events[i]) => Announced(events[i].ticket, i))'
        <4>1. PICK t : t = events[i].ticket
          OBVIOUS
        <4>2. Terminal(events[i]) => Announced(t, i)'
          BY <1>3, <3>1, <4>1 DEF EventFollows
        <4> QED  BY <2>1, <4>1, <4>2, Zenon DEF Announced
      <3>4. ASSUME NEW j \in DOMAIN events', events'[j].kind /= "plan", i < j,
                   events'[i].ticket = events'[j].ticket
            PROVE  events'[i].type = "queued" /\ Terminal(events'[j])
        <4>1. CASE j \in DOMAIN events /\ events'[j] = events[j]
          BY <2>1, <3>1, <3>4, <4>1 DEF EventFollows
        <4>2. CASE j = Len(events) + 1 /\ events'[j] = e
          BY <1>4, <2>1, <3>4, <4>2
        <4> QED  BY <1>1, <4>1, <4>2
      <3> QED  BY <3>2, <3>3, <3>4 DEF EventFollows, Terminal
    <2>2. CASE i = Len(events) + 1 /\ events'[i] = e
      <3>1. \A j \in DOMAIN events' : ~(i < j)
        BY <1>1, <1>2, <2>2
      <3>2. Terminal(e) => Announced(e.ticket, i)'
        BY <1>3, <1>4, <2>2
      <3> QED  BY <1>4, <2>2, <3>1, <3>2, Zenon DEF EventFollows, Terminal
    <2> QED  BY <1>1, <2>1, <2>2
  <1>5. ChannelAnswers'
    BY <1>4 DEF ChannelAnswers
  <1> QED  BY <1>3, <1>5

\* What DrainEvent does to the client's view.
LEMMA DrainView ==
    ASSUME Inv, LifeInv, DrainEvent
    PROVE  /\ cpc = "idle" /\ evRx /\ UNCHANGED <<evRx, cmds, pc, cur, cpc, cancelReq>>
           /\ events \in Seq(Event) /\ 1 \in DOMAIN events /\ events[1] \in Event
           /\ obs \in [Tickets -> {"none", "rejected", "unobserved", "pending", "queued"}
                                  \cup QueueOutcome]
           /\ events[1].ticket \in Tickets
           /\ events' \in Seq(Event) /\ Len(events') = Len(events) - 1
           /\ \A i \in DOMAIN events' : i + 1 \in DOMAIN events /\ events'[i] = events[i + 1]
           /\ \A i \in DOMAIN events : i = 1 \/ (i - 1 \in DOMAIN events'
                                                /\ events[i] = events'[i - 1])
           /\ events[1].kind = "plan" => obs' = obs
           /\ events[1].kind /= "plan" =>
                  /\ obs' = [obs EXCEPT ![events[1].ticket] = events[1].type]
                  /\ EventFollows(1)
  <1>1. /\ cpc = "idle" /\ events /= << >> /\ events' = Tail(events)
        /\ UNCHANGED <<evRx, cmds, pc, cur, cpc, cancelReq>>
        /\ obs' = IF Head(events).kind = "plan" THEN obs
                  ELSE [obs EXCEPT ![Head(events).ticket] = Head(events).type]
    BY DEF DrainEvent, clientVars, coordVars
  <1>2. evRx
    BY <1>1 DEF LifeInv, Minted
  <1>3. /\ events \in Seq(Event)
        /\ obs \in [Tickets -> {"none", "rejected", "unobserved", "pending", "queued"}
                               \cup QueueOutcome]
    BY DEF Inv, TypeInv, TypeOK, ChannelTypes, HistoryTypes
  <1>4. /\ events' \in Seq(Event) /\ Len(events') = Len(events) - 1
        /\ \A i \in DOMAIN events' : i + 1 \in DOMAIN events /\ events'[i] = events[i + 1]
        /\ \A i \in DOMAIN events : i = 1 \/ (i - 1 \in DOMAIN events'
                                             /\ events[i] = events'[i - 1])
        /\ 1 \in DOMAIN events /\ Head(events) = events[1] /\ events[1] \in Event
    BY <1>1, <1>3, TailElements
  <1>5. events[1].ticket \in Tickets
    BY <1>4 DEF Event
  <1>6. events[1].kind /= "plan" => EventFollows(1)
    BY <1>2, <1>4 DEF LifeInv, ChannelAnswers
  <1> QED  BY <1>1, <1>2, <1>3, <1>4, <1>5, <1>6

\* The next event in the channel continues what draining this one showed.
LEMMA DrainAnswers == Inv /\ LifeInv /\ DrainEvent => Answers'
  <1> SUFFICES ASSUME Inv, LifeInv, DrainEvent PROVE Answers'
    OBVIOUS
  <1>0. PICK h \in Event : h = events[1]
    BY DrainView
  <1>1. /\ evRx /\ UNCHANGED <<evRx, cmds, pc, cur, cancelReq>>
        /\ events \in Seq(Event) /\ h.ticket \in Tickets
        /\ events' \in Seq(Event) /\ Len(events') = Len(events) - 1
        /\ \A i \in DOMAIN events' : i + 1 \in DOMAIN events /\ events'[i] = events[i + 1]
        /\ \A i \in DOMAIN events : i = 1 \/ (i - 1 \in DOMAIN events'
                                             /\ events[i] = events'[i - 1])
    BY <1>0, DrainView
  <1>2. /\ h.kind = "plan" => obs' = obs
        /\ h.kind /= "plan" => obs' = [obs EXCEPT ![h.ticket] = h.type] /\ EventFollows(1)
    BY <1>0, DrainView
  <1>3. obs \in [Tickets -> {"none", "rejected", "unobserved", "pending", "queued"}
                            \cup QueueOutcome]
    BY DrainView
  <1>4. /\ \A i \in DOMAIN events : events[i].ticket \in Tickets /\ i \in Nat /\ i >= 1
        /\ \A i \in DOMAIN events' : i \in Nat
        /\ Len(events) \in Nat
        /\ Terminal(h) \/ h.type = "queued"
    <2>1. \A i \in DOMAIN events : events[i] \in Event /\ i \in Nat /\ i >= 1
      BY <1>1
    <2>2. (\A i \in DOMAIN events' : i \in Nat) /\ Len(events) \in Nat
      BY <1>1
    <2>3. Terminal(h) \/ h.type = "queued"
      BY DEF Event, Terminal
    <2> QED  BY <2>1, <2>2, <2>3 DEF Event
  <1>5. ASSUME NEW t \in Tickets, h.kind /= "plan" => t /= h.ticket PROVE obs'[t] = obs[t]
    BY <1>2, <1>3, <1>5
  <1>6. ASSUME NEW t \in Tickets, NEW n \in Nat, Announced(t, n + 1),
               h.kind /= "plan" /\ t = h.ticket => h.type = "queued"
        PROVE  Announced(t, n)'
    <2>1. CASE h.kind /= "plan" /\ t = h.ticket
      BY <1>2, <1>3, <1>6, <2>1 DEF Announced
    <2>2. CASE ~(h.kind /= "plan" /\ t = h.ticket)
      <3>1. obs'[t] = obs[t]
        BY <1>5, <2>2
      <3>2. CASE obs[t] = "queued"
        BY <3>1, <3>2 DEF Announced
      <3>3. CASE \E j \in DOMAIN events : /\ j < n + 1 /\ events[j].kind /= "plan"
                                          /\ events[j].ticket = t /\ events[j].type = "queued"
        <4>1. PICK j \in DOMAIN events : /\ j < n + 1 /\ events[j].kind /= "plan"
                                         /\ events[j].ticket = t /\ events[j].type = "queued"
          BY <3>3
        <4>2. j /= 1
          BY <1>0, <2>2, <4>1
        <4>3. j - 1 \in DOMAIN events' /\ events[j] = events'[j - 1] /\ j - 1 < n
          BY <1>1, <1>4, <4>1, <4>2
        <4> QED  BY <4>1, <4>3 DEF Announced
      <3> QED  BY <1>6, <3>2, <3>3 DEF Announced
    <2> QED  BY <2>1, <2>2
  <1>7. ASSUME NEW i \in DOMAIN events', events'[i].kind /= "plan" PROVE EventFollows(i)'
    <2>1. PICK e, t, k : e = events'[i] /\ t = e.ticket /\ k = i + 1
      OBVIOUS
    <2>2. k \in DOMAIN events /\ e = events[k] /\ t \in Tickets /\ 1 < k /\ i \in Nat
      BY <1>1, <1>4, <1>7, <2>1
    <2>3. EventFollows(k) /\ e.kind /= "plan"
      BY <1>1, <1>7, <2>1, <2>2 DEF LifeInv, ChannelAnswers
    <2>4. h.kind /= "plan" /\ t = h.ticket => h.type = "queued" /\ Terminal(e)
      BY <1>0, <1>2, <2>1, <2>2, <2>3 DEF EventFollows
    <2>5. e.type = "queued" => obs'[t] = "pending"
      <3>1. e.type = "queued" => ~Terminal(e)
        BY DEF Terminal, QueueOutcome
      <3>2. e.type = "queued" => obs[t] = "pending"
        BY <2>1, <2>2, <2>3 DEF EventFollows
      <3> QED  BY <1>5, <2>2, <2>4, <3>1, <3>2
    <2>6. Terminal(e) => Announced(t, i)'
      <3>1. Terminal(e) => Announced(t, i + 1)
        BY <2>1, <2>2, <2>3, Zenon DEF EventFollows
      <3> QED  BY <1>6, <2>2, <2>4, <3>1
    <2>7. ASSUME NEW j \in DOMAIN events', events'[j].kind /= "plan", i < j,
                 events'[i].ticket = events'[j].ticket
          PROVE  events'[i].type = "queued" /\ Terminal(events'[j])
      <3>1. j + 1 \in DOMAIN events /\ events'[j] = events[j + 1] /\ k < j + 1
        BY <1>1, <1>4, <2>1, <2>2, <2>7
      <3> QED  BY <2>1, <2>2, <2>3, <2>7, <3>1 DEF EventFollows
    <2>8. e.type = "cancelled" => t \in cancelReq'
      BY <1>1, <2>1, <2>2, <2>3 DEF EventFollows
    <2>9. (Terminal(events[i]) => Announced(events[i].ticket, i))'
      BY <2>1, <2>6, Zenon DEF Announced, Terminal
    <2> QED  BY <2>1, <2>5, <2>7, <2>8, <2>9 DEF EventFollows, Terminal
  <1>8. ChannelAnswers'
    BY <1>7 DEF ChannelAnswers
  <1>9. ThreadAnswers'
    <2> SUFFICES ASSUME cur.kind \in {"fetch", "store"}
                 PROVE  /\ pc \in {"start", "queued"} =>
                               /\ obs'[cur.ticket] = "pending"
                               /\ \A i \in DOMAIN events' : events'[i].ticket /= cur.ticket
                        /\ pc \in {"check", "block", "fail", "done"} =>
                               /\ Announced(cur.ticket, Len(events) + 1)'
                               /\ \A i \in DOMAIN events' :
                                      Terminal(events'[i]) => events'[i].ticket /= cur.ticket
      BY <1>1, Zenon DEF ThreadAnswers, Announced, Terminal
    <2>1. PICK t, n : t = cur.ticket /\ n = Len(events)
      OBVIOUS
    <2>2. t \in Tickets
      BY <2>1 DEF Inv, TypeInv, TypeOK, ThreadTypes, Command, Shutdown
    <2>3. CASE pc \in {"start", "queued"}
      <3>1. obs[t] = "pending" /\ \A i \in DOMAIN events : events[i].ticket /= t
        BY <1>1, <2>1, <2>3 DEF LifeInv, ThreadAnswers
      <3>2. t /= h.ticket
        BY <1>0, <3>1, DrainView
      <3>3. obs'[t] = "pending"
        BY <1>5, <2>2, <3>1, <3>2
      <3> QED  BY <1>1, <2>1, <2>3, <3>1, <3>3
    <2>4. CASE pc \in {"check", "block", "fail", "done"}
      <3>1. /\ Announced(cur.ticket, Len(events) + 1)
            /\ \A i \in DOMAIN events : Terminal(events[i]) => events[i].ticket /= t
        BY <1>1, <2>1, <2>4 DEF LifeInv, ThreadAnswers
      <3>2. Announced(t, n + 1) /\ n \in Nat
        BY <1>4, <2>1, <3>1
      <3>3. t = h.ticket => h.type = "queued"
        BY <1>0, <1>4, <3>1, DrainView
      <3>4. Announced(t, n)'
        BY <1>6, <2>2, <3>2, <3>3
      <3>5. Len(events') + 1 = n
        BY <1>1, <1>4, <2>1
      <3>6. Announced(cur.ticket, Len(events) + 1)'
        BY <1>1, <2>1, <3>4, <3>5, Zenon DEF Announced
      <3> QED  BY <1>1, <2>1, <2>4, <3>1, <3>6
    <2> QED  BY <2>3, <2>4
  <1>10. ChannelPending'
    <2> SUFFICES ASSUME NEW i \in DOMAIN cmds, cmds[i].kind \in {"fetch", "store"}
                 PROVE  obs'[cmds[i].ticket] = "pending"
      BY <1>1 DEF ChannelPending
    <2>1. cmds[i].ticket /= h.ticket
      BY <1>0, DrainView DEF Inv, TicketOrder
    <2>2. cmds[i].ticket \in Tickets
      BY DEF Inv, TypeInv, Control, Fresh, Command, Shutdown
    <2>3. obs[cmds[i].ticket] = "pending"
      BY DEF LifeInv, ChannelPending
    <2> QED  BY <1>5, <2>1, <2>2, <2>3
  <1> QED  BY <1>8, <1>9, <1>10 DEF Answers

\* The other calls of the client keep the answers in order.
LEMMA ClientAnswers == Inv /\ LifeInv /\ Client => Answers'
  <1> SUFFICES ASSUME Inv, LifeInv, Client PROVE Answers'
    OBVIOUS
  <1> USE DEF LifeInv, Answers
  <1>0. cmds \in Seq(AnyCommand) /\ nextTicket \in Nat
    BY DEF Inv, TypeInv, TypeOK, ChannelTypes, ControlTypes, AnyCommand
  <1>1. CASE Submit
    <2>1. PICK kind, blocks :
              /\ kind \in QueueKind /\ TrySend(kind, blocks)
              /\ [kind |-> kind, ticket |-> nextTicket, blocks |-> blocks] \in Command
      BY <1>1, SubmitCommand DEF Inv
    <2>2. PICK cmd : cmd = [kind |-> kind, ticket |-> nextTicket, blocks |-> blocks]
      OBVIOUS
    <2>3. cmd \in AnyCommand /\ cmd.kind = kind /\ cmd.ticket = nextTicket
      BY <2>1, <2>2 DEF AnyCommand
    <2>4. /\ UNCHANGED <<events, evRx, pc, cur, cancelReq>> /\ nextTicket \in Tickets
          /\ \E x : obs' = [obs EXCEPT ![nextTicket] = x]
          /\ \/ cmds' = cmds
             \/ /\ cmds' = Append(cmds, cmd)
                /\ kind /= "plan" => obs' = [obs EXCEPT ![nextTicket] = "pending"]
      BY <2>1, <2>2 DEF TrySend, coordVars
    <2>5. obs \in [Tickets -> {"none", "rejected", "unobserved", "pending", "queued"}
                              \cup QueueOutcome]
      BY DEF Inv, TypeInv, TypeOK, HistoryTypes
    <2>6. ASSUME NEW t \in Tickets, t /= nextTicket PROVE obs'[t] = obs[t]
      BY <2>4, <2>5, <2>6
    <2>7. \A i \in DOMAIN events : events[i].ticket /= nextTicket /\ events[i].ticket \in Tickets
      <3>1. \A i \in DOMAIN events : events[i].ticket /= nextTicket
        BY TicketTypes DEF Inv, TicketOrder
      <3>2. \A i \in DOMAIN events : events[i] \in Event
        BY DEF Inv, TypeInv, TypeOK, ChannelTypes
      <3> QED  BY <3>1, <3>2 DEF Event
    <2>8. cur.ticket /= nextTicket /\ (cur.kind \in {"fetch", "store"} => cur.ticket \in Tickets)
      <3>1. cur.ticket /= nextTicket
        BY TicketTypes DEF Inv, TicketOrder
      <3>2. cur.kind \in {"fetch", "store"} => cur.ticket \in Tickets
        BY DEF Inv, TypeInv, TypeOK, ThreadTypes, Command, Shutdown
      <3> QED  BY <3>1, <3>2
    <2>9. ChannelAnswers'
      BY <2>4, <2>6, <2>7, EventsKept
    <2>10. ThreadAnswers'
      BY <2>4, <2>6, <2>8, ThreadKept
    <2>11. \A i \in DOMAIN cmds : /\ cmds[i].ticket /= nextTicket
                                  /\ cmds[i].kind \in {"fetch", "store"} => cmds[i].ticket \in Tickets
      <3>1. \A i \in DOMAIN cmds : cmds[i].ticket /= nextTicket
        BY TicketTypes DEF Inv, TicketOrder
      <3>2. \A i \in DOMAIN cmds : cmds[i].kind \in {"fetch", "store"} => cmds[i].ticket \in Tickets
        BY DEF Inv, TypeInv, Control, Fresh, Command, Shutdown
      <3> QED  BY <3>1, <3>2
    <2>12. ChannelPending'
      <3>1. ASSUME NEW i \in DOMAIN cmds, cmds[i].kind \in {"fetch", "store"}
            PROVE  obs'[cmds[i].ticket] = "pending"
        BY <2>6, <2>11, <3>1 DEF ChannelPending
      <3>2. CASE cmds' = cmds
        BY <3>1, <3>2 DEF ChannelPending
      <3>3. CASE /\ cmds' = Append(cmds, cmd)
                 /\ kind /= "plan" => obs' = [obs EXCEPT ![nextTicket] = "pending"]
        <4>1. \A i \in DOMAIN cmds' : \/ i \in DOMAIN cmds /\ cmds'[i] = cmds[i]
                                      \/ cmds'[i] = cmd
          BY <1>0, <2>3, <3>3, AppendElements
        <4>2. cmd.kind \in {"fetch", "store"} => obs'[cmd.ticket] = "pending"
          BY <2>3, <2>4, <2>5, <3>3
        <4>3. ASSUME NEW i \in DOMAIN cmds', cmds'[i].kind \in {"fetch", "store"}
              PROVE  obs'[cmds'[i].ticket] = "pending"
          BY <3>1, <4>1, <4>2, <4>3
        <4> QED  BY <4>3 DEF ChannelPending
      <3> QED  BY <2>4, <3>2, <3>3
    <2> QED  BY <2>9, <2>10, <2>12
  <1>2. CASE DrainEvent
    BY <1>2, DrainAnswers
  <1>3. CASE /\ UNCHANGED <<events, evRx, obs, cmds, pc, cur>>
             /\ cancelReq \subseteq cancelReq'
    <2>1. ChannelAnswers' /\ ThreadAnswers'
      BY <1>3, EventsKept, ThreadKept
    <2> QED  BY <1>3, <2>1 DEF ChannelPending
  <1>4. on_submit \/ (\E t \in Tickets : cancel(t)) \/ cancel_insert
        \/ (\E g \in Regions : ReserveRegion(g) \/ ReleaseRegion(g)) \/ DropHandle \/ Join
          => /\ UNCHANGED <<events, evRx, obs, cmds, pc, cur>>
             /\ cancelReq \subseteq cancelReq'
    BY DEF on_submit, cancel, cancel_insert, ReserveRegion, ReleaseRegion, DropHandle, Join,
       chanVars, coordVars, histVars
  <1>5. CASE try_send_shutdown
    <2>1. /\ UNCHANGED <<events, evRx, obs, pc, cur, cancelReq>>
          /\ cmds' = cmds \/ cmds' = Append(cmds, Shutdown)
      BY <1>5 DEF try_send_shutdown, coordVars, histVars
    <2>2. ChannelAnswers' /\ ThreadAnswers'
      BY <2>1, EventsKept, ThreadKept
    <2>3. ChannelPending'
      <3>1. CASE cmds' = Append(cmds, Shutdown)
        <4>1. Shutdown \in AnyCommand
          BY DEF AnyCommand
        <4>2. \A i \in DOMAIN cmds' : \/ i \in DOMAIN cmds /\ cmds'[i] = cmds[i]
                                      \/ cmds'[i] = Shutdown
          BY <1>0, <3>1, <4>1, AppendElements
        <4>3. Shutdown.kind \notin {"fetch", "store"}
          BY DEF Shutdown
        <4> QED  BY <2>1, <4>2, <4>3, Zenon DEF ChannelPending
      <3> QED  BY <2>1, <3>1 DEF ChannelPending
    <2> QED  BY <2>2, <2>3
  <1>6. CASE DropEvents
    BY <1>6 DEF DropEvents, ChannelAnswers, ThreadAnswers, ChannelPending, histVars
  <1> QED  BY <1>1, <1>2, <1>3, <1>4, <1>5, <1>6, Zenon DEF Client

\* The coordinator thread says queued once, then one outcome, of each ticket.
LEMMA AnswersThread == Inv /\ LifeInv /\ CoordinatorThread => Answers'
  <1> SUFFICES ASSUME Inv, LifeInv, CoordinatorThread PROVE Answers'
    OBVIOUS
  <1> USE DEF LifeInv, Answers
  <1>0. cmds \in Seq(AnyCommand) /\ events \in Seq(Event)
    BY DEF Inv, TypeInv, TypeOK, ChannelTypes, AnyCommand
  <1>1. CASE run_once
    <2>1. /\ UNCHANGED <<events, evRx, obs, cancelReq>>
          /\ pc = "recv"
      BY <1>1 DEF run_once, histVars
    <2>2. ChannelAnswers'
      BY <2>1, EventsKept
    <2>3. CASE cmds /= << >> /\ cmds' = Tail(cmds)
      <3>1. /\ \A i \in DOMAIN cmds' : i + 1 \in DOMAIN cmds /\ cmds'[i] = cmds[i + 1]
            /\ 1 \in DOMAIN cmds /\ Head(cmds) = cmds[1]
        BY <1>0, <2>3, TailElements
      <3>2. ChannelPending'
        BY <2>1, <3>1, Zenon DEF ChannelPending
      <3>3. ThreadAnswers'
        <4>1. CASE pc' = "exited"
          BY <4>1 DEF ThreadAnswers
        <4>2. CASE pc' = "start" /\ cur' = cmds[1]
          <5>1. \A i \in DOMAIN events : events[i].ticket /= cmds[1].ticket
            BY <3>1 DEF Inv, TicketOrder
          <5>2. cmds[1].kind \in {"fetch", "store"} => obs[cmds[1].ticket] = "pending"
            BY <3>1 DEF ChannelPending
          <5> QED  BY <2>1, <4>2, <5>1, <5>2 DEF ThreadAnswers
        <4> QED  BY <1>1, <2>3, <3>1, <4>1, <4>2 DEF run_once
      <3> QED  BY <2>2, <3>2, <3>3
    <2>4. CASE pc' = "exited" /\ cmds' = cmds
      BY <2>1, <2>2, <2>4 DEF ThreadAnswers, ChannelPending
    <2> QED  BY <1>1, <2>3, <2>4 DEF run_once
  <1>2. CASE on_start
    <2>1. /\ UNCHANGED <<events, evRx, obs, cancelReq, cmds, cur>>
          /\ pc = "start" /\ pc' = "queued"
      BY <1>2 DEF on_start, histVars, chanVars
    <2>2. ChannelAnswers' /\ ThreadAnswers'
      BY <2>1, EventsKept, ThreadKept
    <2> QED  BY <2>1, <2>2 DEF ChannelPending
  <1>3. CASE CheckCancelled \/ StoreBlock \/ FetchBlock
    <2>1. /\ UNCHANGED <<events, evRx, obs, cancelReq, cmds>>
          /\ pc \in {"check", "block"} /\ pc' \in {"block", "fail", "done"}
      BY <1>3 DEF CheckCancelled, StoreBlock, FetchBlock, FailBlock, NextBlock, histVars,
         chanVars
    <2>2. cur'.kind = cur.kind /\ cur'.ticket = cur.ticket
      BY <1>3, LoopSteps
    <2>3. ChannelAnswers' /\ ThreadAnswers'
      BY <2>1, <2>2, EventsKept, ThreadKept
    <2> QED  BY <2>1, <2>3 DEF ChannelPending
  <1>4. CASE EmitQueued \/ report_failure \/ EmitCompleted
    <2>1. /\ UNCHANGED <<evRx, obs, cancelReq, cmds, cur>>
          /\ cur \in Command /\ outcome \in QueueOutcome /\ staged \in SUBSET Regions
      BY <1>4 DEF EmitQueued, report_failure, EmitCompleted, histVars, Inv, TypeInv, Control,
         Fresh, TypeOK, ThreadTypes
    <2>2. ChannelPending'
      BY <2>1 DEF ChannelPending
    <2>3. ASSUME NEW type \in {"queued"} \cup QueueOutcome, NEW regions \in SUBSET Regions,
                 NEW e, e = Msg(type, regions)
          PROVE  e \in Event /\ e.type = type /\ e.kind = cur.kind /\ e.ticket = cur.ticket
      BY <2>1, <2>3, MsgType DEF Msg
    <2>4. ASSUME NEW e, NEW next, Emit(e, next)
          PROVE  /\ pc' \in {next, "errored"}
                 /\ \/ events' = Append(events, e)
                    \/ events' = events /\ (~evRx \/ cur.kind = "plan")
      BY <2>4, Zenon DEF Emit, emit_required, emit_observability
    <2>5. CASE ~evRx
      BY <2>1, <2>2, <2>5 DEF ChannelAnswers, ThreadAnswers
    <2>6. CASE evRx /\ cur.kind = "plan"
      <3>1. ThreadAnswers'
        BY <2>1, <2>6 DEF ThreadAnswers
      <3>2. PICK e \in Event : e.kind = cur.kind
                               /\ (events' = Append(events, e) \/ events' = events)
        BY <1>4, EmitSteps
      <3>3. CASE events' = events
        BY <2>1, <2>2, <3>1, <3>3, EventsKept
      <3>4. CASE events' = Append(events, e)
        BY <1>0, <2>1, <2>2, <2>6, <3>1, <3>2, <3>4, EventSent
      <3> QED  BY <3>2, <3>3, <3>4
    <2>7. CASE evRx /\ cur.kind \in {"fetch", "store"} /\ EmitQueued
      <3>1. PICK e : e = Msg("queued", {})
        OBVIOUS
      <3>2. e \in Event /\ e.type = "queued" /\ e.kind = cur.kind /\ e.ticket = cur.ticket
        BY <2>3, <3>1
      <3>3. pc = "queued" /\ pc' \in {"check", "errored"} /\ events' = Append(events, e)
        BY <2>4, <2>7, <3>1 DEF EmitQueued
      <3>4. obs[cur.ticket] = "pending" /\ \A i \in DOMAIN events : events[i].ticket /= cur.ticket
        BY <2>7, <3>3 DEF ThreadAnswers
      <3>5. ~Terminal(e) /\ e.type /= "cancelled"
        BY <3>2 DEF Terminal, QueueOutcome
      <3>6. ChannelAnswers'
        BY <1>0, <2>1, <3>2, <3>3, <3>4, <3>5, EventSent
      <3>7. ThreadAnswers'
        <4>1. /\ \A i \in DOMAIN events' : \/ i \in DOMAIN events /\ events'[i] = events[i]
                                           \/ events'[i] = e
              /\ Len(events) + 1 \in DOMAIN events' /\ events'[Len(events) + 1] = e
              /\ Len(events') = Len(events) + 1 /\ Len(events) \in Nat
          BY <1>0, <3>2, <3>3, AppendElements
        <4>2. \A i \in DOMAIN events' : Terminal(events'[i]) => events'[i].ticket /= cur.ticket
          BY <3>4, <3>5, <4>1
        <4>3. Announced(cur.ticket, Len(events) + 1)'
          <5>1. PICK j : j = Len(events) + 1
            OBVIOUS
          <5>2. /\ j \in DOMAIN events' /\ j < Len(events') + 1 /\ events'[j] = e
            BY <4>1, <5>1
          <5> QED  BY <2>1, <2>7, <3>2, <5>2 DEF Announced
        <4> QED  BY <2>1, <3>3, <4>2, <4>3 DEF ThreadAnswers, Terminal
      <3> QED  BY <2>2, <3>6, <3>7
    <2>8. CASE evRx /\ cur.kind \in {"fetch", "store"} /\ (report_failure \/ EmitCompleted)
      <3>1. PICK type \in QueueOutcome, regions \in SUBSET Regions :
                /\ Emit(Msg(type, regions), "finish") /\ pc \in {"fail", "done"}
                /\ type = "cancelled" => pc = "fail" /\ outcome = "cancelled"
        <4>1. CASE report_failure
          <5>1. {} \in SUBSET Regions
            OBVIOUS
          <5> QED  BY <2>1, <4>1, <5>1, Zenon DEF report_failure
        <4>2. CASE EmitCompleted
          <5>1. "completed" \in QueueOutcome /\ "completed" /= "cancelled"
            BY DEF QueueOutcome
          <5>2. Emit(Msg("completed", staged), "finish") /\ pc \in {"fail", "done"}
            BY <4>2 DEF EmitCompleted
          <5> QED  BY <2>1, <5>1, <5>2
        <4> QED  BY <2>8, <4>1, <4>2
      <3>2. PICK e : e = Msg(type, regions)
        OBVIOUS
      <3>3. e \in Event /\ e.type = type /\ e.kind = cur.kind /\ e.ticket = cur.ticket
        <4>1. type \in {"queued"} \cup QueueOutcome
          OBVIOUS
        <4> QED  BY <2>1, <3>2, <4>1, MsgType DEF Msg
      <3>4. pc' \in {"finish", "errored"} /\ events' = Append(events, e)
        BY <2>4, <2>8, <3>1, <3>2
      <3>5. /\ Announced(cur.ticket, Len(events) + 1)
            /\ \A i \in DOMAIN events : Terminal(events[i]) => events[i].ticket /= cur.ticket
        BY <2>8, <3>1 DEF ThreadAnswers
      <3>6. Terminal(e) /\ e.type /= "queued"
        BY <3>1, <3>3 DEF Terminal, QueueOutcome
      <3>7. \A i \in DOMAIN events : Terminal(events[i]) \/ events[i].type = "queued"
        <4>1. \A i \in DOMAIN events : events[i] \in Event
          BY <1>0
        <4> QED  BY <4>1 DEF Terminal, Event
      <3>8. e.type = "cancelled" => e.ticket \in cancelReq
        BY <3>1, <3>3 DEF CancelAsked
      <3>9. ChannelAnswers'
        <4>1. Announced(e.ticket, Len(events) + 1)
          BY <3>3, <3>5, Zenon
        <4>2. \A i \in DOMAIN events : events[i].kind /= "plan" /\ events[i].ticket = e.ticket
                                       => events[i].type = "queued" /\ Terminal(e)
          BY <3>3, <3>5, <3>6, <3>7
        <4> QED  BY <1>0, <2>1, <3>3, <3>4, <3>6, <3>8, <4>1, <4>2, EventSent
      <3>10. ThreadAnswers'
        BY <3>4 DEF ThreadAnswers
      <3> QED  BY <2>2, <3>9, <3>10
    <2>9. cur.kind \in {"plan", "fetch", "store"}
      BY <2>1 DEF Command
    <2> QED  BY <1>4, <2>5, <2>6, <2>7, <2>8, <2>9
  <1>5. CASE on_finish
    <2>1. /\ UNCHANGED <<events, evRx, obs, cancelReq, cmds>>
          /\ pc' = "recv"
      BY <1>5 DEF on_finish, histVars, chanVars
    <2>2. ChannelAnswers'
      BY <2>1, EventsKept
    <2> QED  BY <2>1, <2>2 DEF ChannelPending, ThreadAnswers
  <1> QED  BY <1>1, <1>2, <1>3, <1>4, <1>5, Zenon DEF CoordinatorThread

\* Every step keeps the lifecycle invariant.
LEMMA LifeStep == Inv /\ LifeInv /\ [Next]_vars => LifeInv'
  <1> SUFFICES ASSUME Inv, LifeInv, [Next]_vars PROVE LifeInv'
    OBVIOUS
  <1>1. CancelAsked' /\ Minted'
    BY CancelStep, MintedStep DEF Inv, LifeInv
  <1>2. Answers'
    <2>1. CASE UNCHANGED vars
      <3>1. UNCHANGED <<events, evRx, obs, cmds, pc, cur, cancelReq>>
        BY <2>1 DEF vars, chanVars, coordVars, histVars
      <3>2. ChannelAnswers' /\ ThreadAnswers'
        BY <3>1, EventsKept, ThreadKept DEF LifeInv
      <3> QED  BY <3>1, <3>2 DEF Answers, LifeInv, ChannelPending
    <2> QED  BY <2>1, ClientAnswers, AnswersThread DEF Next, Ended
  <1> QED  BY <1>1, <1>2 DEF LifeInv, Answers

\* Each step of the two threads is a step of the lifecycle or changes nothing
\* the lifecycle speaks of.
LEMMA LifecycleStep == Inv /\ LifeInv /\ [Next]_vars => [Lifecycle!Next]_(Lifecycle!vars)
  <1> SUFFICES ASSUME Inv, LifeInv, [Next]_vars PROVE [Lifecycle!Next]_(Lifecycle!vars)
    OBVIOUS
  <1> USE DEF Dropping
  <1>0. obs \in [Tickets -> {"none", "rejected", "unobserved", "pending", "queued"}
                            \cup QueueOutcome]
    BY DEF Inv, TypeInv, TypeOK, HistoryTypes
  <1>1. CASE UNCHANGED <<obs, cancelReq, Dropping>>
    BY <1>1, Zenon DEF Lifecycle!vars
  <1>2. CASE Submit
    <2>1. /\ nextTicket \in Tickets /\ cpc = "idle" /\ cpc' \in {"idle", "submitting"}
          /\ UNCHANGED cancelReq
          /\ \E x \in {"pending", "unobserved", "rejected"} :
                 obs' = [obs EXCEPT ![nextTicket] = x]
      BY <1>2 DEF Submit, submit_prefetch_plan, submit_fetch, submit_store, TrySend
    <2>2. obs[nextTicket] = "none"
      BY <2>1 DEF LifeInv, Minted, Inv, TypeInv, TypeOK, ControlTypes, Tickets
    <2>3. Lifecycle!Submit(nextTicket)
      BY <2>1, <2>2 DEF Lifecycle!Submit
    <2> QED  BY <2>1, <2>3 DEF Lifecycle!Next
  <1>3. ASSUME NEW t \in Tickets, cancel(t) PROVE [Lifecycle!Next]_(Lifecycle!vars)
    <2>1. Lifecycle!Cancel(t)
      BY <1>3 DEF cancel, Lifecycle!Cancel, clientVars
    <2> QED  BY <1>3, <2>1 DEF Lifecycle!Next
  <1>4. CASE DrainEvent
    <2>1. PICK h, t : h = events[1] /\ t = events[1].ticket
      OBVIOUS
    <2>2. /\ cpc = "idle" /\ cpc' = "idle" /\ UNCHANGED cancelReq
          /\ h \in Event /\ t \in Tickets
          /\ h.kind = "plan" => obs' = obs
          /\ h.kind /= "plan" => obs' = [obs EXCEPT ![t] = h.type] /\ EventFollows(1)
      BY <1>4, <2>1, DrainView
    <2>3. CASE h.kind = "plan"
      BY <2>2, <2>3, <1>1
    <2>4. CASE h.kind /= "plan" /\ h.type = "queued"
      <3>1. obs[t] = "pending"
        BY <2>1, <2>2, <2>4 DEF EventFollows
      <3>2. Lifecycle!Announce(t)
        BY <2>2, <2>4, <3>1 DEF Lifecycle!Announce
      <3> QED  BY <2>2, <3>2 DEF Lifecycle!Next
    <2>5. CASE h.kind /= "plan" /\ h.type \in QueueOutcome
      <3>1. Announced(t, 1) /\ (h.type = "cancelled" => t \in cancelReq)
        BY <2>1, <2>2, <2>5 DEF EventFollows, Terminal
      <3>2. obs[t] = "queued"
        <4>1. \A j \in DOMAIN events : j \in Nat /\ ~(j < 1)
          BY DEF Inv, TypeInv, TypeOK, ChannelTypes
        <4> QED  BY <3>1, <4>1, Zenon DEF Announced
      <3>3. PICK o \in Lifecycle!Outcomes : o = h.type
        BY <2>5 DEF QueueOutcome, Lifecycle!Outcomes
      <3>4. Lifecycle!Settle(t, o)
        BY <2>2, <2>5, <3>1, <3>2, <3>3 DEF Lifecycle!Settle
      <3> QED  BY <2>2, <3>3, <3>4 DEF Lifecycle!Next
    <2> QED  BY <2>2, <2>3, <2>4, <2>5 DEF Event
  <1>5. CASE try_send_shutdown
    <2>1. Lifecycle!Close
      BY <1>5 DEF try_send_shutdown, histVars, Lifecycle!Close
    <2> QED  BY <2>1 DEF Lifecycle!Next
  <1>6. on_submit \/ cancel_insert
        \/ (\E g \in Regions : ReserveRegion(g) \/ ReleaseRegion(g))
        \/ DropHandle \/ DropEvents \/ Join
          => UNCHANGED <<obs, cancelReq, Dropping>>
    <2>1. \A g \in Regions : ReserveRegion(g) \/ ReleaseRegion(g)
                            => UNCHANGED <<obs, cancelReq, cpc>>
      BY Zenon DEF ReserveRegion, ReleaseRegion, histVars, clientVars
    <2>2. on_submit \/ cancel_insert \/ DropHandle \/ DropEvents \/ Join
            => UNCHANGED <<obs, cancelReq, Dropping>>
      BY DEF on_submit, cancel_insert, DropHandle, DropEvents, Join, histVars
    <2> QED  BY <2>1, <2>2, Zenon DEF Dropping
  <1>7. CoordinatorThread \/ UNCHANGED vars => UNCHANGED <<obs, cancelReq, Dropping>>
    BY DEF CoordinatorThread, run_once, on_start, EmitQueued, CheckCancelled, StoreBlock,
       FetchBlock, report_failure, EmitCompleted, on_finish, vars, clientVars, histVars
  <1> QED  BY <1>1, <1>2, <1>3, <1>4, <1>5, <1>6, <1>7, Zenon DEF Next, Client, Ended

\* The coordinator implements the lifecycle of a ticket: through bounded
\* channels, lost plan events, cancellations that race the commands they aim
\* at and the steps of Drop, the client never sees two outcomes of a fetch or
\* store, an outcome before its announcement, or a cancellation it did not
\* ask for.
THEOREM LifecycleImplemented == Spec => ImplementsLifecycle
  <1>1. Init => Lifecycle!Init
    BY DEF Init, Lifecycle!Init, Dropping
  <1> QED  BY <1>1, InvInit, InvStep, LifeInit, LifeStep, LifecycleStep, PTL
              DEF Spec, ImplementsLifecycle, Lifecycle!Spec
==============================================================================
