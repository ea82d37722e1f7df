---------------------------- MODULE KvTierProofs -----------------------------
(***************************************************************************)
(* Proofs about KvTier for any requests, prompts, regions, water marks,    *)
(* queue capacity and bounds.                                              *)
(***************************************************************************)
EXTENDS KvTier, FiniteSetTheorems, SequenceTheorems, Induction

------------------------------------------------------------------------------
(* Commands and events in flight *)

\* No two commands or events have the same ticket.
Flight(q, ev) ==
    /\ IsSeq(q) /\ IsSeq(ev)
    /\ \A i \in DOMAIN q : /\ DOMAIN q[i] = {"kind", "ticket", "blocks", "cancelled"}
                           /\ q[i].kind \in {"fetch", "store"}
    /\ \A i, j \in DOMAIN q : q[i].ticket = q[j].ticket => i = j
    /\ \A i, j \in DOMAIN ev : ev[i].ticket = ev[j].ticket => i = j
    /\ \A i \in DOMAIN q, j \in DOMAIN ev : q[i].ticket /= ev[j].ticket

\* The command of ticket k, of kind ck, is still to run, or its answer is on the way.
Flies(q, ev, k, ck, eks) ==
    \/ \E i \in DOMAIN q : q[i].ticket = k /\ q[i].kind = ck /\ ~q[i].cancelled
    \/ \E i \in DOMAIN ev : ev[i].ticket = k /\ ev[i].kind \in eks

\* Ticket k is on a command or an event of q.
Carries(q, k) == \E i \in DOMAIN q : q[i].ticket = k

\* A ticket in flight is counted once.
LEMMA FliesOnce ==
    ASSUME Flight(cmds, events), NEW k, NEW ck, NEW eks, Flies(cmds, events, k, ck, eks)
    PROVE  InFlight(k) = 1
  <1>1. PICK q, ev : q = cmds /\ ev = events
    OBVIOUS
  <1>2. Flight(q, ev) /\ Flies(q, ev, k, ck, eks)
    BY <1>1
  <1>3. PICK A : A = {i \in DOMAIN q : q[i].ticket = k /\ ~q[i].cancelled}
    OBVIOUS
  <1>4. PICK B : B = {i \in DOMAIN ev : ev[i].ticket = k}
    OBVIOUS
  <1>5. InFlight(k) = Cardinality(A) + Cardinality(B)
    BY <1>1, <1>3, <1>4, Zenon DEF InFlight
  <1>6. ASSUME NEW i \in DOMAIN q, q[i].ticket = k, ~q[i].cancelled PROVE A = {i} /\ B = {}
    BY <1>2, <1>3, <1>4, <1>6 DEF Flight
  <1>7. ASSUME NEW i \in DOMAIN ev, ev[i].ticket = k PROVE A = {} /\ B = {i}
    BY <1>2, <1>3, <1>4, <1>7 DEF Flight
  <1>8. Cardinality({}) = 0
    BY FS_EmptySet
  <1>9. \A i : Cardinality({i}) = 1
    BY FS_Singleton
  <1>10. (\E i : A = {i} /\ B = {}) \/ (\E i : A = {} /\ B = {i})
    BY <1>2, <1>6, <1>7 DEF Flies
  <1>11. \/ Cardinality(A) = 1 /\ Cardinality(B) = 0
         \/ Cardinality(A) = 0 /\ Cardinality(B) = 1
    BY <1>8, <1>9, <1>10, Zenon
  <1> QED  BY <1>5, <1>11

\* A new command.
LEMMA FlightSubmit ==
    ASSUME NEW q, NEW ev, Flight(q, ev), NEW k, ~Carries(q, k), ~Carries(ev, k),
           NEW kind \in {"fetch", "store"}, NEW blocks
    PROVE  /\ Flight(Submitted(q, kind, k, blocks), ev)
           /\ \A l, ck, eks : Flies(q, ev, l, ck, eks)
                                => Flies(Submitted(q, kind, k, blocks), ev, l, ck, eks)
           /\ \A eks : Flies(Submitted(q, kind, k, blocks), ev, k, kind, eks)
  <1>1. PICK c : c = [kind |-> kind, ticket |-> k, blocks |-> blocks, cancelled |-> FALSE]
    OBVIOUS
  <1>2. PICK p : p = Append(q, c)
    OBVIOUS
  <1>3. p = Submitted(q, kind, k, blocks)
    BY <1>1, <1>2, Zenon DEF Submitted
  <1>4. IsSeq(q) /\ IsSeq(ev)
    BY DEF Flight
  <1>5. PICK n \in Nat : n = Len(q) /\ DOMAIN q = 1..n
    BY <1>4, SeqFacts
  <1>6. IsSeq(p) /\ DOMAIN p = 1..n + 1 /\ p[n + 1] = c /\ \A i \in 1..n : p[i] = q[i]
    BY <1>2, <1>4, <1>5, SeqFacts
  <1>7. /\ DOMAIN c = {"kind", "ticket", "blocks", "cancelled"} /\ c.kind = kind /\ c.ticket = k
        /\ ~c.cancelled
    BY <1>1
  <1>8. \A i \in 1..n + 1 : i \in 1..n \/ i = n + 1
    OBVIOUS
  <1>9. Flight(p, ev)
    <2>1. ASSUME NEW i \in DOMAIN p
          PROVE  /\ DOMAIN p[i] = {"kind", "ticket", "blocks", "cancelled"}
                 /\ p[i].kind \in {"fetch", "store"}
      BY <1>5, <1>6, <1>7, <1>8 DEF Flight
    <2>2. ASSUME NEW i \in DOMAIN p, NEW j \in DOMAIN p, p[i].ticket = p[j].ticket PROVE i = j
      <3>1. CASE i \in 1..n /\ j \in 1..n
        BY <1>5, <1>6, <2>2, <3>1 DEF Flight
      <3>2. CASE i = n + 1 /\ j \in 1..n
        BY <1>5, <1>6, <1>7, <2>2, <3>2 DEF Carries
      <3>3. CASE i \in 1..n /\ j = n + 1
        BY <1>5, <1>6, <1>7, <2>2, <3>3 DEF Carries
      <3> QED  BY <1>6, <1>8, <2>2, <3>1, <3>2, <3>3
    <2>3. ASSUME NEW i \in DOMAIN p, NEW j \in DOMAIN ev PROVE p[i].ticket /= ev[j].ticket
      <3>1. CASE i \in 1..n
        BY <1>5, <1>6, <3>1 DEF Flight
      <3>2. CASE i = n + 1
        BY <1>6, <1>7, <3>2 DEF Carries
      <3> QED  BY <1>6, <1>8, <3>1, <3>2
    <2>4. \A i, j \in DOMAIN ev : ev[i].ticket = ev[j].ticket => i = j
      BY DEF Flight
    <2> QED  BY <1>4, <1>6, <2>1, <2>2, <2>3, <2>4 DEF Flight
  <1>10. ASSUME NEW l, NEW ck, NEW eks, Flies(q, ev, l, ck, eks) PROVE Flies(p, ev, l, ck, eks)
    <2>1. ASSUME NEW i \in DOMAIN q, q[i].ticket = l, q[i].kind = ck, ~q[i].cancelled
          PROVE  Flies(p, ev, l, ck, eks)
      <3>1. i \in DOMAIN p /\ p[i] = q[i]
        BY <1>5, <1>6
      <3> QED  BY <2>1, <3>1, Zenon DEF Flies
    <2> QED  BY <1>10, <2>1 DEF Flies
  <1>11. ASSUME NEW eks PROVE Flies(p, ev, k, kind, eks)
    <2>1. n + 1 \in DOMAIN p
      BY <1>6
    <2> QED  BY <1>6, <1>7, <2>1 DEF Flies
  <1> QED  BY <1>3, <1>9, <1>10, <1>11, Zenon

\* The coordinator answers its first command.
LEMMA FlightAnswer ==
    ASSUME NEW q, NEW ev, Flight(q, ev), q /= <<>>, NEW e, e.ticket = Head(q).ticket
    PROVE  /\ Flight(Tail(q), Append(ev, e))
           /\ \A l, ck, eks : Flies(q, ev, l, ck, eks) /\ (Head(q).kind = ck => e.kind \in eks)
                                => Flies(Tail(q), Append(ev, e), l, ck, eks)
  <1>1. IsSeq(q) /\ IsSeq(ev)
    BY DEF Flight
  <1>2. PICK p, v : p = Tail(q) /\ v = Append(ev, e)
    OBVIOUS
  <1>3. PICK n \in Nat \ {0} : /\ n = Len(q) /\ DOMAIN q = 1..n /\ Head(q) = q[1] /\ IsSeq(p)
                               /\ DOMAIN p = 1..n - 1 /\ \A i \in 1..n - 1 : p[i] = q[i + 1]
    BY <1>1, <1>2, TailFacts
  <1>4. PICK m \in Nat : m = Len(ev) /\ DOMAIN ev = 1..m
    BY <1>1, SeqFacts
  <1>5. IsSeq(v) /\ DOMAIN v = 1..m + 1 /\ v[m + 1] = e /\ \A i \in 1..m : v[i] = ev[i]
    BY <1>1, <1>2, <1>4, SeqFacts
  <1>6. \A i \in 1..n - 1 : i + 1 \in DOMAIN q /\ i + 1 /= 1
    BY <1>3
  <1>7. 1 \in DOMAIN q
    BY <1>3
  <1>8. \A i \in 1..m + 1 : i \in 1..m \/ i = m + 1
    OBVIOUS
  <1>9. Flight(p, v)
    <2>1. ASSUME NEW i \in DOMAIN p
          PROVE  /\ DOMAIN p[i] = {"kind", "ticket", "blocks", "cancelled"}
                 /\ p[i].kind \in {"fetch", "store"}
      BY <1>3, <1>6 DEF Flight
    <2>2. ASSUME NEW i \in DOMAIN p, NEW j \in DOMAIN p, p[i].ticket = p[j].ticket PROVE i = j
      <3>1. q[i + 1].ticket = q[j + 1].ticket /\ i + 1 \in DOMAIN q /\ j + 1 \in DOMAIN q
        BY <1>3, <1>6, <2>2
      <3>2. i + 1 = j + 1
        BY <3>1 DEF Flight
      <3>3. i \in Nat /\ j \in Nat
        BY <1>3
      <3> QED  BY <3>2, <3>3
    <2>3. ASSUME NEW i \in DOMAIN p, NEW j \in DOMAIN v PROVE p[i].ticket /= v[j].ticket
      <3>1. p[i] = q[i + 1] /\ i + 1 \in DOMAIN q /\ i + 1 /= 1
        BY <1>3, <1>6
      <3>2. CASE j \in 1..m
        BY <1>4, <1>5, <3>1, <3>2 DEF Flight
      <3>3. CASE j = m + 1
        BY <1>3, <1>5, <1>7, <3>1, <3>3 DEF Flight
      <3> QED  BY <1>5, <1>8, <3>2, <3>3
    <2>4. ASSUME NEW i \in DOMAIN v, NEW j \in DOMAIN v, v[i].ticket = v[j].ticket PROVE i = j
      <3>1. \A l \in 1..m : ev[l].ticket /= e.ticket
        BY <1>3, <1>4, <1>7 DEF Flight
      <3>2. CASE i \in 1..m /\ j \in 1..m
        BY <1>4, <1>5, <2>4, <3>2 DEF Flight
      <3>3. CASE i = m + 1 /\ j \in 1..m
        BY <1>5, <2>4, <3>1, <3>3
      <3>4. CASE i \in 1..m /\ j = m + 1
        BY <1>5, <2>4, <3>1, <3>4
      <3> QED  BY <1>5, <1>8, <2>4, <3>2, <3>3, <3>4
    <2> QED  BY <1>3, <1>5, <2>1, <2>2, <2>3, <2>4 DEF Flight
  <1>10. ASSUME NEW l, NEW ck, NEW eks, Flies(q, ev, l, ck, eks), Head(q).kind = ck => e.kind \in eks
         PROVE  Flies(p, v, l, ck, eks)
    <2>1. ASSUME NEW i \in DOMAIN q, q[i].ticket = l, q[i].kind = ck, ~q[i].cancelled
          PROVE  Flies(p, v, l, ck, eks)
      <3>1. CASE i = 1
        <4>1. e.ticket = l /\ e.kind \in eks
          BY <1>3, <1>10, <2>1, <3>1
        <4>2. m + 1 \in DOMAIN v /\ v[m + 1] = e
          BY <1>5
        <4> QED  BY <4>1, <4>2, Zenon DEF Flies
      <3>2. CASE i /= 1
        <4>1. i - 1 \in 1..n - 1 /\ (i - 1) + 1 = i
          BY <1>3, <3>2
        <4>2. i - 1 \in DOMAIN p /\ p[i - 1] = q[i]
          BY <1>3, <4>1
        <4> QED  BY <2>1, <4>2, Zenon DEF Flies
      <3> QED  BY <3>1, <3>2
    <2>2. ASSUME NEW i \in DOMAIN ev, ev[i].ticket = l, ev[i].kind \in eks
          PROVE  Flies(p, v, l, ck, eks)
      <3>1. i \in DOMAIN v /\ v[i] = ev[i]
        BY <1>4, <1>5
      <3> QED  BY <2>2, <3>1, Zenon DEF Flies
    <2> QED  BY <1>10, <2>1, <2>2, Zenon DEF Flies
  <1> QED  BY <1>2, <1>9, <1>10, Zenon

\* The scheduler takes the first event.
LEMMA FlightTake ==
    ASSUME NEW q, NEW ev, Flight(q, ev), ev /= <<>>
    PROVE  /\ Flight(q, Tail(ev))
           /\ \A l, ck, eks : Flies(q, ev, l, ck, eks) /\ l /= Head(ev).ticket
                                => Flies(q, Tail(ev), l, ck, eks)
  <1>1. IsSeq(q) /\ IsSeq(ev)
    BY DEF Flight
  <1>2. PICK v : v = Tail(ev)
    OBVIOUS
  <1>3. PICK n \in Nat \ {0} : /\ n = Len(ev) /\ DOMAIN ev = 1..n /\ Head(ev) = ev[1] /\ IsSeq(v)
                               /\ DOMAIN v = 1..n - 1 /\ \A i \in 1..n - 1 : v[i] = ev[i + 1]
    BY <1>1, <1>2, TailFacts
  <1>4. \A i \in 1..n - 1 : i + 1 \in DOMAIN ev /\ i + 1 /= 1
    BY <1>3
  <1>5. Flight(q, v)
    <2>1. ASSUME NEW i \in DOMAIN v, NEW j \in DOMAIN v, v[i].ticket = v[j].ticket PROVE i = j
      <3>1. ev[i + 1].ticket = ev[j + 1].ticket /\ i + 1 \in DOMAIN ev /\ j + 1 \in DOMAIN ev
        BY <1>3, <1>4, <2>1
      <3>2. i + 1 = j + 1
        BY <3>1 DEF Flight
      <3>3. i \in Nat /\ j \in Nat
        BY <1>3
      <3> QED  BY <3>2, <3>3
    <2>2. ASSUME NEW i \in DOMAIN q, NEW j \in DOMAIN v PROVE q[i].ticket /= v[j].ticket
      BY <1>3, <1>4 DEF Flight
    <2>3. /\ \A i \in DOMAIN q : /\ DOMAIN q[i] = {"kind", "ticket", "blocks", "cancelled"}
                                 /\ q[i].kind \in {"fetch", "store"}
          /\ \A i, j \in DOMAIN q : q[i].ticket = q[j].ticket => i = j
      BY DEF Flight
    <2> QED  BY <1>1, <1>3, <2>1, <2>2, <2>3 DEF Flight
  <1>6. ASSUME NEW l, NEW ck, NEW eks, Flies(q, ev, l, ck, eks), l /= Head(ev).ticket
        PROVE  Flies(q, v, l, ck, eks)
    <2>1. ASSUME NEW i \in DOMAIN ev, ev[i].ticket = l, ev[i].kind \in eks
          PROVE  Flies(q, v, l, ck, eks)
      <3>1. i /= 1
        BY <1>3, <1>6, <2>1
      <3>2. i - 1 \in 1..n - 1 /\ (i - 1) + 1 = i
        BY <1>3, <3>1
      <3>3. i - 1 \in DOMAIN v /\ v[i - 1] = ev[i]
        BY <1>3, <3>2
      <3> QED  BY <2>1, <3>3, Zenon DEF Flies
    <2> QED  BY <1>6, <2>1, Zenon DEF Flies
  <1> QED  BY <1>2, <1>5, <1>6, Zenon

\* Commands are cancelled.
Cancelling(q, dead) ==
    [i \in DOMAIN q |-> [q[i] EXCEPT !.cancelled = @ \/ q[i].ticket \in dead]]

\* A cancelled command keeps its ticket and is still answered.
LEMMA FlightCancel ==
    ASSUME NEW q, NEW ev, Flight(q, ev), NEW dead
    PROVE  /\ Flight(Cancelling(q, dead), ev)
           /\ \A l, ck, eks : Flies(q, ev, l, ck, eks) /\ l \notin dead
                                => Flies(Cancelling(q, dead), ev, l, ck, eks)
  <1>1. IsSeq(q) /\ IsSeq(ev)
    BY DEF Flight
  <1>2. PICK n \in Nat : n = Len(q) /\ DOMAIN q = 1..n
    BY <1>1, SeqFacts
  <1>3. PICK p : p = Cancelling(q, dead)
    OBVIOUS
  <1>4. DOMAIN p = DOMAIN q
    BY <1>3 DEF Cancelling
  <1>5. ASSUME NEW i \in DOMAIN q
        PROVE  /\ DOMAIN p[i] = {"kind", "ticket", "blocks", "cancelled"}
               /\ p[i].kind = q[i].kind /\ p[i].ticket = q[i].ticket
               /\ (~q[i].cancelled /\ q[i].ticket \notin dead => ~p[i].cancelled)
    <2>1. PICK c : c = q[i] /\ DOMAIN c = {"kind", "ticket", "blocks", "cancelled"}
      BY DEF Flight
    <2>2. p[i] = [c EXCEPT !.cancelled = @ \/ c.ticket \in dead]
      BY <1>3, <2>1, Zenon DEF Cancelling
    <2> QED  BY <2>1, <2>2
  <1>6. IsSeq(p)
    <2>1. PICK T : T = {p[i] : i \in 1..n}
      OBVIOUS
    <2>2. p = [i \in 1..n |-> p[i]]
      BY <1>2, <1>3, Zenon DEF Cancelling
    <2>3. p \in [1..n -> T]
      BY <2>1, <2>2
    <2>4. p \in Seq(T)
      BY <2>3
    <2> QED  BY <2>4 DEF IsSeq
  <1>7. Flight(p, ev)
    BY <1>1, <1>4, <1>5, <1>6 DEF Flight
  <1>8. ASSUME NEW l, NEW ck, NEW eks, Flies(q, ev, l, ck, eks), l \notin dead
        PROVE  Flies(p, ev, l, ck, eks)
    <2>1. ASSUME NEW i \in DOMAIN q, q[i].ticket = l, q[i].kind = ck, ~q[i].cancelled
          PROVE  Flies(p, ev, l, ck, eks)
      <3>1. i \in DOMAIN p /\ p[i].ticket = l /\ p[i].kind = ck /\ ~p[i].cancelled
        BY <1>4, <1>5, <1>8, <2>1
      <3> QED  BY <3>1, Zenon DEF Flies
    <2> QED  BY <1>8, <2>1, Zenon DEF Flies
  <1> QED  BY <1>3, <1>7, <1>8, Zenon

------------------------------------------------------------------------------
(* Finite sets and new tickets *)

\* The values of a function on a finite set.
LEMMA RangeFinite ==
    ASSUME NEW f, IsFiniteSet(DOMAIN f)
    PROVE  IsFiniteSet(Range(f))
  <1>1. PICK g : g = [x \in DOMAIN f |-> f[x]]
    OBVIOUS
  <1>2. g \in Surjection(DOMAIN f, Range(f))
    BY <1>1 DEF Surjection, Range
  <1> QED  BY <1>2, FS_Surjection

\* The tickets of a sequence of commands or events.
LEMMA TicketsFinite ==
    ASSUME NEW q, IsSeq(q)
    PROVE  IsFiniteSet({c.ticket : c \in Range(q)})
  <1>1. PICK n \in Nat : DOMAIN q = 1..n
    BY SeqFacts
  <1>2. IsFiniteSet(DOMAIN q)
    BY <1>1, FS_Interval
  <1>3. PICK R : R = Range(q) /\ IsFiniteSet(R)
    BY <1>2, RangeFinite
  <1>4. PICK g : g = [c \in R |-> c.ticket]
    OBVIOUS
  <1>5. DOMAIN g = R /\ Range(g) = {c.ticket : c \in R}
    BY <1>4 DEF Range
  <1>6. IsFiniteSet(Range(g))
    BY <1>3, <1>5, RangeFinite
  <1> QED  BY <1>3, <1>5, <1>6

\* A finite set does not hold all of 1..n when n is greater than its cardinality.
LEMMA Unused ==
    ASSUME NEW U, IsFiniteSet(U)
    PROVE  Min((1..(Cardinality(U) + 1)) \ U) \notin U
  <1>1. PICK n \in Nat : n = Cardinality(U)
    BY FS_CardinalityType
  <1>2. PICK I : I = 1..n + 1
    OBVIOUS
  <1>3. IsFiniteSet(I) /\ Cardinality(I) = n + 1
    BY <1>2, FS_Interval
  <1>4. PICK T : T = I \ U
    OBVIOUS
  <1>5. T /= {}
    <2>1. ASSUME T = {} PROVE FALSE
      <3>1. I \in SUBSET U
        BY <1>4, <2>1
      <3>2. Cardinality(I) <= Cardinality(U)
        BY <3>1, FS_Subset
      <3> QED  BY <1>1, <1>3, <3>2
    <2> QED  BY <2>1
  <1>6. T \in SUBSET Nat
    BY <1>2, <1>4
  <1>7. \E x \in T : \A y \in T : x =< y
    BY <1>5, <1>6, HasLeast
  <1>8. Min(T) \in T
    BY <1>7, Zenon DEF Min
  <1>9. Min(T) \notin U
    BY <1>4, <1>8
  <1>10. T = (1..(Cardinality(U) + 1)) \ U
    BY <1>1, <1>2, <1>4, Zenon
  <1> QED  BY <1>9, <1>10, Zenon

\* The tickets the scheduler keeps a key for.
Tracked(t) == DOMAIN t.fetchKeys \cup DOMAIN t.storeKeys

\* A new ticket is not tracked and nothing in flight has it.
LEMMA NewTicketFresh ==
    ASSUME NEW t, NEW q, Flight(q, events),
           \A k \in Tracked(t) : Carries(q, k) \/ Carries(events, k)
    PROVE  /\ NewTicket(t, q) \notin Tracked(t)
           /\ ~Carries(q, NewTicket(t, q)) /\ ~Carries(events, NewTicket(t, q))
  <1>1. PICK ev : ev = events
    OBVIOUS
  <1>2. IsSeq(q) /\ IsSeq(ev)
    BY <1>1 DEF Flight
  <1>3. PICK A : A = {c.ticket : c \in Range(q)}
    OBVIOUS
  <1>4. PICK B : B = {c.ticket : c \in Range(ev)}
    OBVIOUS
  <1>5. IsFiniteSet(A) /\ IsFiniteSet(B)
    BY <1>2, <1>3, <1>4, TicketsFinite
  <1>6. PICK U : U = A \cup B
    OBVIOUS
  <1>7. IsFiniteSet(U)
    BY <1>5, <1>6, FS_Union
  <1>8. \A k : Carries(q, k) => k \in U
    BY <1>3, <1>6 DEF Carries, Range
  <1>9. \A k : Carries(ev, k) => k \in U
    BY <1>4, <1>6 DEF Carries, Range
  <1>10. Tracked(t) \subseteq U
    BY <1>1, <1>8, <1>9
  <1>11. U = Tracked(t) \cup {c.ticket : c \in Range(q) \cup Range(ev)}
    BY <1>3, <1>4, <1>6, <1>10
  <1>12. U = DOMAIN t.fetchKeys \cup DOMAIN t.storeKeys
             \cup {c.ticket : c \in Range(q) \cup Range(events)}
    BY <1>1, <1>11, Zenon DEF Tracked
  <1>13. NewTicket(t, q) = Min((1..(Cardinality(U) + 1)) \ U)
    BY <1>12, Zenon DEF NewTicket
  <1>14. NewTicket(t, q) \notin U
    BY <1>7, <1>13, Unused
  <1> QED  BY <1>1, <1>8, <1>9, <1>10, <1>14

------------------------------------------------------------------------------
(* What the operators leave alone *)

\* The fields of the record s and of a request.
Shape(t) ==
    /\ DOMAIN t = {"node", "live", "bytes", "disk", "fetchWaiting", "fetchDedupe", "fetchKeys",
                   "prefetching", "storeWaiting", "storeDedupe", "storeKeys", "req"}
    /\ DOMAIN t.req = Requests
    /\ \A r \in Requests : DOMAIN t.req[r] = {"phase", "plan", "closed"}

\* Finitely many blocks are indexed and a plan is a sequence.
Bounded(t) == IsFiniteSet(DOMAIN t.node) /\ \A r \in Requests : IsSeq(t.req[r].plan)

\* The fetch tables are the same.
SameFetch(t, u) ==
    /\ u.fetchWaiting = t.fetchWaiting /\ u.fetchDedupe = t.fetchDedupe
    /\ u.fetchKeys = t.fetchKeys /\ u.prefetching = t.prefetching

\* The store tables are the same.
SameStore(t, u) ==
    u.storeWaiting = t.storeWaiting /\ u.storeDedupe = t.storeDedupe /\ u.storeKeys = t.storeKeys

\* Only the index and the host pool change.
Moved(t, u) == Shape(u) /\ Bounded(u) /\ SameFetch(t, u) /\ SameStore(t, u) /\ u.req = t.req

\* The tickets stay and the requests rs, and no others, get a new phase or plan.
Settled(t, u, rs) ==
    /\ Shape(u) /\ Bounded(u) /\ SameFetch(t, u) /\ SameStore(t, u)
    /\ \A r \in Requests \ rs : u.req[r].phase = t.req[r].phase /\ u.req[r].plan = t.req[r].plan
    /\ \A r \in Requests : r \in rs => u.req[r].phase /= "fetch"

\* Moves compose.
LEMMA MovedTrans ==
    ASSUME NEW t, NEW u, NEW v, Moved(t, u), Moved(u, v)
    PROVE  Moved(t, v)
  BY DEF Moved, SameFetch, SameStore

\* A move after a settling step.
LEMMA SettledAfter ==
    ASSUME NEW t, NEW u, NEW v, NEW rs, Moved(t, u), Settled(u, v, rs)
    PROVE  Settled(t, v, rs)
  BY DEF Moved, Settled, SameFetch, SameStore

\* A move before a settling step.
LEMMA SettledBefore ==
    ASSUME NEW t, NEW u, NEW v, NEW rs, Settled(t, u, rs), Moved(u, v)
    PROVE  Settled(t, v, rs)
  BY DEF Moved, Settled, SameFetch, SameStore

\* Requests that settle one group after the other.
LEMMA SettledUnion ==
    ASSUME NEW t, NEW u, NEW v, NEW rs, NEW qs, Settled(t, u, rs), Settled(u, v, qs)
    PROVE  Settled(t, v, rs \cup qs)
  <1>1. ASSUME NEW r \in Requests, r \notin rs \cup qs
        PROVE  v.req[r].phase = t.req[r].phase /\ v.req[r].plan = t.req[r].plan
    BY <1>1 DEF Settled
  <1>2. ASSUME NEW r \in Requests, r \in rs \cup qs
        PROVE  v.req[r].phase /= "fetch"
    BY <1>2 DEF Settled
  <1>3. Shape(v) /\ Bounded(v) /\ SameFetch(t, v) /\ SameStore(t, v)
    BY DEF Settled, SameFetch, SameStore
  <1> QED  BY <1>1, <1>2, <1>3 DEF Settled

\* A new index over finitely many blocks.
LEMMA NodeMoved ==
    ASSUME NEW t, Shape(t), Bounded(t), NEW n, IsFiniteSet(DOMAIN n)
    PROVE  Moved(t, [t EXCEPT !.node = n])
  <1>1. PICK u : u = [t EXCEPT !.node = n]
    OBVIOUS
  <1>2. u.node = n /\ DOMAIN u = DOMAIN t /\ SameFetch(t, u) /\ SameStore(t, u) /\ u.req = t.req
    BY <1>1 DEF Shape, SameFetch, SameStore
  <1>3. Shape(u) /\ Bounded(u)
    BY <1>2, Zenon DEF Shape, Bounded
  <1> QED  BY <1>1, <1>2, <1>3, Zenon DEF Moved

\* The fields that matter tell that only the index and the host pool changed.
LEMMA MovedBy ==
    ASSUME NEW t, Shape(t), Bounded(t), NEW u, DOMAIN u = DOMAIN t, IsFiniteSet(DOMAIN u.node),
           SameFetch(t, u), SameStore(t, u), u.req = t.req
    PROVE  Moved(t, u)
  BY Zenon DEF Moved, Shape, Bounded

\* release_region moves blocks only.
LEMMA ReleaseAllMoves ==
    ASSUME NEW t, Shape(t), Bounded(t), NEW rs
    PROVE  Moved(t, ReleaseAll(t, rs))
  <1>1. PICK u : u = ReleaseAll(t, rs)
    OBVIOUS
  <1>2. DOMAIN u = DOMAIN t /\ SameFetch(t, u) /\ SameStore(t, u) /\ u.req = t.req
    BY <1>1 DEF ReleaseAll, Shape, SameFetch, SameStore
  <1>3. DOMAIN u.node = DOMAIN t.node
    BY <1>1 DEF ReleaseAll, Shape
  <1>4. IsFiniteSet(DOMAIN u.node)
    BY <1>3 DEF Bounded
  <1> QED  BY <1>1, <1>2, <1>4, MovedBy

\* A reservation moves blocks only.
LEMMA ReserveMoves ==
    ASSUME NEW t, Shape(t), Bounded(t), NEW kv
    PROVE  Moved(t, Reserve(t, kv))
  <1>1. PICK u : u = Reserve(t, kv)
    OBVIOUS
  <1>2. DOMAIN u = DOMAIN t /\ SameFetch(t, u) /\ SameStore(t, u) /\ u.req = t.req
    BY <1>1 DEF Reserve, Shape, SameFetch, SameStore
  <1>3. DOMAIN u.node = DOMAIN t.node
    BY <1>1 DEF Reserve, Shape
  <1>4. IsFiniteSet(DOMAIN u.node)
    BY <1>3 DEF Bounded
  <1> QED  BY <1>1, <1>2, <1>4, MovedBy

\* A lookup that pins moves blocks only.
LEMMA PinMoves ==
    ASSUME NEW t, Shape(t), Bounded(t), NEW ids
    PROVE  Moved(t, Pin(t, ids))
  <1>1. PICK u : u = Pin(t, ids)
    OBVIOUS
  <1>2. DOMAIN u = DOMAIN t /\ SameFetch(t, u) /\ SameStore(t, u) /\ u.req = t.req
    BY <1>1 DEF Pin, Shape, SameFetch, SameStore
  <1>3. DOMAIN u.node = DOMAIN t.node
    BY <1>1 DEF Pin, Shape
  <1>4. IsFiniteSet(DOMAIN u.node)
    BY <1>3 DEF Bounded
  <1> QED  BY <1>1, <1>2, <1>4, MovedBy

\* A release of pins moves blocks only.
LEMMA UnpinMoves ==
    ASSUME NEW t, Shape(t), Bounded(t), NEW ids
    PROVE  Moved(t, Unpin(t, ids))
  <1>1. PICK u : u = Unpin(t, ids)
    OBVIOUS
  <1>2. DOMAIN u = DOMAIN t /\ SameFetch(t, u) /\ SameStore(t, u) /\ u.req = t.req
    BY <1>1 DEF Unpin, Shape, SameFetch, SameStore
  <1>3. DOMAIN u.node = DOMAIN t.node
    BY <1>1 DEF Unpin, Shape
  <1>4. IsFiniteSet(DOMAIN u.node)
    BY <1>3 DEF Bounded
  <1> QED  BY <1>1, <1>2, <1>4, MovedBy

\* Releasing the pins of plans moves blocks only.
LEMMA ReleasePlansMoves ==
    ASSUME NEW t, Shape(t), Bounded(t), NEW rs
    PROVE  Moved(t, ReleasePlans(t, rs))
  <1>1. PICK u : u = ReleasePlans(t, rs)
    OBVIOUS
  <1>2. DOMAIN u = DOMAIN t /\ SameFetch(t, u) /\ SameStore(t, u) /\ u.req = t.req
    BY <1>1 DEF ReleasePlans, Shape, SameFetch, SameStore
  <1>3. DOMAIN u.node = DOMAIN t.node
    BY <1>1 DEF ReleasePlans, Shape
  <1>4. IsFiniteSet(DOMAIN u.node)
    BY <1>3 DEF Bounded
  <1> QED  BY <1>1, <1>2, <1>4, MovedBy

\* evict moves blocks only.
LEMMA EvictMoves ==
    ASSUME NEW t, Shape(t), Bounded(t), NEW bs
    PROVE  Moved(t, Evict(t, bs))
  <1> DEFINE over(c)    == {b \in bs : c \in Below(t, b)}
             nearest(c) == CHOOSE b \in over(c) : over(c) \cap Below(t, b) = {}
             last       == Max({t.node[b].tree : b \in DOMAIN t.node})
             subtree(c) == last + Cardinality({b \in bs : b <= nearest(c)})
  <1>1. PICK n : n = [c \in DOMAIN t.node \ bs |->
                         IF over(c) = {} THEN t.node[c]
                         ELSE [t.node[c] EXCEPT !.tree = subtree(c)]]
    OBVIOUS
  <1>2. Evict(t, bs) = [t EXCEPT !.node = n]
    BY <1>1 DEF Evict
  <1>3. DOMAIN n = DOMAIN t.node \ bs
    BY <1>1
  <1>4. IsFiniteSet(DOMAIN n)
    BY <1>3, FS_Difference DEF Bounded
  <1> QED  BY <1>2, <1>4, NodeMoved

\* Setting the store state of a block moves blocks only.
LEMMA SetStoreMoves ==
    ASSUME NEW t, Shape(t), Bounded(t), NEW b, NEW state
    PROVE  Moved(t, SetStore(t, b, state))
  <1>1. CASE b \in DOMAIN t.node
    <2>1. PICK n : n = [t.node EXCEPT ![b].store = state]
      OBVIOUS
    <2>2. DOMAIN n = DOMAIN t.node
      BY <2>1
    <2>3. SetStore(t, b, state) = [t EXCEPT !.node = n]
      BY <1>1, <2>1 DEF SetStore, Shape
    <2>4. IsFiniteSet(DOMAIN n)
      BY <2>2 DEF Bounded
    <2> QED  BY <2>3, <2>4, NodeMoved
  <1>2. CASE b \notin DOMAIN t.node
    BY <1>2 DEF SetStore, Moved, SameFetch, SameStore
  <1> QED  BY <1>1, <1>2

\* Insert adds finitely many blocks.
LEMMA InsertMoves ==
    ASSUME NEW t, Shape(t), Bounded(t), NEW ids, IsFiniteSet(DOMAIN ids)
    PROVE  Moved(t, Insert(t, ids))
  <1> DEFINE path == Path(t, Len(ids))
             kept == DOMAIN t.node \ (Range(path) \cup Range(ids))
             at(b) == CHOOSE i \in DOMAIN ids : ids[i] = b
  <1>1. PICK n : n = [b \in kept \cup Range(ids) |->
            IF b \in kept THEN t.node[b]
            ELSE IF at(b) <= Len(path) THEN t.node[path[at(b)]] ELSE NewNode(at(b))]
    OBVIOUS
  <1>2. Insert(t, ids) = [t EXCEPT !.node = n]
    BY <1>1 DEF Insert
  <1>3. DOMAIN n = kept \cup Range(ids)
    BY <1>1
  <1>4. IsFiniteSet(Range(ids))
    BY RangeFinite
  <1>5. IsFiniteSet(kept)
    BY FS_Difference DEF Bounded
  <1> HIDE DEF kept
  <1>6. IsFiniteSet(DOMAIN n)
    BY <1>3, <1>4, <1>5, FS_Union
  <1> QED  BY <1>2, <1>6, NodeMoved

\* A lookup returns a sequence of blocks.
LEMMA PathIsSeq ==
    ASSUME NEW t, NEW n \in Nat
    PROVE  IsSeq(Path(t, n))
  <1> DEFINE there == {t.node[b].fp : b \in {c \in DOMAIN t.node : t.node[c].tree = 0}}
             T == {k \in 0..n : 1..k \subseteq there}
             m == Max(T)
  <1>1. 0 \in T
    OBVIOUS
  <1>2. T \in SUBSET (0..n)
    OBVIOUS
  <1> HIDE DEF T
  <1>3. \E x \in T : \A y \in T : x >= y
    BY <1>1, <1>2, Greatest
  <1>4. m \in T
    BY <1>3, Zenon DEF Max
  <1>5. PICK l \in Nat : l = m
    <2>1. m \in 0..n
      BY <1>2, <1>4
    <2> HIDE DEF m
    <2> QED  BY <2>1
  <1> USE DEF T
  <1>6. Path(t, n) = [i \in 1..m |-> At(t, i)]
    BY Zenon DEF Path
  <1> HIDE DEF m
  <1>7. PICK f : f = [i \in 1..l |-> At(t, i)]
    OBVIOUS
  <1>8. f = [i \in 1..l |-> f[i]]
    BY <1>7
  <1>9. IsSeq(f)
    BY <1>8, FunctionIsSeq
  <1>10. f = Path(t, n)
    BY <1>5, <1>6, <1>7, Zenon
  <1> QED  BY <1>9, <1>10

\* A plan is a sequence.
LEMMA PlanOfIsSeq ==
    ASSUME NEW t, NEW path, IsSeq(path)
    PROVE  IsSeq(PlanOf(t, path))
  <1>1. PICK n \in Nat : DOMAIN path = 1..n
    BY SeqFacts
  <1>2. PICK f : f = PlanOf(t, path)
    OBVIOUS
  <1>3. f = [i \in 1..n |-> f[i]]
    BY <1>1, <1>2 DEF PlanOf
  <1> QED  BY <1>2, <1>3, FunctionIsSeq

\* Become changes one request.
LEMMA BecomeFacts ==
    ASSUME NEW t, Shape(t), Bounded(t), NEW r \in Requests, NEW phase, NEW plan, IsSeq(plan)
    PROVE  LET u == Become(t, r, phase, plan) IN
           /\ Shape(u) /\ Bounded(u) /\ SameFetch(t, u) /\ SameStore(t, u)
           /\ u.req[r].phase = phase /\ u.req[r].plan = plan
           /\ \A p \in Requests \ {r} : u.req[p] = t.req[p]
  <1>1. PICK u : u = Become(t, r, phase, plan)
    OBVIOUS
  <1>2. /\ DOMAIN u = DOMAIN t /\ SameFetch(t, u) /\ SameStore(t, u) /\ u.node = t.node
        /\ DOMAIN u.req = Requests
    BY <1>1 DEF Become, Shape, SameFetch, SameStore
  <1>3. \A p \in Requests \ {r} : u.req[p] = t.req[p]
    BY <1>1 DEF Become, Shape
  <1>4. u.req[r].phase = phase /\ u.req[r].plan = plan /\ DOMAIN u.req[r] = DOMAIN t.req[r]
    BY <1>1 DEF Become, Shape
  <1>5. Shape(u)
    BY <1>2, <1>3, <1>4 DEF Shape
  <1>6. Bounded(u)
    BY <1>2, <1>3, <1>4 DEF Bounded
  <1> QED  BY <1>1, <1>2, <1>3, <1>4, <1>5, <1>6

\* A request gets a phase other than WaitingFetch.
LEMMA BecomeSettles ==
    ASSUME NEW t, Shape(t), Bounded(t), NEW r \in Requests, NEW phase, phase /= "fetch",
           NEW plan, IsSeq(plan)
    PROVE  Settled(t, Become(t, r, phase, plan), {r})
  <1>1. PICK u : u = Become(t, r, phase, plan)
    OBVIOUS
  <1>2. /\ Shape(u) /\ Bounded(u) /\ SameFetch(t, u) /\ SameStore(t, u)
        /\ u.req[r].phase = phase /\ u.req[r].plan = plan
        /\ \A p \in Requests \ {r} : u.req[p] = t.req[p]
    BY <1>1, BecomeFacts
  <1>3. Settled(t, u, {r})
    BY <1>2 DEF Settled
  <1> QED  BY <1>1, <1>3

\* The empty plan is a sequence.
LEMMA EmptyIsSeq == IsSeq(<<>>)
  <1>1. <<>> \in Seq({})
    OBVIOUS
  <1> QED  BY <1>1 DEF IsSeq

\* Requests that go cold stop waiting.
LEMMA GoColdSettles ==
    ASSUME NEW t, Shape(t), Bounded(t), NEW rs
    PROVE  Settled(t, GoCold(t, rs), rs)
  <1>1. PICK u : u = GoCold(t, rs)
    OBVIOUS
  <1>2. /\ DOMAIN u = DOMAIN t /\ SameFetch(t, u) /\ SameStore(t, u) /\ u.node = t.node
        /\ DOMAIN u.req = Requests
    BY <1>1 DEF GoCold, Shape, SameFetch, SameStore
  <1>3. \A p \in Requests \ rs : u.req[p] = t.req[p]
    BY <1>1 DEF GoCold, Shape
  <1>4. \A p \in Requests : p \in rs => /\ u.req[p].phase = "cold" /\ u.req[p].plan = <<>>
                                        /\ DOMAIN u.req[p] = DOMAIN t.req[p]
    BY <1>1 DEF GoCold, Shape
  <1>5. Shape(u)
    BY <1>2, <1>3, <1>4 DEF Shape
  <1>6. Bounded(u)
    BY <1>2, <1>3, <1>4, EmptyIsSeq DEF Bounded
  <1>7. Settled(t, u, rs)
    BY <1>2, <1>3, <1>4, <1>5, <1>6 DEF Settled
  <1> QED  BY <1>1, <1>7

\* fallback_to_cold_prefill: the pins are released and the requests stop waiting.
LEMMA FallbackSettles ==
    ASSUME NEW t, Shape(t), Bounded(t), NEW rs
    PROVE  Settled(t, fallback_to_cold_prefill(t, rs), rs)
  <1>1. PICK u : u = ReleasePlans(t, rs)
    OBVIOUS
  <1>2. Moved(t, u)
    BY <1>1, ReleasePlansMoves
  <1>3. Shape(u) /\ Bounded(u)
    BY <1>2 DEF Moved
  <1>4. Settled(u, GoCold(u, rs), rs)
    BY <1>3, GoColdSettles
  <1>5. Settled(t, GoCold(u, rs), rs)
    BY <1>2, <1>4, SettledAfter
  <1> QED  BY <1>1, <1>5 DEF fallback_to_cold_prefill

\* Blocks come back to the device under new ids.
LEMMA PromoteMoves ==
    ASSUME NEW t, Shape(t), Bounded(t), NEW plan, IsSeq(plan), NEW blocks, NEW copied
    PROVE  Moved(t, promote_fetched_prefix(t, plan, blocks, copied).t)
  <1> DEFINE fresh == NewIds(t, Len(plan))
             ids == [i \in DOMAIN plan |-> IF plan[i].src = "gpu" THEN plan[i].id ELSE fresh[i]]
             P == promote_fetched_prefix(t, plan, blocks, copied)
  <1>1. PICK n \in Nat : DOMAIN plan = 1..n
    BY SeqFacts
  <1>2. DOMAIN ids = 1..n
    BY <1>1
  <1>3. IsFiniteSet(DOMAIN ids)
    BY <1>2, FS_Interval
  <1>4. PICK w : w = Insert(t, ids)
    OBVIOUS
  <1>5. Moved(t, w)
    <2> HIDE DEF ids
    <2> QED  BY <1>3, <1>4, InsertMoves
  <1>6. Shape(w) /\ Bounded(w)
    BY <1>5 DEF Moved
  <1>7. PICK u : u = P.t
    OBVIOUS
  <1>8. \/ u = t
        \/ /\ DOMAIN u = DOMAIN w /\ SameFetch(w, u) /\ SameStore(w, u) /\ u.req = w.req
           /\ DOMAIN u.node = DOMAIN w.node
    <2>1. DOMAIN Insert(t, ids) = {"node", "live", "bytes", "disk", "fetchWaiting", "fetchDedupe",
              "fetchKeys", "prefetching", "storeWaiting", "storeDedupe", "storeKeys", "req"}
      BY <1>4, <1>6 DEF Shape
    <2>2. \/ u = t
          \/ /\ DOMAIN u = DOMAIN Insert(t, ids) /\ SameFetch(Insert(t, ids), u)
             /\ SameStore(Insert(t, ids), u) /\ u.req = Insert(t, ids).req
             /\ DOMAIN u.node = DOMAIN Insert(t, ids).node
      BY <1>7, <2>1 DEF promote_fetched_prefix, SameFetch, SameStore
    <2> QED  BY <1>4, <2>2
  <1> HIDE DEF P
  <1>9. ASSUME u = t PROVE Moved(t, u)
    <2>1. Moved(t, t)
      BY DEF Moved, SameFetch, SameStore
    <2> QED  BY <1>9, <2>1
  <1>10. ASSUME DOMAIN u = DOMAIN w, SameFetch(w, u), SameStore(w, u), u.req = w.req,
                DOMAIN u.node = DOMAIN w.node
         PROVE  Moved(t, u)
    <2>1. IsFiniteSet(DOMAIN u.node)
      BY <1>6, <1>10 DEF Bounded
    <2>2. Moved(w, u)
      BY <1>6, <1>10, <2>1, MovedBy
    <2> QED  BY <1>5, <2>2, MovedTrans
  <1>11. Moved(t, u)
    BY <1>8, <1>9, <1>10
  <1> QED  BY <1>7, <1>11 DEF P

\* The requests attach the promoted prefix or go cold.
LEMMA AdoptSettles ==
    ASSUME NEW t, Shape(t), Bounded(t), NEW rs
    PROVE  Settled(t, adopt_promoted_prefix(t, rs), rs)
  <1>1. PICK u : u = adopt_promoted_prefix(t, rs)
    OBVIOUS
  <1>2. DOMAIN u = DOMAIN t /\ SameFetch(t, u) /\ SameStore(t, u) /\ DOMAIN u.req = Requests
    BY <1>1 DEF adopt_promoted_prefix, Shape, SameFetch, SameStore
  <1>3. DOMAIN u.node = DOMAIN t.node
    BY <1>1 DEF adopt_promoted_prefix, Shape
  <1>4. \A r \in Requests \ rs : u.req[r] = t.req[r]
    BY <1>1 DEF adopt_promoted_prefix, Shape
  <1>5. ASSUME NEW r \in Requests, r \in rs
        PROVE  /\ u.req[r].phase /= "fetch" /\ IsSeq(u.req[r].plan)
               /\ DOMAIN u.req[r] = DOMAIN t.req[r]
    <2>1. PICK p : p = Path(t, Len(t.req[r].plan))
      OBVIOUS
    <2>2. PICK pl : pl = PlanOf(t, p)
      OBVIOUS
    <2>3. IsSeq(t.req[r].plan)
      BY DEF Bounded
    <2>4. PICK m \in Nat : m = Len(t.req[r].plan)
      BY <2>3, SeqFacts
    <2>5. IsSeq(p)
      BY <2>1, <2>4, PathIsSeq
    <2>6. IsSeq(pl)
      BY <2>2, <2>5, PlanOfIsSeq
    <2>7. \/ u.req[r] = [t.req[r] EXCEPT !.phase = "attached", !.plan = pl]
          \/ u.req[r] = [t.req[r] EXCEPT !.phase = "cold", !.plan = <<>>]
      BY <1>1, <1>5, <2>1, <2>2 DEF adopt_promoted_prefix, Shape
    <2>8. DOMAIN t.req[r] = {"phase", "plan", "closed"}
      BY DEF Shape
    <2>9. CASE u.req[r] = [t.req[r] EXCEPT !.phase = "attached", !.plan = pl]
      BY <2>6, <2>8, <2>9
    <2>10. CASE u.req[r] = [t.req[r] EXCEPT !.phase = "cold", !.plan = <<>>]
      BY <2>8, <2>10, EmptyIsSeq
    <2> QED  BY <2>7, <2>9, <2>10
  <1>6. Shape(u)
    BY <1>2, <1>4, <1>5 DEF Shape
  <1>7. Bounded(u)
    BY <1>3, <1>4, <1>5 DEF Bounded
  <1>8. Settled(t, u, rs)
    BY <1>2, <1>4, <1>5, <1>6, <1>7 DEF Settled
  <1> QED  BY <1>1, <1>8

\* No request changes.
LEMMA MovedSettles ==
    ASSUME NEW t, NEW u, Moved(t, u)
    PROVE  Settled(t, u, {})
  BY DEF Moved, Settled

\* The waiters of a fetch that succeeded.
LEMMA CompleteSettles ==
    ASSUME NEW t, Shape(t), Bounded(t), NEW ready \in Seq(Requests), NEW blocks, NEW copied
    PROVE  Settled(t, complete_ready_fetch_waiters(t, ready, blocks, copied), Range(ready))
  <1> DEFINE C == complete_ready_fetch_waiters(t, ready, blocks, copied)
             U == Unclaimed(blocks)
  <1>1. CASE ready = <<>>
    <2>1. C = ReleaseAll(t, U)
      BY <1>1, Zenon DEF complete_ready_fetch_waiters, release_unclaimed_fetch_regions
    <2>2. Range(ready) = {}
      BY <1>1 DEF Range
    <2>3. Settled(t, C, {})
      BY <2>1, ReleaseAllMoves, MovedSettles, Zenon
    <2> QED  BY <2>2, <2>3
  <1>2. CASE ready /= <<>>
    <2>1. PICK w : w = ReleasePlans(t, Range(ready))
      OBVIOUS
    <2>2. Moved(t, w)
      BY <2>1, ReleasePlansMoves
    <2>3. Shape(w) /\ Bounded(w)
      BY <2>2 DEF Moved
    <2>4. PICK plan : plan = t.req[ready[1]].plan
      OBVIOUS
    <2>5. ready[1] \in Requests
      BY <1>2
    <2>6. IsSeq(plan)
      BY <2>4, <2>5 DEF Bounded
    <2>7. PICK p : p = promote_fetched_prefix(w, plan, blocks, copied)
      OBVIOUS
    <2>8. Moved(w, p.t)
      BY <2>3, <2>6, <2>7, PromoteMoves
    <2>9. PICK v : v = p.t
      OBVIOUS
    <2>10. Moved(t, v)
      BY <2>2, <2>8, <2>9, MovedTrans
    <2>11. Shape(v) /\ Bounded(v)
      BY <2>10 DEF Moved
    <2>12. PICK x : x = IF p.ok THEN adopt_promoted_prefix(v, Range(ready)) ELSE GoCold(v, Range(ready))
      OBVIOUS
    <2>13. Settled(v, x, Range(ready))
      <3>1. CASE p.ok
        BY <2>11, <2>12, <3>1, AdoptSettles
      <3>2. CASE ~p.ok
        BY <2>11, <2>12, <3>2, GoColdSettles
      <3> QED  BY <3>1, <3>2
    <2>14. Settled(t, x, Range(ready))
      BY <2>10, <2>13, SettledAfter
    <2>15. Shape(x) /\ Bounded(x)
      BY <2>14 DEF Settled
    <2>16. C = ReleaseAll(x, U)
      BY <1>2, <2>1, <2>4, <2>7, <2>9, <2>12, Zenon
      DEF complete_ready_fetch_waiters, release_unclaimed_fetch_regions
    <2>17. PICK y : y = ReleaseAll(x, U)
      OBVIOUS
    <2>18. Moved(x, y)
      BY <2>15, <2>17, ReleaseAllMoves
    <2>19. Settled(t, y, Range(ready))
      BY <2>14, <2>18, SettledBefore
    <2> QED  BY <2>16, <2>17, <2>19
  <1> QED  BY <1>1, <1>2

\* Blocks that a prefetch brought to the host.
LEMMA MaterializeMoves ==
    ASSUME NEW t, Shape(t), Bounded(t), NEW blocks
    PROVE  Moved(t, materialize_prefetched_host_blocks(t, blocks))
  <1>1. PICK u : u = materialize_prefetched_host_blocks(t, blocks)
    OBVIOUS
  <1>2. DOMAIN u = DOMAIN t /\ SameFetch(t, u) /\ SameStore(t, u) /\ u.req = t.req
    BY <1>1 DEF materialize_prefetched_host_blocks, ReleaseAll, Shape, SameFetch, SameStore
  <1>3. DOMAIN u.node = DOMAIN t.node
    BY <1>1 DEF materialize_prefetched_host_blocks, ReleaseAll, Shape
  <1>4. IsFiniteSet(DOMAIN u.node)
    BY <1>3 DEF Bounded
  <1> QED  BY <1>1, <1>2, <1>4, MovedBy

\* demote_block_to_host moves blocks only.
LEMMA DemoteMoves ==
    ASSUME NEW t, Shape(t), Bounded(t), NEW b
    PROVE  Moved(t, demote_block_to_host(t, b))
  <1>1. PICK u : u = demote_block_to_host(t, b)
    OBVIOUS
  <1>2. DOMAIN u = DOMAIN t /\ SameFetch(t, u) /\ SameStore(t, u) /\ u.req = t.req
    BY <1>1 DEF demote_block_to_host, Reserve, Shape, SameFetch, SameStore
  <1>3. PICK h : DOMAIN u.node = (DOMAIN t.node \ {b}) \cup {h}
    BY <1>1 DEF demote_block_to_host, Reserve, Put, Drop, Shape
  <1>4. IsFiniteSet(DOMAIN t.node \ {b})
    BY FS_Difference DEF Bounded
  <1>5. IsFiniteSet(DOMAIN u.node)
    BY <1>3, <1>4, FS_AddElement
  <1> QED  BY <1>1, <1>2, <1>5, MovedBy

\* publish_to_prefix_cache moves blocks only.
LEMMA PublishMoves ==
    ASSUME NEW t, Shape(t), Bounded(t), NEW r \in Requests, NEW plan
    PROVE  Moved(t, publish_to_prefix_cache(t, r, plan))
  <1> DEFINE fresh == NewIds(t, Want[r])
             ids == [i \in 1..Want[r] |-> IF i <= Len(plan) THEN plan[i].id ELSE fresh[i]]
  <1>1. PICK n \in Nat : n = Want[r]
    BY ConstantsAssumption
  <1>2. DOMAIN ids = 1..n
    BY <1>1
  <1>3. IsFiniteSet(DOMAIN ids)
    BY <1>2, FS_Interval
  <1>4. PICK w : w = Insert(t, ids)
    OBVIOUS
  <1>5. Moved(t, w)
    <2> HIDE DEF ids
    <2> QED  BY <1>3, <1>4, InsertMoves
  <1>6. Shape(w) /\ Bounded(w)
    BY <1>5 DEF Moved
  <1>7. PICK u : u = publish_to_prefix_cache(t, r, plan)
    OBVIOUS
  <1>8. /\ DOMAIN u = DOMAIN w /\ SameFetch(w, u) /\ SameStore(w, u) /\ u.req = w.req
        /\ DOMAIN u.node = DOMAIN w.node
    <2>1. DOMAIN Insert(t, ids) = {"node", "live", "bytes", "disk", "fetchWaiting", "fetchDedupe",
              "fetchKeys", "prefetching", "storeWaiting", "storeDedupe", "storeKeys", "req"}
      BY <1>4, <1>6 DEF Shape
    <2>2. /\ DOMAIN u = DOMAIN Insert(t, ids) /\ SameFetch(Insert(t, ids), u)
          /\ SameStore(Insert(t, ids), u) /\ u.req = Insert(t, ids).req
          /\ DOMAIN u.node = DOMAIN Insert(t, ids).node
      BY <1>7, <2>1 DEF publish_to_prefix_cache, SameFetch, SameStore
    <2> QED  BY <1>4, <2>2
  <1>9. IsFiniteSet(DOMAIN u.node)
    BY <1>6, <1>8 DEF Bounded
  <1>10. Moved(w, u)
    BY <1>6, <1>8, <1>9, MovedBy
  <1> QED  BY <1>5, <1>7, <1>10, MovedTrans

------------------------------------------------------------------------------
(* The invariant *)

\* The events that answer a fetch, and those that answer a store.
FetchAnswers == {"fetched", "fetch failed"}
StoreAnswers == {"stored", "store failed"}

\* A key leads to its ticket and back.
Paired(keys, dedupe) ==
    /\ \A k \in DOMAIN keys : keys[k] \in DOMAIN dedupe /\ dedupe[keys[k]] = k
    /\ \A x \in DOMAIN dedupe : dedupe[x] \in DOMAIN keys /\ keys[dedupe[x]] = x

\* The fetch tables agree, the tickets ks being wanted by nobody yet.
FetchInv(t, ks) ==
    /\ Paired(t.fetchKeys, t.fetchDedupe)
    /\ DOMAIN t.fetchWaiting \cup t.prefetching \cup ks = DOMAIN t.fetchKeys
    /\ \A k \in DOMAIN t.fetchWaiting : /\ t.fetchWaiting[k] \in Seq(Requests)
                                        /\ t.fetchWaiting[k] /= <<>>

\* No request is listed twice.
OneEntry(fw) ==
    \A k, l \in DOMAIN fw : \A i \in DOMAIN fw[k], j \in DOMAIN fw[l] :
      fw[k][i] = fw[l][j] => k = l /\ i = j

\* A request waits where its plan says, and once; the requests rs are listed nowhere.
WaitInv(t, rs) ==
    /\ \A k \in DOMAIN t.fetchWaiting : \A i \in DOMAIN t.fetchWaiting[k] :
         /\ t.fetchWaiting[k][i] \notin rs
         /\ t.req[t.fetchWaiting[k][i]].phase = "fetch"
         /\ t.fetchKeys[k] = fetch_key(t.req[t.fetchWaiting[k][i]].plan)
    /\ OneEntry(t.fetchWaiting)
    /\ \A r \in Requests \ rs : t.req[r].phase = "fetch" =>
         \E k \in DOMAIN t.fetchWaiting : \E i \in DOMAIN t.fetchWaiting[k] :
           t.fetchWaiting[k][i] = r

\* No block waits on two stores.
OneId(sw) ==
    \A k, l \in DOMAIN sw : \A i \in DOMAIN sw[k], j \in DOMAIN sw[l] :
      sw[k][i].id = sw[l][j].id => k = l /\ i = j

\* The store tables agree.
StoreInv(t) ==
    /\ DOMAIN t.storeWaiting = DOMAIN t.storeKeys
    /\ Paired(t.storeKeys, t.storeDedupe)
    /\ \A k \in DOMAIN t.storeWaiting : IsSeq(t.storeWaiting[k])
    /\ OneId(t.storeWaiting)

\* A tracked ticket is in flight, as a fetch or as a store.
Air(t, q, ev) ==
    /\ Flight(q, ev)
    /\ \A k \in DOMAIN t.fetchKeys : Flies(q, ev, k, "fetch", FetchAnswers)
    /\ \A k \in DOMAIN t.storeKeys : Flies(q, ev, k, "store", StoreAnswers)

\* The tables agree, but for the tickets ks and the requests rs.
Tables(t, ks, rs) == Shape(t) /\ Bounded(t) /\ FetchInv(t, ks) /\ WaitInv(t, rs) /\ StoreInv(t)

\* The inductive invariant.
TierInv == Tables(s, {}, {}) /\ Air(s, cmds, events)

\* The requests that were listed nowhere stop waiting.
LEMMA SettledKeeps ==
    ASSUME NEW t, NEW u, NEW rs, Tables(t, {}, rs), Settled(t, u, rs)
    PROVE  Tables(u, {}, {}) /\ u.fetchKeys = t.fetchKeys /\ u.storeKeys = t.storeKeys
  <1>1. SameFetch(t, u) /\ SameStore(t, u) /\ Shape(u) /\ Bounded(u)
    BY DEF Settled
  <1>2. FetchInv(u, {})
    BY <1>1 DEF Tables, FetchInv, SameFetch
  <1>3. StoreInv(u)
    BY <1>1, Zenon DEF Tables, StoreInv, SameStore
  <1>4. PICK fw, fk : fw = t.fetchWaiting /\ fk = t.fetchKeys
    OBVIOUS
  <1>5. u.fetchWaiting = fw /\ u.fetchKeys = fk
    BY <1>1, <1>4 DEF SameFetch
  <1>6. ASSUME NEW k \in DOMAIN fw, NEW i \in DOMAIN fw[k]
        PROVE  /\ fw[k][i] \notin {} /\ u.req[fw[k][i]].phase = "fetch"
               /\ fk[k] = fetch_key(u.req[fw[k][i]].plan)
    <2>1. PICK r : r = fw[k][i]
      OBVIOUS
    <2>2. r \notin rs /\ t.req[r].phase = "fetch" /\ fk[k] = fetch_key(t.req[r].plan)
      BY <1>4, <2>1 DEF Tables, WaitInv
    <2>3. fw[k] \in Seq(Requests)
      BY <1>4 DEF Tables, FetchInv
    <2>4. r \in Requests
      BY <2>1, <2>3
    <2>5. u.req[r].phase = t.req[r].phase /\ u.req[r].plan = t.req[r].plan
      BY <2>2, <2>4 DEF Settled
    <2> QED  BY <2>1, <2>2, <2>5
  <1>7. OneEntry(fw)
    BY <1>4, Zenon DEF Tables, WaitInv
  <1>8. ASSUME NEW r \in Requests, u.req[r].phase = "fetch"
        PROVE  \E k \in DOMAIN fw : \E i \in DOMAIN fw[k] : fw[k][i] = r
    <2>1. r \notin rs
      BY <1>8 DEF Settled
    <2>2. t.req[r].phase = "fetch"
      BY <1>8, <2>1 DEF Settled
    <2> QED  BY <1>4, <2>1, <2>2 DEF Tables, WaitInv
  <1>9. WaitInv(u, {})
    BY <1>5, <1>6, <1>7, <1>8 DEF WaitInv
  <1> QED  BY <1>1, <1>2, <1>3, <1>9 DEF Tables, SameFetch, SameStore

\* A request that does not wait is listed nowhere.
LEMMA NotListed ==
    ASSUME NEW t, NEW ks, Tables(t, ks, {}), NEW r, t.req[r].phase /= "fetch"
    PROVE  Tables(t, ks, {r})
  <1>1. WaitInv(t, {r})
    BY DEF Tables, WaitInv
  <1> QED  BY <1>1 DEF Tables

\* One request moves on.
LEMMA OneSettles ==
    ASSUME NEW t, NEW u, NEW r, Tables(t, {}, {}), t.req[r].phase /= "fetch", Settled(t, u, {r})
    PROVE  Tables(u, {}, {}) /\ u.fetchKeys = t.fetchKeys /\ u.storeKeys = t.storeKeys
  BY NotListed, SettledKeeps

\* A step that moves blocks only keeps the tables in agreement.
LEMMA MovedKeeps ==
    ASSUME NEW t, NEW u, Tables(t, {}, {}), Moved(t, u)
    PROVE  Tables(u, {}, {}) /\ u.fetchKeys = t.fetchKeys /\ u.storeKeys = t.storeKeys
  BY MovedSettles, SettledKeeps

------------------------------------------------------------------------------
(* Fetch tickets *)

\* A new key and its ticket.
LEMMA PairedPut ==
    ASSUME NEW K, NEW D, Paired(K, D), NEW k, k \notin DOMAIN K, NEW x, x \notin DOMAIN D
    PROVE  Paired(Put(K, k, x), Put(D, x, k))
  <1>1. PICK A, B : A = Put(K, k, x) /\ B = Put(D, x, k)
    OBVIOUS
  <1>2. DOMAIN A = DOMAIN K \cup {k} /\ A[k] = x /\ \A y \in DOMAIN K : y /= k => A[y] = K[y]
    BY <1>1 DEF Put
  <1>3. DOMAIN B = DOMAIN D \cup {x} /\ B[x] = k /\ \A y \in DOMAIN D : y /= x => B[y] = D[y]
    BY <1>1 DEF Put
  <1>4. Paired(A, B)
    BY <1>2, <1>3 DEF Paired
  <1> QED  BY <1>1, <1>4

\* Tickets are forgotten with their keys.
LEMMA PairedDrop ==
    ASSUME NEW K, NEW D, Paired(K, D), NEW dead, NEW xs,
           \A k \in DOMAIN K : K[k] \in xs <=> k \in dead
    PROVE  Paired(Drop(K, dead), Drop(D, xs))
  <1>1. PICK A, B : A = Drop(K, dead) /\ B = Drop(D, xs)
    OBVIOUS
  <1>2. DOMAIN A = DOMAIN K \ dead /\ \A y \in DOMAIN K \ dead : A[y] = K[y]
    BY <1>1 DEF Drop
  <1>3. DOMAIN B = DOMAIN D \ xs /\ \A y \in DOMAIN D \ xs : B[y] = D[y]
    BY <1>1 DEF Drop
  <1>4. ASSUME NEW k \in DOMAIN A PROVE A[k] \in DOMAIN B /\ B[A[k]] = k
    BY <1>2, <1>3 DEF Paired
  <1>5. ASSUME NEW x \in DOMAIN B PROVE B[x] \in DOMAIN A /\ A[B[x]] = x
    BY <1>2, <1>3 DEF Paired
  <1>6. Paired(A, B)
    BY <1>4, <1>5 DEF Paired
  <1> QED  BY <1>1, <1>6

\* A ticket that was not tracked is forgotten.
LEMMA PairedForget ==
    ASSUME NEW K, NEW D, Paired(K, D), NEW k
    PROVE  Paired(Drop(K, {k}), IF k \in DOMAIN K THEN Drop(D, {K[k]}) ELSE D)
  <1>1. CASE k \in DOMAIN K
    <2>1. \A l \in DOMAIN K : K[l] \in {K[k]} <=> l \in {k}
      BY <1>1 DEF Paired
    <2> QED  BY <1>1, <2>1, PairedDrop
  <1>2. CASE k \notin DOMAIN K
    <2>1. PICK A : A = Drop(K, {k})
      OBVIOUS
    <2>2. DOMAIN A = DOMAIN K /\ \A y \in DOMAIN K : A[y] = K[y]
      BY <1>2, <2>1 DEF Drop
    <2>3. Paired(A, D)
      BY <2>2 DEF Paired
    <2> QED  BY <1>2, <2>1, <2>3
  <1> QED  BY <1>1, <1>2

\* Neither the key nor the ticket is in use.
FreshFetch(t, key, k) == key \notin DOMAIN t.fetchDedupe /\ k \notin DOMAIN t.fetchKeys

\* The ticket k fetches key and nobody waits for it yet.
NewFetch(t, u, key, k, rs) ==
    /\ Tables(u, {k}, rs) /\ u.req = t.req /\ u.storeKeys = t.storeKeys
    /\ DOMAIN u.fetchKeys = DOMAIN t.fetchKeys \cup {k} /\ u.fetchKeys[k] = key

\* A new fetch is tracked.
LEMMA TrackKeeps ==
    ASSUME NEW t, NEW rs, Tables(t, {}, rs), NEW key, NEW k, FreshFetch(t, key, k),
           NEW u, u = TrackFetch(t, key, k)
    PROVE  NewFetch(t, u, key, k, rs)
  <1> key \notin DOMAIN t.fetchDedupe /\ k \notin DOMAIN t.fetchKeys
    BY DEF FreshFetch
  <1>1. u = TrackFetch(t, key, k)
    OBVIOUS
  <1>2. Shape(t)
    BY DEF Tables
  <1>3. /\ DOMAIN u = DOMAIN t /\ u.node = t.node /\ u.req = t.req /\ SameStore(t, u)
        /\ u.fetchWaiting = t.fetchWaiting /\ u.prefetching = t.prefetching
        /\ u.fetchKeys = Put(t.fetchKeys, k, key) /\ u.fetchDedupe = Put(t.fetchDedupe, key, k)
    BY <1>1, <1>2 DEF TrackFetch, Shape, SameStore
  <1>4. Shape(u) /\ Bounded(u)
    BY <1>3, Zenon DEF Tables, Shape, Bounded
  <1>5. StoreInv(u)
    BY <1>3, Zenon DEF Tables, StoreInv, SameStore
  <1>6. /\ DOMAIN u.fetchKeys = DOMAIN t.fetchKeys \cup {k} /\ u.fetchKeys[k] = key
        /\ \A y \in DOMAIN t.fetchKeys : y /= k => u.fetchKeys[y] = t.fetchKeys[y]
    BY <1>3 DEF Put
  <1>7. Paired(u.fetchKeys, u.fetchDedupe)
    BY <1>3, PairedPut DEF Tables, FetchInv
  <1>8. DOMAIN t.fetchWaiting \cup t.prefetching \cup {} = DOMAIN t.fetchKeys
    BY DEF Tables, FetchInv
  <1>9. FetchInv(u, {k})
    <2>1. DOMAIN u.fetchWaiting \cup u.prefetching \cup {k} = DOMAIN u.fetchKeys
      BY <1>3, <1>6, <1>8
    <2> QED  BY <1>3, <1>7, <2>1 DEF Tables, FetchInv
  <1>10. WaitInv(u, rs)
    <2>1. \A l \in DOMAIN t.fetchWaiting : u.fetchKeys[l] = t.fetchKeys[l]
      BY <1>6, <1>8
    <2> QED  BY <1>3, <2>1 DEF Tables, WaitInv
  <1> QED  BY <1>1, <1>3, <1>4, <1>5, <1>6, <1>9, <1>10 DEF Tables, SameStore, NewFetch

\* A prefetch wants the new ticket.
LEMMA PrefetchKeeps ==
    ASSUME NEW t, NEW rs, NEW k, Tables(t, {k}, rs)
    PROVE  LET u == [t EXCEPT !.prefetching = @ \cup {k}] IN
           Tables(u, {}, rs) /\ u.fetchKeys = t.fetchKeys /\ u.storeKeys = t.storeKeys
  <1>1. PICK u : u = [t EXCEPT !.prefetching = @ \cup {k}]
    OBVIOUS
  <1>2. Shape(t)
    BY DEF Tables
  <1>3. /\ DOMAIN u = DOMAIN t /\ u.node = t.node /\ u.req = t.req /\ SameStore(t, u)
        /\ u.fetchWaiting = t.fetchWaiting /\ u.prefetching = t.prefetching \cup {k}
        /\ u.fetchKeys = t.fetchKeys /\ u.fetchDedupe = t.fetchDedupe
    BY <1>1, <1>2 DEF Shape, SameStore
  <1>4. Shape(u) /\ Bounded(u)
    BY <1>3, Zenon DEF Tables, Shape, Bounded
  <1>5. StoreInv(u)
    BY <1>3, Zenon DEF Tables, StoreInv, SameStore
  <1>6. FetchInv(u, {})
    <2>1. DOMAIN u.fetchWaiting \cup u.prefetching \cup {} = DOMAIN u.fetchKeys
      BY <1>3 DEF Tables, FetchInv
    <2> QED  BY <1>3, <2>1 DEF Tables, FetchInv
  <1>7. WaitInv(u, rs)
    BY <1>3 DEF Tables, WaitInv
  <1> QED  BY <1>1, <1>3, <1>4, <1>5, <1>6, <1>7 DEF Tables, SameStore

\* A request joins a tracked fetch of the key of its plan.
LEMMA JoinKeeps ==
    ASSUME NEW t, NEW r \in Requests, NEW k, NEW ks \in SUBSET {k}, Tables(t, ks, {r}),
           k \in DOMAIN t.fetchKeys, t.req[r].phase = "fetch",
           t.fetchKeys[k] = fetch_key(t.req[r].plan)
    PROVE  LET u == JoinFetch(t, k, r) IN
           Tables(u, {}, {}) /\ u.fetchKeys = t.fetchKeys /\ u.storeKeys = t.storeKeys
  <1>1. PICK u : u = JoinFetch(t, k, r)
    OBVIOUS
  <1>2. Shape(t)
    BY DEF Tables
  <1>3. PICK W : W = WaitersOf(t, k)
    OBVIOUS
  <1>4. PICK V : V = Append(W, r)
    OBVIOUS
  <1>5. /\ DOMAIN u = DOMAIN t /\ u.node = t.node /\ u.req = t.req /\ SameStore(t, u)
        /\ u.prefetching = t.prefetching /\ u.fetchKeys = t.fetchKeys
        /\ u.fetchDedupe = t.fetchDedupe /\ u.fetchWaiting = Put(t.fetchWaiting, k, V)
    BY <1>1, <1>2, <1>3, <1>4 DEF JoinFetch, Shape, SameStore
  <1>6. Shape(u) /\ Bounded(u)
    BY <1>5, Zenon DEF Tables, Shape, Bounded
  <1>7. StoreInv(u)
    BY <1>5, Zenon DEF Tables, StoreInv, SameStore
  <1>8. PICK fw, gw : fw = t.fetchWaiting /\ gw = u.fetchWaiting
    OBVIOUS
  <1>9. DOMAIN gw = DOMAIN fw \cup {k} /\ gw[k] = V /\ \A y \in DOMAIN fw : y /= k => gw[y] = fw[y]
    BY <1>5, <1>8 DEF Put
  <1>10. \/ k \in DOMAIN fw /\ W = fw[k]
         \/ k \notin DOMAIN fw /\ W = <<>>
    BY <1>3, <1>8 DEF WaitersOf
  <1>11. \A l \in DOMAIN fw : fw[l] \in Seq(Requests) /\ fw[l] /= <<>>
    BY <1>8 DEF Tables, FetchInv
  <1>12. W \in Seq(Requests)
    <2>1. <<>> \in Seq(Requests)
      OBVIOUS
    <2> QED  BY <1>10, <1>11, <2>1, Zenon
  <1>13. PICK n \in Nat : n = Len(W) /\ DOMAIN W = 1..n
    BY <1>12
  <1>14. V \in Seq(Requests) /\ Len(V) = n + 1 /\ DOMAIN V = 1..n + 1 /\ V[n + 1] = r
    BY <1>4, <1>12, <1>13
  <1>15. \A i \in 1..n : V[i] = W[i]
    BY <1>4, <1>12, <1>13
  <1>16. V /= <<>>
    BY <1>14
  <1>17. FetchInv(u, {})
    <2>1. Paired(u.fetchKeys, u.fetchDedupe)
      BY <1>5 DEF Tables, FetchInv
    <2>2. DOMAIN fw \cup t.prefetching \cup ks = DOMAIN t.fetchKeys
      BY <1>8 DEF Tables, FetchInv
    <2>3. DOMAIN gw \cup u.prefetching \cup {} = DOMAIN u.fetchKeys
      BY <1>5, <1>9, <2>2
    <2>4. ASSUME NEW l \in DOMAIN gw PROVE gw[l] \in Seq(Requests) /\ gw[l] /= <<>>
      BY <1>9, <1>11, <1>14, <1>16
    <2> QED  BY <1>8, <2>1, <2>3, <2>4 DEF FetchInv
  <1>18. \A l \in DOMAIN fw : \A i \in DOMAIN fw[l] :
           /\ fw[l][i] \notin {r} /\ t.req[fw[l][i]].phase = "fetch"
           /\ t.fetchKeys[l] = fetch_key(t.req[fw[l][i]].plan)
    BY <1>8 DEF Tables, WaitInv
  <1>19. ASSUME NEW l \in DOMAIN gw, NEW i \in DOMAIN gw[l]
         PROVE  \/ l = k /\ i = n + 1 /\ gw[l][i] = r
                \/ l \in DOMAIN fw /\ i \in DOMAIN fw[l] /\ gw[l][i] = fw[l][i]
    <2>1. CASE l /= k
      BY <1>9, <2>1
    <2>2. CASE l = k /\ i = n + 1
      BY <1>9, <1>14, <2>2
    <2>3. CASE l = k /\ i /= n + 1
      <3>1. i \in 1..n
        BY <1>9, <1>14, <2>3
      <3>2. W = fw[k] /\ k \in DOMAIN fw
        BY <1>10, <1>13, <3>1
      <3> QED  BY <1>9, <1>13, <1>15, <2>3, <3>1, <3>2
    <2> QED  BY <2>1, <2>2, <2>3
  <1>20. ASSUME NEW l \in DOMAIN fw, NEW i \in DOMAIN fw[l]
         PROVE  l \in DOMAIN gw /\ i \in DOMAIN gw[l] /\ gw[l][i] = fw[l][i]
    <2>1. CASE l /= k
      BY <1>9, <2>1
    <2>2. CASE l = k
      <3>1. W = fw[k]
        BY <1>10, <2>2
      <3>2. i \in 1..n /\ i \in 1..n + 1
        BY <1>13, <2>2, <3>1
      <3> QED  BY <1>9, <1>14, <1>15, <2>2, <3>1, <3>2
    <2> QED  BY <2>1, <2>2
  <1>21. OneEntry(gw)
    <2>1. OneEntry(fw)
      BY <1>8 DEF Tables, WaitInv
    <2>2. ASSUME NEW l \in DOMAIN gw, NEW m \in DOMAIN gw, NEW i \in DOMAIN gw[l],
                 NEW j \in DOMAIN gw[m], gw[l][i] = gw[m][j]
          PROVE  l = m /\ i = j
      BY <1>18, <1>19, <2>1, <2>2 DEF OneEntry
    <2> QED  BY <2>2 DEF OneEntry
  <1>22. WaitInv(u, {})
    <2>1. ASSUME NEW l \in DOMAIN gw, NEW i \in DOMAIN gw[l]
          PROVE  /\ gw[l][i] \notin {} /\ t.req[gw[l][i]].phase = "fetch"
                 /\ t.fetchKeys[l] = fetch_key(t.req[gw[l][i]].plan)
      BY <1>18, <1>19
    <2>2. ASSUME NEW p \in Requests, t.req[p].phase = "fetch"
          PROVE  \E l \in DOMAIN gw : \E i \in DOMAIN gw[l] : gw[l][i] = p
      <3>1. CASE p = r
        <4>1. k \in DOMAIN gw /\ n + 1 \in DOMAIN gw[k] /\ gw[k][n + 1] = r
          BY <1>9, <1>14
        <4> QED  BY <3>1, <4>1
      <3>2. CASE p /= r
        <4>1. \E l \in DOMAIN fw : \E i \in DOMAIN fw[l] : fw[l][i] = p
          BY <1>8, <2>2, <3>2 DEF Tables, WaitInv
        <4> QED  BY <1>20, <4>1
      <3> QED  BY <3>1, <3>2
    <2> QED  BY <1>5, <1>8, <1>21, <2>1, <2>2 DEF WaitInv
  <1> QED  BY <1>1, <1>5, <1>6, <1>7, <1>17, <1>22 DEF Tables, SameStore

\* An answered ticket is forgotten: its waiters are listed nowhere.
LEMMA ForgetFetchKeeps ==
    ASSUME NEW t, Tables(t, {}, {}), NEW k
    PROVE  LET u == ForgetFetch(t, k)
               W == WaitersOf(t, k)
           IN  /\ Tables(u, {}, Range(W)) /\ u.req = t.req /\ u.storeKeys = t.storeKeys
               /\ DOMAIN u.fetchKeys = DOMAIN t.fetchKeys \ {k}
               /\ W \in Seq(Requests) /\ Once(W)
  <1>1. PICK u : u = ForgetFetch(t, k)
    OBVIOUS
  <1>2. Shape(t)
    BY DEF Tables
  <1>3. PICK W : W = WaitersOf(t, k)
    OBVIOUS
  <1>4. /\ DOMAIN u = DOMAIN t /\ u.node = t.node /\ u.req = t.req /\ SameStore(t, u)
        /\ u.prefetching = t.prefetching \ {k} /\ u.fetchWaiting = Drop(t.fetchWaiting, {k})
        /\ u.fetchKeys = Drop(t.fetchKeys, {k})
        /\ u.fetchDedupe = IF k \in DOMAIN t.fetchKeys
                           THEN Drop(t.fetchDedupe, {t.fetchKeys[k]}) ELSE t.fetchDedupe
    BY <1>1, <1>2 DEF ForgetFetch, Shape, SameStore
  <1>5. Shape(u) /\ Bounded(u)
    BY <1>4, Zenon DEF Tables, Shape, Bounded
  <1>6. StoreInv(u)
    BY <1>4, Zenon DEF Tables, StoreInv, SameStore
  <1>7. PICK fw, gw : fw = t.fetchWaiting /\ gw = u.fetchWaiting
    OBVIOUS
  <1>8. DOMAIN gw = DOMAIN fw \ {k} /\ \A y \in DOMAIN fw \ {k} : gw[y] = fw[y]
    BY <1>4, <1>7 DEF Drop
  <1>9. /\ DOMAIN u.fetchKeys = DOMAIN t.fetchKeys \ {k}
        /\ \A y \in DOMAIN t.fetchKeys \ {k} : u.fetchKeys[y] = t.fetchKeys[y]
    BY <1>4 DEF Drop
  <1>10. \/ k \in DOMAIN fw /\ W = fw[k]
         \/ k \notin DOMAIN fw /\ W = <<>>
    BY <1>3, <1>7 DEF WaitersOf
  <1>11. \A l \in DOMAIN fw : fw[l] \in Seq(Requests) /\ fw[l] /= <<>>
    BY <1>7 DEF Tables, FetchInv
  <1>12. W \in Seq(Requests)
    <2>1. <<>> \in Seq(Requests)
      OBVIOUS
    <2> QED  BY <1>10, <1>11, <2>1, Zenon
  <1>13. OneEntry(fw)
    BY <1>7 DEF Tables, WaitInv
  <1>14. Once(W)
    BY <1>10, <1>13 DEF Once, OneEntry
  <1>15. DOMAIN fw \cup t.prefetching \cup {} = DOMAIN t.fetchKeys
    BY <1>7 DEF Tables, FetchInv
  <1>16. FetchInv(u, {})
    <2>1. Paired(u.fetchKeys, u.fetchDedupe)
      <3>1. PICK K, D : K = t.fetchKeys /\ D = t.fetchDedupe
        OBVIOUS
      <3>2. Paired(K, D)
        BY <3>1 DEF Tables, FetchInv
      <3>3. Paired(Drop(K, {k}), IF k \in DOMAIN K THEN Drop(D, {K[k]}) ELSE D)
        BY <3>2, PairedForget
      <3> QED  BY <1>4, <3>1, <3>3, Zenon
    <2>2. DOMAIN gw \cup u.prefetching \cup {} = DOMAIN u.fetchKeys
      BY <1>4, <1>8, <1>9, <1>15
    <2>3. \A l \in DOMAIN gw : gw[l] \in Seq(Requests) /\ gw[l] /= <<>>
      BY <1>8, <1>11
    <2> QED  BY <1>7, <2>1, <2>2, <2>3 DEF FetchInv
  <1>17. WaitInv(u, Range(W))
    <2>1. ASSUME NEW l \in DOMAIN gw, NEW i \in DOMAIN gw[l]
          PROVE  /\ gw[l][i] \notin Range(W) /\ u.req[gw[l][i]].phase = "fetch"
                 /\ u.fetchKeys[l] = fetch_key(u.req[gw[l][i]].plan)
      <3>1. l \in DOMAIN fw /\ l /= k /\ gw[l] = fw[l] /\ i \in DOMAIN fw[l]
        BY <1>8
      <3>2. t.req[fw[l][i]].phase = "fetch" /\ t.fetchKeys[l] = fetch_key(t.req[fw[l][i]].plan)
        BY <1>7, <3>1 DEF Tables, WaitInv
      <3>3. u.fetchKeys[l] = t.fetchKeys[l]
        BY <1>9, <1>15, <3>1
      <3>4. fw[l][i] \notin Range(W)
        <4>1. ASSUME NEW j \in DOMAIN W, W[j] = fw[l][i] PROVE FALSE
          <5>1. k \in DOMAIN fw /\ W = fw[k]
            BY <1>10, <4>1
          <5> QED  BY <1>13, <3>1, <4>1, <5>1 DEF OneEntry
        <4> QED  BY <4>1 DEF Range
      <3> QED  BY <1>4, <3>1, <3>2, <3>3, <3>4
    <2>2. OneEntry(gw)
      BY <1>8, <1>13 DEF OneEntry
    <2>3. ASSUME NEW p \in Requests \ Range(W), u.req[p].phase = "fetch"
          PROVE  \E l \in DOMAIN gw : \E i \in DOMAIN gw[l] : gw[l][i] = p
      <3>1. PICK l \in DOMAIN fw : \E i \in DOMAIN fw[l] : fw[l][i] = p
        BY <1>4, <1>7, <2>3 DEF Tables, WaitInv
      <3>2. l /= k
        BY <1>10, <2>3, <3>1 DEF Range
      <3> QED  BY <1>8, <3>1, <3>2
    <2> QED  BY <1>7, <2>1, <2>2, <2>3 DEF WaitInv
  <1> QED  BY <1>1, <1>3, <1>4, <1>5, <1>6, <1>9, <1>12, <1>14, <1>16, <1>17 DEF Tables, SameStore

\* The lists without one request.
ClearedOf(t, r) == [k \in DOMAIN t.fetchWaiting |-> Keeping(t.fetchWaiting[k], Requests \ {r})]

\* A slot is cleared: its request is listed nowhere and tickets nobody wants are forgotten.
LEMMA ClearKeeps ==
    ASSUME NEW t, Tables(t, {}, {}), NEW r
    PROVE  LET c == clear_fetch_waiting_for_slot(t, r) IN
           /\ Tables(c.t, {}, {r}) /\ c.t.req = t.req /\ c.t.storeKeys = t.storeKeys
           /\ DOMAIN c.t.fetchKeys = DOMAIN t.fetchKeys \ c.cancel
           /\ c.cancel \subseteq DOMAIN t.fetchKeys
  <1>1. PICK c : c = clear_fetch_waiting_for_slot(t, r)
    OBVIOUS
  <1>2. PICK cw : cw = ClearedOf(t, r)
    OBVIOUS
  <1>3. PICK E : E = {k \in DOMAIN cw : cw[k] = <<>>}
    OBVIOUS
  <1>4. PICK dead : dead = E \ t.prefetching
    OBVIOUS
  <1>5. PICK xs : xs = {t.fetchKeys[k] : k \in dead}
    OBVIOUS
  <1>6. c = [t |-> [t EXCEPT !.fetchWaiting = Drop(cw, E),
                             !.fetchKeys = Drop(@, dead),
                             !.fetchDedupe = Drop(@, xs)],
             cancel |-> dead]
    BY <1>1, <1>2, <1>3, <1>4, <1>5, Zenon DEF clear_fetch_waiting_for_slot, ClearedOf
  <1>7. c.cancel = dead
    BY <1>6
  <1>8. PICK u : u = c.t
    OBVIOUS
  <1>9. Shape(t)
    BY DEF Tables
  <1>10. /\ DOMAIN u = DOMAIN t /\ u.node = t.node /\ u.req = t.req /\ SameStore(t, u)
         /\ u.prefetching = t.prefetching /\ u.fetchWaiting = Drop(cw, E)
         /\ u.fetchKeys = Drop(t.fetchKeys, dead) /\ u.fetchDedupe = Drop(t.fetchDedupe, xs)
    <2>1. u = [t EXCEPT !.fetchWaiting = Drop(cw, E), !.fetchKeys = Drop(@, dead),
                        !.fetchDedupe = Drop(@, xs)]
      BY <1>6, <1>8
    <2> QED  BY <1>9, <2>1 DEF Shape, SameStore
  <1>11. Shape(u) /\ Bounded(u)
    BY <1>10, Zenon DEF Tables, Shape, Bounded
  <1>12. StoreInv(u)
    BY <1>10, Zenon DEF Tables, StoreInv, SameStore
  <1>13. PICK fw, gw : fw = t.fetchWaiting /\ gw = u.fetchWaiting
    OBVIOUS
  <1>14. OneEntry(fw)
    BY <1>13 DEF Tables, WaitInv
  <1>15. DOMAIN cw = DOMAIN fw
    BY <1>2, <1>13 DEF ClearedOf
  <1>16. ASSUME NEW k \in DOMAIN fw
         PROVE  cw[k] \in Seq(Requests) /\ Once(cw[k]) /\ Range(cw[k]) = Range(fw[k]) \cap (Requests \ {r})
    <2>1. PICK q \in Seq(Requests) : q = fw[k]
      BY <1>13 DEF Tables, FetchInv
    <2>2. Once(q)
      BY <1>14, <2>1 DEF Once, OneEntry
    <2>3. PICK X : X = Requests \ {r}
      OBVIOUS
    <2>4. /\ Keeping(q, X) \in Seq(Requests) /\ Once(Keeping(q, X))
          /\ Range(Keeping(q, X)) = Range(q) \cap X
      BY <2>2, KeepingProps
    <2>5. cw[k] = Keeping(q, X)
      BY <1>2, <1>13, <2>1, <2>3 DEF ClearedOf
    <2> QED  BY <2>1, <2>3, <2>4, <2>5, Zenon
  <1>17. DOMAIN gw = DOMAIN fw \ E /\ \A k \in DOMAIN gw : gw[k] = cw[k] /\ k \in DOMAIN fw /\ k \notin E
    BY <1>10, <1>13, <1>15 DEF Drop
  <1>18. DOMAIN fw \cup t.prefetching \cup {} = DOMAIN t.fetchKeys
    BY <1>13 DEF Tables, FetchInv
  <1>19. E \subseteq DOMAIN fw /\ dead \subseteq DOMAIN t.fetchKeys
    BY <1>3, <1>4, <1>15, <1>18
  <1>20. /\ DOMAIN u.fetchKeys = DOMAIN t.fetchKeys \ dead
         /\ \A k \in DOMAIN t.fetchKeys \ dead : u.fetchKeys[k] = t.fetchKeys[k]
    BY <1>10 DEF Drop
  <1>21. FetchInv(u, {})
    <2>1. Paired(u.fetchKeys, u.fetchDedupe)
      <3>1. PICK K, D : K = t.fetchKeys /\ D = t.fetchDedupe
        OBVIOUS
      <3>2. Paired(K, D)
        BY <3>1 DEF Tables, FetchInv
      <3>3. \A k \in DOMAIN K : K[k] \in xs <=> k \in dead
        BY <1>5, <1>19, <3>1, <3>2 DEF Paired
      <3>4. Paired(Drop(K, dead), Drop(D, xs))
        BY <3>2, <3>3, PairedDrop
      <3> QED  BY <1>10, <3>1, <3>4, Zenon
    <2>2. DOMAIN gw \cup u.prefetching \cup {} = DOMAIN u.fetchKeys
      BY <1>4, <1>10, <1>17, <1>18, <1>19, <1>20
    <2>3. ASSUME NEW k \in DOMAIN gw PROVE gw[k] \in Seq(Requests) /\ gw[k] /= <<>>
      <3>1. gw[k] = cw[k] /\ k \in DOMAIN fw /\ k \notin E
        BY <1>17
      <3> QED  BY <1>3, <1>15, <1>16, <3>1
    <2> QED  BY <1>13, <2>1, <2>2, <2>3 DEF FetchInv
  <1>22. ASSUME NEW k \in DOMAIN gw, NEW i \in DOMAIN gw[k]
         PROVE  /\ k \in DOMAIN fw /\ gw[k][i] /= r /\ Once(gw[k])
                /\ \E j \in DOMAIN fw[k] : fw[k][j] = gw[k][i]
    <2>1. gw[k] = cw[k] /\ k \in DOMAIN fw
      BY <1>17
    <2>2. Once(cw[k]) /\ Range(cw[k]) = Range(fw[k]) \cap (Requests \ {r})
      BY <1>16, <2>1
    <2>3. gw[k][i] \in Range(cw[k])
      BY <2>1 DEF Range
    <2>4. gw[k][i] \in Range(fw[k]) /\ gw[k][i] /= r
      BY <2>2, <2>3
    <2>5. \E j \in DOMAIN fw[k] : fw[k][j] = gw[k][i]
      BY <2>4 DEF Range
    <2> QED  BY <2>1, <2>2, <2>4, <2>5
  <1>23. OneEntry(gw)
    <2>1. ASSUME NEW k \in DOMAIN gw, NEW l \in DOMAIN gw, NEW i \in DOMAIN gw[k],
                 NEW j \in DOMAIN gw[l], gw[k][i] = gw[l][j]
          PROVE  k = l /\ i = j
      <3>1. k \in DOMAIN fw /\ l \in DOMAIN fw /\ Once(gw[k])
        BY <1>22
      <3>2. PICK a \in DOMAIN fw[k] : fw[k][a] = gw[k][i]
        BY <1>22
      <3>3. PICK b \in DOMAIN fw[l] : fw[l][b] = gw[l][j]
        BY <1>22
      <3>4. k = l
        BY <1>14, <2>1, <3>1, <3>2, <3>3 DEF OneEntry
      <3> QED  BY <2>1, <3>1, <3>4 DEF Once
    <2> QED  BY <2>1 DEF OneEntry
  <1>24. WaitInv(u, {r})
    <2>1. ASSUME NEW k \in DOMAIN gw, NEW i \in DOMAIN gw[k]
          PROVE  /\ gw[k][i] \notin {r} /\ u.req[gw[k][i]].phase = "fetch"
                 /\ u.fetchKeys[k] = fetch_key(u.req[gw[k][i]].plan)
      <3>1. PICK j \in DOMAIN fw[k] : fw[k][j] = gw[k][i]
        BY <1>22
      <3>2. k \in DOMAIN fw /\ gw[k][i] /= r
        BY <1>22
      <3>3. t.req[fw[k][j]].phase = "fetch" /\ t.fetchKeys[k] = fetch_key(t.req[fw[k][j]].plan)
        BY <1>13, <3>2 DEF Tables, WaitInv
      <3>4. k \notin dead /\ k \in DOMAIN t.fetchKeys
        BY <1>4, <1>17, <1>18
      <3> QED  BY <1>10, <1>20, <3>1, <3>2, <3>3, <3>4
    <2>2. ASSUME NEW p \in Requests \ {r}, u.req[p].phase = "fetch"
          PROVE  \E k \in DOMAIN gw : \E i \in DOMAIN gw[k] : gw[k][i] = p
      <3>1. PICK k \in DOMAIN fw : \E i \in DOMAIN fw[k] : fw[k][i] = p
        BY <1>10, <1>13, <2>2 DEF Tables, WaitInv
      <3>2. p \in Range(fw[k])
        BY <3>1 DEF Range
      <3>3. p \in Range(cw[k])
        BY <1>16, <3>2
      <3>4. PICK i \in DOMAIN cw[k] : cw[k][i] = p
        BY <3>3 DEF Range
      <3>5. k \notin E
        BY <1>3, <3>4
      <3>6. k \in DOMAIN gw /\ gw[k] = cw[k]
        BY <1>17, <3>5
      <3> QED  BY <3>4, <3>6
    <2> QED  BY <1>13, <1>23, <2>1, <2>2 DEF WaitInv
  <1>25. Tables(u, {}, {r})
    BY <1>11, <1>12, <1>21, <1>24 DEF Tables
  <1>26. u.storeKeys = t.storeKeys
    BY <1>10 DEF SameStore
  <1> QED  BY <1>1, <1>7, <1>8, <1>10, <1>19, <1>20, <1>25, <1>26, Zenon

------------------------------------------------------------------------------
(* Store tickets *)

\* An answered store is forgotten.
LEMMA ForgetStoreKeeps ==
    ASSUME NEW t, Tables(t, {}, {}), NEW k
    PROVE  LET u == ForgetStore(t, k) IN
           /\ Tables(u, {}, {}) /\ u.fetchKeys = t.fetchKeys
           /\ DOMAIN u.storeKeys = DOMAIN t.storeKeys \ {k}
  <1>1. PICK u : u = ForgetStore(t, k)
    OBVIOUS
  <1>2. Shape(t)
    BY DEF Tables
  <1>3. /\ DOMAIN u = DOMAIN t /\ u.node = t.node /\ u.req = t.req /\ SameFetch(t, u)
        /\ u.storeWaiting = Drop(t.storeWaiting, {k}) /\ u.storeKeys = Drop(t.storeKeys, {k})
        /\ u.storeDedupe = IF k \in DOMAIN t.storeKeys
                           THEN Drop(t.storeDedupe, {t.storeKeys[k]}) ELSE t.storeDedupe
    BY <1>1, <1>2 DEF ForgetStore, Shape, SameFetch
  <1>4. Shape(u) /\ Bounded(u)
    BY <1>3, Zenon DEF Tables, Shape, Bounded
  <1>5. FetchInv(u, {})
    BY <1>3, Zenon DEF Tables, FetchInv, SameFetch
  <1>6. WaitInv(u, {})
    BY <1>3 DEF Tables, WaitInv, SameFetch
  <1>7. PICK sw, tw : sw = t.storeWaiting /\ tw = u.storeWaiting
    OBVIOUS
  <1>8. DOMAIN tw = DOMAIN sw \ {k} /\ \A l \in DOMAIN sw \ {k} : tw[l] = sw[l]
    BY <1>3, <1>7 DEF Drop
  <1>9. DOMAIN u.storeKeys = DOMAIN t.storeKeys \ {k}
    BY <1>3 DEF Drop
  <1>10. Paired(u.storeKeys, u.storeDedupe)
    <2>1. PICK K, D : K = t.storeKeys /\ D = t.storeDedupe
      OBVIOUS
    <2>2. Paired(K, D)
      BY <2>1 DEF Tables, StoreInv
    <2>3. Paired(Drop(K, {k}), IF k \in DOMAIN K THEN Drop(D, {K[k]}) ELSE D)
      BY <2>2, PairedForget
    <2> QED  BY <1>3, <2>1, <2>3, Zenon
  <1>11. OneId(sw) /\ DOMAIN sw = DOMAIN t.storeKeys /\ \A l \in DOMAIN sw : IsSeq(sw[l])
    BY <1>7 DEF Tables, StoreInv
  <1>12. OneId(tw)
    BY <1>8, <1>11 DEF OneId
  <1>13. StoreInv(u)
    BY <1>7, <1>8, <1>9, <1>10, <1>11, <1>12 DEF StoreInv
  <1> QED  BY <1>1, <1>3, <1>4, <1>5, <1>6, <1>9, <1>13 DEF Tables, SameFetch

\* What both ways to add a block to the stores leave alone.
LEMMA StoreAdds ==
    ASSUME NEW t, Tables(t, {}, {}), NEW u, DOMAIN u = DOMAIN t, u.node = t.node, u.req = t.req,
           SameFetch(t, u), StoreInv(u)
    PROVE  Tables(u, {}, {}) /\ u.fetchKeys = t.fetchKeys
  <1>1. Shape(u) /\ Bounded(u)
    BY Zenon DEF Tables, Shape, Bounded
  <1>2. FetchInv(u, {})
    BY Zenon DEF Tables, FetchInv, SameFetch
  <1>3. WaitInv(u, {})
    BY DEF Tables, WaitInv, SameFetch
  <1> QED  BY <1>1, <1>2, <1>3 DEF Tables, SameFetch

\* A block that is in no store joins the store of its fingerprint.
LEMMA StoreJoin ==
    ASSUME NEW t, Tables(t, {}, {}), NEW k, k \in DOMAIN t.storeKeys, NEW e, ~InStore(t, e.id)
    PROVE  LET u == [t EXCEPT !.storeWaiting[k] = Append(@, e)] IN
           Tables(u, {}, {}) /\ u.fetchKeys = t.fetchKeys /\ u.storeKeys = t.storeKeys
  <1>1. PICK u : u = [t EXCEPT !.storeWaiting[k] = Append(@, e)]
    OBVIOUS
  <1>2. Shape(t)
    BY DEF Tables
  <1>3. PICK sw, tw : sw = t.storeWaiting /\ tw = u.storeWaiting
    OBVIOUS
  <1>4. /\ OneId(sw) /\ DOMAIN sw = DOMAIN t.storeKeys /\ k \in DOMAIN sw
        /\ \A l \in DOMAIN sw : IsSeq(sw[l])
    BY <1>3 DEF Tables, StoreInv
  <1>5. PICK V : V = Append(sw[k], e)
    OBVIOUS
  <1>6. /\ DOMAIN u = DOMAIN t /\ u.node = t.node /\ u.req = t.req /\ SameFetch(t, u)
        /\ u.storeKeys = t.storeKeys /\ u.storeDedupe = t.storeDedupe
    BY <1>1, <1>2 DEF Shape, SameFetch
  <1>7. tw = [sw EXCEPT ![k] = V]
    BY <1>1, <1>2, <1>3, <1>5 DEF Shape
  <1>8. DOMAIN tw = DOMAIN sw /\ tw[k] = V /\ \A l \in DOMAIN sw \ {k} : tw[l] = sw[l]
    BY <1>4, <1>7
  <1>9. PICK n \in Nat : n = Len(sw[k]) /\ DOMAIN sw[k] = 1..n
    BY <1>4, SeqFacts
  <1>10. IsSeq(V) /\ DOMAIN V = 1..n + 1 /\ V[n + 1] = e /\ \A i \in 1..n : V[i] = sw[k][i]
    BY <1>4, <1>5, <1>9, SeqFacts
  <1>11. \A l \in DOMAIN sw : \A i \in DOMAIN sw[l] : sw[l][i].id /= e.id
    BY <1>3 DEF InStore, Range
  <1>12. ASSUME NEW l \in DOMAIN tw, NEW i \in DOMAIN tw[l]
         PROVE  \/ l = k /\ i = n + 1 /\ tw[l][i] = e
                \/ i \in DOMAIN sw[l] /\ tw[l][i] = sw[l][i]
    <2>1. CASE l /= k
      BY <1>8, <2>1
    <2>2. CASE l = k /\ i = n + 1
      BY <1>8, <1>10, <2>2
    <2>3. CASE l = k /\ i /= n + 1
      <3>1. i \in 1..n
        BY <1>8, <1>10, <2>3
      <3> QED  BY <1>8, <1>9, <1>10, <2>3, <3>1
    <2> QED  BY <2>1, <2>2, <2>3
  <1>13. OneId(tw)
    <2>1. ASSUME NEW l \in DOMAIN tw, NEW m \in DOMAIN tw, NEW i \in DOMAIN tw[l],
                 NEW j \in DOMAIN tw[m], tw[l][i].id = tw[m][j].id
          PROVE  l = m /\ i = j
      BY <1>4, <1>8, <1>11, <1>12, <2>1 DEF OneId
    <2> QED  BY <2>1 DEF OneId
  <1>14. \A l \in DOMAIN tw : IsSeq(tw[l])
    BY <1>4, <1>8, <1>10
  <1>15. Paired(u.storeKeys, u.storeDedupe)
    BY <1>6 DEF Tables, StoreInv
  <1>16. StoreInv(u)
    BY <1>3, <1>4, <1>6, <1>8, <1>13, <1>14, <1>15 DEF StoreInv
  <1>17. Tables(u, {}, {}) /\ u.fetchKeys = t.fetchKeys
    BY <1>6, <1>16, StoreAdds
  <1> QED  BY <1>1, <1>6, <1>17

\* Only the tables of the stores change, by the ticket k.
NewStore(t, u, k, fp, e) ==
    /\ DOMAIN u = DOMAIN t /\ u.node = t.node /\ u.req = t.req /\ SameFetch(t, u)
    /\ u.storeKeys = Put(t.storeKeys, k, fp) /\ u.storeDedupe = Put(t.storeDedupe, fp, k)
    /\ u.storeWaiting = Put(t.storeWaiting, k, <<e>>)

\* A block that is in no store, of a fingerprint that has none, gets a new ticket.
LEMMA StoreNew ==
    ASSUME NEW t, Tables(t, {}, {}), NEW k, k \notin DOMAIN t.storeKeys,
           NEW fp, fp \notin DOMAIN t.storeDedupe, NEW e, ~InStore(t, e.id),
           NEW u, NewStore(t, u, k, fp, e)
    PROVE  /\ Tables(u, {}, {}) /\ u.fetchKeys = t.fetchKeys
           /\ DOMAIN u.storeKeys = DOMAIN t.storeKeys \cup {k}
  <1>1. /\ DOMAIN u = DOMAIN t /\ u.node = t.node /\ u.req = t.req /\ SameFetch(t, u)
        /\ u.storeKeys = Put(t.storeKeys, k, fp) /\ u.storeDedupe = Put(t.storeDedupe, fp, k)
        /\ u.storeWaiting = Put(t.storeWaiting, k, <<e>>)
    BY DEF NewStore
  <1>3. PICK sw, tw : sw = t.storeWaiting /\ tw = u.storeWaiting
    OBVIOUS
  <1>4. /\ OneId(sw) /\ DOMAIN sw = DOMAIN t.storeKeys /\ \A l \in DOMAIN sw : IsSeq(sw[l])
        /\ Paired(t.storeKeys, t.storeDedupe)
    BY <1>3 DEF Tables, StoreInv
  <1>5. PICK V : V = <<e>>
    OBVIOUS
  <1>6. u.storeWaiting = Put(sw, k, V)
    BY <1>1, <1>3, <1>5
  <1>7. DOMAIN tw = DOMAIN sw \cup {k} /\ tw[k] = V /\ \A l \in DOMAIN sw : l /= k => tw[l] = sw[l]
    BY <1>3, <1>6 DEF Put
  <1>8. DOMAIN u.storeKeys = DOMAIN t.storeKeys \cup {k}
    BY <1>1 DEF Put
  <1>9. Paired(u.storeKeys, u.storeDedupe)
    BY <1>1, <1>4, PairedPut
  <1>10. DOMAIN V = {1} /\ V[1] = e /\ V \in Seq({e})
    BY <1>5
  <1>11. IsSeq(V)
    BY <1>10 DEF IsSeq
  <1>12. \A l \in DOMAIN sw : \A i \in DOMAIN sw[l] : sw[l][i].id /= e.id
    BY <1>3 DEF InStore, Range
  <1>13. OneId(tw)
    <2>1. ASSUME NEW l \in DOMAIN tw, NEW m \in DOMAIN tw, NEW i \in DOMAIN tw[l],
                 NEW j \in DOMAIN tw[m], tw[l][i].id = tw[m][j].id
          PROVE  l = m /\ i = j
      BY <1>4, <1>7, <1>10, <1>12, <2>1 DEF OneId
    <2> QED  BY <2>1 DEF OneId
  <1>14. \A l \in DOMAIN tw : IsSeq(tw[l])
    BY <1>4, <1>7, <1>11
  <1>15. StoreInv(u)
    BY <1>3, <1>4, <1>7, <1>8, <1>9, <1>13, <1>14 DEF StoreInv
  <1>16. Tables(u, {}, {}) /\ u.fetchKeys = t.fetchKeys
    BY <1>1, <1>15, StoreAdds
  <1> QED  BY <1>8, <1>16

------------------------------------------------------------------------------
(* Spilling *)

\* A tracked ticket is carried by a command or an event.
LEMMA AirCarries ==
    ASSUME NEW t, NEW q, NEW ev, Air(t, q, ev)
    PROVE  \A k \in Tracked(t) : Carries(q, k) \/ Carries(ev, k)
  <1>1. ASSUME NEW k, NEW ck, NEW eks, Flies(q, ev, k, ck, eks) PROVE Carries(q, k) \/ Carries(ev, k)
    BY <1>1 DEF Flies, Carries
  <1> QED  BY <1>1 DEF Air, Tracked

\* What is in flight depends on the tables of tickets only.
LEMMA AirSame ==
    ASSUME NEW t, NEW u, NEW q, NEW ev, Air(t, q, ev), u.fetchKeys = t.fetchKeys,
           u.storeKeys = t.storeKeys
    PROVE  Air(u, q, ev)
  BY Zenon DEF Air

\* The state of the loop that spills.
SpillInv(a) ==
    DOMAIN a = {"t", "q", "left", "room"} /\ Tables(a.t, {}, {}) /\ Air(a.t, a.q, events)

\* One candidate is spilled, joined to a store of its fingerprint, or passed over.
LEMMA SpillBlockKeeps ==
    ASSUME NEW a, SpillInv(a), NEW b
    PROVE  SpillInv(SpillBlock(a, b))
  <1>1. PICK t, q, ev : t = a.t /\ q = a.q /\ ev = events
    OBVIOUS
  <1>2. PICK n : n = t.node[b]
    OBVIOUS
  <1>3. PICK k : k = NewTicket(t, q)
    OBVIOUS
  <1>4. PICK m : m = SetStore(t, b, "busy")
    OBVIOUS
  <1>5. PICK e : e = [id |-> b, region |-> n.region]
    OBVIOUS
  <1>6. e.id = b
    BY <1>5
  <1>7. PICK p : p = Submitted(q, "store", k, <<[id |-> b, fp |-> n.fp, region |-> n.region]>>)
    OBVIOUS
  <1>8. PICK y : y = [m EXCEPT !.storeWaiting = Put(@, k, <<e>>), !.storeDedupe = Put(@, n.fp, k),
                               !.storeKeys = Put(@, k, n.fp)]
    OBVIOUS
  <1>9. PICK x : x = [m EXCEPT !.storeWaiting[t.storeDedupe[n.fp]] = Append(@, e)]
    OBVIOUS
  <1>10. SpillBlock(a, b) =
            IF a.left = 0 \/ InStore(t, b) THEN a
            ELSE IF n.fp \in DOMAIN t.storeDedupe
            THEN [a EXCEPT !.left = @ - 1, !.t = x]
            ELSE IF a.room = 0 \/ Len(q) >= QueueCap THEN [a EXCEPT !.left = 0]
            ELSE [left |-> a.left - 1, room |-> a.room - 1, t |-> y, q |-> p]
    BY <1>1, <1>2, <1>3, <1>4, <1>5, <1>7, <1>8, <1>9, Zenon DEF SpillBlock
  <1>11. PICK z : z = SpillBlock(a, b)
    OBVIOUS
  <1>12. DOMAIN a = {"t", "q", "left", "room"} /\ Tables(t, {}, {}) /\ Air(t, q, ev)
    BY <1>1 DEF SpillInv
  <1>13. Moved(t, m)
    BY <1>4, <1>12, SetStoreMoves DEF Tables
  <1>14. Tables(m, {}, {}) /\ m.fetchKeys = t.fetchKeys /\ m.storeKeys = t.storeKeys
    BY <1>12, <1>13, MovedKeeps
  <1>15. m.storeWaiting = t.storeWaiting /\ m.storeDedupe = t.storeDedupe
    BY <1>13 DEF Moved, SameStore
  <1>16. CASE a.left = 0 \/ InStore(t, b)
    BY <1>10, <1>16
  <1>17. CASE ~(a.left = 0 \/ InStore(t, b)) /\ n.fp \in DOMAIN t.storeDedupe
    <2>1. z = [a EXCEPT !.left = @ - 1, !.t = x]
      BY <1>10, <1>11, <1>17, Zenon
    <2>2. z.t = x /\ z.q = q /\ DOMAIN z = {"t", "q", "left", "room"}
      BY <1>1, <1>12, <2>1
    <2>3. PICK l : l = t.storeDedupe[n.fp]
      OBVIOUS
    <2>4. l \in DOMAIN m.storeKeys
      BY <1>12, <1>14, <1>17, <2>3 DEF Tables, StoreInv, Paired
    <2>5. ~InStore(m, e.id)
      BY <1>6, <1>15, <1>17 DEF InStore
    <2>6. x = [m EXCEPT !.storeWaiting[l] = Append(@, e)]
      BY <1>9, <2>3, Zenon
    <2>7. Tables(x, {}, {}) /\ x.fetchKeys = m.fetchKeys /\ x.storeKeys = m.storeKeys
      BY <1>14, <2>4, <2>5, <2>6, StoreJoin
    <2>8. Air(x, q, ev)
      BY <1>12, <1>14, <2>7, AirSame
    <2>9. SpillInv(z)
      BY <1>1, <2>2, <2>7, <2>8, Zenon DEF SpillInv
    <2> QED  BY <1>11, <2>9
  <1>18. CASE /\ ~(a.left = 0 \/ InStore(t, b)) /\ n.fp \notin DOMAIN t.storeDedupe
              /\ a.room = 0 \/ Len(q) >= QueueCap
    <2>1. z = [a EXCEPT !.left = 0]
      BY <1>10, <1>11, <1>18, Zenon
    <2>2. z.t = t /\ z.q = q /\ DOMAIN z = {"t", "q", "left", "room"}
      BY <1>1, <1>12, <2>1
    <2>3. SpillInv(z)
      BY <1>1, <1>12, <2>2, Zenon DEF SpillInv
    <2> QED  BY <1>11, <2>3
  <1>19. CASE /\ ~(a.left = 0 \/ InStore(t, b)) /\ n.fp \notin DOMAIN t.storeDedupe
              /\ ~(a.room = 0 \/ Len(q) >= QueueCap)
    <2>1. z = [left |-> a.left - 1, room |-> a.room - 1, t |-> y, q |-> p]
      BY <1>10, <1>11, <1>19, Zenon
    <2>2. z.t = y /\ z.q = p /\ DOMAIN z = {"t", "q", "left", "room"}
      BY <2>1
    <2>3. Flight(q, events)
      BY <1>1, <1>12 DEF Air
    <2>4. \A l \in Tracked(t) : Carries(q, l) \/ Carries(events, l)
      BY <1>1, <1>12, AirCarries
    <2>5. k \notin Tracked(t) /\ ~Carries(q, k) /\ ~Carries(ev, k)
      BY <1>1, <1>3, <2>3, <2>4, NewTicketFresh
    <2>6. k \notin DOMAIN m.storeKeys /\ n.fp \notin DOMAIN m.storeDedupe
      BY <1>14, <1>15, <1>19, <2>5 DEF Tracked
    <2>7. ~InStore(m, e.id)
      BY <1>6, <1>15, <1>19 DEF InStore
    <2>8. PICK fp : fp = n.fp
      OBVIOUS
    <2>9. /\ Tables(y, {}, {}) /\ y.fetchKeys = m.fetchKeys
          /\ DOMAIN y.storeKeys = DOMAIN m.storeKeys \cup {k}
      <3>1. Shape(m)
        BY <1>14 DEF Tables
      <3>2. /\ DOMAIN y = DOMAIN m /\ y.node = m.node /\ y.req = m.req /\ SameFetch(m, y)
            /\ y.storeKeys = Put(m.storeKeys, k, fp) /\ y.storeDedupe = Put(m.storeDedupe, fp, k)
            /\ y.storeWaiting = Put(m.storeWaiting, k, <<e>>)
        BY <1>8, <2>8, <3>1 DEF Shape, SameFetch
      <3>3. NewStore(m, y, k, fp, e)
        BY <3>2 DEF NewStore
      <3>4. k \notin DOMAIN m.storeKeys /\ fp \notin DOMAIN m.storeDedupe
        BY <2>6, <2>8
      <3> QED  BY <1>14, <2>7, <3>3, <3>4, StoreNew
    <2>10. Flight(q, ev)
      BY <1>12 DEF Air
    <2>11. "store" \in {"fetch", "store"}
      OBVIOUS
    <2>12. /\ Flight(p, ev)
           /\ \A l, ck, eks : Flies(q, ev, l, ck, eks) => Flies(p, ev, l, ck, eks)
           /\ \A eks : Flies(p, ev, k, "store", eks)
      BY <1>7, <2>5, <2>10, <2>11, FlightSubmit, Zenon
    <2>13. Air(y, p, ev)
      BY <1>12, <1>14, <2>9, <2>12 DEF Air
    <2>14. SpillInv(z)
      BY <1>1, <2>2, <2>9, <2>13, Zenon DEF SpillInv
    <2> QED  BY <1>11, <2>14
  <1> QED  BY <1>16, <1>17, <1>18, <1>19

\* One turn of the loop.
SpillStep(first, seq, f, i) == IF i = 0 THEN first ELSE SpillBlock(f[i - 1], seq[i])

\* The function the loop recurs with exists.
LEMMA SpillExists ==
    ASSUME NEW first, NEW seq, NEW n \in Nat
    PROVE  \E f : f = [i \in 0..n |-> SpillStep(first, seq, f, i)]
  <1> DEFINE To(m) == \E f : /\ f = [i \in 0..n |-> f[i]]
                             /\ \A i \in 0..m : f[i] = SpillStep(first, seq, f, i)
             I == {m \in 0..n : To(m)}
  <1>2. 0 \in I
    <2>1. PICK f : f = [i \in 0..n |-> first]
      OBVIOUS
    <2>2. \A i \in 0..0 : f[i] = SpillStep(first, seq, f, i)
      BY <2>1 DEF SpillStep
    <2>3. f = [i \in 0..n |-> f[i]]
      BY <2>1
    <2>4. To(0)
      BY <2>2, <2>3
    <2> QED  BY <2>4
  <1>3. ASSUME NEW m \in 1..n, m - 1 \in I PROVE m \in I
    <2>1. PICK f : f = [i \in 0..n |-> f[i]] /\ \A i \in 0..m - 1 : f[i] = SpillStep(first, seq, f, i)
      BY <1>3
    <2>2. PICK g : g = [i \in 0..n |-> IF i = m THEN SpillStep(first, seq, f, m) ELSE f[i]]
      OBVIOUS
    <2>3. ASSUME NEW i \in 0..m PROVE g[i] = SpillStep(first, seq, g, i)
      <3>1. i = 0 \/ g[i - 1] = f[i - 1]
        BY <2>2
      <3>2. SpillStep(first, seq, g, i) = SpillStep(first, seq, f, i)
        BY <3>1, Zenon DEF SpillStep
      <3>3. g[i] = SpillStep(first, seq, f, i)
        <4>1. CASE i = m
          BY <2>2, <4>1
        <4>2. CASE i /= m
          <5>1. i \in 0..m - 1 /\ i \in 0..n
            BY <4>2
          <5> QED  BY <2>1, <2>2, <4>2, <5>1
        <4> QED  BY <4>1, <4>2
      <3> QED  BY <3>2, <3>3
    <2>4. g = [i \in 0..n |-> g[i]]
      BY <2>2
    <2>5. To(m)
      BY <2>3, <2>4
    <2> QED  BY <2>5
  <1>4. n \in I
    <2>1. I \in SUBSET (0..n)
      OBVIOUS
    <2> HIDE DEF I
    <2> QED  BY <1>2, <1>3, <2>1, Upward
  <1>5. PICK f : f = [i \in 0..n |-> f[i]] /\ \A i \in 0..n : f[i] = SpillStep(first, seq, f, i)
    BY <1>4
  <1>6. f = [i \in 0..n |-> SpillStep(first, seq, f, i)]
    BY <1>5, Zenon
  <1> QED  BY <1>6

\* The candidates are finitely many.
LEMMA CandidatesFinite ==
    ASSUME NEW t, Bounded(t)
    PROVE  IsSeq(DeepFirst(t, HostSelectable(t)))
  <1>1. PICK bs : bs = HostSelectable(t)
    OBVIOUS
  <1>2. bs \in SUBSET DOMAIN t.node
    BY <1>1 DEF HostSelectable, Selectable
  <1>3. IsFiniteSet(bs)
    BY <1>2, FS_Subset DEF Bounded
  <1>4. PICK n \in Nat : n = Cardinality(bs)
    BY <1>3, FS_CardinalityType
  <1>5. PICK f : f = DeepFirst(t, bs)
    OBVIOUS
  <1>6. f = [i \in 1..n |-> f[i]]
    <2> DEFINE before(b) == {c \in bs : \/ t.node[c].fp > t.node[b].fp
                                        \/ t.node[c].fp = t.node[b].fp /\ c < b}
               nth(i) == CHOOSE b \in bs : Cardinality(before(b)) = i - 1
    <2>1. f = [i \in 1..n |-> nth(i)]
      BY <1>4, <1>5, Zenon DEF DeepFirst
    <2> HIDE DEF nth
    <2> QED  BY <2>1
  <1>7. IsSeq(f)
    BY <1>6, FunctionIsSeq
  <1> QED  BY <1>1, <1>5, <1>7, Zenon

\* The loop keeps what each of its turns keeps.
LEMMA SpillKeeps ==
    ASSUME NEW t, Tables(t, {}, {}), Air(t, cmds, events), NEW intent
    PROVE  LET done == spill_host_blocks_if_pressured(t, intent) IN
           Tables(done.t, {}, {}) /\ Air(done.t, done.q, events)
  <1>1. PICK seq : seq = DeepFirst(t, HostSelectable(t))
    OBVIOUS
  <1>2. PICK first : first = [t |-> t, q |-> cmds, left |-> spill_target(t, intent),
                              room |-> Monus(QueueCap, Len(cmds) + 1)]
    OBVIOUS
  <1>3. PICK n \in Nat : n = Len(seq)
    <2>1. IsSeq(seq)
      BY <1>1, CandidatesFinite DEF Tables
    <2> QED  BY <2>1, SeqFacts
  <1> DEFINE loop[i \in 0..Len(seq)] == IF i = 0 THEN first ELSE SpillBlock(loop[i - 1], seq[i])
  <1>4. \E f : f = [i \in 0..Len(seq) |-> IF i = 0 THEN first ELSE SpillBlock(f[i - 1], seq[i])]
    <2>1. \E f : f = [i \in 0..n |-> SpillStep(first, seq, f, i)]
      BY SpillExists
    <2> QED  BY <1>3, <2>1, Zenon DEF SpillStep
  <1>5. loop = [i \in 0..Len(seq) |-> IF i = 0 THEN first ELSE SpillBlock(loop[i - 1], seq[i])]
    BY <1>4, Zenon
  <1>6. spill_host_blocks_if_pressured(t, intent) = loop[Len(seq)]
    BY <1>1, <1>2, Zenon DEF spill_host_blocks_if_pressured
  <1> HIDE DEF loop
  <1>7. loop = [i \in 0..n |-> IF i = 0 THEN first ELSE SpillBlock(loop[i - 1], seq[i])]
    BY <1>3, <1>5, Zenon
  <1> DEFINE I == {i \in 0..n : SpillInv(loop[i])}
  <1>8. 0 \in I
    <2>1. loop[0] = first
      BY <1>7
    <2>2. SpillInv(first)
      <3>1. DOMAIN first = {"t", "q", "left", "room"} /\ first.t = t /\ first.q = cmds
        BY <1>2
      <3> QED  BY <3>1, Zenon DEF SpillInv
    <2>3. SpillInv(loop[0])
      BY <2>1, <2>2, Zenon
    <2> QED  BY <2>3
  <1>9. ASSUME NEW i \in 1..n, i - 1 \in I PROVE i \in I
    <2>1. loop[i] = SpillBlock(loop[i - 1], seq[i])
      BY <1>7
    <2>2. SpillInv(loop[i - 1])
      BY <1>9
    <2>3. SpillInv(SpillBlock(loop[i - 1], seq[i]))
      BY <2>2, SpillBlockKeeps, Zenon
    <2>4. SpillInv(loop[i])
      BY <2>1, <2>3, Zenon
    <2> QED  BY <2>4
  <1>10. n \in I
    <2>1. I \in SUBSET (0..n)
      OBVIOUS
    <2> HIDE DEF I
    <2> QED  BY <1>8, <1>9, <2>1, Upward
  <1>11. SpillInv(loop[n])
    BY <1>10
  <1>12. PICK done : done = loop[n]
    OBVIOUS
  <1>13. Tables(done.t, {}, {}) /\ Air(done.t, done.q, events)
    BY <1>11, <1>12 DEF SpillInv
  <1>14. spill_host_blocks_if_pressured(t, intent) = done
    BY <1>3, <1>6, <1>12
  <1> QED  BY <1>13, <1>14, Zenon

------------------------------------------------------------------------------
(* The actions *)

\* A ticket is a fetch's or a store's, not both.
LEMMA AirDisjoint ==
    ASSUME NEW t, NEW q, NEW ev, Air(t, q, ev)
    PROVE  DOMAIN t.fetchKeys \cap DOMAIN t.storeKeys = {}
  <1>1. ASSUME NEW k, Flies(q, ev, k, "fetch", FetchAnswers), Flies(q, ev, k, "store", StoreAnswers)
        PROVE  FALSE
    <2>1. Flight(q, ev)
      BY DEF Air
    <2> QED  BY <1>1, <2>1 DEF Flies, Flight, FetchAnswers, StoreAnswers
  <1> QED  BY <1>1 DEF Air

\* The first event answers a ticket of its kind, or one nobody tracks.
LEMMA HeadKind ==
    ASSUME NEW t, NEW q, NEW ev, Air(t, q, ev), ev /= <<>>
    PROVE  /\ Head(ev).kind \in FetchAnswers => Head(ev).ticket \notin DOMAIN t.storeKeys
           /\ Head(ev).kind \in StoreAnswers => Head(ev).ticket \notin DOMAIN t.fetchKeys
  <1>1. Flight(q, ev)
    BY DEF Air
  <1>2. 1 \in DOMAIN ev /\ Head(ev) = ev[1]
    <2>1. IsSeq(ev)
      BY <1>1 DEF Flight
    <2>2. Len(ev) \in Nat \ {0} /\ DOMAIN ev = 1..Len(ev) /\ Head(ev) = ev[1]
      BY <2>1, TailFacts
    <2> QED  BY <2>2
  <1>3. PICK k : k = ev[1].ticket
    OBVIOUS
  <1>4. ASSUME NEW ck, NEW eks, Flies(q, ev, k, ck, eks) PROVE ev[1].kind \in eks
    BY <1>1, <1>2, <1>3, <1>4 DEF Flies, Flight
  <1>5. ASSUME k \in DOMAIN t.storeKeys PROVE ev[1].kind \in StoreAnswers
    BY <1>4, <1>5 DEF Air
  <1>6. ASSUME k \in DOMAIN t.fetchKeys PROVE ev[1].kind \in FetchAnswers
    BY <1>4, <1>6 DEF Air
  <1>7. FetchAnswers \cap StoreAnswers = {}
    BY DEF FetchAnswers, StoreAnswers
  <1> QED  BY <1>2, <1>3, <1>5, <1>6, <1>7

\* The plan of a request and the path it is made of are sequences.
LEMMA PlanFacts ==
    ASSUME NEW t, NEW r \in Requests
    PROVE  IsSeq(Path(t, Want[r])) /\ IsSeq(PlanOf(t, Path(t, Want[r])))
  <1>1. PICK n \in Nat : n = Want[r]
    BY ConstantsAssumption
  <1>2. PICK p : p = Path(t, n)
    OBVIOUS
  <1>3. IsSeq(p)
    BY <1>2, PathIsSeq
  <1>4. IsSeq(PlanOf(t, p))
    BY <1>3, PlanOfIsSeq
  <1> QED  BY <1>1, <1>2, <1>3, <1>4

\* At the start no ticket is tracked and nobody waits.
LEMMA TierInvInit == Init => TierInv
  <1> SUFFICES ASSUME Init PROVE TierInv
    OBVIOUS
  <1>1. PICK t : t = s
    OBVIOUS
  <1>2. DOMAIN NoTable = {}
    BY DEF NoTable
  <1>3. /\ DOMAIN t = {"node", "live", "bytes", "disk", "fetchWaiting", "fetchDedupe", "fetchKeys",
                       "prefetching", "storeWaiting", "storeDedupe", "storeKeys", "req"}
        /\ t.node = NoTable /\ t.fetchWaiting = NoTable /\ t.fetchDedupe = NoTable
        /\ t.fetchKeys = NoTable /\ t.prefetching = {} /\ t.storeWaiting = NoTable
        /\ t.storeDedupe = NoTable /\ t.storeKeys = NoTable
        /\ t.req = [r \in Requests |-> Waiting]
    BY <1>1 DEF Init
  <1>4. \A r \in Requests : /\ t.req[r].phase = "idle" /\ t.req[r].plan = <<>>
                            /\ DOMAIN t.req[r] = {"phase", "plan", "closed"}
    BY <1>3 DEF Waiting
  <1>5. Shape(t)
    BY <1>3, <1>4 DEF Shape
  <1>6. Bounded(t)
    BY <1>2, <1>3, <1>4, EmptyIsSeq, FS_EmptySet DEF Bounded
  <1>7. FetchInv(t, {})
    BY <1>2, <1>3 DEF FetchInv, Paired
  <1>8. WaitInv(t, {})
    BY <1>2, <1>3, <1>4 DEF WaitInv, OneEntry
  <1>9. StoreInv(t)
    BY <1>2, <1>3 DEF StoreInv, Paired, OneId
  <1>10. Flight(<<>>, <<>>)
    BY EmptyIsSeq DEF Flight
  <1>11. Air(t, <<>>, <<>>)
    BY <1>2, <1>3, <1>10 DEF Air
  <1>12. cmds = <<>> /\ events = <<>>
    BY DEF Init
  <1> QED  BY <1>1, <1>5, <1>6, <1>7, <1>8, <1>9, <1>11, <1>12 DEF TierInv, Tables

\* One request gets a new phase that is not WaitingFetch and nothing else is tracked.
LEMMA TierSettles ==
    ASSUME TierInv, NEW r, s.req[r].phase /= "fetch", Settled(s, s', {r}),
           UNCHANGED <<cmds, events>>
    PROVE  TierInv'
  <1>1. PICK t, u, q, ev : t = s /\ u = s' /\ q = cmds /\ ev = events
    OBVIOUS
  <1>2. Tables(t, {}, {}) /\ Air(t, q, ev) /\ Settled(t, u, {r}) /\ t.req[r].phase /= "fetch"
    BY <1>1 DEF TierInv
  <1>3. Tables(u, {}, {}) /\ u.fetchKeys = t.fetchKeys /\ u.storeKeys = t.storeKeys
    BY <1>2, OneSettles
  <1>4. Air(u, q, ev)
    BY <1>2, <1>3, AirSame
  <1> QED  BY <1>1, <1>3, <1>4 DEF TierInv

\* admit_waiting_candidate, nothing cached.
LEMMA AdmitColdKeeps ==
    ASSUME TierInv, NEW r \in Requests, AdmitCold(r)
    PROVE  TierInv'
  <1>1. s.req[r].phase /= "fetch" /\ s' = GoCold(s, {r}) /\ UNCHANGED <<cmds, events>>
    BY DEF AdmitCold
  <1>2. Shape(s) /\ Bounded(s)
    BY DEF TierInv, Tables
  <1>3. Settled(s, s', {r})
    BY <1>1, <1>2, GoColdSettles
  <1> QED  BY <1>1, <1>3, TierSettles

\* admit_waiting_candidate, the whole prefix on the device.
LEMMA AdmitAttachedKeeps ==
    ASSUME TierInv, NEW r \in Requests, AdmitAttached(r)
    PROVE  TierInv'
  <1>1. PICK t, u : t = s /\ u = s'
    OBVIOUS
  <1>2. PICK p, pl : p = Path(t, Want[r]) /\ pl = PlanOf(t, p)
    OBVIOUS
  <1>3. PICK m : m = Pin(t, p)
    OBVIOUS
  <1>4. s.req[r].phase /= "fetch" /\ u = Become(m, r, "attached", pl) /\ UNCHANGED <<cmds, events>>
    BY <1>1, <1>2, <1>3 DEF AdmitAttached
  <1>5. Shape(t) /\ Bounded(t)
    BY <1>1 DEF TierInv, Tables
  <1>6. Moved(t, m)
    BY <1>3, <1>5, PinMoves
  <1>7. Shape(m) /\ Bounded(m)
    BY <1>6 DEF Moved
  <1>8. IsSeq(pl)
    BY <1>2, PlanFacts
  <1>9. Settled(m, u, {r})
    BY <1>4, <1>7, <1>8, BecomeSettles
  <1>10. Settled(t, u, {r})
    BY <1>6, <1>9, SettledAfter
  <1> QED  BY <1>1, <1>4, <1>10, TierSettles

\* A client hangs up: a request that waits for a fetch goes on waiting.
LEMMA HangUpKeeps ==
    ASSUME TierInv, NEW r \in Requests, HangUp(r)
    PROVE  TierInv'
  <1>1. PICK t, u, q, ev : t = s /\ u = s' /\ q = cmds /\ ev = events
    OBVIOUS
  <1>2. Tables(t, {}, {}) /\ Air(t, q, ev)
    BY <1>1 DEF TierInv
  <1>3. Shape(t) /\ Bounded(t)
    BY <1>2 DEF Tables
  <1>4. u = [t EXCEPT !.req[r].closed = TRUE,
                      !.req[r].phase = IF @ \in {"idle", "waiting"} THEN "done" ELSE @]
    BY <1>1 DEF HangUp
  <1>5. UNCHANGED <<cmds, events>>
    BY DEF HangUp
  <1>6. /\ DOMAIN u = DOMAIN t /\ SameFetch(t, u) /\ SameStore(t, u) /\ u.node = t.node
        /\ DOMAIN u.req = Requests
    BY <1>3, <1>4 DEF Shape, SameFetch, SameStore
  <1>7. \A p \in Requests \ {r} : u.req[p] = t.req[p]
    BY <1>3, <1>4 DEF Shape
  <1>8. /\ u.req[r].phase = IF t.req[r].phase \in {"idle", "waiting"} THEN "done" ELSE t.req[r].phase
        /\ u.req[r].plan = t.req[r].plan /\ DOMAIN u.req[r] = DOMAIN t.req[r]
    BY <1>3, <1>4 DEF Shape
  <1>9. Shape(u)
    BY <1>3, <1>6, <1>7, <1>8 DEF Shape
  <1>10. Bounded(u)
    BY <1>3, <1>6, <1>7, <1>8 DEF Bounded
  <1>11. CASE t.req[r].phase \in {"idle", "waiting"}
    <2>1. Settled(t, u, {r})
      BY <1>6, <1>7, <1>8, <1>9, <1>10, <1>11 DEF Settled
    <2> QED  BY <1>1, <1>5, <1>11, <2>1, TierSettles
  <1>12. CASE t.req[r].phase \notin {"idle", "waiting"}
    <2>1. Settled(t, u, {})
      BY <1>6, <1>7, <1>8, <1>9, <1>10, <1>12 DEF Settled
    <2>2. Tables(u, {}, {}) /\ u.fetchKeys = t.fetchKeys /\ u.storeKeys = t.storeKeys
      BY <1>2, <2>1, SettledKeeps
    <2>3. Air(u, q, ev)
      BY <1>2, <2>2, AirSame
    <2> QED  BY <1>1, <1>5, <2>2, <2>3 DEF TierInv
  <1> QED  BY <1>11, <1>12

\* try_complete_direct_host_staged_prefix.
LEMMA AdmitFromHostKeeps ==
    ASSUME TierInv, NEW r \in Requests, AdmitFromHost(r)
    PROVE  TierInv'
  <1>1. PICK t, u : t = s /\ u = s'
    OBVIOUS
  <1>2. PICK p, pl : p = Path(t, Want[r]) /\ pl = PlanOf(t, p)
    OBVIOUS
  <1>3. PICK m : m = Pin(t, p)
    OBVIOUS
  <1>4. PICK h : h = Become(m, r, "fetch", pl)
    OBVIOUS
  <1>5. PICK rs : rs = <<r>>
    OBVIOUS
  <1>6. s.req[r].phase /= "fetch" /\ UNCHANGED <<cmds, events>>
    BY DEF AdmitFromHost
  <1>7. \E blocks, copied : u = complete_ready_fetch_waiters(h, rs, blocks, copied)
    BY <1>1, <1>2, <1>3, <1>4, <1>5, Zenon DEF AdmitFromHost
  <1>8. PICK blocks, copied : u = complete_ready_fetch_waiters(h, rs, blocks, copied)
    BY <1>7
  <1>9. Shape(t) /\ Bounded(t)
    BY <1>1 DEF TierInv, Tables
  <1>10. Moved(t, m)
    BY <1>3, <1>9, PinMoves
  <1>11. Shape(m) /\ Bounded(m)
    BY <1>10 DEF Moved
  <1>12. IsSeq(pl)
    BY <1>2, PlanFacts
  <1>13. /\ Shape(h) /\ Bounded(h) /\ SameFetch(m, h) /\ SameStore(m, h)
         /\ \A x \in Requests \ {r} : h.req[x] = m.req[x]
    BY <1>4, <1>11, <1>12, BecomeFacts
  <1>14. rs \in Seq(Requests) /\ Range(rs) = {r}
    BY <1>5 DEF Range
  <1>15. Settled(h, u, {r})
    <2>1. Settled(h, u, Range(rs))
      BY <1>8, <1>13, <1>14, CompleteSettles
    <2> QED  BY <1>14, <2>1
  <1>16. Settled(m, u, {r})
    BY <1>13, <1>15 DEF Settled, SameFetch, SameStore
  <1>17. Settled(t, u, {r})
    BY <1>10, <1>16, SettledAfter
  <1> QED  BY <1>1, <1>6, <1>17, TierSettles

\* A new fetch command for a ticket that is tracked from now on.
LEMMA AirFetch ==
    ASSUME NEW t, NEW u, NEW q, NEW ev, Air(t, q, ev), NEW k, ~Carries(q, k), ~Carries(ev, k),
           NEW blocks, DOMAIN u.fetchKeys = DOMAIN t.fetchKeys \cup {k}, u.storeKeys = t.storeKeys
    PROVE  Air(u, Submitted(q, "fetch", k, blocks), ev)
  <1>1. Flight(q, ev)
    BY DEF Air
  <1>2. "fetch" \in {"fetch", "store"}
    OBVIOUS
  <1>3. PICK p : p = Submitted(q, "fetch", k, blocks)
    OBVIOUS
  <1>4. /\ Flight(p, ev)
        /\ \A l, ck, eks : Flies(q, ev, l, ck, eks) => Flies(p, ev, l, ck, eks)
        /\ \A eks : Flies(p, ev, k, "fetch", eks)
    BY <1>1, <1>2, <1>3, FlightSubmit, Zenon
  <1>5. Air(u, p, ev)
    BY <1>4 DEF Air
  <1> QED  BY <1>3, <1>5

\* The state in which a request starts to wait: it is listed nowhere yet.
LEMMA HeldFacts ==
    ASSUME NEW t, Tables(t, {}, {}), NEW r \in Requests, t.req[r].phase /= "fetch",
           NEW p, NEW pl, IsSeq(pl), NEW h, h = Become(Pin(t, p), r, "fetch", pl)
    PROVE  /\ Tables(h, {}, {r}) /\ h.fetchKeys = t.fetchKeys /\ h.storeKeys = t.storeKeys
           /\ h.fetchDedupe = t.fetchDedupe /\ h.req[r].phase = "fetch" /\ h.req[r].plan = pl
  <1>1. PICK m : m = Pin(t, p)
    OBVIOUS
  <1>2. Moved(t, m)
    BY <1>1, PinMoves DEF Tables
  <1>3. Tables(m, {}, {}) /\ m.fetchKeys = t.fetchKeys /\ m.storeKeys = t.storeKeys
    BY <1>2, MovedKeeps
  <1>4. m.req = t.req /\ m.fetchDedupe = t.fetchDedupe
    BY <1>2 DEF Moved, SameFetch
  <1>5. Tables(m, {}, {r})
    BY <1>3, <1>4, NotListed
  <1>6. Shape(m) /\ Bounded(m)
    BY <1>3 DEF Tables
  <1>7. /\ Shape(h) /\ Bounded(h) /\ SameFetch(m, h) /\ SameStore(m, h)
        /\ h.req[r].phase = "fetch" /\ h.req[r].plan = pl
        /\ \A x \in Requests \ {r} : h.req[x] = m.req[x]
    BY <1>1, <1>6, BecomeFacts
  <1>8. FetchInv(h, {})
    BY <1>5, <1>7, Zenon DEF Tables, FetchInv, SameFetch
  <1>9. StoreInv(h)
    BY <1>5, <1>7, Zenon DEF Tables, StoreInv, SameStore
  <1>10. PICK fw : fw = m.fetchWaiting /\ fw = h.fetchWaiting
    BY <1>7 DEF SameFetch
  <1>11. ASSUME NEW k \in DOMAIN fw, NEW i \in DOMAIN fw[k]
         PROVE  /\ fw[k][i] \notin {r} /\ h.req[fw[k][i]].phase = "fetch"
                /\ h.fetchKeys[k] = fetch_key(h.req[fw[k][i]].plan)
    <2>1. PICK x : x = fw[k][i]
      OBVIOUS
    <2>2. x \notin {r} /\ m.req[x].phase = "fetch" /\ m.fetchKeys[k] = fetch_key(m.req[x].plan)
      BY <1>5, <1>10, <2>1 DEF Tables, WaitInv
    <2>3. fw[k] \in Seq(Requests)
      BY <1>5, <1>10 DEF Tables, FetchInv
    <2>4. x \in Requests
      BY <2>1, <2>3
    <2>5. h.req[x] = m.req[x]
      BY <1>7, <2>2, <2>4
    <2> QED  BY <1>7, <2>1, <2>2, <2>5 DEF SameFetch
  <1>12. OneEntry(fw)
    BY <1>5, <1>10 DEF Tables, WaitInv
  <1>13. ASSUME NEW x \in Requests \ {r}, h.req[x].phase = "fetch"
         PROVE  \E k \in DOMAIN fw : \E i \in DOMAIN fw[k] : fw[k][i] = x
    BY <1>5, <1>7, <1>10, <1>13 DEF Tables, WaitInv
  <1>14. WaitInv(h, {r})
    BY <1>10, <1>11, <1>12, <1>13 DEF WaitInv
  <1> QED  BY <1>3, <1>4, <1>7, <1>8, <1>9, <1>14 DEF Tables, SameFetch, SameStore

\* A request joins the fetch of its key, or starts one under a fresh ticket.
LEMMA AdmitStagedKeeps ==
    ASSUME TierInv, NEW r \in Requests, AdmitStaged(r)
    PROVE  TierInv'
  <1>1. PICK t, u, q, ev : t = s /\ u = s' /\ q = cmds /\ ev = events
    OBVIOUS
  <1>2. PICK p, pl : p = Path(t, Want[r]) /\ pl = PlanOf(t, p)
    OBVIOUS
  <1>3. PICK key : key = fetch_key(pl)
    OBVIOUS
  <1>4. PICK h : h = Become(Pin(t, p), r, "fetch", pl)
    OBVIOUS
  <1>5. PICK k : k = NewTicket(t, q)
    OBVIOUS
  <1>6. t.req[r].phase /= "fetch" /\ events' = events
    BY <1>1 DEF AdmitStaged
  <1>7. \/ key \in DOMAIN t.fetchDedupe /\ u = JoinFetch(h, t.fetchDedupe[key], r) /\ cmds' = cmds
        \/ u = fallback_to_cold_prefill(h, {r}) /\ cmds' = cmds
        \/ /\ key \notin DOMAIN t.fetchDedupe /\ u = JoinFetch(TrackFetch(h, key, k), k, r)
           /\ cmds' = Submitted(q, "fetch", k, Staged(pl))
    BY <1>1, <1>2, <1>3, <1>4, <1>5, Zenon DEF AdmitStaged
  <1>8. Tables(t, {}, {}) /\ Air(t, q, ev)
    BY <1>1 DEF TierInv
  <1>9. IsSeq(pl)
    BY <1>2, PlanFacts
  <1>10. /\ Tables(h, {}, {r}) /\ h.fetchKeys = t.fetchKeys /\ h.storeKeys = t.storeKeys
         /\ h.fetchDedupe = t.fetchDedupe /\ h.req[r].phase = "fetch" /\ h.req[r].plan = pl
    BY <1>4, <1>6, <1>8, <1>9, HeldFacts
  <1>11. ASSUME key \in DOMAIN t.fetchDedupe, u = JoinFetch(h, t.fetchDedupe[key], r), cmds' = cmds
         PROVE  TierInv'
    <2>1. PICK l : l = t.fetchDedupe[key]
      OBVIOUS
    <2>2. l \in DOMAIN h.fetchKeys /\ h.fetchKeys[l] = fetch_key(h.req[r].plan)
      BY <1>3, <1>8, <1>10, <1>11, <2>1 DEF Tables, FetchInv, Paired
    <2>3. {} \in SUBSET {l}
      OBVIOUS
    <2>4. Tables(u, {}, {}) /\ u.fetchKeys = h.fetchKeys /\ u.storeKeys = h.storeKeys
      BY <1>10, <1>11, <2>1, <2>2, <2>3, JoinKeeps
    <2>5. Air(u, q, ev)
      BY <1>8, <1>10, <2>4, AirSame
    <2> QED  BY <1>1, <1>6, <1>11, <2>4, <2>5 DEF TierInv
  <1>12. ASSUME u = fallback_to_cold_prefill(h, {r}), cmds' = cmds PROVE TierInv'
    <2>1. Settled(h, u, {r})
      BY <1>10, <1>12, FallbackSettles DEF Tables
    <2>2. Tables(u, {}, {}) /\ u.fetchKeys = h.fetchKeys /\ u.storeKeys = h.storeKeys
      BY <1>10, <2>1, SettledKeeps
    <2>3. Air(u, q, ev)
      BY <1>8, <1>10, <2>2, AirSame
    <2> QED  BY <1>1, <1>6, <1>12, <2>2, <2>3 DEF TierInv
  <1>13. ASSUME key \notin DOMAIN t.fetchDedupe, u = JoinFetch(TrackFetch(h, key, k), k, r),
                cmds' = Submitted(q, "fetch", k, Staged(pl))
         PROVE  TierInv'
    <2>1. k \notin Tracked(t) /\ ~Carries(q, k) /\ ~Carries(ev, k)
      <3>1. Flight(q, events)
        BY <1>1, <1>8 DEF Air
      <3>2. \A l \in Tracked(t) : Carries(q, l) \/ Carries(events, l)
        BY <1>1, <1>8, AirCarries
      <3> QED  BY <1>1, <1>5, <3>1, <3>2, NewTicketFresh
    <2>2. k \notin DOMAIN h.fetchKeys /\ key \notin DOMAIN h.fetchDedupe
      BY <1>10, <1>13, <2>1 DEF Tracked
    <2>3. PICK w : w = TrackFetch(h, key, k)
      OBVIOUS
    <2>4. /\ Tables(w, {k}, {r}) /\ w.req = h.req /\ w.storeKeys = h.storeKeys
          /\ DOMAIN w.fetchKeys = DOMAIN h.fetchKeys \cup {k} /\ w.fetchKeys[k] = key
      <3>1. FreshFetch(h, key, k)
        BY <2>2 DEF FreshFetch
      <3>2. NewFetch(h, w, key, k, {r})
        BY <1>10, <2>3, <3>1, TrackKeeps
      <3> QED  BY <3>2 DEF NewFetch
    <2>5. k \in DOMAIN w.fetchKeys /\ w.req[r].phase = "fetch" /\ w.fetchKeys[k] = fetch_key(w.req[r].plan)
      BY <1>3, <1>10, <2>4
    <2>6. {k} \in SUBSET {k} /\ u = JoinFetch(w, k, r)
      BY <1>13, <2>3
    <2>7. Tables(u, {}, {}) /\ u.fetchKeys = w.fetchKeys /\ u.storeKeys = w.storeKeys
      BY <2>4, <2>5, <2>6, JoinKeeps
    <2>8. DOMAIN u.fetchKeys = DOMAIN t.fetchKeys \cup {k} /\ u.storeKeys = t.storeKeys
      BY <1>10, <2>4, <2>7
    <2>9. PICK blocks : blocks = Staged(pl)
      OBVIOUS
    <2>10. Air(u, Submitted(q, "fetch", k, blocks), ev)
      BY <1>8, <2>1, <2>8, AirFetch
    <2> QED  BY <1>1, <1>6, <1>13, <2>7, <2>9, <2>10 DEF TierInv
  <1> QED  BY <1>7, <1>11, <1>12, <1>13

\* maybe_prefetch_staged_prefix starts a fetch nobody waits for.
LEMMA PrefetchStepKeeps ==
    ASSUME TierInv, NEW r \in Requests, maybe_prefetch_staged_prefix(r)
    PROVE  TierInv'
  <1>1. PICK t, u, q, ev : t = s /\ u = s' /\ q = cmds /\ ev = events
    OBVIOUS
  <1>2. PICK pl : pl = PlanOf(t, Path(t, Want[r]))
    OBVIOUS
  <1>3. PICK key, k : key = fetch_key(pl) /\ k = NewTicket(t, q)
    OBVIOUS
  <1>4. PICK h : h = Become(t, r, "waiting", <<>>)
    OBVIOUS
  <1>5. PICK w : w = TrackFetch(h, key, k)
    OBVIOUS
  <1>6. t.req[r].phase /= "fetch" /\ events' = events /\ key \notin DOMAIN t.fetchDedupe
    BY <1>1, <1>2, <1>3 DEF maybe_prefetch_staged_prefix
  <1>7. u = [w EXCEPT !.prefetching = @ \cup {k}] /\ cmds' = Submitted(q, "fetch", k, Staged(pl))
    BY <1>1, <1>2, <1>3, <1>4, <1>5, Zenon DEF maybe_prefetch_staged_prefix
  <1>8. Tables(t, {}, {}) /\ Air(t, q, ev)
    BY <1>1 DEF TierInv
  <1>9. Settled(t, h, {r})
    BY <1>4, <1>8, BecomeSettles, EmptyIsSeq DEF Tables
  <1>10. Tables(h, {}, {}) /\ h.fetchKeys = t.fetchKeys /\ h.storeKeys = t.storeKeys
    BY <1>6, <1>8, <1>9, OneSettles
  <1>11. h.fetchDedupe = t.fetchDedupe
    BY <1>9 DEF Settled, SameFetch
  <1>12. k \notin Tracked(t) /\ ~Carries(q, k) /\ ~Carries(ev, k)
    <2>1. Flight(q, events)
      BY <1>1, <1>8 DEF Air
    <2>2. \A l \in Tracked(t) : Carries(q, l) \/ Carries(events, l)
      BY <1>1, <1>8, AirCarries
    <2> QED  BY <1>1, <1>3, <2>1, <2>2, NewTicketFresh
  <1>13. k \notin DOMAIN h.fetchKeys /\ key \notin DOMAIN h.fetchDedupe
    BY <1>6, <1>10, <1>11, <1>12 DEF Tracked
  <1>14. /\ Tables(w, {k}, {}) /\ w.storeKeys = h.storeKeys
         /\ DOMAIN w.fetchKeys = DOMAIN h.fetchKeys \cup {k}
    <2>1. FreshFetch(h, key, k)
      BY <1>13 DEF FreshFetch
    <2>2. NewFetch(h, w, key, k, {})
      BY <1>5, <1>10, <2>1, TrackKeeps
    <2> QED  BY <2>2 DEF NewFetch
  <1>15. Tables(u, {}, {}) /\ u.fetchKeys = w.fetchKeys /\ u.storeKeys = w.storeKeys
    BY <1>7, <1>14, PrefetchKeeps
  <1>16. DOMAIN u.fetchKeys = DOMAIN t.fetchKeys \cup {k} /\ u.storeKeys = t.storeKeys
    BY <1>10, <1>14, <1>15
  <1>17. PICK blocks : blocks = Staged(pl)
    OBVIOUS
  <1>18. Air(u, Submitted(q, "fetch", k, blocks), ev)
    BY <1>8, <1>12, <1>16, AirFetch
  <1> QED  BY <1>1, <1>6, <1>7, <1>15, <1>17, <1>18 DEF TierInv

\* cleanup takes the slot off every list and cancels the fetches left without waiters.
LEMMA CleanupKeeps ==
    ASSUME TierInv, NEW r \in Requests, cleanup(r)
    PROVE  TierInv'
  <1>1. PICK t, u, q, ev : t = s /\ u = s' /\ q = cmds /\ ev = events
    OBVIOUS
  <1>2. PICK f : f = Unpin(t, Ids(t.req[r].plan))
    OBVIOUS
  <1>3. PICK c : c = clear_fetch_waiting_for_slot(f, r)
    OBVIOUS
  <1>4. PICK w : w = c.t
    OBVIOUS
  <1>5. PICK pl : pl = t.req[r].plan
    OBVIOUS
  <1>6. /\ \E x : /\ x = publish_to_prefix_cache(w, r, pl) \/ x = w
                  /\ u = Become(x, r, "done", <<>>)
        /\ events' = events
    BY <1>1, <1>2, <1>3, <1>4, <1>5, Zenon DEF cleanup
  <1>7. cmds' = Cancelling(q, c.cancel)
    BY <1>1, <1>2, <1>3, Zenon DEF cleanup, Cancelling
  <1>8. PICK x : /\ x = publish_to_prefix_cache(w, r, pl) \/ x = w
                 /\ u = Become(x, r, "done", <<>>)
    BY <1>6
  <1>9. Tables(t, {}, {}) /\ Air(t, q, ev)
    BY <1>1 DEF TierInv
  <1>10. Moved(t, f)
    BY <1>2, <1>9, UnpinMoves DEF Tables
  <1>11. Tables(f, {}, {}) /\ f.fetchKeys = t.fetchKeys /\ f.storeKeys = t.storeKeys
    BY <1>9, <1>10, MovedKeeps
  <1>12. PICK dead : dead = c.cancel
    OBVIOUS
  <1>13. /\ Tables(w, {}, {r}) /\ w.storeKeys = f.storeKeys
         /\ DOMAIN w.fetchKeys = DOMAIN f.fetchKeys \ dead /\ dead \subseteq DOMAIN f.fetchKeys
    <2>1. /\ Tables(c.t, {}, {r}) /\ c.t.req = f.req /\ c.t.storeKeys = f.storeKeys
          /\ DOMAIN c.t.fetchKeys = DOMAIN f.fetchKeys \ c.cancel
          /\ c.cancel \subseteq DOMAIN f.fetchKeys
      BY <1>3, <1>11, ClearKeeps, Zenon
    <2> QED  BY <1>4, <1>12, <2>1, Zenon
  <1>14. Shape(w) /\ Bounded(w)
    BY <1>13 DEF Tables
  <1>15. Moved(w, x)
    <2>1. Moved(w, w)
      BY <1>14 DEF Moved, SameFetch, SameStore
    <2>2. Moved(w, publish_to_prefix_cache(w, r, pl))
      BY <1>14, PublishMoves
    <2> QED  BY <1>8, <2>1, <2>2, Zenon
  <1>16. Shape(x) /\ Bounded(x)
    BY <1>15 DEF Moved
  <1>17. Settled(x, u, {r})
    <2>1. u = Become(x, r, "done", <<>>)
      BY <1>8
    <2>2. Settled(x, Become(x, r, "done", <<>>), {r})
      BY <1>16, BecomeSettles, EmptyIsSeq
    <2> QED  BY <2>1, <2>2
  <1>18. Settled(w, u, {r})
    BY <1>15, <1>17, SettledAfter
  <1>19. Tables(u, {}, {}) /\ u.fetchKeys = w.fetchKeys /\ u.storeKeys = w.storeKeys
    BY <1>13, <1>18, SettledKeeps
  <1>20. PICK p : p = Cancelling(q, dead)
    OBVIOUS
  <1>21. /\ Flight(p, ev)
         /\ \A l, ck, eks : Flies(q, ev, l, ck, eks) /\ l \notin dead => Flies(p, ev, l, ck, eks)
    <2>1. Flight(q, ev)
      BY <1>9 DEF Air
    <2> QED  BY <1>20, <2>1, FlightCancel, Zenon
  <1>22. DOMAIN t.fetchKeys \cap DOMAIN t.storeKeys = {}
    BY <1>9, AirDisjoint
  <1>23. ASSUME NEW k \in DOMAIN u.fetchKeys PROVE Flies(p, ev, k, "fetch", FetchAnswers)
    <2>1. k \in DOMAIN t.fetchKeys /\ k \notin dead
      BY <1>11, <1>13, <1>19, <1>23
    <2>2. Flies(q, ev, k, "fetch", FetchAnswers)
      BY <1>9, <2>1 DEF Air
    <2> QED  BY <1>21, <2>1, <2>2
  <1>24. ASSUME NEW k \in DOMAIN u.storeKeys PROVE Flies(p, ev, k, "store", StoreAnswers)
    <2>1. k \in DOMAIN t.storeKeys /\ k \notin dead
      BY <1>11, <1>13, <1>19, <1>22, <1>24
    <2>2. Flies(q, ev, k, "store", StoreAnswers)
      BY <1>9, <2>1 DEF Air
    <2> QED  BY <1>21, <2>1, <2>2
  <1>25. Air(u, p, ev)
    BY <1>21, <1>23, <1>24 DEF Air
  <1> QED  BY <1>1, <1>6, <1>7, <1>12, <1>19, <1>20, <1>25 DEF TierInv

\* The closed clients among the waiters are done; the others are ready.
LEMMA CollectSettles ==
    ASSUME NEW t, Shape(t), Bounded(t), NEW W \in Seq(Requests), Once(W)
    PROVE  \E gone : LET c == collect_fetch_waiters(t, W) IN
             /\ Settled(t, c.t, gone) /\ c.ready \in Seq(Requests)
             /\ gone \cup Range(c.ready) = Range(W)
  <1>1. PICK gone : gone = {r \in Range(W) : t.req[r].closed}
    OBVIOUS
  <1>2. PICK c : c = collect_fetch_waiters(t, W)
    OBVIOUS
  <1>3. PICK u : u = c.t
    OBVIOUS
  <1>4. c = [t |-> [t EXCEPT !.req = [r \in Requests |->
                       IF r \in gone THEN [@[r] EXCEPT !.phase = "finished"] ELSE @[r]]],
             ready |-> Keeping(W, Requests \ gone)]
    BY <1>1, <1>2, Zenon DEF collect_fetch_waiters
  <1>5. u = [t EXCEPT !.req = [r \in Requests |->
                IF r \in gone THEN [@[r] EXCEPT !.phase = "finished"] ELSE @[r]]]
    BY <1>3, <1>4
  <1>6. c.ready = Keeping(W, Requests \ gone)
    BY <1>4
  <1>7. /\ DOMAIN u = DOMAIN t /\ SameFetch(t, u) /\ SameStore(t, u) /\ u.node = t.node
        /\ DOMAIN u.req = Requests
    BY <1>5 DEF Shape, SameFetch, SameStore
  <1>8. \A p \in Requests \ gone : u.req[p] = t.req[p]
    BY <1>5 DEF Shape
  <1>9. \A p \in Requests : p \in gone => /\ u.req[p].phase = "finished" /\ u.req[p].plan = t.req[p].plan
                                          /\ DOMAIN u.req[p] = DOMAIN t.req[p]
    BY <1>5 DEF Shape
  <1>10. Shape(u)
    BY <1>7, <1>8, <1>9 DEF Shape
  <1>11. Bounded(u)
    BY <1>7, <1>8, <1>9 DEF Bounded
  <1>12. Settled(t, u, gone)
    BY <1>7, <1>8, <1>9, <1>10, <1>11 DEF Settled
  <1>13. PICK X : X = Requests \ gone
    OBVIOUS
  <1>14. Keeping(W, X) \in Seq(Requests) /\ Range(Keeping(W, X)) = Range(W) \cap X
    BY KeepingProps
  <1>15. c.ready \in Seq(Requests) /\ Range(c.ready) = Range(W) \cap X
    BY <1>6, <1>13, <1>14, Zenon
  <1>16. Range(W) \subseteq Requests /\ gone \subseteq Range(W)
    <2>1. \A i \in DOMAIN W : W[i] \in Requests
      OBVIOUS
    <2> QED  BY <1>1, <2>1 DEF Range
  <1>17. gone \cup Range(c.ready) = Range(W)
    BY <1>13, <1>15, <1>16
  <1> QED  BY <1>2, <1>3, <1>12, <1>15, <1>17, Zenon

\* What a fetch brought is promoted, kept on the host, or released.
LEMMA FetchCompletedKeeps ==
    ASSUME Tables(s, {}, {}), NEW e, NEW copied
    PROVE  LET u == FetchCompleted(e, copied) IN
           /\ Tables(u, {}, {}) /\ u.storeKeys = s.storeKeys
           /\ DOMAIN u.fetchKeys = DOMAIN s.fetchKeys \ {e.ticket}
  <1>1. PICK t0, k : t0 = s /\ k = e.ticket
    OBVIOUS
  <1>2. PICK W : W = WaitersOf(t0, k)
    OBVIOUS
  <1>3. PICK t : t = ForgetFetch(t0, k)
    OBVIOUS
  <1>4. PICK c : c = collect_fetch_waiters(t, W)
    OBVIOUS
  <1>5. PICK u : u = FetchCompleted(e, copied)
    OBVIOUS
  <1>6. u = IF W /= <<>> THEN complete_ready_fetch_waiters(c.t, c.ready, e.blocks, copied)
            ELSE IF k \in t0.prefetching THEN materialize_prefetched_host_blocks(t, e.blocks)
            ELSE release_unclaimed_fetch_regions(t, e.blocks)
    BY <1>1, <1>2, <1>3, <1>4, <1>5, Zenon DEF FetchCompleted
  <1>7. Tables(t0, {}, {})
    BY <1>1
  <1>8. /\ Tables(t, {}, Range(W)) /\ t.storeKeys = t0.storeKeys
        /\ DOMAIN t.fetchKeys = DOMAIN t0.fetchKeys \ {k} /\ W \in Seq(Requests) /\ Once(W)
    BY <1>2, <1>3, <1>7, ForgetFetchKeeps
  <1>9. Shape(t) /\ Bounded(t)
    BY <1>8 DEF Tables
  <1>10. Tables(u, {}, {}) /\ u.fetchKeys = t.fetchKeys /\ u.storeKeys = t.storeKeys
    <2>1. CASE W /= <<>>
      <3>1. PICK gone : /\ Settled(t, c.t, gone) /\ c.ready \in Seq(Requests)
                        /\ gone \cup Range(c.ready) = Range(W)
        BY <1>4, <1>8, <1>9, CollectSettles, Zenon
      <3>2. PICK v, rd, bl : v = c.t /\ rd = c.ready /\ bl = e.blocks
        OBVIOUS
      <3>3. Shape(v) /\ Bounded(v)
        BY <3>1, <3>2 DEF Settled
      <3>4. rd \in Seq(Requests) /\ u = complete_ready_fetch_waiters(v, rd, bl, copied)
        BY <1>6, <2>1, <3>1, <3>2
      <3>5. Settled(v, u, Range(rd))
        BY <3>3, <3>4, CompleteSettles
      <3>6. Settled(t, u, gone \cup Range(rd))
        BY <3>1, <3>2, <3>5, SettledUnion
      <3>7. Settled(t, u, Range(W))
        BY <3>1, <3>2, <3>6
      <3> QED  BY <1>8, <3>7, SettledKeeps
    <2>2. CASE W = <<>>
      <3>1. Range(W) = {}
        BY <2>2 DEF Range
      <3>2. Tables(t, {}, {})
        BY <1>8, <3>1
      <3>3. PICK bl : bl = e.blocks
        OBVIOUS
      <3>4. Moved(t, u)
        <4>1. Moved(t, materialize_prefetched_host_blocks(t, bl))
          BY <1>9, MaterializeMoves
        <4>2. Moved(t, release_unclaimed_fetch_regions(t, bl))
          BY <1>9, ReleaseAllMoves DEF release_unclaimed_fetch_regions
        <4> QED  BY <1>6, <2>2, <3>3, <4>1, <4>2, Zenon
      <3> QED  BY <3>2, <3>4, MovedKeeps
    <2> QED  BY <2>1, <2>2
  <1> QED  BY <1>1, <1>5, <1>8, <1>10

\* The waiters of a fetch that failed go cold.
LEMMA FetchFailedKeeps ==
    ASSUME Tables(s, {}, {}), NEW e
    PROVE  LET u == FetchFailed(e) IN
           /\ Tables(u, {}, {}) /\ u.storeKeys = s.storeKeys
           /\ DOMAIN u.fetchKeys = DOMAIN s.fetchKeys \ {e.ticket}
  <1>1. PICK t0, k : t0 = s /\ k = e.ticket
    OBVIOUS
  <1>2. PICK W : W = WaitersOf(t0, k)
    OBVIOUS
  <1>3. PICK t : t = ForgetFetch(t0, k)
    OBVIOUS
  <1>4. PICK rs : rs = Range(W)
    OBVIOUS
  <1>5. PICK u : u = fallback_to_cold_prefill(t, rs)
    OBVIOUS
  <1>6. u = FetchFailed(e)
    BY <1>1, <1>2, <1>3, <1>4, <1>5, Zenon DEF FetchFailed
  <1>7. Tables(t0, {}, {})
    BY <1>1
  <1>8. /\ Tables(t, {}, rs) /\ t.storeKeys = t0.storeKeys
        /\ DOMAIN t.fetchKeys = DOMAIN t0.fetchKeys \ {k}
    BY <1>2, <1>3, <1>4, <1>7, ForgetFetchKeeps
  <1>9. Settled(t, u, rs)
    BY <1>5, <1>8, FallbackSettles DEF Tables
  <1>10. Tables(u, {}, {}) /\ u.fetchKeys = t.fetchKeys /\ u.storeKeys = t.storeKeys
    BY <1>8, <1>9, SettledKeeps
  <1> QED  BY <1>1, <1>6, <1>8, <1>10

\* An answered store marks its blocks and gives their regions back.
LEMMA StoreAnsweredKeeps ==
    ASSUME Tables(s, {}, {}), NEW e, NEW u, u = StoreCompleted(e) \/ u = StoreFailed(e)
    PROVE  /\ Tables(u, {}, {}) /\ u.fetchKeys = s.fetchKeys
           /\ DOMAIN u.storeKeys = DOMAIN s.storeKeys \ {e.ticket}
  <1>1. PICK t0, k : t0 = s /\ k = e.ticket
    OBVIOUS
  <1>2. PICK t : t = ForgetStore(t0, k)
    OBVIOUS
  <1>3. Tables(t0, {}, {})
    BY <1>1
  <1>4. /\ Tables(t, {}, {}) /\ t.fetchKeys = t0.fetchKeys
        /\ DOMAIN t.storeKeys = DOMAIN t0.storeKeys \ {k}
    BY <1>2, <1>3, ForgetStoreKeeps
  <1>5. Shape(t) /\ Bounded(t)
    BY <1>4 DEF Tables
  <1>6. t = ForgetStore(s, e.ticket)
    BY <1>1, <1>2
  <1>7. DOMAIN ForgetStore(s, e.ticket) =
           {"node", "live", "bytes", "disk", "fetchWaiting", "fetchDedupe", "fetchKeys",
            "prefetching", "storeWaiting", "storeDedupe", "storeKeys", "req"}
    BY <1>5, <1>6 DEF Shape
  <1>8. /\ DOMAIN u = DOMAIN t /\ SameFetch(t, u) /\ SameStore(t, u) /\ u.req = t.req
        /\ DOMAIN u.node = DOMAIN t.node
    <2>1. CASE u = StoreCompleted(e)
      BY <1>6, <1>7, <2>1 DEF StoreCompleted, SameFetch, SameStore
    <2>2. CASE u = StoreFailed(e)
      BY <1>6, <1>7, <2>2 DEF StoreFailed, SameFetch, SameStore
    <2> QED  BY <2>1, <2>2
  <1>9. IsFiniteSet(DOMAIN u.node)
    BY <1>5, <1>8 DEF Bounded
  <1>10. Moved(t, u)
    BY <1>5, <1>8, <1>9, MovedBy
  <1>11. Tables(u, {}, {}) /\ u.fetchKeys = t.fetchKeys /\ u.storeKeys = t.storeKeys
    BY <1>4, <1>10, MovedKeeps
  <1> QED  BY <1>1, <1>4, <1>11

\* The scheduler takes an event whose ticket it forgets.
LEMMA AirTake ==
    ASSUME NEW t, NEW u, NEW q, NEW ev, Air(t, q, ev), ev /= <<>>,
           DOMAIN u.fetchKeys \subseteq DOMAIN t.fetchKeys \ {Head(ev).ticket},
           DOMAIN u.storeKeys \subseteq DOMAIN t.storeKeys \ {Head(ev).ticket}
    PROVE  Air(u, q, Tail(ev))
  <1>1. Flight(q, ev)
    BY DEF Air
  <1>2. PICK p, k : p = Tail(ev) /\ k = Head(ev).ticket
    OBVIOUS
  <1>3. /\ Flight(q, p)
        /\ \A l, ck, eks : Flies(q, ev, l, ck, eks) /\ l /= k => Flies(q, p, l, ck, eks)
    BY <1>1, <1>2, FlightTake, Zenon
  <1>4. ASSUME NEW l \in DOMAIN u.fetchKeys PROVE Flies(q, p, l, "fetch", FetchAnswers)
    <2>1. l \in DOMAIN t.fetchKeys /\ l /= k
      BY <1>2, <1>4
    <2>2. Flies(q, ev, l, "fetch", FetchAnswers)
      BY <2>1 DEF Air
    <2> QED  BY <1>3, <2>1, <2>2
  <1>5. ASSUME NEW l \in DOMAIN u.storeKeys PROVE Flies(q, p, l, "store", StoreAnswers)
    <2>1. l \in DOMAIN t.storeKeys /\ l /= k
      BY <1>2, <1>5
    <2>2. Flies(q, ev, l, "store", StoreAnswers)
      BY <2>1 DEF Air
    <2> QED  BY <1>3, <2>1, <2>2
  <1>6. Air(u, q, p)
    BY <1>3, <1>4, <1>5 DEF Air
  <1> QED  BY <1>2, <1>6

\* handle_coordinator_event: the answered ticket is forgotten and its waiters go on.
LEMMA EventKeeps ==
    ASSUME TierInv, handle_coordinator_event
    PROVE  TierInv'
  <1>1. PICK t, u, q, ev : t = s /\ u = s' /\ q = cmds /\ ev = events
    OBVIOUS
  <1>2. PICK e : e = Head(ev)
    OBVIOUS
  <1>3. Tables(t, {}, {}) /\ Air(t, q, ev)
    BY <1>1 DEF TierInv
  <1>4. ev /= <<>> /\ events' = Tail(ev) /\ cmds' = q
    BY <1>1 DEF handle_coordinator_event
  <1>5. \/ e.kind = "fetched" /\ \E copied : u = FetchCompleted(e, copied)
        \/ e.kind = "fetch failed" /\ u = FetchFailed(e)
        \/ e.kind \in {"stored", "store failed"} /\ (u = StoreCompleted(e) \/ u = StoreFailed(e))
    BY <1>1, <1>2 DEF handle_coordinator_event
  <1>6. /\ e.kind \in FetchAnswers => e.ticket \notin DOMAIN t.storeKeys
        /\ e.kind \in StoreAnswers => e.ticket \notin DOMAIN t.fetchKeys
    BY <1>2, <1>3, <1>4, HeadKind
  <1>7. /\ Tables(u, {}, {}) /\ DOMAIN u.fetchKeys \subseteq DOMAIN t.fetchKeys \ {e.ticket}
        /\ DOMAIN u.storeKeys \subseteq DOMAIN t.storeKeys \ {e.ticket}
    <2>1. ASSUME e.kind = "fetched", NEW copied, u = FetchCompleted(e, copied)
          PROVE  /\ Tables(u, {}, {}) /\ DOMAIN u.fetchKeys \subseteq DOMAIN t.fetchKeys \ {e.ticket}
                 /\ DOMAIN u.storeKeys \subseteq DOMAIN t.storeKeys \ {e.ticket}
      <3>1. e.ticket \notin DOMAIN t.storeKeys
        BY <1>6, <2>1 DEF FetchAnswers
      <3>2. /\ Tables(u, {}, {}) /\ u.storeKeys = t.storeKeys
            /\ DOMAIN u.fetchKeys = DOMAIN t.fetchKeys \ {e.ticket}
        BY <1>1, <1>3, <2>1, FetchCompletedKeeps
      <3> QED  BY <3>1, <3>2
    <2>2. ASSUME e.kind = "fetch failed", u = FetchFailed(e)
          PROVE  /\ Tables(u, {}, {}) /\ DOMAIN u.fetchKeys \subseteq DOMAIN t.fetchKeys \ {e.ticket}
                 /\ DOMAIN u.storeKeys \subseteq DOMAIN t.storeKeys \ {e.ticket}
      <3>1. e.ticket \notin DOMAIN t.storeKeys
        BY <1>6, <2>2 DEF FetchAnswers
      <3>2. /\ Tables(u, {}, {}) /\ u.storeKeys = t.storeKeys
            /\ DOMAIN u.fetchKeys = DOMAIN t.fetchKeys \ {e.ticket}
        BY <1>1, <1>3, <2>2, FetchFailedKeeps
      <3> QED  BY <3>1, <3>2
    <2>3. ASSUME e.kind \in {"stored", "store failed"}, u = StoreCompleted(e) \/ u = StoreFailed(e)
          PROVE  /\ Tables(u, {}, {}) /\ DOMAIN u.fetchKeys \subseteq DOMAIN t.fetchKeys \ {e.ticket}
                 /\ DOMAIN u.storeKeys \subseteq DOMAIN t.storeKeys \ {e.ticket}
      <3>1. e.ticket \notin DOMAIN t.fetchKeys
        BY <1>6, <2>3 DEF StoreAnswers
      <3>2. /\ Tables(u, {}, {}) /\ u.fetchKeys = t.fetchKeys
            /\ DOMAIN u.storeKeys = DOMAIN t.storeKeys \ {e.ticket}
        BY <1>1, <1>3, <2>3, StoreAnsweredKeeps
      <3> QED  BY <3>1, <3>2
    <2> QED  BY <1>5, <2>1, <2>2, <2>3
  <1>8. Air(u, q, Tail(ev))
    BY <1>2, <1>3, <1>4, <1>7, AirTake
  <1> QED  BY <1>1, <1>4, <1>7, <1>8 DEF TierInv

\* trigger_background_store_drain.
LEMMA DrainKeeps ==
    ASSUME TierInv, trigger_background_store_drain
    PROVE  TierInv'
  <1>1. PICK t, a : t = s /\ a = spill_host_blocks_if_pressured(s, "Drain")
    OBVIOUS
  <1>2. s' = a.t /\ cmds' = a.q /\ events' = events
    BY <1>1 DEF trigger_background_store_drain
  <1>3. Tables(a.t, {}, {}) /\ Air(a.t, a.q, events)
    BY <1>1, SpillKeeps DEF TierInv
  <1> QED  BY <1>2, <1>3 DEF TierInv

\* evict_prefix_cache_if_pressured: demote or drop a block, then spill.
LEMMA ReclaimKeeps ==
    ASSUME TierInv, evict_prefix_cache_if_pressured
    PROVE  TierInv'
  <1>1. PICK t : t = s
    OBVIOUS
  <1>2. \E b, w : /\ \/ w = demote_block_to_host(t, b)
                     \/ w = Evict(evict_host_blocks_for_demote_headroom(t), {b})
                  /\ s' = spill_host_blocks_if_pressured(w, "Spill").t
                  /\ cmds' = spill_host_blocks_if_pressured(w, "Spill").q
    BY <1>1, Zenon DEF evict_prefix_cache_if_pressured
  <1>3. PICK b, w : /\ \/ w = demote_block_to_host(t, b)
                       \/ w = Evict(evict_host_blocks_for_demote_headroom(t), {b})
                    /\ s' = spill_host_blocks_if_pressured(w, "Spill").t
                    /\ cmds' = spill_host_blocks_if_pressured(w, "Spill").q
    BY <1>2
  <1>4. events' = events
    BY DEF evict_prefix_cache_if_pressured
  <1>5. Tables(t, {}, {}) /\ Air(t, cmds, events)
    BY <1>1 DEF TierInv
  <1>6. Shape(t) /\ Bounded(t)
    BY <1>5 DEF Tables
  <1>7. Moved(t, w)
    <2>1. Moved(t, demote_block_to_host(t, b))
      BY <1>6, DemoteMoves
    <2>2. PICK x : x = evict_host_blocks_for_demote_headroom(t)
      OBVIOUS
    <2>3. Moved(t, x)
      BY <1>6, <2>2, EvictMoves DEF evict_host_blocks_for_demote_headroom
    <2>4. Moved(x, Evict(x, {b}))
      BY <2>3, EvictMoves DEF Moved
    <2>5. Moved(t, Evict(x, {b}))
      BY <2>3, <2>4, MovedTrans
    <2> QED  BY <1>3, <2>1, <2>2, <2>5, Zenon
  <1>8. Tables(w, {}, {}) /\ w.fetchKeys = t.fetchKeys /\ w.storeKeys = t.storeKeys
    BY <1>5, <1>7, MovedKeeps
  <1>9. Air(w, cmds, events)
    BY <1>5, <1>8, AirSame
  <1>10. PICK a : a = spill_host_blocks_if_pressured(w, "Spill")
    OBVIOUS
  <1>11. Tables(a.t, {}, {}) /\ Air(a.t, a.q, events)
    BY <1>8, <1>9, <1>10, SpillKeeps
  <1> QED  BY <1>3, <1>4, <1>10, <1>11 DEF TierInv

\* The coordinator answers its first command with an event of the command's kind.
LEMMA AirAnswer ==
    ASSUME NEW t, NEW q, NEW ev, Air(t, q, ev), q /= <<>>, NEW e, e.ticket = Head(q).ticket,
           Head(q).kind = "fetch" => e.kind \in FetchAnswers,
           Head(q).kind = "store" => e.kind \in StoreAnswers
    PROVE  Air(t, Tail(q), Append(ev, e))
  <1>1. Flight(q, ev)
    BY DEF Air
  <1>2. PICK p, v : p = Tail(q) /\ v = Append(ev, e)
    OBVIOUS
  <1>3. /\ Flight(p, v)
        /\ \A l, ck, eks : Flies(q, ev, l, ck, eks) /\ (Head(q).kind = ck => e.kind \in eks)
                             => Flies(p, v, l, ck, eks)
    BY <1>1, <1>2, FlightAnswer, Zenon
  <1>4. \A l \in DOMAIN t.fetchKeys : Flies(p, v, l, "fetch", FetchAnswers)
    BY <1>3, Zenon DEF Air
  <1>5. \A l \in DOMAIN t.storeKeys : Flies(p, v, l, "store", StoreAnswers)
    BY <1>3, Zenon DEF Air
  <1>6. Air(t, p, v)
    BY <1>3, <1>4, <1>5 DEF Air
  <1> QED  BY <1>2, <1>6

\* The coordinator runs a fetch, whole, failed or cancelled, and answers it.
LEMMA FetchStepKeeps ==
    ASSUME TierInv, handle_fetch
    PROVE  TierInv'
  <1>1. PICK t, u, q, ev : t = s /\ u = s' /\ q = cmds /\ ev = events
    OBVIOUS
  <1>2. PICK st : st = Staging(Head(q))
    OBVIOUS
  <1>3. q /= <<>> /\ Head(q).kind = "fetch" /\ cmds' = Tail(q)
    BY <1>1 DEF handle_fetch
  <1>4. u = t \/ u = [t EXCEPT !.live = st.t.live, !.bytes = st.t.bytes]
    BY <1>1, <1>2, Zenon DEF handle_fetch
  <1>5. \/ Emit("fetched", Head(cmds).ticket, Staging(Head(cmds)).out)
        \/ Emit("fetch failed", Head(cmds).ticket, <<>>)
    BY Zenon DEF handle_fetch
  <1>6. PICK e : /\ e.ticket = Head(q).ticket /\ e.kind \in FetchAnswers
                 /\ events' = Append(ev, e)
    <2>1. CASE Emit("fetched", Head(cmds).ticket, Staging(Head(cmds)).out)
      <3>1. PICK e : e = [kind |-> "fetched", ticket |-> Head(cmds).ticket,
                          blocks |-> Staging(Head(cmds)).out]
        OBVIOUS
      <3>2. events' = Append(ev, e)
        BY <1>1, <2>1, <3>1, Zenon DEF Emit
      <3>3. e.ticket = Head(q).ticket /\ e.kind = "fetched"
        BY <1>1, <3>1
      <3> QED  BY <3>2, <3>3 DEF FetchAnswers
    <2>2. CASE Emit("fetch failed", Head(cmds).ticket, <<>>)
      <3>1. PICK e : e = [kind |-> "fetch failed", ticket |-> Head(cmds).ticket, blocks |-> <<>>]
        OBVIOUS
      <3>2. events' = Append(ev, e)
        BY <1>1, <2>2, <3>1, Zenon DEF Emit
      <3>3. e.ticket = Head(q).ticket /\ e.kind = "fetch failed"
        BY <1>1, <3>1
      <3> QED  BY <3>2, <3>3 DEF FetchAnswers
    <2> QED  BY <1>5, <2>1, <2>2
  <1>7. Tables(t, {}, {}) /\ Air(t, q, ev)
    BY <1>1 DEF TierInv
  <1>8. Shape(t) /\ Bounded(t)
    BY <1>7 DEF Tables
  <1>9. Moved(t, u)
    <2>1. DOMAIN u = DOMAIN t /\ SameFetch(t, u) /\ SameStore(t, u) /\ u.req = t.req /\ u.node = t.node
      BY <1>4, <1>8 DEF Shape, SameFetch, SameStore
    <2>2. IsFiniteSet(DOMAIN u.node)
      BY <1>8, <2>1 DEF Bounded
    <2> QED  BY <1>8, <2>1, <2>2, MovedBy
  <1>10. Tables(u, {}, {}) /\ u.fetchKeys = t.fetchKeys /\ u.storeKeys = t.storeKeys
    BY <1>7, <1>9, MovedKeeps
  <1>11. Air(t, Tail(q), Append(ev, e))
    BY <1>3, <1>6, <1>7, AirAnswer
  <1>12. Air(u, Tail(q), Append(ev, e))
    BY <1>10, <1>11, AirSame
  <1> QED  BY <1>1, <1>3, <1>6, <1>10, <1>12 DEF TierInv

\* The coordinator runs a store and answers it.
LEMMA StoreStepKeeps ==
    ASSUME TierInv, handle_store
    PROVE  TierInv'
  <1>1. PICK t, u, q, ev : t = s /\ u = s' /\ q = cmds /\ ev = events
    OBVIOUS
  <1>2. q /= <<>> /\ Head(q).kind = "store" /\ cmds' = Tail(q)
    BY <1>1 DEF handle_store
  <1>3. u = t \/ \E f, v : u = [t EXCEPT !.disk[f] = v]
    BY <1>1, Zenon DEF handle_store
  <1>4. PICK kind : kind \in StoreAnswers /\ Emit(kind, Head(cmds).ticket, <<>>)
    <2>1. Emit("stored", Head(cmds).ticket, <<>>) \/ Emit("store failed", Head(cmds).ticket, <<>>)
      BY Zenon DEF handle_store
    <2> QED  BY <2>1 DEF StoreAnswers
  <1>5. PICK e : /\ e.ticket = Head(q).ticket /\ e.kind \in StoreAnswers
                 /\ events' = Append(ev, e)
    <2>1. PICK e : e = [kind |-> kind, ticket |-> Head(cmds).ticket, blocks |-> <<>>]
      OBVIOUS
    <2>2. events' = Append(ev, e)
      BY <1>1, <1>4, <2>1, Zenon DEF Emit
    <2>3. e.ticket = Head(q).ticket /\ e.kind = kind
      BY <1>1, <2>1
    <2> QED  BY <1>4, <2>2, <2>3
  <1>6. Tables(t, {}, {}) /\ Air(t, q, ev)
    BY <1>1 DEF TierInv
  <1>7. Shape(t) /\ Bounded(t)
    BY <1>6 DEF Tables
  <1>8. Moved(t, u)
    <2>1. DOMAIN u = DOMAIN t /\ SameFetch(t, u) /\ SameStore(t, u) /\ u.req = t.req /\ u.node = t.node
      BY <1>3, <1>7 DEF Shape, SameFetch, SameStore
    <2>2. IsFiniteSet(DOMAIN u.node)
      BY <1>7, <2>1 DEF Bounded
    <2> QED  BY <1>7, <2>1, <2>2, MovedBy
  <1>9. Tables(u, {}, {}) /\ u.fetchKeys = t.fetchKeys /\ u.storeKeys = t.storeKeys
    BY <1>6, <1>8, MovedKeeps
  <1>10. Air(t, Tail(q), Append(ev, e))
    BY <1>2, <1>5, <1>6, AirAnswer
  <1>11. Air(u, Tail(q), Append(ev, e))
    BY <1>9, <1>10, AirSame
  <1> QED  BY <1>1, <1>2, <1>5, <1>9, <1>11 DEF TierInv

------------------------------------------------------------------------------
(* The invariant and what it says *)

\* Every step keeps the tables and the commands in flight in agreement.
LEMMA TierInvStep ==
    ASSUME TierInv, [Next]_vars
    PROVE  TierInv'
  <1>1. ASSUME NEW r \in Requests, AdmitCold(r) PROVE TierInv'
    BY <1>1, AdmitColdKeeps
  <1>2. ASSUME NEW r \in Requests, AdmitAttached(r) PROVE TierInv'
    BY <1>2, AdmitAttachedKeeps
  <1>3. ASSUME NEW r \in Requests, AdmitFromHost(r) PROVE TierInv'
    BY <1>3, AdmitFromHostKeeps
  <1>4. ASSUME NEW r \in Requests, AdmitStaged(r) PROVE TierInv'
    BY <1>4, AdmitStagedKeeps
  <1>5. ASSUME NEW r \in Requests, maybe_prefetch_staged_prefix(r) PROVE TierInv'
    BY <1>5, PrefetchStepKeeps
  <1>6. ASSUME NEW r \in Requests, HangUp(r) PROVE TierInv'
    BY <1>6, HangUpKeeps
  <1>7. ASSUME NEW r \in Requests, cleanup(r) PROVE TierInv'
    BY <1>7, CleanupKeeps
  <1>8. CASE handle_coordinator_event
    BY <1>8, EventKeeps
  <1>9. CASE trigger_background_store_drain
    BY <1>9, DrainKeeps
  <1>10. CASE evict_prefix_cache_if_pressured
    BY <1>10, ReclaimKeeps
  <1>11. CASE handle_fetch
    BY <1>11, FetchStepKeeps
  <1>12. CASE handle_store
    BY <1>12, StoreStepKeeps
  <1>13. CASE UNCHANGED vars
    <2>1. PICK t, q, ev : t = s /\ q = cmds /\ ev = events
      OBVIOUS
    <2>2. s' = t /\ cmds' = q /\ events' = ev
      BY <1>13, <2>1, Zenon DEF vars
    <2>3. Tables(t, {}, {}) /\ Air(t, q, ev)
      BY <2>1 DEF TierInv
    <2> QED  BY <2>2, <2>3 DEF TierInv
  <1> QED
    BY <1>1, <1>2, <1>3, <1>4, <1>5, <1>6, <1>7, <1>8, <1>9, <1>10, <1>11, <1>12, <1>13, Zenon
       DEF Next

\* The agreement of the fetch tables follows from the invariant.
LEMMA TierInvFetch ==
    ASSUME TierInv
    PROVE  FetchTablesAgree
  <1>1. PICK t : t = s
    OBVIOUS
  <1>2. FetchInv(t, {}) /\ Air(t, cmds, events)
    BY <1>1 DEF TierInv, Tables
  <1>3. ASSUME NEW k \in DOMAIN t.fetchKeys PROVE InFlight(k) = 1
    <2>1. Flight(cmds, events) /\ Flies(cmds, events, k, "fetch", FetchAnswers)
      BY <1>2 DEF Air
    <2> QED  BY <2>1, FliesOnce
  <1>4. /\ \A k \in DOMAIN t.fetchKeys : /\ t.fetchKeys[k] \in DOMAIN t.fetchDedupe
                                         /\ t.fetchDedupe[t.fetchKeys[k]] = k
        /\ \A x \in DOMAIN t.fetchDedupe : t.fetchDedupe[x] \in DOMAIN t.fetchKeys
    BY <1>2 DEF FetchInv, Paired
  <1>5. /\ DOMAIN t.fetchWaiting \cup t.prefetching = DOMAIN t.fetchKeys
        /\ \A k \in DOMAIN t.fetchWaiting : t.fetchWaiting[k] /= <<>>
    BY <1>2 DEF FetchInv
  <1> QED  BY <1>1, <1>3, <1>4, <1>5, Zenon DEF FetchTablesAgree

\* The agreement of the store tables follows from the invariant.
LEMMA TierInvStore ==
    ASSUME TierInv
    PROVE  StoreTablesAgree
  <1>1. PICK t : t = s
    OBVIOUS
  <1>2. StoreInv(t) /\ Air(t, cmds, events)
    BY <1>1 DEF TierInv, Tables
  <1>3. ASSUME NEW k \in DOMAIN t.storeKeys PROVE InFlight(k) = 1
    <2>1. Flight(cmds, events) /\ Flies(cmds, events, k, "store", StoreAnswers)
      BY <1>2 DEF Air
    <2> QED  BY <2>1, FliesOnce
  <1>4. /\ \A k \in DOMAIN t.storeKeys : /\ t.storeKeys[k] \in DOMAIN t.storeDedupe
                                         /\ t.storeDedupe[t.storeKeys[k]] = k
        /\ \A x \in DOMAIN t.storeDedupe : t.storeDedupe[x] \in DOMAIN t.storeKeys
    BY <1>2 DEF StoreInv, Paired
  <1>5. /\ DOMAIN t.storeWaiting = DOMAIN t.storeKeys
        /\ \A k, l \in DOMAIN t.storeWaiting :
             \A i \in DOMAIN t.storeWaiting[k], j \in DOMAIN t.storeWaiting[l] :
               t.storeWaiting[k][i].id = t.storeWaiting[l][j].id => k = l /\ i = j
    BY <1>2, Zenon DEF StoreInv, OneId
  <1>6. /\ \A k \in DOMAIN s.storeKeys : /\ s.storeKeys[k] \in DOMAIN s.storeDedupe
                                         /\ s.storeDedupe[s.storeKeys[k]] = k
                                         /\ InFlight(k) = 1
        /\ \A x \in DOMAIN s.storeDedupe : s.storeDedupe[x] \in DOMAIN s.storeKeys
    BY <1>1, <1>3, <1>4
  <1>7. /\ DOMAIN s.storeWaiting = DOMAIN s.storeKeys
        /\ \A k, l \in DOMAIN s.storeWaiting :
             \A i \in DOMAIN s.storeWaiting[k], j \in DOMAIN s.storeWaiting[l] :
               s.storeWaiting[k][i].id = s.storeWaiting[l][j].id => k = l /\ i = j
    BY <1>1, <1>5
  <1> QED  BY <1>6, <1>7, Zenon DEF StoreTablesAgree

\* Where request r is listed in the table of waiters.
Entries(fw, r) == UNION {{<<k, i>> : i \in {j \in DOMAIN fw[k] : fw[k][j] = r}} : k \in DOMAIN fw}

\* A pair is an entry of r when r stands there.
LEMMA EntryIs ==
    ASSUME NEW fw, NEW r, NEW e
    PROVE  e \in Entries(fw, r) <=> \E k \in DOMAIN fw : \E i \in DOMAIN fw[k] :
                                       fw[k][i] = r /\ e = <<k, i>>
  BY DEF Entries

\* That every waiter is served follows from the invariant.
LEMMA TierInvWait ==
    ASSUME TierInv
    PROVE  WaiterServed
  <1>1. PICK t, fw : t = s /\ fw = t.fetchWaiting
    OBVIOUS
  <1>2. WaitInv(t, {})
    BY <1>1 DEF TierInv, Tables
  <1>3. OneEntry(fw)
    BY <1>1, <1>2 DEF WaitInv
  <1>4. ASSUME NEW r \in Requests, t.req[r].phase = "fetch"
        PROVE  /\ Cardinality(Entries(fw, r)) = 1
               /\ \A e \in Entries(fw, r) : t.fetchKeys[e[1]] = fetch_key(t.req[r].plan)
    <2>1. PICK k \in DOMAIN fw : \E i \in DOMAIN fw[k] : fw[k][i] = r
      BY <1>1, <1>2, <1>4 DEF WaitInv
    <2>2. PICK i \in DOMAIN fw[k] : fw[k][i] = r
      BY <2>1
    <2>3. ASSUME NEW e \in Entries(fw, r) PROVE e = <<k, i>>
      <3>1. PICK l \in DOMAIN fw : \E j \in DOMAIN fw[l] : fw[l][j] = r /\ e = <<l, j>>
        BY <2>3, EntryIs
      <3>2. PICK j \in DOMAIN fw[l] : fw[l][j] = r /\ e = <<l, j>>
        BY <3>1
      <3>3. l = k /\ j = i
        BY <1>3, <2>2, <3>2 DEF OneEntry
      <3> QED  BY <3>2, <3>3
    <2>4. <<k, i>> \in Entries(fw, r)
      BY <2>2, EntryIs
    <2>5. PICK E, p : E = Entries(fw, r) /\ p = <<k, i>>
      OBVIOUS
    <2>6. E = {p}
      BY <2>3, <2>4, <2>5
    <2>7. Cardinality(E) = 1
      BY <2>6, FS_Singleton
    <2>8. t.fetchKeys[k] = fetch_key(t.req[r].plan)
      BY <1>1, <1>2, <2>2, Zenon DEF WaitInv
    <2> QED  BY <2>3, <2>5, <2>7, <2>8
  <1>5. ASSUME NEW r \in Requests, t.req[r].phase /= "fetch" PROVE Entries(fw, r) = {}
    <2>1. ASSUME NEW e \in Entries(fw, r) PROVE FALSE
      <3>1. PICK l \in DOMAIN fw : \E j \in DOMAIN fw[l] : fw[l][j] = r /\ e = <<l, j>>
        BY <2>1, EntryIs
      <3>2. PICK j \in DOMAIN fw[l] : fw[l][j] = r
        BY <3>1
      <3>3. t.req[fw[l][j]].phase = "fetch"
        BY <1>1, <1>2, <3>2, Zenon DEF WaitInv
      <3> QED  BY <1>5, <3>2, <3>3
    <2> QED  BY <2>1
  <1>6. \A r \in Requests :
          IF t.req[r].phase = "fetch"
          THEN /\ Cardinality(Entries(fw, r)) = 1
               /\ \A e \in Entries(fw, r) : t.fetchKeys[e[1]] = fetch_key(t.req[r].plan)
          ELSE Entries(fw, r) = {}
    BY <1>4, <1>5, Zenon
  <1>7. \A r \in Requests :
          IF s.req[r].phase = "fetch"
          THEN /\ Cardinality(Entries(s.fetchWaiting, r)) = 1
               /\ \A e \in Entries(s.fetchWaiting, r) :
                    s.fetchKeys[e[1]] = fetch_key(s.req[r].plan)
          ELSE Entries(s.fetchWaiting, r) = {}
    BY <1>1, <1>6
  <1> QED  BY <1>7, Zenon DEF WaiterServed, Entries

\* The tables of the scheduler and the commands in flight agree at all times.
LEMMA TierInvAlways == Spec => []TierInv
  <1>1. Init => TierInv
    BY TierInvInit
  <1>2. TierInv /\ [Next]_vars => TierInv'
    BY TierInvStep
  <1> QED  BY <1>1, <1>2, PTL DEF Spec

\* fetch_waiting, fetch_dedupe, fetch_ticket_keys and prefetch_fetching agree
\* whatever requests join, hang up, finish, are prefetched for or fall back: a
\* key leads to the ticket that fetches it, a tracked ticket is wanted, and the
\* coordinator's answer to it is still to come exactly once.
THEOREM FetchTables == Spec => []FetchTablesAgree
  BY TierInvAlways, TierInvFetch, PTL

\* A request in Phase::WaitingFetch is listed under exactly one ticket, the one
\* that fetches the key of its own plan; no other request is listed.
THEOREM WaitersServed == Spec => []WaiterServed
  BY TierInvAlways, TierInvWait, PTL

\* store_waiting, store_dedupe and store_ticket_keys agree whatever is spilled
\* or drained: one store per fingerprint is in flight, its answer still to
\* come exactly once, and no block waits on two stores.
THEOREM StoreTables == Spec => []StoreTablesAgree
  BY TierInvAlways, TierInvStore, PTL
==============================================================================
