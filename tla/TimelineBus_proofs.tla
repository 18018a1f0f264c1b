------------------------- MODULE TimelineBus_proofs -------------------------
(***************************************************************************)
(* The order of the list, and what each verdict makes of it, for any       *)
(* number of probes and faults, any answers and any delay of the appends.  *)
(***************************************************************************)
EXTENDS TimelineBus, FiniteSetTheorems, WellFoundedInduction, TLAPS

USE NamesAssumption, VerdictsAssumption, BusAssumption

\* Nothing is stamped in the future.
Stamped == \A i \in DOMAIN events : events[i].at <= now

\* Only injections and reverts speak of faults.
OfFaults == \A i \in DOMAIN events : events[i].who \in Faults <=> events[i].kind \in {"injected", "reverted"}

IInv == BusTypeOK /\ TimelineOrder /\ Stamped /\ OfFaults

\* What an append adds to a list.
LEMMA Appended ==
  ASSUME BusTypeOK, NEW e \in Event
  PROVE  /\ Append(events, e) \in Seq(Event)
         /\ Len(Append(events, e)) = Len(events) + 1
         /\ DOMAIN events = 1..Len(events)
         /\ DOMAIN Append(events, e) = 1..Len(events) + 1
         /\ \A i \in 1..Len(events) : Append(events, e)[i] = events[i]
         /\ Append(events, e)[Len(events) + 1] = e
         /\ Len(events) \in Nat
         /\ \A i \in 1..Len(events) : events[i] \in Event
BY DEF BusTypeOK

\* An event emitted out of order by no more than EmitGap, after those of its
\* own task, keeps the order, provided that what is said of a fault does.
LEMMA EmitKeepsOrder ==
  ASSUME IInv, NEW at \in Recent, NEW e \in Event, e.at = at, Emit(e),
         e.who \in Faults <=> e.kind \in {"injected", "reverted"},
         e.kind = "injected" => \A i \in DOMAIN events : events[i].who # e.who,
         e.kind = "reverted" =>
           /\ \E i \in Injections(events) : events[i].who = e.who
           /\ \A i \in Injections(events) : events[i].who = e.who => events[i].at <= e.at
  PROVE  IInv'
<1> DEFINE n == Len(events) + 1
<1>1. /\ events' = Append(events, e) /\ now' = now
      /\ events' \in Seq(Event) /\ now' \in Nat
      /\ Len(events') = n /\ n \in Nat /\ n > 0
      /\ DOMAIN events = 1..Len(events) /\ Len(events) \in Nat
      /\ DOMAIN events' = 1..n
      /\ \A i \in 1..Len(events) : events'[i] = events[i] /\ events[i] \in Event
      /\ events'[n] = e
  BY Appended DEF Emit, IInv, BusTypeOK
<1>2. e.at \in Nat /\ e.at <= now /\ now <= e.at + EmitGap
  BY DEF Recent, Event
<1> HIDE DEF n
<1>3. BusTypeOK'
  BY <1>1 DEF BusTypeOK
<1>4. Stamped' /\ OfFaults'
  <2>1. \A i \in 1..n : i \in 1..Len(events) \/ i = n
    BY <1>1 DEF n
  <2> QED
    BY <1>1, <1>2, <2>1 DEF IInv, Stamped, OfFaults
<1>5. ASSUME NEW i \in 1..n, NEW j \in i..n
      PROVE  /\ events'[i].at <= events'[j].at + EmitGap
             /\ SameTask(events'[i], events'[j]) => events'[i].at <= events'[j].at
             /\ i # j /\ events'[i].who = events'[j].who => events'[j].kind # "injected"
             /\ events'[i].who = events'[j].who /\ events'[i].kind = "injected" =>
                  events'[i].at <= events'[j].at
  <2>1. CASE j \in 1..Len(events)
    <3>1. i \in 1..Len(events) /\ j \in i..Len(events)
      BY <2>1, <1>1
    <3> QED
      BY <3>1, <1>1 DEF IInv, TimelineOrder, SameTask, Author
  <2>2. CASE j = n /\ i \in 1..Len(events)
    <3>1. events'[i] = events[i] /\ events'[j] = e /\ events[i].at <= now /\ events[i].at \in Nat
      BY <1>1, <2>2 DEF IInv, Stamped, Event
    <3>2. /\ SameTask(events[i], e) => events[i].at <= e.at
          /\ e.kind = "injected" => events[i].who # e.who
      BY <1>1, <2>2 DEF Emit
    <3>4. events[i].kind = "injected" /\ events[i].who = e.who => events[i].at <= e.at
      BY <1>1, <2>2, <3>2 DEF IInv, OfFaults, Injections, Of
    <3>3. BusTypeOK /\ now \in Nat
      BY DEF IInv, BusTypeOK
    <3> QED
      BY <3>1, <3>2, <3>3, <3>4, <1>1, <1>2, <2>2
  <2>3. CASE i = n /\ j = n
    BY <2>3, <1>1, <1>2
  <2> QED
    BY <2>1, <2>2, <2>3, <1>1 DEF n
<1>6. ASSUME NEW j \in Reverts(events')
      PROVE  \E i \in Injections(events') : i < j /\ events'[i].who = events'[j].who
  <2>1. j \in 1..n /\ events'[j].kind = "reverted"
    BY <1>1 DEF Reverts, Of
  <2>2. \A i \in Injections(events) : i \in Injections(events') /\ i \in 1..Len(events)
    BY <1>1 DEF Injections, Of, n
  <2>3. CASE j \in 1..Len(events)
    BY <2>1, <2>2, <2>3, <1>1 DEF IInv, TimelineOrder, Reverts, Of
  <2>4. CASE j = n
    BY <2>1, <2>2, <2>4, <1>1 DEF n
  <2>5. j \in 1..Len(events) \/ j = n
    BY <2>1, <1>1 DEF n
  <2> QED
    BY <2>3, <2>4, <2>5
<1> QED
  BY <1>1, <1>3, <1>4, <1>5, <1>6 DEF IInv, TimelineOrder

\* The invariant holds: a task can only append what the lemma allows.
THEOREM Invariance == Spec => []IInv
<1>1. Init => IInv
  BY DEF Init, IInv, BusTypeOK, TimelineOrder, Stamped, OfFaults, Event, EventKind, Emitters,
         SameTask, Author, Reverts, Injections, Of
<1>2. ASSUME IInv, [Next]_vars PROVE IInv'
  <2> USE <1>2
  <2>1. ASSUME NEW at \in Recent, EmitSample(at) PROVE IInv'
    <3>1. PICK a \in Answers : Emit([at |-> at, kind |-> a.kind, who |-> a.who, ms |-> a.ms])
      BY <2>1 DEF EmitSample
    <3> DEFINE e == [at |-> at, kind |-> a.kind, who |-> a.who, ms |-> a.ms]
    <3>2. /\ e \in Event /\ e.at = at /\ e.who \in Probes
          /\ e.kind \in {"success", "failed", "timeout"}
      BY DEF Recent, Event, EventKind, Emitters
    <3> HIDE DEF e
    <3> QED
      BY <3>1, <3>2, EmitKeepsOrder DEF e
  <2>2. ASSUME NEW at \in Recent, EmitEnded(at) PROVE IInv'
    <3>1. PICK n \in 1..Len(events) :
            Emit([at |-> at, kind |-> "ended", who |-> "main", ms |-> Cardinality(Failures(SubSeq(events, 1, n)))])
      BY <2>2 DEF EmitEnded
    <3> DEFINE e == [at |-> at, kind |-> "ended", who |-> "main", ms |-> Cardinality(Failures(SubSeq(events, 1, n)))]
    <3>2. Cardinality(Failures(SubSeq(events, 1, n))) \in Nat
      <4>1. IsFiniteSet(1..n) /\ Failures(SubSeq(events, 1, n)) \subseteq 1..n
        BY FS_Interval DEF IInv, BusTypeOK, Failures, Of
      <4> QED
        BY <4>1, FS_Subset, FS_CardinalityType
    <3>3. e \in Event /\ e.at = at /\ e.who = "main" /\ e.kind = "ended"
      BY <3>2 DEF Recent, Event, EventKind, Emitters
    <3> HIDE DEF e
    <3> QED
      BY <3>1, <3>3, EmitKeepsOrder DEF e
  <2>3. ASSUME NEW f \in Faults, NEW at \in Recent, EmitInjected(f, at) PROVE IInv'
    <3> DEFINE e == [at |-> at, kind |-> "injected", who |-> f, ms |-> 0]
    <3>1. e \in Event /\ e.at = at /\ e.who = f /\ e.kind = "injected"
      BY DEF Recent, Event, EventKind, Emitters
    <3>2. Emit(e) /\ \A i \in DOMAIN events : events[i].who # f
      BY <2>3 DEF EmitInjected
    <3> HIDE DEF e
    <3> QED
      BY <3>1, <3>2, EmitKeepsOrder
  <2>4. ASSUME NEW f \in Faults, NEW at \in Recent, EmitReverted(f, at) PROVE IInv'
    <3> DEFINE e == [at |-> at, kind |-> "reverted", who |-> f, ms |-> 0]
    <3>1. e \in Event /\ e.at = at /\ e.who = f /\ e.kind = "reverted"
      BY DEF Recent, Event, EventKind, Emitters
    <3>2. Emit(e)
      BY <2>4 DEF EmitReverted
    <3>3. PICK k \in Injections(events) : events[k].who = f /\ events[k].at <= at
      BY <2>4 DEF EmitReverted
    <3>4. ASSUME NEW i \in Injections(events), events[i].who = f
          PROVE  events[i].at <= e.at
      <4>1. /\ i \in 1..Len(events) /\ events[i].kind = "injected"
            /\ k \in 1..Len(events) /\ events[k].kind = "injected"
        BY DEF IInv, BusTypeOK, Injections, Of
      <4>2. i = k
        BY <4>1, <3>3, <3>4 DEF IInv, TimelineOrder
      <4> QED
        BY <4>2, <3>1, <3>3
    <3> HIDE DEF e
    <3> QED
      BY <3>1, <3>2, <3>3, <3>4, EmitKeepsOrder
  <2>5. CASE Tick
    <3>1. now \in Nat /\ now' = now + 1 /\ events' = events
      BY <2>5 DEF Tick, IInv, BusTypeOK
    <3>2. TimelineOrder' /\ OfFaults' /\ BusTypeOK'
      BY <3>1 DEF IInv, TimelineOrder, OfFaults, BusTypeOK, SameTask, Author, Reverts, Injections, Of
    <3>3. ASSUME NEW i \in DOMAIN events PROVE events[i].at <= now'
      <4>1. events[i] \in Event /\ events[i].at <= now
        BY DEF IInv, BusTypeOK, Stamped
      <4> QED
        BY <3>1, <4>1 DEF Event
    <3> QED
      BY <3>1, <3>2, <3>3 DEF IInv, Stamped
  <2>6. CASE UNCHANGED vars
    BY <2>6 DEF vars, IInv, BusTypeOK, TimelineOrder, Stamped, OfFaults, SameTask, Author, Reverts, Injections, Of
  <2> QED
    BY <2>1, <2>2, <2>3, <2>4, <2>5, <2>6, <1>2 DEF Next, Emits
<1> QED
  BY <1>1, <1>2, PTL DEF Spec

\* Whoever appends, the list is one of events (bus.rs:29-94).
THEOREM BusTypes == Spec => []BusTypeOK
BY Invariance, PTL DEF IInv

\* The list is in order of time up to the delay of an append (bus.rs:33-87),
\* and in order for each probe and the handler; no fault is injected twice, and
\* all its reverts, of a timer as of the drain, come after its injection.
THEOREM ListInOrder == Spec => []TimelineOrder
BY Invariance, PTL DEF IInv

(***************************************************************************)
(* Positions.                                                              *)
(***************************************************************************)
Less == {ss \in Nat \X Nat : ss[1] < ss[2]}

LEMMA LessWellFounded == IsWellFoundedOn(Less, Nat)
BY NatLessThanWellFounded DEF OpToRel, Less

LEMMA Least ==
  ASSUME NEW T, T \subseteq Nat, T # {}
  PROVE  \E x \in T : \A y \in T : x <= y
<1>1. PICK x \in T : \A y \in T : <<y, x>> \notin Less
  BY WFMin, LessWellFounded
<1>2. \A y \in T : ~(y < x)
  BY <1>1 DEF Less
<1> QED
  BY <1>2

\* A set of positions that is not empty has a first member and a last.
LEMMA FirstOf ==
  ASSUME NEW n \in Nat, NEW I, I \subseteq 1..n, I # {}
  PROVE  First(I) \in I /\ \A i \in I : First(I) <= i
<1>1. I \subseteq Nat
  OBVIOUS
<1>2. \E i \in I : \A j \in I : i <= j
  BY <1>1, Least
<1> QED
  BY <1>2 DEF First

LEMMA FinalOf ==
  ASSUME NEW n \in Nat, NEW I, I \subseteq 1..n, I # {}
  PROVE  Final(I) \in I /\ \A i \in I : i <= Final(I)
<1> DEFINE U == {n - i : i \in I}
<1>1. \A i \in I : i \in Nat /\ n - i \in Nat
  OBVIOUS
<1>2. \A i \in I : n - i \in U
  OBVIOUS
<1>3. \A u \in U : \E i \in I : u = n - i
  OBVIOUS
<1> HIDE DEF U
<1>4. U \subseteq Nat /\ U # {}
  BY <1>1, <1>2, <1>3
<1>5. PICK u \in U : \A y \in U : u <= y
  BY <1>4, Least
<1>6. PICK x \in I : u = n - x
  BY <1>3
<1>7. ASSUME NEW i \in I PROVE i <= x
  <2>1. n - x <= n - i /\ i \in Nat /\ x \in Nat
    BY <1>1, <1>2, <1>5, <1>6
  <2> QED
    BY <2>1
<1> QED
  BY <1>7 DEF Final

\* The positions of a list in order, and their times.
LEMMA Positions ==
  ASSUME IInv
  PROVE  /\ Len(events) \in Nat /\ EmitGap \in Nat
         /\ \A i \in 1..Len(events) : events[i] \in Event /\ events[i].at \in Nat
         /\ Injections(events) \subseteq 1..Len(events)
         /\ Reverts(events) \subseteq 1..Len(events)
         /\ Failures(events) \subseteq 1..Len(events)
         /\ Successes(events) \subseteq 1..Len(events)
         /\ \A i, j \in 1..Len(events) : i <= j => events[i].at <= events[j].at + EmitGap
<1>1. events \in Seq(Event)
  BY DEF IInv, BusTypeOK
<1>2. Len(events) \in Nat /\ DOMAIN events = 1..Len(events)
  BY <1>1
<1>3. \A i \in 1..Len(events) : events[i] \in Event
  BY <1>1
<1>4. \A i \in 1..Len(events) : events[i].at \in Nat
  BY <1>3 DEF Event
<1>5. ASSUME NEW i \in 1..Len(events), NEW j \in 1..Len(events), i <= j
      PROVE  events[i].at <= events[j].at + EmitGap
  <2>1. j \in i..Len(events)
    BY <1>2, <1>5
  <2> QED
    BY <2>1 DEF IInv, TimelineOrder
<1> QED
  BY <1>2, <1>3, <1>4, <1>5 DEF Injections, Reverts, Failures, Successes, Of

\* What the clock puts in a window stands in it, but for a race; and what
\* stands in it belongs there, but for a race.
LEMMA Windows ==
  ASSUME IInv, NEW w \in Nat, NEW i \in 1..Len(events)
  PROVE  /\ \A j \in 1..Len(events) : Surely(i, j, w) => j \in Window(events, i, w)
         /\ \A j \in Window(events, i, w) : j \in 1..Len(events) /\ i < j /\ Perhaps(i, j, w)
<1>1. ASSUME NEW j \in 1..Len(events), Surely(i, j, w)
      PROVE  j \in Window(events, i, w)
  <2>0. events[i].at \in Nat /\ events[j].at \in Nat /\ EmitGap \in Nat /\ Len(events) \in Nat
    BY Positions
  <2>1. ~(j <= i)
    <3>1. j <= i => events[j].at <= events[i].at + EmitGap
      BY Positions
    <3> QED
      BY <1>1, <2>0, <3>1 DEF Surely
  <2>2. ASSUME NEW k \in i+1..j PROVE events[k].at <= events[i].at + w
    <3>1. k \in 1..Len(events) /\ k <= j
      BY <2>0, <2>1
    <3>2. events[k].at <= events[j].at + EmitGap /\ events[k].at \in Nat
      BY <3>1, Positions
    <3> QED
      BY <1>1, <2>0, <3>2 DEF Surely
  <2>3. j \in i+1..Len(events)
    BY <2>0, <2>1
  <2> QED
    BY <2>2, <2>3 DEF Window
<1>2. ASSUME NEW j \in Window(events, i, w)
      PROVE  j \in 1..Len(events) /\ i < j /\ Perhaps(i, j, w)
  BY Positions DEF Window, Perhaps
<1> QED
  BY <1>1, <1>2

(***************************************************************************)
(* The verdicts.                                                           *)
(***************************************************************************)
\* What NoCascade means on a list that is not sorted (cascade.rs:70-95).
THEOREM CascadeSound == Spec => []CascadeMeaning
<1>1. ASSUME IInv PROVE CascadeMeaning
  <2> SUFFICES ASSUME NEW w \in 0..MaxTime
      PROVE  /\ NoCascade(events, w) =>
                  \A i \in Injections(events), j \in Failures(events) :
                    Surely(i, j, w) => events[j].who \in Expected[events[i].who]
             /\ ~NoCascade(events, w) =>
                  \E i \in Injections(events), j \in Failures(events) :
                    Perhaps(i, j, w) /\ events[j].who \notin Expected[events[i].who]
    BY DEF CascadeMeaning
  <2>1. w \in Nat
    OBVIOUS
  <2>2. ASSUME NEW i \in Injections(events), NEW j \in Failures(events), Surely(i, j, w)
        PROVE  j \in Window(events, i, w)
    BY <1>1, <2>1, <2>2, Windows, Positions
  <2>3. ASSUME NEW i \in Injections(events), NEW j \in Window(events, i, w)
        PROVE  Perhaps(i, j, w)
    BY <1>1, <2>1, Windows, Positions
  <2> QED
    BY <2>2, <2>3 DEF NoCascade
<1> QED
  BY <1>1, Invariance, PTL

\* A fault that recovered in time, as RecoveryTime sees it.
LEMMA RecoveredIs ==
  ASSUME IInv, NEW i \in Injections(events), NEW max \in Nat, NEW w \in Nat
  PROVE  LET F == {k \in Failures(events) : Surely(i, k, w)}
         IN /\ Recovered(events, i, max, w) =>
                 F = {} \/ \E s \in Successes(events) :
                             /\ events[s].at <= events[i].at + max
                             /\ \A k \in F : events[k].at < events[s].at + EmitGap
            /\ ~Recovered(events, i, max, w) =>
                 \E k \in Failures(events) :
                   /\ Perhaps(i, k, w)
                   /\ ~\E s \in Successes(events) :
                         Surely(i, s, AtMost(max, w)) /\ events[s].at > events[k].at
<1> DEFINE F == {k \in Failures(events) : Surely(i, k, w)}
           G == Window(events, i, w) \cap Failures(events)
           S == {j \in Window(events, i, w) \cap Successes(events) : events[j].at > events[Final(G)].at}
<1>1. i \in 1..Len(events)
  BY Positions
<1>2. F \subseteq G /\ G \subseteq 1..Len(events) /\ S \subseteq 1..Len(events)
  BY <1>1, Windows, Positions
<1>3. G # {} => Final(G) \in G /\ \A k \in G : k <= Final(G)
  BY <1>2, Positions, FinalOf
<1>4. S # {} => First(S) \in S /\ \A s \in S : First(S) <= s
  BY <1>2, Positions, FirstOf
<1>5. Recovered(events, i, max, w) <=> G = {} \/ (S # {} /\ events[First(S)].at <= events[i].at + max)
  BY DEF Recovered
<1> HIDE DEF G, S
<1>6. ASSUME Recovered(events, i, max, w), F # {}
      PROVE  \E s \in Successes(events) :
               /\ events[s].at <= events[i].at + max
               /\ \A k \in F : events[k].at < events[s].at + EmitGap
  <2>1. G # {} /\ S # {} /\ events[First(S)].at <= events[i].at + max
    BY <1>2, <1>5, <1>6
  <2>2. First(S) \in Successes(events) /\ events[First(S)].at > events[Final(G)].at
    BY <2>1, <1>4 DEF S
  <2>3. ASSUME NEW k \in F PROVE events[k].at < events[First(S)].at + EmitGap
    <3>1. k \in 1..Len(events) /\ Final(G) \in 1..Len(events) /\ k <= Final(G)
      BY <1>2, <1>3, <2>1
    <3>2. events[k].at <= events[Final(G)].at + EmitGap
      BY <3>1, Positions
    <3> QED
      BY <2>2, <3>1, <3>2, Positions
  <2> QED
    BY <2>1, <2>2, <2>3
<1>7. ASSUME ~Recovered(events, i, max, w)
      PROVE  \E k \in Failures(events) :
               /\ Perhaps(i, k, w)
               /\ ~\E s \in Successes(events) :
                     Surely(i, s, AtMost(max, w)) /\ events[s].at > events[k].at
  <2>1. G # {} /\ (S = {} \/ ~(events[First(S)].at <= events[i].at + max))
    BY <1>5, <1>7
  <2>2. Final(G) \in Failures(events) /\ Perhaps(i, Final(G), w)
    BY <2>1, <1>1, <1>3, Windows DEF G
  <2>3. ASSUME NEW s \in Successes(events), Surely(i, s, AtMost(max, w)), events[s].at > events[Final(G)].at
        PROVE  FALSE
    <3>1. s \in 1..Len(events) /\ Surely(i, s, w) /\ events[s].at + EmitGap <= events[i].at + max
      BY <2>3, <1>1, Positions DEF Surely, AtMost
    <3>2. s \in S
      BY <3>1, <2>3, <1>1, Windows DEF S
    <3>3. First(S) \in 1..Len(events) /\ First(S) <= s
      BY <3>2, <1>2, <1>4
    <3>4. events[First(S)].at <= events[s].at + EmitGap
      BY <3>1, <3>3, Positions
    <3> QED
      <4>1. S # {} /\ ~(events[First(S)].at <= events[i].at + max)
        BY <2>1, <3>2
      <4>2. /\ events[First(S)].at \in Nat /\ events[s].at \in Nat
            /\ events[i].at \in Nat /\ EmitGap \in Nat
        BY <1>1, <3>1, <3>3, Positions
      <4> QED
        BY <3>1, <3>4, <4>1, <4>2
  <2> QED
    BY <2>2, <2>3
<1> QED
  BY <1>6, <1>7

\* The same of a DNS fault and the first success after its revert.
LEMMA DnsIs ==
  ASSUME IInv, NEW max \in Nat
  PROVE  LET Dns == {i \in Reverts(events) : KindOf[events[i].who] = "dns"} IN
         /\ DnsResolution(events, max) =>
              \A i \in Dns : \E s \in Successes(events) : Perhaps(i, s, max)
         /\ ~DnsResolution(events, max) =>
              \E i \in Dns : ~\E s \in Successes(events) : Surely(i, s, max)
<1> DEFINE Dns == {i \in Reverts(events) : KindOf[events[i].who] = "dns"}
           S(i) == {j \in Successes(events) : j > i}
           InTime(i) == S(i) # {} /\ events[First(S(i))].at <= events[i].at + max
<1>1. DnsResolution(events, max) <=> \A i \in Dns : InTime(i)
  <2>1. \A i \in Reverts(events) : \E j \in Injections(events) : events[j].who = events[i].who
    BY DEF IInv, TimelineOrder
  <2> QED
    BY <2>1 DEF DnsResolution
<1>2. ASSUME NEW i \in Dns
      PROVE  /\ InTime(i) => \E s \in Successes(events) : Perhaps(i, s, max)
             /\ ~InTime(i) => ~\E s \in Successes(events) : Surely(i, s, max)
  <2>1. i \in 1..Len(events) /\ S(i) \subseteq 1..Len(events)
    BY Positions
  <2>2. S(i) # {} => First(S(i)) \in S(i) /\ \A s \in S(i) : First(S(i)) <= s
    <3> HIDE DEF S
    <3> QED
      BY <2>1, Positions, FirstOf
  <2>3. ASSUME InTime(i) PROVE \E s \in Successes(events) : Perhaps(i, s, max)
    <3>1. First(S(i)) \in Successes(events) /\ First(S(i)) \in 1..Len(events) /\ i < First(S(i))
      BY <2>1, <2>2, <2>3
    <3>2. events[i].at <= events[First(S(i))].at + EmitGap
      BY <2>1, <3>1, Positions
    <3> QED
      BY <2>3, <3>1, <3>2 DEF Perhaps
  <2>4. ASSUME NEW s \in Successes(events), Surely(i, s, max) PROVE InTime(i)
    <3>1. s \in 1..Len(events) /\ ~(s <= i)
      BY <2>1, <2>4, Positions DEF Surely
    <3>2. s \in S(i)
      BY <2>1, <3>1, Positions
    <3>3. First(S(i)) \in 1..Len(events) /\ First(S(i)) <= s
      BY <2>1, <2>2, <3>2
    <3>4. events[First(S(i))].at <= events[s].at + EmitGap
      BY <3>1, <3>3, Positions
    <3>5. events[First(S(i))].at <= events[i].at + max
      BY <2>1, <2>4, <3>1, <3>3, <3>4, Positions DEF Surely
    <3> QED
      BY <3>2, <3>5
  <2> QED
    BY <2>3, <2>4
<1> HIDE DEF InTime, Dns
<1>3. /\ DnsResolution(events, max) => \A i \in Dns : \E s \in Successes(events) : Perhaps(i, s, max)
      /\ ~DnsResolution(events, max) => \E i \in Dns : ~\E s \in Successes(events) : Surely(i, s, max)
  BY <1>1, <1>2
<1> QED
  BY <1>3 DEF Dns

\* What the two recovery properties mean on such a list (recovery.rs:66-101,
\* dns_resolution.rs:61-77), whatever their limits and however faults overlap.
THEOREM RecoverySound == Spec => []RecoveryMeaning
<1>1. ASSUME IInv PROVE RecoveryMeaning
  <2> SUFFICES ASSUME NEW max \in 0..MaxTime, NEW w \in max..MaxTime
      PROVE  /\ RecoveryTime(events, max, w) =>
                  \A i \in Injections(events) :
                    LET F == {k \in Failures(events) : Surely(i, k, w)}
                    IN F = {} \/ \E s \in Successes(events) :
                                   /\ events[s].at <= events[i].at + max
                                   /\ \A k \in F : events[k].at < events[s].at + EmitGap
             /\ ~RecoveryTime(events, max, w) =>
                  \E i \in Injections(events), k \in Failures(events) :
                    /\ Perhaps(i, k, w)
                    /\ ~\E s \in Successes(events) :
                          Surely(i, s, AtMost(max, w)) /\ events[s].at > events[k].at
             /\ LET Dns == {i \in Reverts(events) : KindOf[events[i].who] = "dns"} IN
                /\ DnsResolution(events, max) =>
                     \A i \in Dns : \E s \in Successes(events) : Perhaps(i, s, max)
                /\ ~DnsResolution(events, max) =>
                     \E i \in Dns : ~\E s \in Successes(events) : Surely(i, s, max)
    BY DEF RecoveryMeaning
  <2>1. max \in Nat /\ w \in Nat
    OBVIOUS
  <2> QED
    BY <1>1, <2>1, RecoveredIs, DnsIs DEF RecoveryTime
<1> QED
  BY <1>1, Invariance, PTL

\* The failure `explore` reports as the detection of a fault (query.rs:24-66)
\* is the first after the fault, but for a race.
THEOREM DetectionSound == Spec => []DetectionMeaning
<1>1. ASSUME IInv PROVE DetectionMeaning
  <2> SUFFICES ASSUME NEW i \in Injections(events)
      PROVE  LET later == {events[j].at - events[i].at :
                             j \in {k \in Failures(events) : events[k].at >= events[i].at}}
                 reported == DetectionLatency(events, events[i].who)
             IN /\ reported \subseteq later
                /\ later # {} => reported # {}
                /\ \A d \in reported, l \in later : d <= l + EmitGap
    BY DEF DetectionMeaning
  <2> DEFINE I == {k \in Injections(events) : events[k].who = events[i].who}
             F == {j \in Failures(events) : events[j].at >= events[i].at}
  <2>1. /\ i \in 1..Len(events) /\ events[i].kind = "injected"
        /\ F \subseteq 1..Len(events) /\ I \subseteq 1..Len(events)
    BY <1>1, Positions DEF Injections, Of
  <2>2. I = {i}
    <3>1. ASSUME NEW k \in I PROVE k = i
      <4>1. events[k].kind = "injected" /\ k \in 1..Len(events) /\ events[k].who = events[i].who
        BY <2>1 DEF Injections, Of
      <4>2. Len(events) \in Nat
        BY <1>1, Positions
      <4>3. CASE k < i
        BY <1>1, <2>1, <4>1, <4>2, <4>3 DEF IInv, TimelineOrder
      <4>4. CASE i < k
        BY <1>1, <2>1, <4>1, <4>2, <4>4 DEF IInv, TimelineOrder
      <4> QED
        BY <2>1, <4>1, <4>2, <4>3, <4>4
    <3> QED
      BY <3>1
  <2>3. First(I) = i
    BY <1>1, <2>1, <2>2, Positions, FirstOf
  <2>4. F # {} => First(F) \in F /\ \A j \in F : First(F) <= j
    <3> HIDE DEF F
    <3> QED
      BY <1>1, <2>1, Positions, FirstOf
  <2>5. FirstFailureAfter(events, events[i].who) = IF F = {} THEN {} ELSE {First(F)}
    <3>1. I # {}
      BY <2>2
    <3>2. F = {j \in Failures(events) : events[j].at >= events[First(I)].at}
      BY <2>3
    <3> HIDE DEF F
    <3> QED
      BY <3>1, <3>2 DEF FirstFailureAfter
  <2>6. DetectionLatency(events, events[i].who) = IF F = {} THEN {} ELSE {events[First(F)].at - events[i].at}
    <3> HIDE DEF F
    <3> QED
      BY <2>3, <2>5 DEF DetectionLatency
  <2>7. ASSUME NEW j \in F
        PROVE  events[First(F)].at - events[i].at <= (events[j].at - events[i].at) + EmitGap
    <3>1. First(F) \in 1..Len(events) /\ j \in 1..Len(events) /\ First(F) <= j
      BY <2>1, <2>4, <2>7
    <3>2. /\ events[First(F)].at <= events[j].at + EmitGap
          /\ events[First(F)].at \in Nat /\ events[j].at \in Nat /\ events[i].at \in Nat /\ EmitGap \in Nat
      BY <1>1, <2>1, <3>1, Positions
    <3> QED
      BY <3>2
  <2> HIDE DEF F
  <2> DEFINE later == {events[j].at - events[i].at : j \in F}
             reported == DetectionLatency(events, events[i].who)
  <2>8. reported \subseteq later /\ (later # {} => reported # {})
    BY <2>4, <2>6
  <2>9. \A d \in reported, l \in later : d <= l + EmitGap
    BY <2>6, <2>7
  <2> QED
    BY <2>8, <2>9 DEF F
<1> QED
  BY <1>1, Invariance, PTL

\* Both of what is said of a fault (recovery.rs, dns_resolution.rs, query.rs).
THEOREM FaultsSound == Spec => []FaultMeaning
<1>1. RecoveryMeaning /\ DetectionMeaning => FaultMeaning
  BY DEF FaultMeaning
<1> QED
  BY RecoverySound, DetectionSound, <1>1, PTL

(***************************************************************************)
(* Who speaks of what.                                                     *)
(***************************************************************************)
\* Probes, and only probes, report samples; the list begins at time zero.
SampleInv ==
  /\ \A i \in DOMAIN events : events[i].who \in Probes <=> events[i].kind \in {"success", "failed", "timeout"}
  /\ Len(events) > 0 /\ events[1].at = 0

LEMMA EmitKeepsSamples ==
  ASSUME BusTypeOK, SampleInv, NEW e \in Event, Emit(e),
         e.who \in Probes <=> e.kind \in {"success", "failed", "timeout"}
  PROVE  SampleInv'
<1>1. /\ events' = Append(events, e)
      /\ Len(events') = Len(events) + 1 /\ Len(events) \in Nat
      /\ DOMAIN events = 1..Len(events) /\ DOMAIN events' = 1..Len(events) + 1
      /\ \A i \in 1..Len(events) : events'[i] = events[i]
      /\ events'[Len(events) + 1] = e
  BY Appended DEF Emit
<1>2. \A i \in 1..Len(events) + 1 : i \in 1..Len(events) \/ i = Len(events) + 1
  BY <1>1
<1> QED
  BY <1>1, <1>2 DEF SampleInv

\* Whoever appends.
LEMMA Sampled == Spec => []SampleInv
<1>1. Init => SampleInv
  BY DEF Init, SampleInv
<1>2. ASSUME IInv, SampleInv, [Next]_vars PROVE SampleInv'
  <2> USE <1>2
  <2>0. BusTypeOK
    BY DEF IInv
  <2>1. ASSUME NEW at \in Recent, EmitSample(at) PROVE SampleInv'
    <3>1. PICK a \in Answers : Emit([at |-> at, kind |-> a.kind, who |-> a.who, ms |-> a.ms])
      BY <2>1 DEF EmitSample
    <3> DEFINE e == [at |-> at, kind |-> a.kind, who |-> a.who, ms |-> a.ms]
    <3>2. e \in Event /\ e.who \in Probes /\ e.kind \in {"success", "failed", "timeout"}
      BY DEF Recent, Event, EventKind, Emitters
    <3> HIDE DEF e
    <3> QED
      BY <2>0, <3>1, <3>2, EmitKeepsSamples DEF e
  <2>2. ASSUME NEW at \in Recent, EmitEnded(at) PROVE SampleInv'
    <3>1. PICK n \in 1..Len(events) :
            Emit([at |-> at, kind |-> "ended", who |-> "main", ms |-> Cardinality(Failures(SubSeq(events, 1, n)))])
      BY <2>2 DEF EmitEnded
    <3> DEFINE e == [at |-> at, kind |-> "ended", who |-> "main", ms |-> Cardinality(Failures(SubSeq(events, 1, n)))]
    <3>2. Cardinality(Failures(SubSeq(events, 1, n))) \in Nat
      <4>1. IsFiniteSet(1..n) /\ Failures(SubSeq(events, 1, n)) \subseteq 1..n
        BY FS_Interval DEF IInv, BusTypeOK, Failures, Of
      <4> QED
        BY <4>1, FS_Subset, FS_CardinalityType
    <3>3. e \in Event /\ e.who = "main" /\ e.kind = "ended"
      BY <3>2 DEF Recent, Event, EventKind, Emitters
    <3> HIDE DEF e
    <3> QED
      BY <2>0, <3>1, <3>3, EmitKeepsSamples DEF e
  <2>3. ASSUME NEW f \in Faults, NEW at \in Recent, EmitInjected(f, at) PROVE SampleInv'
    <3> DEFINE e == [at |-> at, kind |-> "injected", who |-> f, ms |-> 0]
    <3>1. e \in Event /\ e.who \notin Probes /\ e.kind = "injected" /\ Emit(e)
      BY <2>3 DEF Recent, Event, EventKind, Emitters, EmitInjected
    <3> HIDE DEF e
    <3> QED
      BY <2>0, <3>1, EmitKeepsSamples
  <2>4. ASSUME NEW f \in Faults, NEW at \in Recent, EmitReverted(f, at) PROVE SampleInv'
    <3> DEFINE e == [at |-> at, kind |-> "reverted", who |-> f, ms |-> 0]
    <3>1. e \in Event /\ e.who \notin Probes /\ e.kind = "reverted" /\ Emit(e)
      BY <2>4 DEF Recent, Event, EventKind, Emitters, EmitReverted
    <3> HIDE DEF e
    <3> QED
      BY <2>0, <3>1, EmitKeepsSamples
  <2>5. CASE UNCHANGED events
    BY <2>5 DEF SampleInv
  <2>6. Tick \/ UNCHANGED vars => UNCHANGED events
    BY DEF Tick, vars
  <2> QED
    BY <2>1, <2>2, <2>3, <2>4, <2>5, <2>6 DEF Next, Emits
<1> QED
  BY <1>1, <1>2, Invariance, PTL DEF Spec

(***************************************************************************)
(* Counting.                                                               *)
(***************************************************************************)
\* A set of positions is finite, and so are its parts.
LEMMA Counts ==
  ASSUME NEW n \in Nat, NEW I, I \subseteq 1..n
  PROVE  /\ IsFiniteSet(I) /\ Cardinality(I) \in Nat
         /\ Cardinality(I) = 0 <=> I = {}
         /\ \A J : J \subseteq I =>
              /\ IsFiniteSet(J) /\ Cardinality(J) \in Nat /\ Cardinality(J) <= Cardinality(I)
              /\ Cardinality(J) = Cardinality(I) => J = I
<1>1. IsFiniteSet(1..n)
  BY FS_Interval
<1>2. IsFiniteSet(I)
  BY <1>1, FS_Subset
<1>3. \A J : J \subseteq I =>
        /\ IsFiniteSet(J) /\ Cardinality(J) <= Cardinality(I)
        /\ Cardinality(J) = Cardinality(I) => J = I
  BY <1>2, FS_Subset
<1> QED
  BY <1>2, <1>3, FS_EmptySet, FS_CardinalityType

\* Sets of positions that have nothing in common add up.
LEMMA AddUp ==
  ASSUME NEW n \in Nat, NEW I, I \subseteq 1..n, NEW J, J \subseteq 1..n
  PROVE  /\ Cardinality(I \cup J) <= Cardinality(I) + Cardinality(J)
         /\ I \cap J = {} => Cardinality(I \cup J) = Cardinality(I) + Cardinality(J)
<1>1. IsFiniteSet(I) /\ IsFiniteSet(J) /\ Cardinality(I) \in Nat /\ Cardinality(J) \in Nat
  BY Counts
<1>2. Cardinality(I \cup J) = Cardinality(I) + Cardinality(J) - Cardinality(I \cap J)
  BY <1>1, FS_Union
<1>3. Cardinality(I \cap J) \in Nat /\ (I \cap J = {} => Cardinality(I \cap J) = 0)
  <2>1. I \cap J \subseteq I
    OBVIOUS
  <2> QED
    BY <2>1, Counts, FS_EmptySet
<1> QED
  BY <1>1, <1>2, <1>3

\* A set of positions that is not empty has one of the greatest value.
LEMMA Greatest ==
  ASSUME NEW n \in Nat, NEW I, I \subseteq 1..n, I # {}, NEW f, \A i \in 1..n : f[i] \in Nat
  PROVE  \E x \in I : \A y \in I : f[y] <= f[x]
<1> DEFINE Upto(k) == {i \in I : i <= k}
           Peak(k) == Upto(k) = {} \/ \E x \in Upto(k) : \A y \in Upto(k) : f[y] <= f[x]
           T == {k \in 0..n : ~Peak(k)}
<1>1. ASSUME T # {} PROVE FALSE
  <2>1. T \subseteq Nat
    OBVIOUS
  <2>2. PICK k \in T : \A j \in T : k <= j
    BY <1>1, <2>1, Least
  <2>3. k \in 0..n /\ ~Peak(k)
    BY <2>2
  <2>4. k > 0
    <3>1. \A i \in I : ~(i <= 0)
      OBVIOUS
    <3>2. Upto(0) = {}
      BY <3>1
    <3> QED
      BY <2>3, <3>2
  <2>5. k - 1 \in 0..n /\ Peak(k - 1)
    <3>1. k - 1 \in 0..n /\ ~(k <= k - 1)
      BY <2>3, <2>4
    <3> HIDE DEF Peak
    <3> QED
      BY <2>2, <3>1
  <2>6. \A i \in I : i \in Nat /\ f[i] \in Nat /\ (i <= k <=> i <= k - 1 \/ i = k)
    BY <2>3, <2>4
  <2>7. CASE k \notin I
    <3>1. Upto(k) = Upto(k - 1)
      BY <2>6, <2>7
    <3> HIDE DEF Upto
    <3> QED
      BY <2>3, <2>5, <3>1
  <2>8. CASE k \in I /\ Upto(k - 1) = {}
    <3>1. \A y \in Upto(k) : y = k
      BY <2>6, <2>8
    <3>2. k \in Upto(k) /\ f[k] <= f[k]
      BY <2>6, <2>8
    <3> HIDE DEF Upto
    <3> QED
      BY <2>3, <3>1, <3>2
  <2>9. CASE k \in I /\ Upto(k - 1) # {}
    <3>1. PICK x \in Upto(k - 1) : \A y \in Upto(k - 1) : f[y] <= f[x]
      BY <2>5, <2>9
    <3>2. x \in Upto(k) /\ k \in Upto(k) /\ f[x] \in Nat /\ f[k] \in Nat
      BY <2>6, <2>9
    <3>3. \A y \in Upto(k) : f[y] \in Nat /\ (f[y] <= f[x] \/ y = k)
      BY <2>6, <3>1
    <3>4. CASE f[k] <= f[x]
      BY <2>3, <3>2, <3>3, <3>4
    <3>5. CASE ~(f[k] <= f[x])
      <4>1. \A y \in Upto(k) : f[y] <= f[k]
        BY <3>2, <3>3, <3>5
      <4> QED
        BY <2>3, <3>2, <4>1
    <3> QED
      BY <3>4, <3>5
  <2> QED
    BY <2>7, <2>8, <2>9
<1>2. Peak(n)
  BY <1>1
<1>3. Upto(n) = I
  <2>1. \A i \in I : i <= n
    OBVIOUS
  <2> QED
    BY <2>1
<1> HIDE DEF Upto
<1> QED
  BY <1>2, <1>3

\* Ranked is an order statistic: it is one of the latencies, and it is no
\* more than m iff r of them are.
LEMMA RankedIs ==
  ASSUME NEW ev \in Seq(Event), NEW I, I \subseteq 1..Len(ev), NEW r \in 1..Cardinality(I)
  PROVE  /\ \E i \in I : Ranked(ev, I, r) = ev[i].ms
         /\ \A m \in Nat : Ranked(ev, I, r) <= m <=> Cardinality({i \in I : ev[i].ms <= m}) >= r
<1> DEFINE Below(m) == {i \in I : ev[i].ms <= m}
           enough == {i \in I : Cardinality({j \in I : ev[j].ms <= ev[i].ms}) >= r}
           best == CHOOSE i \in enough : \A j \in enough : ev[i].ms <= ev[j].ms
<1>1. Len(ev) \in Nat /\ \A i \in 1..Len(ev) : ev[i] \in Event
  OBVIOUS
<1>2. \A i \in I : ev[i].ms \in Nat
  BY <1>1 DEF Event
<1>3. Cardinality(I) \in Nat /\ r \in Nat /\ r > 0 /\ r <= Cardinality(I)
  <2>1. Cardinality(I) \in Nat
    BY <1>1, Counts
  <2> QED
    BY <2>1
<1>4. \A m : Below(m) \subseteq I
  OBVIOUS
<1>5. \A m : Cardinality(Below(m)) \in Nat /\ (Cardinality(Below(m)) = 0 <=> Below(m) = {})
  <2> HIDE DEF Below
  <2>1. \A m : Below(m) \subseteq 1..Len(ev)
    BY <1>4
  <2> QED
    BY <2>1, <1>1, Counts
<1>6. enough = {i \in I : Cardinality(Below(ev[i].ms)) >= r}
  OBVIOUS
\* The slowest of those below m, if there are enough of them, has enough below it.
<1>7. ASSUME NEW m \in Nat, Cardinality(Below(m)) >= r
      PROVE  \E i \in enough : ev[i].ms <= m
  <2>1. Below(m) # {} /\ Below(m) \subseteq 1..Len(ev)
    <3> HIDE DEF Below
    <3>1. Cardinality(Below(m)) \in Nat /\ Cardinality(Below(m)) >= r
      BY <1>5, <1>7
    <3>2. Cardinality(Below(m)) # 0
      BY <1>3, <3>1
    <3> QED
      BY <1>4, <1>5, <3>2
  <2> DEFINE f == [i \in 1..Len(ev) |-> ev[i].ms]
  <2>2. \A i \in 1..Len(ev) : f[i] \in Nat /\ f[i] = ev[i].ms
    BY <1>1 DEF Event
  <2> HIDE DEF f
  <2>3. PICK x \in Below(m) : \A y \in Below(m) : f[y] <= f[x]
    <3> HIDE DEF Below
    <3> QED
      BY <1>1, <2>1, <2>2, Greatest
  <2>4. \A y \in Below(m) : ev[y].ms <= ev[x].ms
    BY <2>2, <2>3
  <2>5. Below(ev[x].ms) = Below(m)
    <3>1. x \in I /\ ev[x].ms <= m /\ ev[x].ms \in Nat
      BY <1>2
    <3>2. \A i \in I : ev[i].ms <= ev[x].ms => ev[i].ms <= m
      BY <1>2, <3>1
    <3> QED
      BY <2>4, <3>2
  <2>6. x \in enough
    <3> HIDE DEF enough
    <3> SUFFICES x \in I /\ Cardinality(Below(ev[x].ms)) >= r
      BY <1>6
    <3> QED
      BY <1>7, <2>5
  <2> QED
    BY <2>6
<1>8. enough # {}
  <2>1. PICK m \in Nat : \A i \in I : ev[i].ms <= m
    <3> DEFINE f == [i \in 1..Len(ev) |-> ev[i].ms]
    <3>1. \A i \in 1..Len(ev) : f[i] \in Nat /\ f[i] = ev[i].ms
      BY <1>1 DEF Event
    <3>2. I # {}
      BY <1>1, <1>3, Counts
    <3> HIDE DEF f
    <3>3. PICK x \in I : \A y \in I : f[y] <= f[x]
      BY <1>1, <3>1, <3>2, Greatest
    <3> QED
      BY <1>2, <3>1, <3>3
  <2>2. Below(m) = I
    BY <2>1
  <2>3. Cardinality(Below(m)) >= r
    BY <1>3, <2>2
  <2> QED
    BY <1>7, <2>3
<1>9. best \in enough /\ \A j \in enough : ev[best].ms <= ev[j].ms
  <2> DEFINE T == {ev[i].ms : i \in enough}
  <2>1. T \subseteq Nat /\ T # {} /\ \A j \in enough : ev[j].ms \in T
    <3>1. \A i \in enough : ev[i].ms \in Nat
      BY <1>2
    <3> HIDE DEF enough
    <3> QED
      BY <1>8, <3>1
  <2>2. PICK x \in T : \A y \in T : x <= y
    <3> HIDE DEF T
    <3> QED
      BY <2>1, Least
  <2>3. PICK i \in enough : x = ev[i].ms
    OBVIOUS
  <2>4. \A j \in enough : ev[i].ms <= ev[j].ms
    <3> HIDE DEF T, enough
    <3> QED
      BY <2>1, <2>2, <2>3
  <2> HIDE DEF enough
  <2> QED
    BY <2>3, <2>4
<1>10. Ranked(ev, I, r) = ev[best].ms
  BY DEF Ranked
<1>11. best \in I /\ Cardinality(Below(ev[best].ms)) >= r
  <2> HIDE DEF best
  <2> QED
    BY <1>9
<1>12. ASSUME NEW m \in Nat PROVE ev[best].ms <= m <=> Cardinality(Below(m)) >= r
  <2> HIDE DEF best
  <2>1. ASSUME ev[best].ms <= m PROVE Cardinality(Below(m)) >= r
    <3>1. ev[best].ms \in Nat
      BY <1>2, <1>11
    <3>2. Below(ev[best].ms) \subseteq Below(m)
      <4>1. \A i \in I : ev[i].ms <= ev[best].ms => ev[i].ms <= m
        BY <1>2, <2>1, <3>1
      <4> QED
        BY <4>1
    <3>3. Cardinality(Below(ev[best].ms)) <= Cardinality(Below(m))
      <4>1. Below(m) \subseteq 1..Len(ev)
        BY <1>4
      <4> HIDE DEF Below
      <4> QED
        BY <1>1, <3>2, <4>1, Counts
    <3> HIDE DEF Below
    <3> QED
      BY <1>3, <1>5, <1>11, <3>3
  <2>2. ASSUME Cardinality(Below(m)) >= r PROVE ev[best].ms <= m
    <3>1. PICK i \in enough : ev[i].ms <= m
      BY <1>7, <2>2
    <3>2. ev[best].ms <= ev[i].ms
      BY <1>9
    <3>3. i \in I
      OBVIOUS
    <3> QED
      BY <1>2, <1>11, <3>1, <3>2, <3>3
  <2> QED
    BY <2>1, <2>2
<1> HIDE DEF best, enough
<1> QED
  BY <1>10, <1>11, <1>12

(***************************************************************************)
(* Latency.                                                                *)
(***************************************************************************)
\* The samples are those of the probes, each a success or a failure.
LEMMA SamplesAre ==
  ASSUME IInv, SampleInv
  PROVE  /\ Len(events) \in Nat /\ DOMAIN events = 1..Len(events) /\ Len(events) > 0
         /\ Successes(events) \subseteq 1..Len(events) /\ Failures(events) \subseteq 1..Len(events)
         /\ Samples(events) = {i \in 1..Len(events) : events[i].who \in Probes}
         /\ Samples(events) = Successes(events) \cup Failures(events)
         /\ Successes(events) \cap Failures(events) = {}
         /\ \A i \in 1..Len(events) : events[i].at \in Nat /\ events[i].ms \in Nat
<1>1. Len(events) \in Nat /\ DOMAIN events = 1..Len(events) /\ \A i \in 1..Len(events) : events[i] \in Event
  BY DEF IInv, BusTypeOK
<1>2. \A i \in 1..Len(events) : events[i].who \in Probes <=> events[i].kind \in {"success", "failed", "timeout"}
  BY <1>1 DEF SampleInv
<1>3. /\ Successes(events) = {i \in 1..Len(events) : events[i].kind = "success"}
      /\ Failures(events) = {i \in 1..Len(events) : events[i].kind \in {"failed", "timeout"}}
      /\ Samples(events) = Successes(events) \cup Failures(events)
  BY <1>1 DEF Successes, Failures, Samples, Of
<1>4. \A i \in 1..Len(events) : events[i].at \in Nat /\ events[i].ms \in Nat
  BY <1>1 DEF Event
<1>5. Len(events) > 0
  BY DEF SampleInv
<1>6. Samples(events) = {i \in 1..Len(events) : events[i].who \in Probes}
  BY <1>2, <1>3
<1> QED
  BY <1>1, <1>3, <1>4, <1>5, <1>6

\* A captured list is a part of the list.
LEMMA Snapshot ==
  ASSUME IInv, SampleInv, NEW n \in 1..Len(events)
  PROVE  LET snap == SubSeq(events, 1, n) IN
         /\ snap \in Seq(Event) /\ Len(snap) = n /\ DOMAIN snap = 1..n /\ n \in Nat /\ 1..n \subseteq 1..Len(events)
         /\ \A i \in 1..n : snap[i] = events[i]
         /\ Successes(snap) = Successes(events) \cap 1..n
         /\ Samples(snap) = Samples(events) \cap 1..n
<1> DEFINE snap == SubSeq(events, 1, n)
<1>1. events \in Seq(Event) /\ Len(events) \in Nat /\ DOMAIN events = 1..Len(events)
  BY DEF IInv, BusTypeOK
<1>2. snap \in Seq(Event) /\ Len(snap) = n /\ DOMAIN snap = 1..n /\ n \in Nat
  BY <1>1
<1>3. \A i \in 1..n : snap[i] = events[i] /\ i \in 1..Len(events)
  BY <1>1
<1> HIDE DEF snap
<1>4. \A K : Of(snap, K) = Of(events, K) \cap 1..n
  BY <1>1, <1>2, <1>3 DEF Of
<1>5. /\ Successes(snap) = Successes(events) \cap 1..n
      /\ Samples(snap) = Samples(events) \cap 1..n
  BY <1>4 DEF Successes, Failures, Samples
<1> QED
  BY <1>2, <1>3, <1>5 DEF snap

\* A latency percentile at most max: that share of the successes was as fast.
LEMMA LatencyIs ==
  ASSUME IInv, SampleInv, NEW pct \in {1, 50, 99, 100}, NEW max \in Nat
  PROVE  Latency(events, Probes, pct, max) <=>
           100 * Cardinality({i \in Successes(events) : events[i].ms <= max})
             >= pct * Cardinality(Successes(events))
<1> DEFINE I == Successes(events)
           n == Cardinality(I)
           fast == {i \in I : events[i].ms <= max}
           rank == (pct * n + 99) \div 100
           r == AtMost(AtLeast(rank, 1), n)
<1>1. Named(events, Probes) \cap I = I
  BY SamplesAre DEF Named
<1>2. /\ I \subseteq 1..Len(events) /\ fast \subseteq I /\ Len(events) \in Nat
      /\ n \in Nat /\ Cardinality(fast) \in Nat /\ Cardinality(fast) <= n
      /\ n = 0 <=> I = {}
  <2>1. I \subseteq 1..Len(events) /\ fast \subseteq I /\ Len(events) \in Nat
    BY SamplesAre
  <2> HIDE DEF I, fast
  <2> QED
    BY <2>1, Counts
<1>3. Latency(events, Probes, pct, max) <=> (I = {} \/ Ranked(events, I, r) <= max)
  BY <1>1 DEF Latency
<1>4. CASE n = 0
  <2>1. Cardinality(fast) = 0
    BY <1>2, <1>4
  <2> HIDE DEF I, fast
  <2> QED
    BY <1>2, <1>3, <1>4, <2>1 DEF I, fast
<1>5. CASE n > 0
  <2>1. r \in 1..n /\ (Cardinality(fast) >= r <=> 100 * Cardinality(fast) >= pct * n)
    <3> HIDE DEF fast, n
    <3> QED
      BY <1>2, <1>5 DEF AtMost, AtLeast
  <2>2. Ranked(events, I, r) <= max <=> Cardinality(fast) >= r
    <3>1. events \in Seq(Event)
      BY DEF IInv, BusTypeOK
    <3>2. r \in 1..Cardinality(I)
      BY <2>1
    <3> HIDE DEF I, r
    <3>3. \A m \in Nat : Ranked(events, I, r) <= m <=> Cardinality({i \in I : events[i].ms <= m}) >= r
      BY ONLY <1>2, <3>1, <3>2, RankedIs
    <3> QED
      BY <3>3 DEF fast
  <2>3. I # {}
    BY <1>2, <1>5
  <2> QED
    BY <1>3, <2>1, <2>2, <2>3
<1> QED
  BY <1>2, <1>4, <1>5

\* The interpolated percentile of baseline.rs: at most m, and all but 5% of
\* the answers, less half an answer, are.
LEMMA PercentileIs ==
  ASSUME NEW ev \in Seq(Event), NEW I, I \subseteq 1..Len(ev)
  PROVE  /\ Percentile(ev, I, 95) = 0 \/ \E i \in I : Percentile(ev, I, 95) = ev[i].ms
         /\ \A m \in Nat : I # {} /\ Percentile(ev, I, 95) <= m =>
              100 * Cardinality({i \in I : ev[i].ms <= m}) + 45 >= 95 * Cardinality(I)
<1> DEFINE n == Cardinality(I)
           r == (95 * (n - 1) + 50) \div 100 + 1
<1>1. Len(ev) \in Nat /\ n \in Nat /\ (n = 0 <=> I = {})
  <2>1. Len(ev) \in Nat
    OBVIOUS
  <2> QED
    BY <2>1, Counts
<1>2. CASE I = {}
  BY <1>2 DEF Percentile
<1>3. CASE I # {}
  <2>1. n > 0
    <3> HIDE DEF n
    <3>1. n # 0
      BY <1>1, <1>3, Zenon
    <3> QED
      BY <1>1, <3>1
  <2>2. r \in 1..n /\ 100 * r + 45 >= 95 * n
    <3> HIDE DEF n
    <3> QED
      BY <1>1, <2>1
  <2>3. Percentile(ev, I, 95) = Ranked(ev, I, r)
    BY <1>3 DEF Percentile
  <2>4. /\ \E i \in I : Ranked(ev, I, r) = ev[i].ms
        /\ \A m \in Nat : Ranked(ev, I, r) <= m <=> Cardinality({i \in I : ev[i].ms <= m}) >= r
    <3>1. r \in 1..Cardinality(I)
      BY <2>2
    <3> HIDE DEF r, n
    <3> QED
      BY ONLY <3>1, ev \in Seq(Event), I \subseteq 1..Len(ev), RankedIs
  <2>5. ASSUME NEW m \in Nat, Ranked(ev, I, r) <= m
        PROVE  100 * Cardinality({i \in I : ev[i].ms <= m}) + 45 >= 95 * n
    <3> DEFINE c == Cardinality({i \in I : ev[i].ms <= m})
    <3>1. c >= r
      BY <2>4, <2>5
    <3>2. c \in Nat
      <4>1. {i \in I : ev[i].ms <= m} \subseteq 1..Len(ev)
        OBVIOUS
      <4> QED
        BY <1>1, <4>1, Counts
    <3>3. r \in Nat
      BY <1>1, <2>2
    <3> HIDE DEF c, r, n
    <3>4. 100 * c + 45 >= 95 * n
      BY <1>1, <2>2, <3>1, <3>2, <3>3
    <3> QED
      BY <3>4 DEF c
  <2> HIDE DEF r
  <2> QED
    BY <2>3, <2>4, <2>5
<1> QED
  BY <1>2, <1>3

\* Ranks of latencies (latency.rs, baseline.rs:190).
LEMMA LatencySound ==
  ASSUME IInv, SampleInv PROVE LatencyMeaning
<1>1. ASSUME NEW pct \in {1, 50, 99, 100}, NEW max \in 0..MaxTime
      PROVE  Latency(events, Probes, pct, max) <=>
               100 * Cardinality({i \in Successes(events) : events[i].ms <= max})
                 >= pct * Cardinality(Successes(events))
  BY LatencyIs
<1>2. ASSUME NEW n \in 1..Len(events), NEW d \in 1..MaxTime,
             BaselineLatencyDiff(SubSeq(events, 1, n), events, d, 2),
             NEW p \in Known(SubSeq(events, 1, n), d)
      PROVE  LET snap == SubSeq(events, 1, n)
                 before == Timed(snap, By(snap, Baseline(snap, d), p))
                 after == Timed(events, By(events, ChaosPhase(events, d), p))
                 near == {i \in after : events[i].ms <= 2 \/ \E k \in before : events[i].ms <= 2 * snap[k].ms}
             IN after # {} /\ 100 * Cardinality(near) + 45 >= 95 * Cardinality(after)
  <2> DEFINE snap == SubSeq(events, 1, n)
             before == Timed(snap, By(snap, Baseline(snap, d), p))
             after == Timed(events, By(events, ChaosPhase(events, d), p))
             near == {i \in after : events[i].ms <= 2 \/ \E k \in before : events[i].ms <= 2 * snap[k].ms}
             slow == Percentile(snap, before, 95)
  <2>1. after # {} /\ Percentile(events, after, 95) <= 2 * AtLeast(slow, 1)
    BY <1>2 DEF BaselineLatencyDiff
  <2>2. /\ snap \in Seq(Event) /\ Len(snap) = n /\ n \in Nat
        /\ Samples(snap) \subseteq 1..n
        /\ \A i \in 1..n : snap[i] \in Event
    BY Snapshot
  <2>3. events \in Seq(Event) /\ Len(events) \in Nat /\ Samples(events) \subseteq 1..Len(events)
    BY SamplesAre DEF IInv, BusTypeOK
  <2>4. before \subseteq 1..n /\ after \subseteq 1..Len(events)
    <3> HIDE DEF snap
    <3> QED
      BY <2>2, <2>3 DEF Timed, By, Baseline, ChaosPhase
  <2> HIDE DEF snap, before, after
  <2>5. slow = 0 \/ \E k \in before : slow = snap[k].ms
    BY <2>2, <2>4, PercentileIs
  <2>6. slow \in Nat
    BY <2>2, <2>4, <2>5 DEF Event
  <2> DEFINE m == 2 * AtLeast(slow, 1)
  <2>7. m \in Nat /\ (m = 2 \/ m = 2 * slow)
    BY <2>6 DEF AtLeast
  <2>8. 100 * Cardinality({i \in after : events[i].ms <= m}) + 45 >= 95 * Cardinality(after)
    <3> HIDE DEF m
    <3>1. Percentile(events, after, 95) <= m
      BY <2>1 DEF m
    <3>2. \A k \in Nat : after # {} /\ Percentile(events, after, 95) <= k =>
            100 * Cardinality({i \in after : events[i].ms <= k}) + 45 >= 95 * Cardinality(after)
      BY ONLY <2>3, <2>4, PercentileIs
    <3> QED
      BY <2>1, <2>7, <3>1, <3>2
  <2>9. {i \in after : events[i].ms <= m} \subseteq near
    <3>1. ASSUME NEW i \in after, events[i].ms <= m
          PROVE  events[i].ms <= 2 \/ \E k \in before : events[i].ms <= 2 * snap[k].ms
      <4>1. CASE m = 2
        BY <3>1, <4>1
      <4>2. CASE m # 2
        <5>1. m = 2 * slow /\ slow # 0
          <6> HIDE DEF slow
          <6> QED
            BY <2>6, <4>2 DEF AtLeast
        <5>2. PICK k \in before : slow = snap[k].ms
          BY <2>5, <5>1
        <5>3. events[i].ms <= 2 * snap[k].ms
          BY <3>1, <5>1, <5>2
        <5> QED
          BY <5>3
      <4> QED
        BY <4>1, <4>2
    <3> HIDE DEF m
    <3> QED
      BY <3>1
  <2>10. 100 * Cardinality(near) + 45 >= 95 * Cardinality(after)
    <3> DEFINE fast == {i \in after : events[i].ms <= m}
    <3>1. fast \subseteq near /\ near \subseteq 1..Len(events) /\ after \subseteq 1..Len(events)
      BY <2>4, <2>9
    <3> HIDE DEF fast, near
    <3>2. /\ Cardinality(fast) \in Nat /\ Cardinality(near) \in Nat /\ Cardinality(after) \in Nat
          /\ Cardinality(fast) <= Cardinality(near)
      BY <2>3, <3>1, Counts
    <3>3. 100 * Cardinality(fast) + 45 >= 95 * Cardinality(after)
      BY <2>8 DEF fast
    <3> QED
      BY <3>2, <3>3
  <2> QED
    BY <2>1, <2>10 DEF near, after, before, snap
<1> QED
  BY <1>1, <1>2 DEF LatencyMeaning

(***************************************************************************)
(* Windows of successes.                                                   *)
(***************************************************************************)
LEMMA CountsIn ==
  ASSUME IInv, SampleInv, NEW s \in Nat, NEW t \in Nat
  PROVE  /\ EventsInWindow(events, s, t) \cap Successes(events) =
              {i \in Successes(events) : s <= events[i].at /\ events[i].at <= t}
         /\ CountIn(events, s, t) = Cardinality({i \in Successes(events) : s <= events[i].at /\ events[i].at <= t})
         /\ CountIn(events, s, t) \in Nat
<1>1. EventsInWindow(events, s, t) \cap Successes(events) =
        {i \in Successes(events) : s <= events[i].at /\ events[i].at <= t}
  BY SamplesAre DEF EventsInWindow
<1>2. {i \in Successes(events) : s <= events[i].at /\ events[i].at <= t} \subseteq 1..Len(events)
  BY SamplesAre
<1>3. Len(events) \in Nat
  BY SamplesAre
<1>4. CountIn(events, s, t) = Cardinality({i \in Successes(events) : s <= events[i].at /\ events[i].at <= t})
  BY <1>1 DEF CountIn
<1> QED
  BY <1>1, <1>2, <1>3, <1>4, Counts

\* A window the code tries holds no more than one that starts after its first
\* event, before the next, but for the successes at that first event.
LEMMA Slides ==
  ASSUME IInv, SampleInv, NEW s \in Nat, NEW t \in Nat, NEW w \in Nat, s <= t,
         \A i \in 1..Len(events) : events[i].at <= t => events[i].at <= s
  PROVE  CountIn(events, s, s + w) <= CountIn(events, t, t + w) + (IF s = t THEN 0 ELSE CountIn(events, s, s))
<1> DEFINE A == {i \in Successes(events) : s <= events[i].at /\ events[i].at <= s + w}
           B == {i \in Successes(events) : t <= events[i].at /\ events[i].at <= t + w}
           C == {i \in Successes(events) : s <= events[i].at /\ events[i].at <= s}
<1>1. /\ CountIn(events, s, s + w) = Cardinality(A)
      /\ CountIn(events, t, t + w) = Cardinality(B)
      /\ CountIn(events, s, s) = Cardinality(C)
  <2>1. s + w \in Nat /\ t + w \in Nat
    OBVIOUS
  <2> QED
    BY <2>1, CountsIn
<1>2. CASE s = t
  <2>1. Cardinality(B) \in Nat /\ A = B
    BY <1>1, <1>2, CountsIn
  <2> HIDE DEF A, B, C
  <2> QED
    BY <1>1, <1>2, <2>1
<1>3. CASE s # t
  <2>1. A \subseteq B \cup C
    <3>1. ASSUME NEW i \in A PROVE i \in B \cup C
      <4>1. i \in 1..Len(events) /\ events[i].at \in Nat /\ i \in Successes(events)
        BY SamplesAre
      <4>2. s <= events[i].at /\ events[i].at <= s + w
        OBVIOUS
      <4>3. CASE t <= events[i].at
        BY <4>1, <4>2, <4>3
      <4>4. CASE events[i].at <= t
        <5>1. events[i].at <= s
          BY <4>1, <4>4
        <5> QED
          BY <4>1, <4>2, <5>1
      <4> QED
        BY <4>1, <4>3, <4>4
    <3> HIDE DEF A, B, C
    <3> QED
      BY <3>1
  <2>2. B \subseteq 1..Len(events) /\ C \subseteq 1..Len(events) /\ Len(events) \in Nat
    BY SamplesAre
  <2> HIDE DEF A, B, C
  <2>3. B \cup C \subseteq 1..Len(events)
    BY <2>2
  <2>4. Cardinality(A) <= Cardinality(B \cup C) /\ Cardinality(A) \in Nat /\ Cardinality(B \cup C) \in Nat
    BY <2>1, <2>2, <2>3, Counts
  <2>5. Cardinality(B \cup C) <= Cardinality(B) + Cardinality(C)
    BY <2>2, AddUp
  <2>6. Cardinality(B) \in Nat /\ Cardinality(C) \in Nat
    BY <2>2, Counts
  <2>7. Cardinality(A) <= Cardinality(B) + Cardinality(C)
    BY <2>4, <2>5, <2>6
  <2> QED
    BY <1>1, <1>3, <2>7
<1> QED
  BY <1>2, <1>3

\* The windows that start at an event, and any other (throughput.rs:72-84).
LEMMA ThroughputSound ==
  ASSUME IInv, SampleInv PROVE ThroughputMeaning
<1> SUFFICES ASSUME NEW w \in 1..MaxTime, w <= LastAt(events), NEW min \in 0..Len(events)
    PROVE  IF Throughput(events, w, min, w)
             THEN \A t \in 0..LastAt(events) - w :
                    LET before == {i \in DOMAIN events : events[i].at <= t}
                        prev == events[CHOOSE i \in before : \A j \in before : events[j].at <= events[i].at].at
                    IN CountIn(events, t, t + w) + (IF prev = t THEN 0 ELSE CountIn(events, prev, prev)) >= min
             ELSE \E t \in 0..LastAt(events) - w : CountIn(events, t, t + w) < min
  BY DEF ThroughputMeaning
<1> DEFINE last == LastAt(events)
<1>1. /\ Len(events) \in Nat /\ DOMAIN events = 1..Len(events) /\ Len(events) > 0
      /\ \A i \in 1..Len(events) : events[i].at \in Nat
      /\ w \in Nat /\ w > 0 /\ min \in Nat
  BY SamplesAre
<1>2. last \in Nat /\ events # <<>>
  <2>1. events # <<>> /\ Len(events) \in 1..Len(events)
    BY <1>1
  <2> QED
    BY <1>1, <2>1 DEF LastAt
<1>3. w <= last
  OBVIOUS
<1>4. Throughput(events, w, min, w) <=>
        \A i \in 1..Len(events) : events[i].at + w <= last => CountIn(events, events[i].at, events[i].at + w) >= min
  <2>1. Throughput(events, w, min, w) <=>
          \A i \in 1..Len(events) : events[i].at + w <= last =>
            CountIn(events, events[i].at, events[i].at + w) * w >= min * w
    <3> HIDE DEF last
    <3>1. ~(last < w) /\ last >= w
      BY <1>1, <1>2, <1>3
    <3> QED
      BY <1>1, <1>2, <3>1 DEF Throughput, last
  <2>2. \A i \in 1..Len(events) : CountIn(events, events[i].at, events[i].at + w) \in Nat
    <3>1. \A i \in 1..Len(events) : events[i].at \in Nat /\ events[i].at + w \in Nat
      BY <1>1
    <3> QED
      BY <3>1, CountsIn
  <2>3. \A c \in Nat : c * w >= min * w <=> c >= min
    <3>1. ASSUME NEW c \in Nat, c >= min PROVE c * w >= min * w
      BY <1>1, <3>1
    <3>2. ASSUME NEW c \in Nat, ~(c >= min) PROVE ~(c * w >= min * w)
      <4>1. c + 1 <= min
        BY <1>1, <3>2
      <4>2. (c + 1) * w <= min * w
        BY <1>1, <4>1
      <4>3. (c + 1) * w = c * w + w
        BY <1>1
      <4>4. c * w \in Nat /\ min * w \in Nat
        BY <1>1
      <4> QED
        BY <1>1, <4>2, <4>3, <4>4
    <3> QED
      BY <3>1, <3>2
  <2> QED
    BY <2>1, <2>2, <2>3
<1> HIDE DEF last
<1>5. ASSUME Throughput(events, w, min, w), NEW t \in 0..last - w
      PROVE  LET before == {i \in DOMAIN events : events[i].at <= t}
                 prev == events[CHOOSE i \in before : \A j \in before : events[j].at <= events[i].at].at
             IN CountIn(events, t, t + w) + (IF prev = t THEN 0 ELSE CountIn(events, prev, prev)) >= min
  <2> DEFINE before == {i \in DOMAIN events : events[i].at <= t}
             k == CHOOSE i \in before : \A j \in before : events[j].at <= events[i].at
             prev == events[k].at
  <2>1. before \subseteq 1..Len(events) /\ 1 \in before /\ t \in Nat /\ t + w <= last
    <3>1. t \in Nat /\ t + w <= last
      BY <1>1, <1>2
    <3>2. 1 \in 1..Len(events) /\ events[1].at = 0
      BY <1>1 DEF SampleInv
    <3> QED
      BY <1>1, <3>1, <3>2
  <2>2. \E i \in before : \A j \in before : events[j].at <= events[i].at
    <3> DEFINE f == [i \in 1..Len(events) |-> events[i].at]
    <3>1. \A i \in 1..Len(events) : f[i] \in Nat /\ f[i] = events[i].at
      BY <1>1
    <3> HIDE DEF f, before
    <3>2. \E i \in before : \A j \in before : f[j] <= f[i]
      BY <1>1, <2>1, <3>1, Greatest
    <3> QED
      BY <2>1, <3>1, <3>2
  <2>3. k \in before /\ \A j \in before : events[j].at <= events[k].at
    <3> HIDE DEF before
    <3> QED
      BY <2>2
  <2>4. prev \in Nat /\ prev <= t /\ k \in 1..Len(events)
    <3> HIDE DEF k
    <3> QED
      BY <1>1, <2>3
  <2>5. \A i \in 1..Len(events) : events[i].at <= t => events[i].at <= prev
    <3> HIDE DEF k
    <3> QED
      BY <1>1, <2>3
  <2> HIDE DEF prev
  <2>6. CountIn(events, prev, prev + w) >= min
    <3>1. prev + w <= last
      BY <1>1, <1>2, <2>1, <2>4
    <3> QED
      BY <1>4, <1>5, <2>4, <3>1 DEF prev
  <2>7. CountIn(events, prev, prev + w) <= CountIn(events, t, t + w) + (IF prev = t THEN 0 ELSE CountIn(events, prev, prev))
    BY <1>1, <2>1, <2>4, <2>5, Slides
  <2>8. /\ CountIn(events, prev, prev + w) \in Nat /\ CountIn(events, t, t + w) \in Nat
        /\ CountIn(events, prev, prev) \in Nat
    <3>1. prev + w \in Nat /\ t + w \in Nat
      BY <1>1, <2>1, <2>4
    <3> QED
      BY <2>1, <2>4, <3>1, CountsIn
  <2>9. CountIn(events, t, t + w) + (IF prev = t THEN 0 ELSE CountIn(events, prev, prev)) >= min
    BY <1>1, <2>6, <2>7, <2>8
  <2> QED
    BY <2>9 DEF prev
<1>6. ASSUME ~Throughput(events, w, min, w)
      PROVE  \E t \in 0..last - w : CountIn(events, t, t + w) < min
  <2>1. PICK i \in 1..Len(events) : events[i].at + w <= last /\ ~(CountIn(events, events[i].at, events[i].at + w) >= min)
    BY <1>4, <1>6
  <2> DEFINE t == events[i].at
  <2>2. t \in Nat /\ t + w \in Nat
    BY <1>1
  <2>3. CountIn(events, t, t + w) \in Nat
    BY <2>2, CountsIn
  <2>4. t \in 0..last - w /\ CountIn(events, t, t + w) < min
    BY <1>1, <1>2, <2>1, <2>2, <2>3
  <2> QED
    BY <2>4
<1> QED
  BY <1>5, <1>6 DEF last

(***************************************************************************)
(* Streaks.                                                                *)
(***************************************************************************)
Own(p) == By(events, Samples(events), p)

\* The failures of p up to event n since its last success.
RunOf(p, n) == {k \in Own(p) : k <= n /\ \A j \in Own(p) : k <= j /\ j <= n => j \in Failures(events)}

LEMMA OwnIs ==
  ASSUME IInv, SampleInv, NEW p \in Probes
  PROVE  /\ Own(p) = {k \in 1..Len(events) : events[k].who = p}
         /\ Own(p) \subseteq 1..Len(events) /\ Len(events) \in Nat
         /\ \A n : RunOf(p, n) \subseteq Own(p) \cap Failures(events)
         /\ \A n : RunOf(p, n) \subseteq 1..Len(events) /\ Cardinality(RunOf(p, n)) \in Nat
<1>1. Own(p) = {k \in 1..Len(events) : events[k].who = p} /\ Own(p) \subseteq 1..Len(events)
  BY SamplesAre DEF Own, By
<1>2. Len(events) \in Nat
  BY SamplesAre
<1>3. ASSUME NEW n, NEW k \in RunOf(p, n) PROVE k \in Own(p) /\ k \in Failures(events)
  <2>1. k \in Own(p) /\ k <= n /\ \A j \in Own(p) : k <= j /\ j <= n => j \in Failures(events)
    BY DEF RunOf
  <2>2. k <= k
    BY <1>1, <2>1
  <2> QED
    BY <2>1, <2>2
<1>4. \A n : RunOf(p, n) \subseteq 1..Len(events)
  BY <1>1, <1>3
<1>5. \A n : Cardinality(RunOf(p, n)) \in Nat
  BY <1>2, <1>4, Counts
<1> QED
  BY <1>1, <1>2, <1>3, <1>4, <1>5

\* What an event does to the run of a probe.
LEMMA RunGrows ==
  ASSUME IInv, SampleInv, NEW p \in Probes, NEW n \in 1..Len(events)
  PROVE  /\ RunOf(p, 0) = {}
         /\ RunOf(p, n) = IF events[n].who # p THEN RunOf(p, n - 1)
                          ELSE IF n \in Failures(events) THEN RunOf(p, n - 1) \cup {n} ELSE {}
         /\ n \notin RunOf(p, n - 1)
<1>1. Own(p) = {k \in 1..Len(events) : events[k].who = p} /\ Len(events) \in Nat /\ n \in Nat
  BY OwnIs
<1>2. \A k \in Own(p) : k \in Nat /\ ~(k <= 0) /\ (k <= n <=> k <= n - 1 \/ k = n)
  BY <1>1
<1>3. RunOf(p, 0) = {}
  BY <1>2 DEF RunOf
<1>4. n \notin RunOf(p, n - 1)
  BY <1>1 DEF RunOf
<1>5. CASE events[n].who # p
  <2>1. n \notin Own(p)
    BY <1>1, <1>5
  <2> QED
    BY <1>2, <1>3, <1>4, <1>5, <2>1 DEF RunOf
<1>6. CASE events[n].who = p /\ n \in Failures(events)
  <2>1. n \in Own(p) /\ n <= n
    BY <1>1, <1>6
  <2>2. ASSUME NEW k \in RunOf(p, n) PROVE k \in RunOf(p, n - 1) \cup {n}
    BY <1>2, <2>1 DEF RunOf
  <2>3. ASSUME NEW k \in RunOf(p, n - 1) \cup {n} PROVE k \in RunOf(p, n)
    <3>1. CASE k = n
      <4>1. \A j \in Own(p) : n <= j /\ j <= n => j = n
        BY <1>1
      <4> QED
        BY <3>1, <4>1, <2>1, <1>6 DEF RunOf
    <3>2. CASE k \in RunOf(p, n - 1)
      BY <1>2, <1>6, <2>1, <3>2 DEF RunOf
    <3> QED
      BY <3>1, <3>2
  <2> QED
    BY <1>3, <1>4, <1>6, <2>2, <2>3
<1>7. CASE events[n].who = p /\ n \notin Failures(events)
  <2>1. n \in Own(p) /\ n <= n
    BY <1>1, <1>7
  <2>2. RunOf(p, n) = {}
    BY <1>7, <2>1 DEF RunOf
  <2> QED
    BY <1>3, <1>4, <1>7, <2>2
<1> QED
  BY <1>5, <1>6, <1>7

\* current_streak counts the run.
LEMMA StreakIs ==
  ASSUME IInv, SampleInv, NEW p \in Probes, NEW m \in 0..Len(events)
  PROVE  Streak(events, p)[m] = Cardinality(RunOf(p, m))
<1> DEFINE N == Len(events)
           Eq(s) == s = [n \in 0..N |->
                           IF n = 0 THEN 0
                           ELSE IF events[n].who # p THEN s[n - 1]
                           ELSE IF n \in Failures(events) THEN s[n - 1] + 1 ELSE 0]
           c == [n \in 0..N |-> Cardinality(RunOf(p, n))]
           s == Streak(events, p)
<1>1. N \in Nat
  BY OwnIs
<1>2. Cardinality(RunOf(p, 0)) = 0
  <2>1. RunOf(p, 0) = {}
    BY OwnIs DEF RunOf
  <2> QED
    BY <2>1, FS_EmptySet
<1>3. ASSUME NEW n \in 1..N
      PROVE  Cardinality(RunOf(p, n)) =
               IF events[n].who # p THEN Cardinality(RunOf(p, n - 1))
               ELSE IF n \in Failures(events) THEN Cardinality(RunOf(p, n - 1)) + 1 ELSE 0
  <2>1. IsFiniteSet(RunOf(p, n - 1)) /\ n \notin RunOf(p, n - 1)
    BY <1>1, OwnIs, RunGrows, Counts
  <2>2. Cardinality(RunOf(p, n - 1) \cup {n}) = Cardinality(RunOf(p, n - 1)) + 1
    BY <2>1, FS_AddElement
  <2> QED
    BY <2>2, RunGrows, FS_EmptySet
<1>4. Eq(c)
  <2>1. ASSUME NEW n \in 0..N
        PROVE  c[n] = IF n = 0 THEN 0
                      ELSE IF events[n].who # p THEN c[n - 1]
                      ELSE IF n \in Failures(events) THEN c[n - 1] + 1 ELSE 0
    <3>1. CASE n = 0
      BY <1>1, <1>2, <3>1
    <3>2. CASE n # 0
      <4>1. n \in 1..N /\ n - 1 \in 0..N
        BY <1>1, <3>2
      <4>2. c[n] = Cardinality(RunOf(p, n)) /\ c[n - 1] = Cardinality(RunOf(p, n - 1))
        BY <4>1
      <4> HIDE DEF c
      <4> QED
        BY <1>3, <3>2, <4>1, <4>2
    <3> QED
      BY <3>1, <3>2
  <2>2. c = [n \in 0..N |-> c[n]]
    OBVIOUS
  <2> HIDE DEF c
  <2> QED
    BY <2>1, <2>2
<1>5. Eq(s)
  <2>1. s = CHOOSE t : Eq(t)
    BY DEF Streak
  <2> HIDE DEF Eq, c, s
  <2> QED
    BY <1>4, <2>1
<1>6. \A n \in 0..N : s[n] = c[n]
  <2> DEFINE T == {n \in 0..N : s[n] # c[n]}
  <2>1. ASSUME T # {} PROVE FALSE
    <3>1. T \subseteq Nat
      BY <1>1
    <3>2. PICK n \in T : \A j \in T : n <= j
      <4> HIDE DEF T
      <4> QED
        BY <2>1, <3>1, Least
    <3>3. n \in 0..N /\ s[n] # c[n]
      OBVIOUS
    <3> HIDE DEF s, c
    <3>4. CASE n = 0
      BY <1>4, <1>5, <3>3, <3>4
    <3>5. CASE n # 0
      <4>1. n - 1 \in 0..N /\ ~(n <= n - 1)
        BY <1>1, <3>3, <3>5
      <4>2. s[n - 1] = c[n - 1]
        BY <3>2, <4>1
      <4> QED
        BY <1>4, <1>5, <3>3, <3>5, <4>2
    <3> QED
      BY <3>4, <3>5
  <2> QED
    BY <2>1
<1>7. c[m] = Cardinality(RunOf(p, m))
  OBVIOUS
<1> QED
  BY <1>6, <1>7

\* The failures in a row of one probe, from its event a to its event b.
Between(p, a, b) == {k \in Own(p) : a <= k /\ k <= b}

LEMMA ErrorBudgetIs ==
  ASSUME IInv, SampleInv, NEW max \in Nat
  PROVE  ErrorBudget(events, max) <=>
           \A p \in Probes : \A a, b \in Own(p) :
             Between(p, a, b) \subseteq Failures(events) => Cardinality(Between(p, a, b)) <= max
<1>0. Len(events) \in Nat /\ DOMAIN events = 1..Len(events)
  BY SamplesAre
<1>1. ErrorBudget(events, max) <=> \A p \in Probes, n \in 1..Len(events) : Cardinality(RunOf(p, n)) <= max
  <2>1. \A p \in Probes, n \in 1..Len(events) : Streak(events, p)[n] = Cardinality(RunOf(p, n))
    <3>1. \A n \in 1..Len(events) : n \in 0..Len(events)
      BY <1>0
    <3> QED
      BY <3>1, StreakIs
  <2> QED
    BY <1>0, <2>1 DEF ErrorBudget
<1>2. ASSUME NEW p \in Probes, NEW a \in Own(p), NEW b \in Own(p), Between(p, a, b) \subseteq Failures(events),
             \A n \in 1..Len(events) : Cardinality(RunOf(p, n)) <= max
      PROVE  Cardinality(Between(p, a, b)) <= max
  <2>1. b \in 1..Len(events) /\ Own(p) \subseteq 1..Len(events)
    BY OwnIs
  <2>2. ASSUME NEW k \in Between(p, a, b) PROVE k \in RunOf(p, b)
    <3>1. k \in Own(p) /\ a <= k /\ k <= b
      BY DEF Between
    <3>2. \A j \in Own(p) : k <= j /\ j <= b => a <= j
      BY <2>1, <3>1
    <3>3. \A j \in Own(p) : k <= j /\ j <= b => j \in Failures(events)
      BY <1>2, <3>2 DEF Between
    <3> QED
      BY <3>1, <3>3 DEF RunOf
  <2>3. RunOf(p, b) \subseteq 1..Len(events) /\ Between(p, a, b) \subseteq RunOf(p, b)
    BY <2>2, OwnIs
  <2>4. /\ Cardinality(Between(p, a, b)) <= Cardinality(RunOf(p, b))
        /\ Cardinality(Between(p, a, b)) \in Nat /\ Cardinality(RunOf(p, b)) \in Nat
    BY <1>0, <2>3, Counts
  <2>5. Cardinality(RunOf(p, b)) <= max
    BY <1>2, <2>1
  <2> QED
    BY <2>4, <2>5
<1>3. ASSUME NEW p \in Probes, NEW n \in 1..Len(events),
             \A a, b \in Own(p) : Between(p, a, b) \subseteq Failures(events) => Cardinality(Between(p, a, b)) <= max
      PROVE  Cardinality(RunOf(p, n)) <= max
  <2> DEFINE R == RunOf(p, n)
             a == First(R)
             b == Final(R)
  <2>1. R \subseteq 1..Len(events) /\ R \subseteq Own(p) /\ Own(p) \subseteq 1..Len(events)
    BY OwnIs
  <2>2. CASE R = {}
    BY <2>2, FS_EmptySet
  <2>3. CASE R # {}
    <3>1. a \in R /\ b \in R /\ \A k \in R : a <= k /\ k <= b
      <4> HIDE DEF R
      <4> QED
        BY <1>0, <2>1, <2>3, FirstOf, FinalOf
    <3>2. a \in Own(p) /\ b \in Own(p) /\ b <= n /\ \A j \in Own(p) : a <= j /\ j <= n => j \in Failures(events)
      <4> HIDE DEF a, b
      <4> QED
        BY <2>1, <3>1 DEF RunOf
    <3> HIDE DEF R, a, b
    <3>3. Between(p, a, b) \subseteq Failures(events)
      <4>1. \A j \in Own(p) : j <= b => j <= n
        BY <2>1, <3>2
      <4> QED
        BY <3>2, <4>1 DEF Between
    <3>4. R \subseteq Between(p, a, b)
      BY <2>1, <3>1 DEF Between
    <3>5. Between(p, a, b) \subseteq 1..Len(events)
      BY <2>1 DEF Between
    <3>6. /\ Cardinality(R) <= Cardinality(Between(p, a, b))
          /\ Cardinality(R) \in Nat /\ Cardinality(Between(p, a, b)) \in Nat
      BY <1>0, <3>4, <3>5, Counts
    <3>7. Cardinality(Between(p, a, b)) <= max
      BY <1>3, <3>2, <3>3
    <3> QED
      BY <3>6, <3>7 DEF R
  <2> QED
    BY <2>2, <2>3
<1> QED
  BY <1>1, <1>2, <1>3

\* Availability weighs the successes of a probe against its samples.
LEMMA AvailabilityIs ==
  ASSUME IInv, SampleInv, NEW p \in Probes, NEW pct \in Nat
  PROVE  /\ Availability(events, {p}, pct) <=>
              \/ Cardinality(Own(p)) = 0
              \/ 100 * Cardinality(Own(p) \cap Successes(events)) >= pct * Cardinality(Own(p))
         /\ Cardinality(Own(p)) \in Nat /\ Cardinality(Own(p) \cap Successes(events)) \in Nat
<1>1. Named(events, {p}) = Own(p)
  BY SamplesAre DEF Named, Own, By
<1>2. Own(p) \subseteq 1..Len(events) /\ Own(p) \cap Successes(events) \subseteq 1..Len(events) /\ Len(events) \in Nat
  BY OwnIs
<1>3. Cardinality(Own(p)) \in Nat /\ Cardinality(Own(p) \cap Successes(events)) \in Nat
  BY <1>2, Counts
<1> QED
  BY <1>1, <1>3 DEF Availability

\* A probe is always available iff it never fails.
LEMMA NoFailures ==
  ASSUME IInv, SampleInv, NEW p \in Probes
  PROVE  Availability(events, {p}, 100) <=> Own(p) \cap Failures(events) = {}
<1> DEFINE O == Own(p)
           S == Own(p) \cap Successes(events)
<1>1. O \subseteq 1..Len(events) /\ S \subseteq O /\ Len(events) \in Nat
  BY OwnIs
<1>2. S = O <=> Own(p) \cap Failures(events) = {}
  <2>1. Own(p) \subseteq Successes(events) \cup Failures(events) /\ Successes(events) \cap Failures(events) = {}
    BY SamplesAre DEF Own, By
  <2> QED
    BY <2>1
<1>3. Availability(events, {p}, 100) <=> Cardinality(O) = 0 \/ 100 * Cardinality(S) >= 100 * Cardinality(O)
  BY AvailabilityIs
<1> HIDE DEF O, S
<1>4. /\ Cardinality(O) \in Nat /\ Cardinality(S) \in Nat /\ Cardinality(S) <= Cardinality(O)
      /\ Cardinality(S) = Cardinality(O) => S = O
      /\ Cardinality(O) = 0 => O = {}
  BY <1>1, Counts
<1>5. Availability(events, {p}, 100) <=> Cardinality(S) = Cardinality(O)
  BY <1>3, <1>4
<1> QED
  BY <1>2, <1>4, <1>5

LEMMA NoBudget ==
  ASSUME IInv, SampleInv
  PROVE  ErrorBudget(events, 0) <=> \A p \in Probes : Availability(events, {p}, 100)
<1>1. ASSUME NEW p \in Probes
      PROVE  (\A a, b \in Own(p) :
                Between(p, a, b) \subseteq Failures(events) => Cardinality(Between(p, a, b)) <= 0)
             <=> Own(p) \cap Failures(events) = {}
  <2>1. Own(p) \subseteq 1..Len(events) /\ Len(events) \in Nat
    BY OwnIs
  <2>2. ASSUME \A a, b \in Own(p) :
                 Between(p, a, b) \subseteq Failures(events) => Cardinality(Between(p, a, b)) <= 0,
               NEW k \in Own(p) \cap Failures(events)
        PROVE  FALSE
    <3>1. Between(p, k, k) = {k}
      BY <2>1 DEF Between
    <3>2. Cardinality({k}) = 1
      BY FS_Singleton
    <3>3. Cardinality(Between(p, k, k)) <= 0
      BY <2>2, <3>1
    <3> QED
      BY <3>1, <3>2, <3>3
  <2>3. ASSUME Own(p) \cap Failures(events) = {}, NEW a \in Own(p), NEW b \in Own(p),
               Between(p, a, b) \subseteq Failures(events)
        PROVE  Cardinality(Between(p, a, b)) <= 0
    <3>1. Between(p, a, b) = {}
      BY <2>3 DEF Between
    <3> QED
      BY <3>1, FS_EmptySet
  <2> QED
    BY <2>2, <2>3
<1> QED
  BY <1>1, ErrorBudgetIs, NoFailures

\* Fractions of at least pct percent add up to one.
LEMMA Fractions ==
  ASSUME NEW ok \in Nat, NEW total \in Nat, NEW still \in Nat, NEW seen \in Nat, NEW pct \in {50, 100},
         total > 0, 100 * ok >= pct * total,
         IF seen = 0 THEN 100 * ok <= 0 * total ELSE 100 * ok * seen <= 100 * still * total + 0 * total * seen
  PROVE  100 * (ok + still) >= pct * (total + seen)
<1>1. CASE seen = 0
  BY <1>1
<1>2. CASE seen # 0
  <2>1. 100 * ok * seen <= 100 * still * total
    BY <1>2
  <2>2. (100 * ok) * seen >= (pct * total) * seen
    BY <1>2
  <2>3. (pct * seen) * total <= (100 * still) * total
    BY <2>1, <2>2
  <2>4. pct * seen <= 100 * still
    <3> DEFINE x == pct * seen
               y == 100 * still
    <3>1. x \in Nat /\ y \in Nat /\ x * total <= y * total
      BY <2>3
    <3> HIDE DEF x, y
    <3>2. ASSUME y < x PROVE FALSE
      <4>1. y + 1 <= x
        BY <3>1, <3>2
      <4>2. (y + 1) * total <= x * total
        BY <3>1, <4>1
      <4>3. (y + 1) * total = y * total + total
        BY <3>1
      <4>4. x * total \in Nat /\ y * total \in Nat
        BY <3>1
      <4> QED
        BY <3>1, <4>2, <4>3, <4>4
    <3>3. x <= y
      BY <3>1, <3>2
    <3> QED
      BY <3>3 DEF x, y
  <2> QED
    BY <2>4
<1> QED
  BY <1>1, <1>2

\* Where no drop is allowed, what held of the baseline holds of the list.
LEMMA NoDrop ==
  ASSUME IInv, SampleInv
  PROVE  \A n \in 1..Len(events), d \in 1..MaxTime :
           LET snap == SubSeq(events, 1, n) IN
           BaselineAvailabilityDiff(snap, events, d, 0) =>
             \A p \in Known(snap, d) :
               LET before == By(snap, Baseline(snap, d), p)
                   passed == Cardinality(before \cap Successes(snap))
               IN Own(p) \ ChaosPhase(events, d) = before =>
                    \A pct \in {50, 100} :
                      100 * passed >= pct * Cardinality(before) => Availability(events, {p}, pct)
<1> SUFFICES ASSUME NEW n \in 1..Len(events), NEW d \in 1..MaxTime,
                    BaselineAvailabilityDiff(SubSeq(events, 1, n), events, d, 0),
                    NEW p \in Known(SubSeq(events, 1, n), d),
                    Own(p) \ ChaosPhase(events, d) = By(SubSeq(events, 1, n), Baseline(SubSeq(events, 1, n), d), p),
                    NEW pct \in {50, 100},
                    100 * Cardinality(By(SubSeq(events, 1, n), Baseline(SubSeq(events, 1, n), d), p)
                                      \cap Successes(SubSeq(events, 1, n)))
                      >= pct * Cardinality(By(SubSeq(events, 1, n), Baseline(SubSeq(events, 1, n), d), p))
    PROVE  Availability(events, {p}, pct)
  OBVIOUS
<1> DEFINE snap == SubSeq(events, 1, n)
           before == By(snap, Baseline(snap, d), p)
           after == By(events, ChaosPhase(events, d), p)
           ok == Cardinality(before \cap Successes(snap))
           still == Cardinality(after \cap Successes(events))
           total == Cardinality(before)
           seen == Cardinality(after)
<1>0. p \in Probes /\ before # {}
  BY DEF Known
<1>1. IF seen = 0 THEN 100 * ok <= 0 * total ELSE 100 * ok * seen <= 100 * still * total + 0 * total * seen
  BY DEF BaselineAvailabilityDiff
<1>2. /\ Own(p) \subseteq 1..Len(events) /\ Len(events) \in Nat
      /\ before = Own(p) \ ChaosPhase(events, d)
      /\ after = Own(p) \cap ChaosPhase(events, d)
  <2>1. after = Own(p) \cap ChaosPhase(events, d)
    BY DEF By, Own, ChaosPhase
  <2> QED
    BY <1>0, <2>1, OwnIs
<1>3. before \cap Successes(snap) = before \cap Successes(events)
  <2>1. Successes(snap) = Successes(events) \cap 1..n
    BY Snapshot
  <2>2. before \subseteq 1..n
    <3>1. Samples(snap) \subseteq 1..n
      BY Snapshot
    <3> QED
      BY <3>1 DEF By, Baseline
  <2> QED
    BY <2>1, <2>2
<1>4. ok = Cardinality(before \cap Successes(events)) /\ 100 * ok >= pct * total
  BY <1>3
<1> HIDE DEF snap, before, after
<1>5. Own(p) = before \cup after /\ before \cap after = {} /\ before \subseteq 1..Len(events) /\ after \subseteq 1..Len(events)
  BY <1>2
<1>6. Cardinality(Own(p)) = total + seen
  <2>1. /\ before \cap after = {} /\ Len(events) \in Nat
        /\ before \subseteq 1..Len(events) /\ after \subseteq 1..Len(events)
    BY <1>2, <1>5
  <2>2. Cardinality(before \cup after) = Cardinality(before) + Cardinality(after)
    BY ONLY <2>1, AddUp, Zenon
  <2> QED
    BY <1>5, <2>2
<1>7. Cardinality(Own(p) \cap Successes(events)) = ok + still
  <2> DEFINE B == before \cap Successes(events)
             A == after \cap Successes(events)
  <2>1. Own(p) \cap Successes(events) = B \cup A
    BY <1>5
  <2>2. B \cap A = {} /\ B \subseteq 1..Len(events) /\ A \subseteq 1..Len(events)
    BY <1>5
  <2>3. Cardinality(B) = ok /\ Cardinality(A) = still
    BY <1>4
  <2> HIDE DEF A, B, ok, still
  <2>4. Cardinality(B \cup A) = Cardinality(B) + Cardinality(A)
    BY ONLY <1>2, <2>2, AddUp, Zenon
  <2> QED
    BY <2>1, <2>3, <2>4
<1>8. ok \in Nat /\ total \in Nat /\ still \in Nat /\ seen \in Nat /\ total > 0
  <2>1. before \cap Successes(events) \subseteq 1..Len(events) /\ after \cap Successes(events) \subseteq 1..Len(events)
    BY <1>5
  <2>2. ok \in Nat /\ still \in Nat /\ total \in Nat /\ seen \in Nat
    BY <1>2, <1>4, <1>5, <2>1, Counts
  <2>3. total # 0
    BY <1>0, <1>2, <1>5, Counts
  <2> HIDE DEF ok, still, total, seen
  <2> QED
    BY <2>2, <2>3
<1> HIDE DEF ok, still, total, seen
<1>9. 100 * (ok + still) >= pct * (total + seen)
  BY <1>1, <1>4, <1>8, Fractions
<1>10. 100 * Cardinality(Own(p) \cap Successes(events)) >= pct * Cardinality(Own(p))
  BY <1>6, <1>7, <1>9
<1> QED
  BY <1>0, <1>10, AvailabilityIs

\* Streaks and rates (error_budget.rs:38-60, availability.rs, baseline.rs).
LEMMA BudgetSound ==
  ASSUME IInv, SampleInv PROVE BudgetMeaning
<1>0. Len(events) \in Nat
  BY SamplesAre
<1>1. \A max \in 0..Len(events) :
        ErrorBudget(events, max) <=>
          \A p \in Probes : \A a, b \in Own(p) :
            {k \in Own(p) : a <= k /\ k <= b} \subseteq Failures(events) =>
              Cardinality({k \in Own(p) : a <= k /\ k <= b}) <= max
  <2>1. \A max \in 0..Len(events) : max \in Nat
    BY <1>0
  <2> QED
    BY <2>1, ErrorBudgetIs DEF Between
<1>2. ErrorBudget(events, 0) <=> \A p \in Probes : Availability(events, {p}, 100)
  BY NoBudget
<1> QED
  BY <1>1, <1>2, NoDrop DEF BudgetMeaning, Own

(***************************************************************************)
(* The steady state.                                                       *)
(***************************************************************************)
\* The injections up to event n that no revert has followed by then.
Unreverted(n) ==
  {i \in Injections(events) : i <= n /\ \A k \in Reverts(events) : i < k /\ k <= n => events[k].who # events[i].who}

ActiveAt(n) == {events[i].who : i \in Unreverted(n)}

\* What an event does to the faults that are active.
LEMMA ActiveMoves ==
  ASSUME IInv, NEW n \in 1..Len(events)
  PROVE  /\ ActiveAt(0) = {}
         /\ ActiveAt(n) = IF n \in Injections(events) THEN ActiveAt(n - 1) \cup {events[n].who}
                          ELSE IF n \in Reverts(events) THEN ActiveAt(n - 1) \ {events[n].who} ELSE ActiveAt(n - 1)
<1>1. Injections(events) \subseteq 1..Len(events) /\ Reverts(events) \subseteq 1..Len(events) /\ Len(events) \in Nat
  BY Positions
<1>2. \A i \in 1..Len(events) : ~(i <= 0) /\ ~(i < i) /\ (i <= n <=> i <= n - 1 \/ i = n) /\ (n < i => ~(i <= n))
  BY <1>1
<1>3. n \notin Injections(events) \/ n \notin Reverts(events)
  BY DEF Injections, Reverts, Of
<1>4. ActiveAt(0) = {}
  BY <1>1, <1>2 DEF ActiveAt, Unreverted
<1>5. CASE n \in Injections(events)
  <2>1. n \notin Reverts(events)
    BY <1>3, <1>5
  <2>2. Unreverted(n) = Unreverted(n - 1) \cup {n}
    <3>1. ASSUME NEW i \in Unreverted(n) PROVE i \in Unreverted(n - 1) \cup {n}
      BY <1>1, <1>2 DEF Unreverted
    <3>2. ASSUME NEW i \in Unreverted(n - 1) PROVE i \in Unreverted(n)
      BY <1>1, <1>2, <2>1 DEF Unreverted
    <3>3. n \in Unreverted(n)
      BY <1>1, <1>2, <1>5 DEF Unreverted
    <3> QED
      BY <3>1, <3>2, <3>3
  <2> QED
    BY <1>4, <1>5, <2>2 DEF ActiveAt
<1>6. CASE n \in Reverts(events)
  <2>1. n \notin Injections(events)
    BY <1>3, <1>6
  <2>2. Unreverted(n) = {i \in Unreverted(n - 1) : events[i].who # events[n].who}
    <3>1. ASSUME NEW i \in Unreverted(n) PROVE i \in Unreverted(n - 1) /\ events[i].who # events[n].who
      <4>1. i \in Injections(events) /\ i <= n - 1 /\ i # n
        BY <1>1, <1>2, <2>1 DEF Unreverted
      <4>2. i < n /\ n <= n
        BY <1>1, <4>1
      <4> QED
        BY <1>1, <1>2, <1>6, <4>1, <4>2 DEF Unreverted
    <3>2. ASSUME NEW i \in Unreverted(n - 1), events[i].who # events[n].who PROVE i \in Unreverted(n)
      BY <1>1, <1>2, <3>2 DEF Unreverted
    <3> QED
      BY <3>1, <3>2
  <2> QED
    BY <1>4, <1>6, <2>1, <2>2 DEF ActiveAt
<1>7. CASE n \notin Injections(events) /\ n \notin Reverts(events)
  <2>1. Unreverted(n) = Unreverted(n - 1)
    <3>1. ASSUME NEW i \in Unreverted(n) PROVE i \in Unreverted(n - 1)
      BY <1>1, <1>2, <1>7 DEF Unreverted
    <3>2. ASSUME NEW i \in Unreverted(n - 1) PROVE i \in Unreverted(n)
      BY <1>1, <1>2, <1>7 DEF Unreverted
    <3> QED
      BY <3>1, <3>2
  <2> QED
    BY <1>4, <1>7, <2>1 DEF ActiveAt
<1> QED
  BY <1>5, <1>6, <1>7

\* active_faults holds them.
LEMMA ActiveIs ==
  ASSUME IInv, NEW m \in 0..Len(events)
  PROVE  ActiveFaults(events)[m] = ActiveAt(m)
<1> DEFINE N == Len(events)
           Eq(a) == a = [n \in 0..N |->
                           IF n = 0 THEN {}
                           ELSE IF n \in Injections(events) THEN a[n - 1] \cup {events[n].who}
                           ELSE IF n \in Reverts(events) THEN a[n - 1] \ {events[n].who} ELSE a[n - 1]]
           c == [n \in 0..N |-> ActiveAt(n)]
           a == ActiveFaults(events)
<1>1. N \in Nat
  BY Positions
<1>2. ActiveAt(0) = {}
  BY <1>1, Positions DEF ActiveAt, Unreverted
<1>3. Eq(c)
  <2>1. ASSUME NEW n \in 0..N
        PROVE  c[n] = IF n = 0 THEN {}
                      ELSE IF n \in Injections(events) THEN c[n - 1] \cup {events[n].who}
                      ELSE IF n \in Reverts(events) THEN c[n - 1] \ {events[n].who} ELSE c[n - 1]
    <3>1. CASE n = 0
      BY <1>1, <1>2, <3>1
    <3>2. CASE n # 0
      <4>1. n \in 1..N /\ n - 1 \in 0..N
        BY <1>1, <3>2
      <4>2. c[n] = ActiveAt(n) /\ c[n - 1] = ActiveAt(n - 1)
        BY <4>1
      <4> HIDE DEF c
      <4> QED
        BY <3>2, <4>1, <4>2, ActiveMoves
    <3> QED
      BY <3>1, <3>2
  <2>2. c = [n \in 0..N |-> c[n]]
    OBVIOUS
  <2> HIDE DEF c
  <2> QED
    BY <2>1, <2>2
<1>4. Eq(a)
  <2>1. a = CHOOSE t : Eq(t)
    BY DEF ActiveFaults
  <2> HIDE DEF Eq, c, a
  <2> QED
    BY <1>3, <2>1
<1>5. \A n \in 0..N : a[n] = c[n]
  <2> DEFINE T == {n \in 0..N : a[n] # c[n]}
  <2>1. ASSUME T # {} PROVE FALSE
    <3>1. T \subseteq Nat
      BY <1>1
    <3>2. PICK n \in T : \A j \in T : n <= j
      <4> HIDE DEF T
      <4> QED
        BY <2>1, <3>1, Least
    <3>3. n \in 0..N /\ a[n] # c[n]
      OBVIOUS
    <3> HIDE DEF a, c
    <3>4. CASE n = 0
      BY <1>3, <1>4, <3>3, <3>4
    <3>5. CASE n # 0
      <4>1. n - 1 \in 0..N /\ ~(n <= n - 1)
        BY <1>1, <3>3, <3>5
      <4>2. a[n - 1] = c[n - 1]
        BY <3>2, <4>1
      <4> QED
        BY <1>3, <1>4, <3>3, <3>5, <4>2
    <3> QED
      BY <3>4, <3>5
  <2> QED
    BY <2>1
<1>6. c[m] = ActiveAt(m)
  OBVIOUS
<1> QED
  BY <1>5, <1>6

\* The last moment of calm, and a good window soon after it
\* (steady_state.rs:56-106).
LEMMA SteadySound ==
  ASSUME IInv, SampleInv PROVE SteadyMeaning
<1> SUFFICES ASSUME NEW recovery \in 1..MaxTime, NEW baseline \in 1..MaxTime,
                    SteadyState(events, recovery, baseline), Injections(events) # {}
    PROVE  \E r \in Reverts(events) :
             /\ \A i \in Injections(events) : i < r =>
                  \E k \in Reverts(events) : k <= r /\ events[k].who = events[i].who
             /\ \/ CountIn(events, 0, baseline) = 0
                \/ \E t \in events[r].at..events[r].at + recovery :
                     /\ t + baseline <= LastAt(events)
                     /\ 100 * CountIn(events, t, t + baseline) >= 95 * CountIn(events, 0, baseline)
  BY DEF SteadyMeaning
<1> DEFINE r == Final(Calms(events))
           before == CountIn(events, 0, baseline)
           search_end == events[r].at + recovery
           check_points == {events[r].at, AtMost(search_end, LastAt(events))}
                           \cup {events[i].at : i \in EventsInWindow(events, events[r].at, search_end)}
<1>1. /\ Len(events) \in Nat /\ DOMAIN events = 1..Len(events) /\ Len(events) > 0
      /\ \A i \in 1..Len(events) : events[i].at \in Nat
      /\ recovery \in Nat /\ baseline \in Nat /\ baseline > 0
      /\ Reverts(events) \subseteq 1..Len(events) /\ Injections(events) \subseteq 1..Len(events)
  BY SamplesAre, Positions
<1>2. LastAt(events) \in Nat
  <2>1. events # <<>> /\ Len(events) \in 1..Len(events)
    BY <1>1
  <2> QED
    BY <1>1, <2>1 DEF LastAt
<1>3. Calms(events) # {}
  BY DEF SteadyState
<1>4. before = 0 \/ \E t \in check_points :
                      /\ t + baseline <= LastAt(events)
                      /\ 100 * CountIn(events, t, t + baseline) >= 95 * before
  BY <1>3 DEF SteadyState
<1>5. r \in Reverts(events) /\ r \in 1..Len(events) /\ ActiveFaults(events)[r] = {}
  <2>1. Calms(events) \subseteq 1..Len(events)
    BY <1>1 DEF Calms
  <2>2. r \in Calms(events)
    BY <1>1, <1>3, <2>1, FinalOf
  <2> HIDE DEF r
  <2> QED
    BY <1>1, <2>2 DEF Calms
<1> HIDE DEF r
<1>6. ASSUME NEW i \in Injections(events), i < r
      PROVE  \E k \in Reverts(events) : k <= r /\ events[k].who = events[i].who
  <2>1. ActiveAt(r) = {}
    <3>1. r \in 0..Len(events)
      BY <1>1, <1>5
    <3> QED
      BY <1>5, <3>1, ActiveIs
  <2>2. i \notin Unreverted(r)
    BY <2>1 DEF ActiveAt
  <2>3. i <= r
    BY <1>1, <1>5, <1>6
  <2> QED
    BY <2>2, <2>3 DEF Unreverted
<1>7. ASSUME NEW t \in check_points, t + baseline <= LastAt(events)
      PROVE  t \in events[r].at..events[r].at + recovery
  <2>1. events[r].at \in Nat /\ search_end \in Nat
    BY <1>1, <1>5
  <2>2. CASE t = events[r].at
    BY <1>1, <2>1, <2>2
  <2>3. CASE t = AtMost(search_end, LastAt(events))
    BY <1>1, <1>2, <1>7, <2>1, <2>3 DEF AtMost
  <2>4. CASE t \in {events[i].at : i \in EventsInWindow(events, events[r].at, search_end)}
    <3>1. PICK i \in EventsInWindow(events, events[r].at, search_end) : t = events[i].at
      BY <2>4
    <3>2. i \in 1..Len(events) /\ events[r].at <= events[i].at /\ events[i].at <= search_end
      BY <1>1 DEF EventsInWindow
    <3> QED
      BY <1>1, <2>1, <3>1, <3>2
  <2> QED
    BY <2>2, <2>3, <2>4
<1> HIDE DEF check_points, search_end
<1>8. before = 0 \/ \E t \in events[r].at..events[r].at + recovery :
                      /\ t + baseline <= LastAt(events)
                      /\ 100 * CountIn(events, t, t + baseline) >= 95 * before
  BY <1>4, <1>7
<1> QED
  BY <1>5, <1>6, <1>8

\* What is said of the probes: streaks, rates, ranks and windows mean what
\* they are to mean (error_budget.rs, latency.rs, throughput.rs,
\* steady_state.rs, availability.rs, baseline.rs), on every list.
THEOREM ProbesSound == Spec => []ProbeMeaning
<1>1. IInv /\ SampleInv => ProbeMeaning
  BY BudgetSound, LatencySound, ThroughputSound, SteadySound DEF ProbeMeaning
<1> QED
  BY <1>1, Invariance, Sampled, PTL
=============================================================================
