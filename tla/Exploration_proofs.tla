------------------------- MODULE Exploration_proofs -------------------------
(***************************************************************************)
(* Proofs about Exploration, for any seeds, batches, strategies and        *)
(* definitions: its types, what a bisection has established when it ends,  *)
(* when alone the summary can panic, and what the exit code tells.         *)
(***************************************************************************)
EXTENDS Exploration, SequenceTheorems, TLAPS

LEMMA ArgsTyped ==
  ASSUME args \in ExploreArgs
  PROVE  /\ args.seeds \in 0..MaxSeeds
         /\ args.parallel \in 1..MaxParallel
         /\ args.start \in Nat
         /\ args.mode \in {"cluster", "simulate", "mock"}
         /\ args.strategy \in {"sequential", "random", "coverage"}
         /\ args.bisect \in BOOLEAN
         /\ args.template \in Templates
BY ExploreAssumption DEF ExploreArgs

LEMMA OffsetsTyped == Len(Offsets) = 5 /\ \A i \in 1..5 : Offsets[i] \in Nat
BY DEF Offsets

\* The middle of an interval lies in it, and is its upper end only if the
\* interval is a point.
LEMMA MidBetween ==
  ASSUME bis \in Bisection, bis.low <= bis.high
  PROVE  /\ Mid \in Nat /\ bis.low <= Mid /\ Mid <= bis.high
         /\ bis.low < bis.high => Mid < bis.high
<1>1. bis.low \in Nat /\ bis.high \in Nat
  BY DEF Bisection
<1>2. PICK d \in Nat : d = bis.high - bis.low
  BY <1>1
<1>3. d \div 2 \in Nat /\ d \div 2 <= d /\ (d > 0 => d \div 2 < d)
  BY <1>2, SMT
<1> QED
  BY <1>1, <1>2, <1>3 DEF Mid

-----------------------------------------------------------------------------
\* Types.

\* n times next_seed().
LEMMA NextSeedsTyped ==
  ASSUME ExploreTypeOK, NEW n \in Nat, NextSeeds(n)
  PROVE  batch' \in Seq(Nat) /\ explorer' \in Explorer
<1>1. explorer.next \in Nat /\ explorer.offset \in Nat /\ explorer.seen \in SUBSET Combos
  BY DEF ExploreTypeOK, Explorer
<1>2. CASE args.strategy = "random"
  <2>1. batch' \in [1..n -> Pool] /\ UNCHANGED explorer
    BY <1>2 DEF NextSeeds
  <2>2. batch' \in [1..n -> Nat]
    BY <2>1, ExploreAssumption
  <2>3. batch' \in Seq(Nat)
    BY <2>2, SeqDef
  <2> QED
    BY <2>1, <2>3 DEF ExploreTypeOK
<1>3. CASE args.strategy # "random"
  <2>1. \A i \in 1..n : explorer.next + explorer.offset + i - 1 \in Nat
    BY <1>1
  <2>2. batch' = [i \in 1..n |-> explorer.next + explorer.offset + i - 1]
        /\ explorer' = [explorer EXCEPT !.next = @ + n]
    BY <1>3 DEF NextSeeds
  <2>3. batch' \in [1..n -> Nat]
    BY <2>1, <2>2
  <2>4. batch' \in Seq(Nat)
    BY <2>3, SeqDef
  <2>5. explorer \in Explorer /\ explorer.next + n \in Nat
    BY <1>1 DEF ExploreTypeOK
  <2>6. explorer' \in Explorer
    BY <2>2, <2>5 DEF Explorer
  <2> QED
    BY <2>4, <2>6
<1> QED
  BY <1>2, <1>3

LEMMA CoverageTyped ==
  ASSUME ExploreTypeOK, NEW combos \in SUBSET Combos, RecordCoverage(combos)
  PROVE  explorer' \in Explorer
<1>1. explorer.next \in Nat /\ explorer.seen \in SUBSET Combos
  BY DEF ExploreTypeOK, Explorer
<1>2. Offsets[(explorer.next % Len(Offsets)) + 1] \in Nat
  BY <1>1, OffsetsTyped
<1> QED
  BY <1>1, <1>2 DEF RecordCoverage, ExploreTypeOK, Explorer

LEMMA RunTyped ==
  ASSUME ExploreTypeOK, NEW seed \in Nat, NEW o \in Outcomes, Run(seed, o)
  PROVE  world' \subseteq Nat \X Outcomes
BY DEF Run, ExploreTypeOK

LEMMA BisectingTyped ==
  ASSUME NEW good \in Nat, NEW from \in Nat
  PROVE  Bisecting(good, from) \in Bisection
BY DEF Bisecting, Bisection

LEMMA FailsTyped == \A o : Fails(o) \in BOOLEAN
BY DEF Fails, PropsFailed

LEMMA HeadTyped ==
  ASSUME NEW s \in Seq(Nat), s # <<>>
  PROVE  Head(s) \in Nat /\ Tail(s) \in Seq(Nat)
OBVIOUS

\* The simulation bisects the first of the seeds in `todo`.
TodoThere == pc = "bisect" /\ args.mode = "simulate" => todo # <<>>

TypeInv == ExploreTypeOK /\ TodoThere

LEMMA TodoStep == TodoThere /\ ExploreTypeOK /\ [Next]_vars => TodoThere'
<1> SUFFICES ASSUME TodoThere, ExploreTypeOK, [Next]_vars PROVE TodoThere'
  OBVIOUS
<1> QED
  BY DEF Next, vars, searchVars, bisectVars, DrawBatch, Join, JoinError, MockAborts,
     BisectLive, BisectedLive, Minimise, NextInteresting, BisectSimulated,
     BisectedSimulated, Summary, Probe, TodoThere

LEMMA TypeStep == TypeInv /\ [Next]_vars => ExploreTypeOK'
<1> SUFFICES ASSUME ExploreTypeOK, TodoThere, [Next]_vars PROVE ExploreTypeOK'
  BY DEF TypeInv
<1>1. CASE DrawBatch
  <2> DEFINE n == IF args.mode = "simulate" THEN 1 ELSE MinOf(remaining, args.parallel)
  <2>1. n \in Nat /\ remaining - n \in 0..MaxSeeds
    BY <1>1, ArgsTyped, ExploreAssumption DEF DrawBatch, MinOf, ExploreTypeOK
  <2>2. NextSeeds(n) /\ remaining' = remaining - n
    BY <1>1 DEF DrawBatch
  <2>3. batch' \in Seq(Nat) /\ explorer' \in Explorer
    BY <2>1, <2>2, NextSeedsTyped
  <2> QED
    BY <1>1, <2>1, <2>2, <2>3 DEF DrawBatch, ExploreTypeOK, bisectVars
<1>2. CASE Join
  <2>1. PICK o \in Outcomes \ {"error"} :
          /\ Run(Head(batch), o)
          /\ batch' = Tail(batch)
          /\ drawn' = drawn \cup {<<Head(batch), o>>}
          /\ results' = results \cup {<<Head(batch), o>>}
          /\ \E combos \in SUBSET Combos : RecordCoverage(combos)
          /\ interesting' = IF Fails(o) THEN Append(interesting, Head(batch)) ELSE interesting
          /\ lastGood' = IF ~Fails(o) THEN Head(batch) ELSE lastGood
          /\ IF Fails(o) /\ args.bisect /\ args.mode = "cluster"
               THEN pc' = "bisect" /\ bis' = Bisecting(lastGood, Head(batch)) /\ probed' = {}
               ELSE UNCHANGED <<pc, bis, probed>>
    BY <1>2 DEF Join
  <2>2. batch # <<>> /\ UNCHANGED <<args, remaining, todo, bisected, exit>>
    BY <1>2 DEF Join
  <2>3. Head(batch) \in Nat /\ Tail(batch) \in Seq(Nat)
    BY <2>2, HeadTyped DEF ExploreTypeOK
  <2>4. world' \subseteq Nat \X Outcomes
    BY <2>1, <2>3, RunTyped
  <2>5. explorer' \in Explorer
    BY <2>1, CoverageTyped
  <2>6. interesting' \in Seq(Nat) /\ lastGood' \in Nat
    BY <2>1, <2>3 DEF ExploreTypeOK
  <2>7. bis' \in Bisection /\ pc' \in {"search", "bisect", "minimise", "done", "panicked"}
        /\ probed' \subseteq Nat \X BOOLEAN
    BY <2>1, <2>3, BisectingTyped DEF ExploreTypeOK
  <2>8. drawn' \subseteq Nat \X Outcomes /\ results' \subseteq Nat \X Outcomes
    BY <2>1, <2>3 DEF ExploreTypeOK
  <2> QED
    BY <2>1, <2>2, <2>3, <2>4, <2>5, <2>6, <2>7, <2>8 DEF ExploreTypeOK
<1>3. CASE JoinError
  <2>1. Head(batch) \in Nat /\ Tail(batch) \in Seq(Nat) /\ "error" \in Outcomes
    BY <1>3, HeadTyped DEF JoinError, ExploreTypeOK, Outcomes
  <2>2. world' \subseteq Nat \X Outcomes
    BY <1>3, <2>1, RunTyped DEF JoinError
  <2> QED
    BY <1>3, <2>1, <2>2 DEF JoinError, ExploreTypeOK, bisectVars
<1>4. CASE MockAborts
  BY <1>4 DEF MockAborts, ExploreTypeOK, searchVars, bisectVars
<1>5. CASE BisectLive
  <2>1. PICK o \in Outcomes :
          /\ Probe(o)
          /\ bis' = IF o = "error" THEN [bis EXCEPT !.over = TRUE, !.error = TRUE]
                    ELSE IF ~Fails(o) THEN [bis EXCEPT !.low = Mid + 1]
                    ELSE IF Mid = 0 THEN [bis EXCEPT !.nearest = Mid, !.over = TRUE]
                    ELSE [bis EXCEPT !.nearest = Mid, !.high = Mid - 1]
    BY <1>5 DEF BisectLive
  <2>2. Mid \in Nat
    BY <1>5, MidBetween DEF BisectLive, ExploreTypeOK
  <2>3. bis' \in Bisection
    <3>1. bis \in Bisection
      BY DEF ExploreTypeOK
    <3>2. Mid + 1 \in Nat /\ (Mid # 0 => Mid - 1 \in Nat)
      BY <2>2
    <3> HIDE DEF Mid, Fails
    <3> QED
      BY <2>1, <2>2, <3>1, <3>2 DEF Bisection
  <2>4. world' \subseteq Nat \X Outcomes
    BY <2>1, <2>2, RunTyped DEF Probe
  <2>5. probed' \subseteq Nat \X BOOLEAN
    BY <2>1, <2>2, FailsTyped DEF Probe, ExploreTypeOK
  <2> QED
    BY <2>1, <2>3, <2>4, <2>5 DEF Probe, ExploreTypeOK, searchVars
<1>6. CASE BisectedLive
  <2>1. interesting' \in Seq(Nat)
    BY <1>6 DEF BisectedLive, ExploreTypeOK, Bisection
  <2> QED
    BY <1>6, <2>1 DEF BisectedLive, ExploreTypeOK, searchVars, bisectVars
<1>7. CASE Minimise
  BY <1>7 DEF Minimise, ExploreTypeOK, searchVars
<1>8. CASE NextInteresting
  <2>1. Head(todo) \in Nat /\ Tail(todo) \in Seq(Nat)
    BY <1>8, HeadTyped DEF NextInteresting, ExploreTypeOK
  <2>2. bis' \in Bisection
    BY <1>8, <2>1, BisectingTyped DEF NextInteresting, ExploreTypeOK
  <2> QED
    BY <1>8, <2>1, <2>2 DEF NextInteresting, ExploreTypeOK, searchVars
<1>9. CASE BisectSimulated
  <2>1. PICK o \in Outcomes :
          /\ Probe(o)
          /\ bis' = IF o = "error" THEN [bis EXCEPT !.high = Mid, !.error = TRUE]
                    ELSE IF Fails(o) THEN [bis EXCEPT !.nearest = Mid, !.high = Mid]
                    ELSE [bis EXCEPT !.low = Mid + 1]
    BY <1>9 DEF BisectSimulated
  <2>2. bis.low \in Nat /\ bis.high \in Nat /\ bis.low < bis.high
    BY <1>9 DEF BisectSimulated, ExploreTypeOK, Bisection
  <2>3. Mid \in Nat
    BY <2>2, MidBetween DEF ExploreTypeOK
  <2>4. bis' \in Bisection
    <3>1. bis \in Bisection
      BY DEF ExploreTypeOK
    <3>2. bis' = [bis EXCEPT !.high = Mid, !.error = TRUE]
          \/ bis' = [bis EXCEPT !.nearest = Mid, !.high = Mid]
          \/ bis' = [bis EXCEPT !.low = Mid + 1]
      BY <2>1, Zenon
    <3>3. Mid + 1 \in Nat
      BY <2>3
    <3> HIDE DEF Mid, Fails
    <3> QED
      BY <2>3, <3>1, <3>2, <3>3 DEF Bisection
  <2>5. world' \subseteq Nat \X Outcomes
    BY <2>1, <2>3, RunTyped DEF Probe
  <2>6. probed' \subseteq Nat \X BOOLEAN
    BY <2>1, <2>3, FailsTyped DEF Probe, ExploreTypeOK
  <2> QED
    BY <2>1, <2>4, <2>5, <2>6 DEF Probe, ExploreTypeOK, searchVars
<1>10. CASE BisectedSimulated
  <2>1. bisected' \subseteq Nat
    BY <1>10 DEF BisectedSimulated, ExploreTypeOK, Bisection
  <2>2. todo' \in Seq(Nat)
    BY <1>10, HeadTyped DEF BisectedSimulated, ExploreTypeOK, TodoThere
  <2> QED
    BY <1>10, <2>1, <2>2 DEF BisectedSimulated, ExploreTypeOK, searchVars
<1>11. CASE Summary
  BY <1>11 DEF Summary, ExploreTypeOK, searchVars, bisectVars
<1>12. CASE UNCHANGED vars
  BY <1>12 DEF vars, searchVars, bisectVars, ExploreTypeOK
<1> QED
  BY <1>1, <1>2, <1>3, <1>4, <1>5, <1>6, <1>7, <1>8, <1>9, <1>10, <1>11, <1>12 DEF Next

LEMMA InitTyped == Init => TypeInv
BY ArgsTyped DEF Init, TypeInv, TodoThere, ExploreTypeOK, Explorer, Bisection

\* handle_explore and its two sisters stay within their types; in particular
\* `mid - 1` is never taken of 0.
THEOREM ExploreTypes == Spec => []ExploreTypeOK
<1>1. Init => TypeInv
  BY InitTyped
<1>2. TypeInv /\ [Next]_vars => TypeInv'
  BY TypeStep, TodoStep DEF TypeInv
<1>3. TypeInv => ExploreTypeOK
  BY DEF TypeInv
<1> QED
  BY <1>1, <1>2, <1>3, PTL DEF Spec

-----------------------------------------------------------------------------
\* Bisection.

\* Below `low` a seed has passed, `nearest` has failed; the loop of the
\* simulation keeps the failing seed within its bounds, the one of
\* handle_explore just outside them, once it has found one.
BisInv ==
  pc = "bisect" /\ ~bis.error /\ bis.good <= bis.from =>
    /\ bis.good <= bis.low
    /\ bis.low = bis.good \/ <<bis.low - 1, FALSE>> \in probed
    /\ bis.nearest = bis.from \/ <<bis.nearest, TRUE>> \in probed
    /\ args.mode = "simulate" => bis.low <= bis.high /\ bis.high = bis.nearest
    /\ args.mode = "cluster" /\ bis.over => bis.nearest = bis.good
    /\ args.mode = "cluster" /\ ~bis.over =>
         /\ bis.low <= bis.high + 1
         /\ bis.high <= bis.from
         /\ \/ bis.high = bis.from /\ bis.nearest = bis.from
            \/ bis.high + 1 = bis.nearest
         /\ bis.low = bis.from + 1 /\ bis.high = bis.from =>
              bis.from = bis.good \/ <<bis.from - 1, FALSE>> \in probed

LEMMA StartBisecting ==
  ASSUME ExploreTypeOK, NEW good \in Nat, NEW from \in Nat,
         bis' = Bisecting(good, from),
         args' = args, args.mode = "cluster" \/ good < from
  PROVE  BisInv'
<1>1. /\ bis'.low = good /\ bis'.high = from /\ bis'.nearest = from
      /\ bis'.from = from /\ bis'.good = good /\ ~bis'.over
  BY DEF Bisecting
<1>2. CASE good <= from
  BY <1>1, <1>2 DEF BisInv
<1>3. CASE ~(good <= from)
  BY <1>1, <1>3 DEF BisInv
<1> QED
  BY <1>2, <1>3

LEMMA BisStep == ExploreTypeOK /\ BisInv /\ [Next]_vars => BisInv'
<1> SUFFICES ASSUME ExploreTypeOK, BisInv, [Next]_vars PROVE BisInv'
  OBVIOUS
<1>1. CASE DrawBatch \/ JoinError \/ MockAborts \/ Minimise \/ BisectedLive
           \/ BisectedSimulated \/ Summary
  <2>1. \/ pc' = pc /\ UNCHANGED <<bis, probed, args>>
        \/ pc' # "bisect"
    BY <1>1 DEF DrawBatch, JoinError, MockAborts, Minimise, BisectedLive,
       BisectedSimulated, Summary, bisectVars
  <2> QED
    BY <2>1 DEF BisInv
<1>2. CASE UNCHANGED vars
  BY <1>2 DEF BisInv, vars, bisectVars
<1>3. CASE Join
  <2>1. UNCHANGED args /\ pc = "search" /\ batch # <<>>
    BY <1>3 DEF Join
  <2>2. \/ args.mode = "cluster" /\ bis' = Bisecting(lastGood, Head(batch))
        \/ pc' = pc
    BY <1>3 DEF Join
  <2>3. lastGood \in Nat /\ Head(batch) \in Nat
    BY <2>1, HeadTyped DEF ExploreTypeOK
  <2>4. CASE pc' = pc
    BY <2>1, <2>4 DEF BisInv
  <2>5. CASE args.mode = "cluster" /\ bis' = Bisecting(lastGood, Head(batch))
    BY <2>1, <2>3, <2>5, StartBisecting
  <2> QED
    BY <2>2, <2>4, <2>5
<1>4. CASE NextInteresting
  <2>1. UNCHANGED args /\ pc = "minimise" /\ todo # <<>>
    BY <1>4 DEF NextInteresting
  <2>2. lastGood \in Nat /\ Head(todo) \in Nat
    BY <2>1, HeadTyped DEF ExploreTypeOK
  <2>3. CASE lastGood >= Head(todo)
    BY <1>4, <2>1, <2>3 DEF NextInteresting, BisInv
  <2>4. CASE ~(lastGood >= Head(todo))
    <3>1. bis' = Bisecting(lastGood, Head(todo)) /\ lastGood < Head(todo)
      BY <1>4, <2>2, <2>4 DEF NextInteresting
    <3> QED
      BY <2>1, <2>2, <3>1, StartBisecting
  <2> QED
    BY <2>3, <2>4
<1>5. CASE BisectLive
  <2>1. PICK o \in Outcomes :
          /\ Probe(o)
          /\ bis' = IF o = "error" THEN [bis EXCEPT !.over = TRUE, !.error = TRUE]
                    ELSE IF ~Fails(o) THEN [bis EXCEPT !.low = Mid + 1]
                    ELSE IF Mid = 0 THEN [bis EXCEPT !.nearest = Mid, !.over = TRUE]
                    ELSE [bis EXCEPT !.nearest = Mid, !.high = Mid - 1]
    BY <1>5 DEF BisectLive
  <2>2. /\ UNCHANGED <<args, pc>> /\ args.mode = "cluster" /\ pc = "bisect"
        /\ ~bis.over /\ bis.low <= bis.high
    BY <1>5, <2>1 DEF BisectLive, Probe
  <2>3. bis \in Bisection
    BY DEF ExploreTypeOK
  <2>4. /\ bis.low \in Nat /\ bis.high \in Nat /\ bis.nearest \in Nat
        /\ bis.from \in Nat /\ bis.good \in Nat
    BY <2>3 DEF Bisection
  <2>5. /\ Mid \in Nat /\ bis.low <= Mid /\ Mid <= bis.high
        /\ bis.low < bis.high => Mid < bis.high
    BY <2>2, <2>3, MidBetween
  <2>6. PICK mid : mid = Mid
    OBVIOUS
  <2>7. o # "error" => probed' = probed \cup {<<mid, Fails(o)>>}
    BY <2>1, <2>6 DEF Probe
  <2>8. SUFFICES ASSUME ~bis'.error, bis'.good <= bis'.from
                 PROVE  BisInv'
    BY DEF BisInv
  <2>9. /\ o # "error" /\ ~bis.error
        /\ bis'.good = bis.good /\ bis'.from = bis.from /\ bis.good <= bis.from
    BY <2>1, <2>3, <2>8 DEF Bisection
  <2> DEFINE Inv ==
        /\ bis.good <= bis.low
        /\ bis.low = bis.good \/ <<bis.low - 1, FALSE>> \in probed
        /\ bis.nearest = bis.from \/ <<bis.nearest, TRUE>> \in probed
        /\ bis.high <= bis.from
        /\ \/ bis.high = bis.from /\ bis.nearest = bis.from
           \/ bis.high + 1 = bis.nearest
  <2>10. Inv
    BY <2>2, <2>9 DEF BisInv
  <2>11. CASE ~Fails(o)
    <3>1. bis' = [bis EXCEPT !.low = mid + 1]
      BY <2>1, <2>6, <2>9, <2>11
    <3>2. /\ bis'.low = mid + 1 /\ bis'.high = bis.high /\ bis'.nearest = bis.nearest
          /\ bis'.over = bis.over
      BY <2>3, <3>1 DEF Bisection
    <3>3. <<mid, FALSE>> \in probed' /\ probed \subseteq probed'
      BY <2>7, <2>9, <2>11, FailsTyped
    <3>4. bis'.low - 1 = mid
      BY <2>5, <2>6, <3>2
    <3>5. <<bis'.low - 1, FALSE>> \in probed'
      BY <3>3, <3>4
    <3>6. bis'.nearest = bis'.from \/ <<bis'.nearest, TRUE>> \in probed'
      BY <2>9, <2>10, <3>2, <3>3
    <3>7. bis'.low = bis'.from + 1 /\ bis'.high = bis'.from =>
            bis'.from = bis'.good \/ <<bis'.from - 1, FALSE>> \in probed'
      <4>1. SUFFICES ASSUME bis'.low = bis'.from + 1, bis'.high = bis'.from
                     PROVE  bis'.from = bis'.good \/ <<bis'.from - 1, FALSE>> \in probed'
        OBVIOUS
      <4>2. mid = bis.from /\ bis.high = bis.from /\ bis.low = bis.from
        BY <2>4, <2>5, <2>6, <2>9, <3>2, <4>1, <2>2
      <4> QED
        BY <2>9, <2>10, <3>3, <4>2
    <3>8. bis'.good <= bis'.low /\ bis'.low <= bis'.high + 1
      BY <2>4, <2>5, <2>6, <2>9, <2>10, <3>2
    <3>9. /\ bis'.high <= bis'.from
          /\ \/ bis'.high = bis'.from /\ bis'.nearest = bis'.from
             \/ bis'.high + 1 = bis'.nearest
      BY <2>9, <2>10, <3>2
    <3> QED
      BY <2>2, <3>2, <3>5, <3>6, <3>7, <3>8, <3>9 DEF BisInv
  <2>12. CASE Fails(o) /\ mid = 0
    <3>1. bis' = [bis EXCEPT !.nearest = mid, !.over = TRUE]
      BY <2>1, <2>6, <2>9, <2>12
    <3>2. /\ bis'.low = bis.low /\ bis'.high = bis.high /\ bis'.nearest = mid
          /\ bis'.over
      BY <2>3, <3>1 DEF Bisection
    <3>3. <<mid, TRUE>> \in probed' /\ probed \subseteq probed'
      BY <2>7, <2>9, <2>12, FailsTyped
    <3>4. bis.good = 0
      BY <2>4, <2>5, <2>6, <2>10, <2>12
    <3> QED
      BY <2>2, <2>9, <2>10, <2>12, <3>2, <3>3, <3>4 DEF BisInv
  <2>13. CASE Fails(o) /\ mid # 0
    <3>1. bis' = [bis EXCEPT !.nearest = mid, !.high = mid - 1]
      BY <2>1, <2>6, <2>9, <2>13
    <3>2. /\ bis'.low = bis.low /\ bis'.high = mid - 1 /\ bis'.nearest = mid
          /\ bis'.over = bis.over
      BY <2>3, <3>1 DEF Bisection
    <3>3. <<mid, TRUE>> \in probed' /\ probed \subseteq probed'
      BY <2>7, <2>9, <2>13, FailsTyped
    <3>4. /\ bis'.low <= bis'.high + 1 /\ bis'.high + 1 = bis'.nearest
          /\ bis'.high <= bis'.from /\ bis'.high # bis'.from
      BY <2>4, <2>5, <2>6, <2>9, <2>10, <3>2
    <3> QED
      BY <2>2, <2>9, <2>10, <3>2, <3>3, <3>4 DEF BisInv
  <2> QED
    BY <2>11, <2>12, <2>13
<1>6. CASE BisectSimulated
  <2>1. PICK o \in Outcomes :
          /\ Probe(o)
          /\ bis' = IF o = "error" THEN [bis EXCEPT !.high = Mid, !.error = TRUE]
                    ELSE IF Fails(o) THEN [bis EXCEPT !.nearest = Mid, !.high = Mid]
                    ELSE [bis EXCEPT !.low = Mid + 1]
    BY <1>6 DEF BisectSimulated
  <2>2. bis \in Bisection
    BY DEF ExploreTypeOK
  <2>3. /\ bis.low \in Nat /\ bis.high \in Nat /\ bis.nearest \in Nat
        /\ bis.from \in Nat /\ bis.good \in Nat
    BY <2>2 DEF Bisection
  <2>4. /\ UNCHANGED <<args, pc>> /\ args.mode = "simulate" /\ pc = "bisect"
        /\ bis.low < bis.high
    BY <1>6, <2>1 DEF BisectSimulated, Probe
  <2>5. Mid \in Nat /\ bis.low <= Mid /\ Mid < bis.high
    BY <2>2, <2>3, <2>4, MidBetween
  <2>6. PICK mid : mid = Mid
    OBVIOUS
  <2>7. o # "error" => probed' = probed \cup {<<mid, Fails(o)>>}
    BY <2>1, <2>6 DEF Probe
  <2>8. SUFFICES ASSUME ~bis'.error, bis'.good <= bis'.from
                 PROVE  BisInv'
    BY DEF BisInv
  <2>9. /\ o # "error" /\ ~bis.error
        /\ bis'.good = bis.good /\ bis'.from = bis.from /\ bis.good <= bis.from
    BY <2>1, <2>2, <2>8 DEF Bisection
  <2>10. /\ bis.good <= bis.low
         /\ bis.low = bis.good \/ <<bis.low - 1, FALSE>> \in probed
         /\ bis.nearest = bis.from \/ <<bis.nearest, TRUE>> \in probed
         /\ bis.low <= bis.high /\ bis.high = bis.nearest
    BY <2>4, <2>9 DEF BisInv
  <2>11. CASE Fails(o)
    <3>1. bis' = [bis EXCEPT !.nearest = mid, !.high = mid]
      BY <2>1, <2>6, <2>9, <2>11
    <3>2. bis'.low = bis.low /\ bis'.high = mid /\ bis'.nearest = mid
      BY <2>2, <3>1 DEF Bisection
    <3>3. <<mid, TRUE>> \in probed' /\ probed \subseteq probed'
      BY <2>7, <2>9, <2>11, FailsTyped
    <3> QED
      BY <2>4, <2>5, <2>6, <2>9, <2>10, <3>2, <3>3 DEF BisInv
  <2>12. CASE ~Fails(o)
    <3>1. bis' = [bis EXCEPT !.low = mid + 1]
      BY <2>1, <2>6, <2>9, <2>12
    <3>2. bis'.low = mid + 1 /\ bis'.high = bis.high /\ bis'.nearest = bis.nearest
      BY <2>2, <3>1 DEF Bisection
    <3>3. <<mid, FALSE>> \in probed' /\ probed \subseteq probed'
      BY <2>7, <2>9, <2>12, FailsTyped
    <3>4. bis'.low - 1 = mid /\ bis'.good <= bis'.low /\ bis'.low <= bis'.high
      BY <2>3, <2>5, <2>6, <2>9, <2>10, <3>2
    <3> QED
      BY <2>4, <2>9, <2>10, <3>2, <3>3, <3>4 DEF BisInv
  <2> QED
    BY <2>11, <2>12
<1> QED
  BY <1>1, <1>2, <1>3, <1>4, <1>5, <1>6 DEF Next

\* Where the two loops of bisection end is a boundary they have seen: the seed
\* they name has failed and the one before it has passed, however flaky or far
\* from monotone the runs are.
THEOREM BoundarySeen == Spec => []BisectBoundary
<1>1. Init => TypeInv /\ BisInv
  BY InitTyped DEF Init, BisInv
<1>2. TypeInv /\ BisInv /\ [Next]_vars => (TypeInv /\ BisInv)'
  BY TypeStep, TodoStep, BisStep DEF TypeInv
<1>3. TypeInv /\ BisInv => BisectBoundary
  <2>1. SUFFICES ASSUME ExploreTypeOK, BisInv, BisectOver, ~bis.error, bis.good <= bis.from
                 PROVE  /\ bis.nearest = bis.from \/ <<bis.nearest, TRUE>> \in probed
                        /\ bis.nearest = bis.good \/ <<bis.nearest - 1, FALSE>> \in probed
    BY DEF TypeInv, BisectBoundary
  <2>2. /\ bis.low \in Nat /\ bis.high \in Nat /\ bis.nearest \in Nat
        /\ bis.from \in Nat /\ bis.good \in Nat
    BY <2>1 DEF ExploreTypeOK, Bisection
  <2>3. /\ pc = "bisect"
        /\ bis.low = bis.good \/ <<bis.low - 1, FALSE>> \in probed
        /\ bis.nearest = bis.from \/ <<bis.nearest, TRUE>> \in probed
    BY <2>1 DEF BisInv, BisectOver
  <2>4. CASE args.mode = "simulate" /\ bis.low >= bis.high
    <3>1. bis.low <= bis.high /\ bis.high = bis.nearest
      BY <2>1, <2>3, <2>4 DEF BisInv
    <3>2. bis.low = bis.nearest
      BY <2>2, <2>4, <3>1
    <3> QED
      BY <2>3, <3>2
  <2>5. CASE args.mode = "cluster" /\ bis.over
    BY <2>1, <2>3, <2>5 DEF BisInv
  <2>6. CASE args.mode = "cluster" /\ ~bis.over /\ bis.low > bis.high
    <3>1. /\ bis.low <= bis.high + 1
          /\ \/ bis.high = bis.from /\ bis.nearest = bis.from
             \/ bis.high + 1 = bis.nearest
          /\ bis.low = bis.from + 1 /\ bis.high = bis.from =>
               bis.from = bis.good \/ <<bis.from - 1, FALSE>> \in probed
      BY <2>1, <2>3, <2>6 DEF BisInv
    <3>2. bis.low = bis.high + 1
      BY <2>2, <2>6, <3>1
    <3>3. CASE bis.high = bis.from /\ bis.nearest = bis.from
      BY <2>3, <3>1, <3>2, <3>3
    <3>4. CASE bis.high + 1 = bis.nearest
      BY <2>3, <3>2, <3>4
    <3> QED
      BY <3>1, <3>3, <3>4
  <2> QED
    BY <2>1, <2>4, <2>5, <2>6 DEF BisectOver, LiveOver
<1> QED
  BY <1>1, <1>2, <1>3, PTL DEF Spec

-----------------------------------------------------------------------------
\* The results.

\* Where a run may miss what was asked for.
Excused ==
  \/ args.mode = "simulate" /\ ~Checkable(args.explicit)
  \/ args.mode = "mock" /\ args.template # "none"

\* Every seed that was drawn and did not end with an error has its result.
ResInv ==
  /\ results = {d \in drawn : d[2] # "error"}
  /\ Saw({"missed", "both"}) => Excused
  /\ pc = "done" =>
       /\ Saw({"bad"}) => exit = 1
       /\ exit = 1 => Saw({"bad"}) \/ (args.mode = "mock" /\ ~Checkable(args.explicit))

\* Every template can be built: its constructors give each type the fields
\* that build_checker asks for.
LEMMA TemplatesBuildable ==
  ASSUME NEW t \in TemplateNames \cup {"none"}
  PROVE  Checkable(Template(t))
<1>1. \A name :
        /\ Buildable(Availability(name)) /\ Buildable(RecoveryTime(name))
        /\ Buildable(Latency(name)) /\ Buildable(ErrorBudget(name))
        /\ Buildable(NoCascadeDef(name)) /\ Buildable(DnsResolution(name))
        /\ Buildable(SteadyState(name)) /\ Buildable(ThroughputDef(name))
  BY DEF Buildable, Requires, Def, Availability, RecoveryTime, Latency, ErrorBudget,
     NoCascadeDef, DnsResolution, SteadyState, ThroughputDef
<1>2. CASE t = "none"
  BY <1>2 DEF Template, Checkable
<1>3. CASE t = "basic"
  BY <1>1, <1>3 DEF Template, Checkable
<1>4. CASE t = "three-nines"
  BY <1>1, <1>4 DEF Template, Checkable
<1>5. CASE t = "four-nines"
  BY <1>1, <1>5 DEF Template, Checkable
<1>6. CASE t = "ci"
  BY <1>1, <1>6 DEF Template, Checkable
<1>7. CASE t = "microservice"
  BY <1>1, <1>7 DEF Template, Checkable
<1>8. CASE t = "stateful"
  BY <1>1, <1>8 DEF Template, Checkable
<1> QED
  BY <1>2, <1>3, <1>4, <1>5, <1>6, <1>7, <1>8 DEF TemplateNames

LEMMA AskedCheckable ==
  ASSUME ExploreTypeOK, Checkable(args.explicit)
  PROVE  Checkable(Asked)
<1>1. args.template \in TemplateNames \cup {"none"}
  BY ArgsTyped, ExploreAssumption DEF ExploreTypeOK
<1>2. Checkable(Template(args.template)) /\ Checkable(Template("none"))
  BY <1>1, TemplatesBuildable
<1>3. Asked \subseteq Template(args.template) \cup Template("none") \cup args.explicit
  BY DEF Asked, Resolve, Merge
<1> QED
  BY <1>2, <1>3 DEF Checkable

\* A run misses what it does not judge, which is in two cases.
LEMMA MissedExcused ==
  ASSUME ExploreTypeOK, NEW seed, NEW o \in {"missed", "both"}, Run(seed, o)
  PROVE  Excused
<1>1. o \in Shows /\ ~(args.mode = "cluster" /\ ~Checkable(Asked))
  BY DEF Run, Possible
<1>2. Asked \ Judged # {}
  BY <1>1 DEF Shows
<1>3. CASE args.mode = "mock"
  <2>1. args.template # "none"
    BY <1>2, <1>3 DEF Judged, Asked, Resolve, Merge, Template
  <2> QED
    BY <1>3, <2>1 DEF Excused
<1>4. CASE args.mode # "mock"
  <2>1. ~Checkable(Asked)
    BY <1>2, <1>4 DEF Judged
  <2>2. args.mode = "simulate"
    BY <1>1, <1>4, <2>1, ArgsTyped DEF ExploreTypeOK
  <2> QED
    BY <2>1, <2>2, AskedCheckable DEF Excused
<1> QED
  BY <1>3, <1>4

LEMMA ResStep == ExploreTypeOK /\ ResInv /\ [Next]_vars => ResInv'
<1> SUFFICES ASSUME ExploreTypeOK, ResInv, [Next]_vars PROVE ResInv'
  OBVIOUS
<1>1. CASE DrawBatch \/ BisectLive \/ BisectedLive \/ Minimise \/ NextInteresting
           \/ BisectSimulated \/ BisectedSimulated
  <2>1. UNCHANGED <<args, results, drawn>> /\ pc' # "done"
    BY <1>1 DEF DrawBatch, BisectLive, BisectedLive, Minimise, NextInteresting,
       BisectSimulated, BisectedSimulated, Probe, searchVars
  <2> QED
    BY <2>1 DEF ResInv, Excused, Saw
<1>2. CASE Join
  <2>1. PICK o \in Outcomes \ {"error"} :
          /\ Run(Head(batch), o)
          /\ drawn' = drawn \cup {<<Head(batch), o>>}
          /\ results' = results \cup {<<Head(batch), o>>}
    BY <1>2 DEF Join
  <2>2. pc' # "done" /\ args' = args
    BY <1>2 DEF Join
  <2>3. Saw({"missed", "both"})' => Excused
    BY <2>1, MissedExcused DEF ResInv, Saw
  <2> QED
    BY <2>1, <2>2, <2>3 DEF ResInv, Excused
<1>3. CASE JoinError
  <2>1. /\ drawn' = drawn \cup {<<Head(batch), "error">>}
        /\ UNCHANGED <<args, results, pc, exit>> /\ pc = "search"
    BY <1>3 DEF JoinError
  <2> QED
    BY <2>1 DEF ResInv, Excused, Saw
<1>4. CASE MockAborts
  <2>1. ~Checkable(args.explicit) /\ args.mode = "mock"
    BY <1>4 DEF MockAborts, Judged
  <2>2. UNCHANGED <<args, results, drawn>> /\ exit' = 1
    BY <1>4 DEF MockAborts, searchVars
  <2> QED
    BY <2>1, <2>2 DEF ResInv, Excused, Saw
<1>5. CASE Summary
  <2>1. UNCHANGED <<args, results, drawn>>
    BY <1>5 DEF Summary, searchVars
  <2>2. SUFFICES ASSUME pc' = "done"
                 PROVE  exit' = 1 <=> Saw({"bad"})
    BY <2>1 DEF ResInv, Excused, Saw
  <2>3. exit' = IF \E r \in results : r[2] = "bad" THEN 1 ELSE 0
    BY <1>5, <2>2 DEF Summary, PropsFailed
  <2> QED
    BY <2>3 DEF ResInv, Saw
<1>6. CASE UNCHANGED vars
  BY <1>6 DEF vars, searchVars, ResInv, Excused, Saw
<1> QED
  BY <1>1, <1>2, <1>3, <1>4, <1>5, <1>6 DEF Next

\* The exit code of explore is 1 if a seed it drew lacks a property that is
\* judged, and what was asked for goes unjudged only for a definition of the
\* config file that the simulation cannot build or a template the mock ignores:
\* for any template, config file, seeds and outcomes.
THEOREM ExitIsTold == Spec => []ExitTells
<1>1. Init => TypeInv /\ ResInv
  BY InitTyped DEF Init, ResInv, Saw
<1>2. TypeInv /\ ResInv /\ [Next]_vars => (TypeInv /\ ResInv)'
  BY TypeStep, TodoStep, ResStep DEF TypeInv
<1>3. TypeInv /\ ResInv => ExitTells
  BY DEF ResInv, ExitTells, Excused
<1> QED
  BY <1>1, <1>2, <1>3, PTL DEF Spec

-----------------------------------------------------------------------------
\* The summary.

\* A run from seed 0 without gaps and errors.
Plain ==
  /\ args.strategy = "sequential"
  /\ args.start = 0
  /\ \A d \in drawn : d[2] # "error"

AllFound == \A i \in DOMAIN interesting : interesting[i] \in Ran

\* The seeds joined so far are those below `Joined`.
Joined == explorer.next - Len(batch)

LookupInv ==
  /\ pc = "bisect" => args.bisect /\ args.mode \in {"cluster", "simulate"}
  /\ pc = "minimise" => args.bisect /\ args.mode = "simulate"
  /\ args.mode = "mock" \/ ~args.bisect => AllFound
  /\ Plain =>
       /\ explorer.offset = 0
       /\ Len(batch) <= explorer.next
       /\ \A i \in 1..Len(batch) : batch[i] = Joined + i - 1
       /\ \A s \in Nat : s < Joined => s \in Ran
       /\ args.mode = "cluster" => AllFound
       /\ pc = "bisect" /\ args.mode = "cluster" => bis.nearest < Joined /\ bis.high < Joined

LEMMA LookupStep == TypeInv /\ LookupInv /\ [Next]_vars => LookupInv'
<1> SUFFICES ASSUME ExploreTypeOK, LookupInv, [Next]_vars PROVE LookupInv'
  BY DEF TypeInv
<1>0. /\ explorer.next \in Nat /\ explorer.offset \in Nat
      /\ batch \in Seq(Nat) /\ Len(batch) \in Nat
      /\ interesting \in Seq(Nat) /\ Ran \subseteq Nat
  BY DEF ExploreTypeOK, Explorer, Ran
<1> DEFINE Shape ==
      /\ explorer.offset = 0
      /\ Len(batch) <= explorer.next
      /\ \A i \in 1..Len(batch) : batch[i] = Joined + i - 1
      /\ \A s \in Nat : s < Joined => s \in Ran
      /\ args.mode = "cluster" => AllFound
      /\ pc = "bisect" /\ args.mode = "cluster" => bis.nearest < Joined /\ bis.high < Joined
<1>1. CASE DrawBatch
  <2> DEFINE n == IF args.mode = "simulate" THEN 1 ELSE MinOf(remaining, args.parallel)
  <2>1. n \in Nat
    BY <1>1, ArgsTyped, ExploreAssumption DEF DrawBatch, MinOf, ExploreTypeOK
  <2>2. /\ NextSeeds(n) /\ UNCHANGED <<args, results, interesting, drawn, pc, bis>>
        /\ batch = <<>> /\ pc = "search"
    BY <1>1 DEF DrawBatch, bisectVars
  <2>3. UNCHANGED <<AllFound, Ran>>
    BY <2>2 DEF AllFound, Ran
  <2>4. SUFFICES ASSUME Plain PROVE Shape'
    BY <2>2, <2>3 DEF LookupInv, Plain
  <2>5. /\ batch' = [i \in 1..n |-> explorer.next + explorer.offset + i - 1]
        /\ explorer' = [explorer EXCEPT !.next = @ + n]
    BY <2>2, <2>4 DEF NextSeeds, Plain
  <2>6. Len(batch') = n
    BY <2>1, <2>5
  <2>7. explorer'.next = explorer.next + n /\ explorer'.offset = explorer.offset
    BY <2>5 DEF ExploreTypeOK, Explorer
  <2>8. Len(batch) = 0 /\ Joined = explorer.next /\ Joined' = explorer.next
    BY <1>0, <2>1, <2>2, <2>6, <2>7 DEF Joined
  <2>9. Shape
    BY <2>4 DEF LookupInv
  <2>10. \A i \in 1..n : batch'[i] = explorer.next + i - 1
    BY <1>0, <2>5, <2>9
  <2> HIDE DEF n
  <2> QED
    BY <1>0, <2>1, <2>2, <2>3, <2>6, <2>7, <2>8, <2>9, <2>10
<1>2. CASE Join
  <2>1. PICK o \in Outcomes \ {"error"} :
          /\ batch' = Tail(batch)
          /\ drawn' = drawn \cup {<<Head(batch), o>>}
          /\ results' = results \cup {<<Head(batch), o>>}
          /\ \E combos \in SUBSET Combos : RecordCoverage(combos)
          /\ interesting' = IF Fails(o) THEN Append(interesting, Head(batch)) ELSE interesting
          /\ IF Fails(o) /\ args.bisect /\ args.mode = "cluster"
               THEN pc' = "bisect" /\ bis' = Bisecting(lastGood, Head(batch)) /\ probed' = {}
               ELSE UNCHANGED <<pc, bis, probed>>
    BY <1>2 DEF Join
  <2>2. batch # <<>> /\ pc = "search" /\ UNCHANGED args
    BY <1>2 DEF Join
  <2>3. Ran' = Ran \cup {Head(batch)}
    <3> DEFINE new == <<Head(batch), o>>
    <3>1. results' = results \cup {new} /\ new[1] = Head(batch)
      BY <2>1
    <3> HIDE DEF new
    <3> QED
      BY <3>1, Zenon DEF Ran
  <2>4. AllFound => AllFound'
    <3>1. CASE interesting' = interesting
      BY <2>3, <3>1 DEF AllFound
    <3>2. CASE interesting' = Append(interesting, Head(batch))
      BY <1>0, <2>2, <2>3, <3>2 DEF AllFound
    <3> QED
      BY <2>1, <3>1, <3>2
  <2>5. pc' = "bisect" => args.bisect /\ args.mode = "cluster"
    BY <2>1, <2>2
  <2>6. SUFFICES ASSUME Plain' PROVE Shape'
    BY <2>2, <2>4, <2>5, <2>1 DEF LookupInv
  <2>7. Plain
    BY <2>1, <2>2, <2>6 DEF Plain
  <2>8. Shape
    BY <2>7 DEF LookupInv
  <2>9. explorer' = explorer
    BY <2>1, <2>7 DEF RecordCoverage, Plain
  <2>10. /\ Len(batch') = Len(batch) - 1
         /\ \A i \in 1..Len(batch') : batch'[i] = batch[i + 1]
         /\ Head(batch) = batch[1] /\ Len(batch) > 0
    BY <1>0, <2>1, <2>2
  <2>11. Head(batch) = Joined /\ Joined' = Joined + 1 /\ Joined \in Nat
    BY <1>0, <2>8, <2>9, <2>10 DEF Joined
  <2>12. \A i \in 1..Len(batch') : batch'[i] = Joined' + i - 1
    <3>1. TAKE i \in 1..Len(batch')
    <3>2. i \in Nat /\ i + 1 \in 1..Len(batch)
      BY <1>0, <2>10
    <3>3. batch'[i] = Joined + (i + 1) - 1
      BY <2>8, <2>10, <3>2
    <3> QED
      BY <2>11, <3>2, <3>3
  <2>13. \A s \in Nat : s < Joined' => s \in Ran'
    BY <2>3, <2>8, <2>11
  <2>14. pc' = "bisect" => bis'.nearest = Joined /\ bis'.high = Joined
    BY <2>1, <2>2, <2>11 DEF Bisecting
  <2>15. explorer'.offset = 0 /\ Len(batch') <= explorer'.next
    BY <1>0, <2>8, <2>9, <2>10
  <2>16. args'.mode = "cluster" => AllFound'
    BY <2>2, <2>4, <2>8
  <2>17. pc' = "bisect" => bis'.nearest < Joined' /\ bis'.high < Joined'
    BY <2>11, <2>14
  <2> QED
    BY <2>12, <2>13, <2>15, <2>16, <2>17
<1>3. CASE JoinError
  <2>1. UNCHANGED <<args, pc, interesting, results>>
        /\ <<Head(batch), "error">> \in drawn'
    BY <1>3 DEF JoinError
  <2>2. ~Plain'
    BY <2>1 DEF Plain
  <2>3. AllFound' <=> AllFound
    BY <2>1 DEF AllFound, Ran
  <2> QED
    BY <2>1, <2>2, <2>3 DEF LookupInv
<1>4. CASE MockAborts
  <2>1. UNCHANGED <<args, explorer, batch, results, drawn, interesting, bis>> /\ pc' = "done"
    BY <1>4 DEF MockAborts, searchVars, bisectVars
  <2> QED
    BY <2>1 DEF LookupInv, Plain, AllFound, Ran, Joined
<1>5. CASE BisectLive
  <2>1. PICK o \in Outcomes :
          /\ Probe(o)
          /\ bis' = IF o = "error" THEN [bis EXCEPT !.over = TRUE, !.error = TRUE]
                    ELSE IF ~Fails(o) THEN [bis EXCEPT !.low = Mid + 1]
                    ELSE IF Mid = 0 THEN [bis EXCEPT !.nearest = Mid, !.over = TRUE]
                    ELSE [bis EXCEPT !.nearest = Mid, !.high = Mid - 1]
    BY <1>5 DEF BisectLive
  <2>2. UNCHANGED <<args, explorer, batch, results, drawn, interesting, pc>>
        /\ pc = "bisect" /\ bis.low <= bis.high
    BY <1>5, <2>1 DEF BisectLive, Probe, searchVars
  <2>3. UNCHANGED <<Plain, AllFound, Ran, Joined>>
    BY <2>2 DEF Plain, AllFound, Ran, Joined
  <2>4. bis \in Bisection
    BY DEF ExploreTypeOK
  <2>5. bis.low \in Nat /\ bis.high \in Nat /\ bis.nearest \in Nat
        /\ Mid \in Nat /\ Mid <= bis.high
    BY <2>2, <2>4, MidBetween DEF Bisection
  <2>6. PICK mid : mid = Mid
    OBVIOUS
  <2>7. /\ bis'.nearest \in {bis.nearest, mid}
        /\ bis'.high \in {bis.high, mid - 1}
    BY <2>1, <2>4, <2>6 DEF Bisection
  <2>8. ASSUME Plain, args.mode = "cluster"
        PROVE  bis'.nearest < Joined /\ bis'.high < Joined
    <3>1. bis.nearest < Joined /\ bis.high < Joined /\ Joined \in Int
      BY <1>0, <2>2, <2>8 DEF LookupInv, Joined
    <3> QED
      BY <2>5, <2>6, <2>7, <3>1
  <2> QED
    BY <2>2, <2>3, <2>8 DEF LookupInv
<1>6. CASE BisectedLive
  <2>1. UNCHANGED <<args, explorer, batch, results, drawn, bis>> /\ pc = "bisect"
        /\ args.mode = "cluster" /\ pc' = "search"
        /\ interesting' \in {interesting, Append(interesting, bis.nearest)}
    BY <1>6 DEF BisectedLive, searchVars, bisectVars
  <2>2. UNCHANGED <<Plain, Ran, Joined>>
    BY <2>1 DEF Plain, Ran, Joined
  <2>3. args.bisect
    BY <2>1 DEF LookupInv
  <2>4. ASSUME Plain PROVE AllFound'
    <3>1. bis.nearest \in Nat
      BY DEF ExploreTypeOK, Bisection
    <3>2. bis.nearest \in Ran /\ AllFound
      BY <2>1, <2>4, <3>1 DEF LookupInv
    <3>3. CASE interesting' = interesting
      BY <2>2, <3>2, <3>3 DEF AllFound
    <3>4. CASE interesting' = Append(interesting, bis.nearest)
      <4>1. DOMAIN interesting' = 1..Len(interesting) + 1
            /\ DOMAIN interesting = 1..Len(interesting) /\ Len(interesting) \in Nat
        BY <1>0, <3>1, <3>4
      <4>2. \A i \in 1..Len(interesting) : interesting'[i] = interesting[i]
        BY <1>0, <3>1, <3>4
      <4>3. interesting'[Len(interesting) + 1] = bis.nearest
        BY <1>0, <3>1, <3>4
      <4> QED
        BY <2>2, <3>2, <4>1, <4>2, <4>3 DEF AllFound
    <3> QED
      BY <2>1, <3>3, <3>4
  <2> QED
    BY <2>1, <2>2, <2>3, <2>4 DEF LookupInv
<1>7. CASE Minimise \/ NextInteresting \/ BisectSimulated \/ BisectedSimulated
  <2>1. UNCHANGED <<args, explorer, batch, results, drawn, interesting>>
    BY <1>7 DEF Minimise, NextInteresting, BisectSimulated, BisectedSimulated, Probe, searchVars
  <2>2. UNCHANGED <<Plain, AllFound, Ran, Joined>>
    BY <2>1 DEF Plain, AllFound, Ran, Joined
  <2>3. /\ args.mode = "simulate" /\ pc' \in {"minimise", "bisect"}
        /\ args.bisect
    BY <1>7 DEF Minimise, NextInteresting, BisectSimulated, BisectedSimulated, Probe, LookupInv
  <2> QED
    BY <2>1, <2>2, <2>3 DEF LookupInv
<1>8. CASE Summary
  <2>1. UNCHANGED <<args, explorer, batch, results, drawn, interesting, bis>>
        /\ pc' \in {"panicked", "done"}
    BY <1>8 DEF Summary, searchVars, bisectVars
  <2> QED
    BY <2>1 DEF LookupInv, Plain, AllFound, Ran, Joined
<1>9. CASE UNCHANGED vars
  BY <1>9 DEF vars, searchVars, bisectVars, LookupInv, Plain, AllFound, Ran, Joined
<1> QED
  BY <1>1, <1>2, <1>3, <1>4, <1>5, <1>6, <1>7, <1>8, <1>9 DEF Next

LEMMA PanicStep == ExploreTypeOK /\ LookupInv /\ PanicsOnly /\ [Next]_vars => PanicsOnly'
<1> SUFFICES ASSUME ExploreTypeOK, LookupInv, PanicsOnly, [Next]_vars PROVE PanicsOnly'
  OBVIOUS
<1>1. CASE Summary
  <2>1. SUFFICES ASSUME pc' = "panicked" PROVE PanicsOnly'
    BY DEF PanicsOnly
  <2>2. UNCHANGED <<args, drawn>> /\ args.mode # "simulate" /\ ~AllFound
    BY <1>1, <2>1 DEF Summary, searchVars, AllFound
  <2>3. args.mode = "cluster" /\ args.bisect
    BY <2>2, ArgsTyped DEF LookupInv, ExploreTypeOK
  <2>4. ~Plain
    BY <2>2, <2>3 DEF LookupInv
  <2>5. args.start \in Nat
    BY ArgsTyped DEF ExploreTypeOK
  <2> QED
    BY <2>2, <2>3, <2>4, <2>5 DEF Plain, PanicsOnly
<1>2. CASE UNCHANGED vars
  BY <1>2 DEF vars, searchVars, PanicsOnly
<1> QED
  BY <1>1, <1>2 DEF Next, DrawBatch, Join, JoinError, MockAborts, BisectLive, BisectedLive,
     Minimise, NextInteresting, BisectSimulated, BisectedSimulated, Probe, PanicsOnly

\* The summary looks up every seed it lists and finds it, but for live
\* bisections that went below the start, into a gap of the strategy or to a
\* seed that ended with an error: for any seeds, batches and outcomes.
THEOREM PanicsOnlyThen == Spec => []PanicsOnly
<1>1. Init => TypeInv /\ LookupInv /\ PanicsOnly
  <2>1. SUFFICES ASSUME Init PROVE LookupInv /\ PanicsOnly
    BY InitTyped
  <2>2. /\ explorer.next = args.start /\ explorer.offset = 0 /\ Len(batch) = 0
        /\ DOMAIN interesting = {} /\ pc = "search" /\ args.start \in Nat
    BY <2>1, ArgsTyped DEF Init
  <2> QED
    BY <2>2 DEF LookupInv, PanicsOnly, Plain, AllFound, Joined
<1>2. TypeInv /\ LookupInv /\ PanicsOnly /\ [Next]_vars
        => (TypeInv /\ LookupInv /\ PanicsOnly)'
  BY TypeStep, TodoStep, LookupStep, PanicStep DEF TypeInv
<1> QED
  BY <1>1, <1>2, PTL DEF Spec
=============================================================================
