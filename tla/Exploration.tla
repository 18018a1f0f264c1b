----------------------------- MODULE Exploration ----------------------------
(***************************************************************************)
(* heisensim explore (handle_explore, handle_simulate_explore and          *)
(* handle_mock_explore, crates/cli) and the explorer that chooses its      *)
(* seeds (crates/fault/src/explorer.rs): batches of seeds are run, those   *)
(* that fail are bisected, and the exit code tells what was found.         *)
(*                                                                         *)
(* What a run of a seed shows is one of                                    *)
(*   "ok"      nothing,                                                    *)
(*   "found"   a failure that follows a fault (simulation: any failure),   *)
(*   "bad"     that a property does not hold which the run judges,         *)
(*   "missed"  nothing, though a property does not hold that was asked for *)
(*             and that the run does not judge,                            *)
(*   "both"    a failure that follows a fault, and misses such a property, *)
(*   "error"   nothing: the run ended with an error.                       *)
(* On a cluster it is anything, for a seed run before too; the simulation  *)
(* and the mock show the same whenever they run the same seed.             *)
(***************************************************************************)
EXTENDS Naturals, Sequences, FiniteSets, PropertyDefs

CONSTANTS
  Modes,       \* those of "cluster", "simulate" and "mock" in question
  Strategies,  \* those of "sequential", "random" and "coverage" in question
  Starts,      \* values of --start-seed
  MaxSeeds,    \* bound on --seeds
  MaxParallel, \* bound on --parallel
  Templates,   \* values of --property-template, or "none"
  Explicits,   \* sets of definitions a config file may hold
  Pool,        \* seeds that rand::random may return
  Combos       \* pairs of a kind of fault and a pod

ASSUME ExploreAssumption ==
  /\ Modes \subseteq {"cluster", "simulate", "mock"}
  /\ Strategies \subseteq {"sequential", "random", "coverage"}
  /\ Starts \subseteq Nat
  /\ MaxSeeds \in Nat
  /\ MaxParallel \in Nat
  /\ Pool \subseteq Nat
  /\ Templates \subseteq TemplateNames \cup {"none"}

VARIABLES
  args,         \* ExploreArgs
  explorer,     \* StrategicExplorer
  remaining,    \* seeds not drawn yet
  batch,        \* seeds drawn, whose runs are not joined yet
  results,      \* <<seed, what it showed>>, for the runs without an error
  interesting,  \* interesting_seeds
  lastGood,     \* last_known_good.unwrap_or(0), as it is used nowhere else
  bis,          \* the bisection at work, or the last one
  todo,         \* simulate: interesting seeds still to bisect
  bisected,     \* simulate: bisected_seeds, sorted and without duplicates
  pc,
  exit,         \* the exit code
  world,        \* what each seed run so far shows in the simulation
  drawn,        \* history: <<seed, what it showed>>, for every seed drawn
  probed        \* history: <<seed, it failed>>, within this bisection

searchVars == <<explorer, remaining, batch, results, lastGood, drawn>>
bisectVars == <<bis, todo, bisected, probed>>
vars == <<args, searchVars, interesting, bisectVars, pc, exit, world>>

Outcomes == {"ok", "found", "bad", "missed", "both", "error"}

ExploreArgs ==
  [mode : Modes, strategy : Strategies, bisect : BOOLEAN, seeds : 0..MaxSeeds,
   parallel : 1..MaxParallel, start : Starts, known : BOOLEAN,
   template : Templates, explicit : Explicits]

Explorer == [next : Nat, offset : Nat, seen : SUBSET Combos]

Bisection == [low : Nat, high : Nat, nearest : Nat, from : Nat, good : Nat,
              over : BOOLEAN, error : BOOLEAN]

ExploreTypeOK ==
  /\ args \in ExploreArgs
  /\ explorer \in Explorer
  /\ remaining \in 0..MaxSeeds
  /\ batch \in Seq(Nat)
  /\ results \subseteq Nat \X Outcomes
  /\ interesting \in Seq(Nat)
  /\ lastGood \in Nat
  /\ bis \in Bisection
  /\ todo \in Seq(Nat)
  /\ bisected \subseteq Nat
  /\ pc \in {"search", "bisect", "minimise", "done", "panicked"}
  /\ exit \in {0, 1}
  /\ world \subseteq Nat \X Outcomes
  /\ drawn \subseteq Nat \X Outcomes
  /\ probed \subseteq Nat \X BOOLEAN

\* All values of `known` but for the simulation mean the same.
Init ==
  /\ args \in ExploreArgs
  /\ args.mode # "simulate" => args.known
  /\ explorer = [next |-> args.start, offset |-> 0, seen |-> {}]
  /\ remaining = args.seeds
  /\ batch = <<>>
  /\ results = {}
  /\ interesting = <<>>
  /\ lastGood = 0
  /\ bis = [low |-> 0, high |-> 0, nearest |-> 0, from |-> 0, good |-> 0,
            over |-> TRUE, error |-> TRUE]
  /\ todo = <<>>
  /\ bisected = {}
  /\ pc = "search"
  /\ exit = 0
  /\ world = {}
  /\ drawn = {}
  /\ probed = {}

-----------------------------------------------------------------------------
\* One run of a seed.

\* What the template, of the command line or else of the config file, and the
\* [[properties]] ask for.
Asked == Resolve(args.template, args.explicit, "none")

\* What a run evaluates.  The mock reads no template, neither of the two; the
\* simulation takes definitions that make no checker for none at all
\* (evaluate_properties); on a cluster they make an error of every run.
Judged ==
  IF args.mode = "mock" THEN args.explicit
  ELSE IF Checkable(Asked) THEN Asked ELSE {}

\* A run on a cluster has errors of its own.
Shows ==
  {"ok", "found"}
    \cup (IF Judged # {} THEN {"bad"} ELSE {})
    \cup (IF Asked \ Judged # {} THEN {"missed", "both"} ELSE {})
    \cup (IF args.mode = "cluster" THEN {"error"} ELSE {})

\* The simulation has an error for an unknown kind of fault.
Possible ==
  IF \/ args.mode = "simulate" /\ ~args.known
     \/ args.mode = "cluster" /\ ~Checkable(Asked)
  THEN {"error"} ELSE Shows

PropsFailed(o) == o = "bad"

Fails(o) == o \in {"found", "both"} \/ PropsFailed(o)

Run(seed, o) ==
  /\ o \in Possible
  /\ IF args.mode = "cluster" THEN UNCHANGED world
     ELSE /\ \A w \in world : w[1] = seed => w[2] = o
          /\ world' = world \cup {<<seed, o>>}

-----------------------------------------------------------------------------
\* The explorer.

Offsets == <<7, 13, 31, 97, 251>>

\* n times next_seed(); the offset of a sequential explorer remains 0.
NextSeeds(n) ==
  IF args.strategy = "random"
  THEN batch' \in [1..n -> Pool] /\ UNCHANGED explorer
  ELSE /\ batch' = [i \in 1..n |-> explorer.next + explorer.offset + i - 1]
       /\ explorer' = [explorer EXCEPT !.next = @ + n]

RecordCoverage(combos) ==
  explorer' =
    IF args.strategy # "coverage" THEN explorer
    ELSE [explorer EXCEPT
            !.seen = @ \cup combos,
            !.offset = IF combos \subseteq explorer.seen
                       THEN Offsets[(explorer.next % Len(Offsets)) + 1] ELSE 0]

-----------------------------------------------------------------------------
\* The search.

MinOf(a, b) == IF a < b THEN a ELSE b

\* A batch; the simulation runs one seed after the other.
DrawBatch ==
  /\ pc = "search"
  /\ batch = <<>>
  /\ remaining > 0
  /\ LET n == IF args.mode = "simulate" THEN 1 ELSE MinOf(remaining, args.parallel) IN
       NextSeeds(n) /\ remaining' = remaining - n
  /\ UNCHANGED <<args, results, interesting, lastGood, drawn, bisectVars, pc, exit, world>>

Bisecting(good, from) ==
  [low |-> good, high |-> from, nearest |-> from, from |-> from, good |-> good,
   over |-> FALSE, error |-> FALSE]

\* (Mutation: a seed that is bisected loses its result.)
BadJoin ==
  /\ pc = "search"
  /\ batch # <<>>
  /\ args.mode = "mock" => Checkable(Judged)
  /\ LET seed == Head(batch) IN
     \E o \in Outcomes \ {"error"} :
       /\ Run(seed, o)
       /\ batch' = Tail(batch)
       /\ drawn' = drawn \cup {<<seed, o>>}
       /\ results' = IF Fails(o) /\ args.bisect THEN results ELSE results \cup {<<seed, o>>}
       /\ \E combos \in SUBSET Combos : RecordCoverage(combos)
       /\ interesting' = IF Fails(o) THEN Append(interesting, seed) ELSE interesting
       /\ lastGood' = IF ~Fails(o) THEN seed ELSE lastGood
       /\ IF Fails(o) /\ args.bisect /\ args.mode = "cluster"
            THEN pc' = "bisect" /\ bis' = Bisecting(lastGood, seed) /\ probed' = {}
            ELSE UNCHANGED <<pc, bis, probed>>
  /\ UNCHANGED <<args, remaining, todo, bisected, exit>>

\* The run of the first seed of the batch ends without an error.
Join ==
  /\ pc = "search"
  /\ batch # <<>>
  /\ args.mode = "mock" => Checkable(Judged)
  /\ LET seed == Head(batch) IN
     \E o \in Outcomes \ {"error"} :
       /\ Run(seed, o)
       /\ batch' = Tail(batch)
       /\ drawn' = drawn \cup {<<seed, o>>}
       /\ results' = results \cup {<<seed, o>>}
       /\ \E combos \in SUBSET Combos : RecordCoverage(combos)
       /\ interesting' = IF Fails(o) THEN Append(interesting, seed) ELSE interesting
       /\ lastGood' = IF ~Fails(o) THEN seed ELSE lastGood
       /\ IF Fails(o) /\ args.bisect /\ args.mode = "cluster"
            THEN pc' = "bisect" /\ bis' = Bisecting(lastGood, seed) /\ probed' = {}
            ELSE UNCHANGED <<pc, bis, probed>>
  /\ UNCHANGED <<args, remaining, todo, bisected, exit>>

\* It ends with an error, which is printed.
JoinError ==
  /\ pc = "search"
  /\ batch # <<>>
  /\ Run(Head(batch), "error")
  /\ batch' = Tail(batch)
  /\ drawn' = drawn \cup {<<Head(batch), "error">>}
  /\ UNCHANGED <<args, explorer, remaining, results, interesting, lastGood, bisectVars, pc, exit>>

\* The mock returns the error of build_checker.
MockAborts ==
  /\ pc = "search"
  /\ batch # <<>>
  /\ args.mode = "mock"
  /\ ~Checkable(Judged)
  /\ pc' = "done"
  /\ exit' = 1
  /\ UNCHANGED <<args, searchVars, interesting, bisectVars, world>>

-----------------------------------------------------------------------------
\* Bisection.

Mid == bis.low + (bis.high - bis.low) \div 2

Probe(o) ==
  /\ Run(Mid, o)
  /\ probed' = IF o = "error" THEN probed ELSE probed \cup {<<Mid, Fails(o)>>}
  /\ UNCHANGED <<args, searchVars, interesting, todo, bisected, pc, exit>>

\* (Mutation: seed 0 is no end of the search, and `high` goes below it.)
BadBisectLive ==
  /\ pc = "bisect"
  /\ args.mode = "cluster"
  /\ ~bis.over
  /\ bis.low <= bis.high
  /\ \E o \in Outcomes :
       /\ Probe(o)
       /\ bis' = IF o = "error" THEN [bis EXCEPT !.over = TRUE, !.error = TRUE]
                 ELSE IF ~Fails(o) THEN [bis EXCEPT !.low = Mid + 1]
                 ELSE [bis EXCEPT !.nearest = Mid, !.high = Mid - 1]

\* handle_explore: from the last seed that was fine to the one that was not.
BisectLive ==
  /\ pc = "bisect"
  /\ args.mode = "cluster"
  /\ ~bis.over
  /\ bis.low <= bis.high
  /\ \E o \in Outcomes :
       /\ Probe(o)
       /\ bis' = IF o = "error" THEN [bis EXCEPT !.over = TRUE, !.error = TRUE]
                 ELSE IF ~Fails(o) THEN [bis EXCEPT !.low = Mid + 1]
                 ELSE IF Mid = 0 THEN [bis EXCEPT !.nearest = Mid, !.over = TRUE]
                 ELSE [bis EXCEPT !.nearest = Mid, !.high = Mid - 1]

LiveOver == bis.over \/ bis.low > bis.high

BisectedLive ==
  /\ pc = "bisect"
  /\ args.mode = "cluster"
  /\ LiveOver
  /\ interesting' = IF bis.nearest # bis.from THEN Append(interesting, bis.nearest)
                    ELSE interesting
  /\ pc' = "search"
  /\ UNCHANGED <<args, searchVars, bisectVars, exit, world>>

\* handle_simulate_explore: the same for each interesting seed, at the end.
Minimise ==
  /\ pc = "search"
  /\ batch = <<>>
  /\ remaining = 0
  /\ args.mode = "simulate"
  /\ args.bisect
  /\ pc' = "minimise"
  /\ todo' = interesting
  /\ UNCHANGED <<args, searchVars, interesting, bis, bisected, probed, exit, world>>

NextInteresting ==
  /\ pc = "minimise"
  /\ todo # <<>>
  /\ IF lastGood >= Head(todo)
       THEN /\ bisected' = bisected \cup {Head(todo)}
            /\ todo' = Tail(todo)
            /\ UNCHANGED <<bis, probed, pc>>
       ELSE /\ bis' = Bisecting(lastGood, Head(todo))
            /\ probed' = {}
            /\ pc' = "bisect"
            /\ UNCHANGED <<todo, bisected>>
  /\ UNCHANGED <<args, searchVars, interesting, exit, world>>

\* (Mutation: `high` moves as in the loop of handle_explore.)
BadBisectSimulated ==
  /\ pc = "bisect"
  /\ args.mode = "simulate"
  /\ bis.low < bis.high
  /\ \E o \in Outcomes :
       /\ Probe(o)
       /\ bis' = IF Fails(o) THEN [bis EXCEPT !.nearest = Mid, !.high = Mid - 1]
                 ELSE [bis EXCEPT !.low = Mid + 1]

\* (Mutation: a seed that passes is the new lower end.)
BadBisectForEver ==
  /\ pc = "bisect"
  /\ args.mode = "simulate"
  /\ bis.low < bis.high
  /\ \E o \in Outcomes :
       /\ Probe(o)
       /\ bis' = IF Fails(o) THEN [bis EXCEPT !.nearest = Mid, !.high = Mid]
                 ELSE [bis EXCEPT !.low = Mid]

\* An error, which moves `high` as a failure does, never comes: it would have
\* come for the interesting seed as well.
BisectSimulated ==
  /\ pc = "bisect"
  /\ args.mode = "simulate"
  /\ bis.low < bis.high
  /\ \E o \in Outcomes :
       /\ Probe(o)
       /\ bis' = IF o = "error" THEN [bis EXCEPT !.high = Mid, !.error = TRUE]
                 ELSE IF Fails(o) THEN [bis EXCEPT !.nearest = Mid, !.high = Mid]
                 ELSE [bis EXCEPT !.low = Mid + 1]

BisectedSimulated ==
  /\ pc = "bisect"
  /\ args.mode = "simulate"
  /\ bis.low >= bis.high
  /\ bisected' = bisected \cup {bis.nearest}
  /\ todo' = Tail(todo)
  /\ pc' = "minimise"
  /\ UNCHANGED <<args, searchVars, interesting, bis, probed, exit, world>>

-----------------------------------------------------------------------------
\* The summary.

Ran == {r[1] : r \in results}

\* Every interesting seed is looked up in the results (unwrap), and the exit
\* code follows; the simulation looks nothing up.
Summary ==
  /\ \/ /\ pc = "search"
        /\ batch = <<>>
        /\ remaining = 0
        /\ ~(args.mode = "simulate" /\ args.bisect)
     \/ pc = "minimise" /\ todo = <<>>
  /\ IF args.mode # "simulate" /\ \E i \in DOMAIN interesting : interesting[i] \notin Ran
       THEN pc' = "panicked" /\ UNCHANGED exit
       ELSE pc' = "done" /\ exit' = IF \E r \in results : PropsFailed(r[2]) THEN 1 ELSE 0
  /\ UNCHANGED <<args, searchVars, interesting, bisectVars, world>>

Next ==
  \/ DrawBatch \/ Join \/ JoinError \/ MockAborts
  \/ BisectLive \/ BisectedLive \/ Minimise \/ NextInteresting
  \/ BisectSimulated \/ BisectedSimulated \/ Summary

Spec == Init /\ [][Next]_vars

\* A run of a seed ends, and the command goes on.
Fairness == WF_vars(Next)

FairSpec == Spec /\ Fairness
-----------------------------------------------------------------------------
\* Properties.

BisectOver ==
  /\ pc = "bisect"
  /\ \/ args.mode = "cluster" /\ LiveOver
     \/ args.mode = "simulate" /\ bis.low >= bis.high

\* The seed a bisection names has failed, and the one before it has passed or
\* is where the search began (both loops, with their different bounds): no
\* seed in between is taken for tested, whatever is random or flaky and however
\* far from monotone, unless a run of the bisection ended with an error.
BisectBoundary ==
  BisectOver /\ ~bis.error /\ bis.good <= bis.from =>
    /\ bis.nearest = bis.from \/ <<bis.nearest, TRUE>> \in probed
    /\ bis.nearest = bis.good \/ <<bis.nearest - 1, FALSE>> \in probed

\* The lookup of the summary finds every seed (unwrap, main.rs:2451), unless a
\* live bisection named one that was not drawn or had no result: below the
\* start, left out by the strategy, or in error when it was drawn.
PanicsOnly ==
  pc = "panicked" =>
    /\ args.mode = "cluster"
    /\ args.bisect
    /\ \/ args.strategy # "sequential"
       \/ args.start > 0
       \/ \E d \in drawn : d[2] = "error"

Saw(outcomes) == \E d \in drawn : d[2] \in outcomes

\* The exit code is 1 if a seed that was drawn lacks a property its run judges,
\* and otherwise only if the mock cannot build the definitions of its config
\* file.  A property asked for goes unjudged, and the exit code tells nothing
\* of it, in two cases only: one definition of the config file cannot be built,
\* which the simulation passes over in silence (properties.rs:355), or a
\* template was named to the mock (mock.rs:284).  All that the templates ask
\* for can be judged.
ExitTells ==
  pc = "done" =>
    /\ Saw({"bad"}) => exit = 1
    /\ exit = 1 => Saw({"bad"}) \/ (args.mode = "mock" /\ ~Checkable(args.explicit))
    /\ Saw({"missed", "both"}) =>
         \/ args.mode = "simulate" /\ ~Checkable(args.explicit)
         \/ args.mode = "mock" /\ args.template # "none"

\* explore ends, whatever its runs show: both loops of bisection do.
ExploreEnds == <>(pc \in {"done", "panicked"})

\* main.rs:2451: every interesting seed has a result.
EverySeedFound == pc # "panicked"
=============================================================================
