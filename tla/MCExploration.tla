--------------------------- MODULE MCExploration ----------------------------
(* Exploration with few seeds and definitions. *)
EXTENDS Exploration

\* A type as README.md:197 spells it, and a definition without its threshold.
Documented == Def("dns", "dns_resolution", {"max_recovery_seconds"})
Incomplete == Def("high-availability", "availability", {})

MCExplicits == {{}, {Documented}, {Incomplete}, {Availability("high-availability")}}
AllTemplates == TemplateNames \cup {"none"}
MCPool == {0, 3}

\* Most templates and config files are tried with one seed only, and three
\* seeds in their order only.
MCInit ==
  /\ Init
  /\ args.seeds > 2 => args.strategy = "sequential"
  /\ args.seeds > 1 => args.template \in {"none", "microservice"} /\ args.explicit = {}

Finished == pc \in {"done", "panicked"} /\ UNCHANGED vars

MCSpec == MCInit /\ [][Next \/ Finished]_vars /\ Fairness
=============================================================================
