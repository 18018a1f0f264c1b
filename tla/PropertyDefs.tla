---------------------------- MODULE PropertyDefs ----------------------------
(***************************************************************************)
(* Property definitions (crates/cli/src/properties.rs): what a template    *)
(* and the [[properties]] of a config file ask for, and whether            *)
(* build_checker can make a checker of it.                                 *)
(*                                                                         *)
(* A definition is its name, its type and the fields that are given; their *)
(* values make no difference to whether it can be built.                   *)
(***************************************************************************)

Def(name, type, fields) == [name |-> name, type |-> type, fields |-> fields]

\* build_checker: the known types, with the fields each cannot do without.
Requires == {
  <<"recovery_time", {"max_seconds"}>>,
  <<"availability", {"min_percent"}>>,
  <<"error_budget", {"max_consecutive"}>>,
  <<"no_cascade", {}>>,
  <<"latency", {"max_ms"}>>,
  <<"latency_p99", {"max_ms"}>>,
  <<"throughput", {"min_per_minute", "window_seconds"}>>,
  <<"steady-state", {"max_recovery_seconds", "baseline_seconds"}>>,
  <<"dns-resolution", {"max_recovery_seconds"}>>}

Buildable(d) == \E r \in Requires : d.type = r[1] /\ r[2] \subseteq d.fields

\* One definition that cannot be built is an error for all of them.
Checkable(defs) == \A d \in defs : Buildable(d)

\* The constructors of PropertyDef.
Availability(name) == Def(name, "availability", {"min_percent"})
RecoveryTime(name) == Def(name, "recovery_time", {"max_seconds"})
Latency(name) == Def(name, "latency", {"max_ms", "percentile"})
ErrorBudget(name) == Def(name, "error_budget", {"max_consecutive"})
NoCascadeDef(name) == Def(name, "no_cascade", {"window_seconds"})
\* (Mutation: the type is spelled as the other types are.)
BadDnsResolution(name) == Def(name, "dns_resolution", {"max_recovery_seconds"})
DnsResolution(name) == Def(name, "dns-resolution", {"max_recovery_seconds"})
SteadyState(name) == Def(name, "steady-state", {"max_recovery_seconds", "baseline_seconds"})
ThroughputDef(name) == Def(name, "throughput", {"min_per_minute", "window_seconds"})

TemplateNames == {"basic", "three-nines", "four-nines", "ci", "microservice", "stateful"}

\* PropertyTemplate::to_property_defs.
Template(t) ==
  CASE t = "none" -> {}
    [] t = "basic" -> {Availability("high-availability"), RecoveryTime("fast-recovery"),
                       Latency("p99-latency")}
    [] t = "three-nines" -> {Availability("high-availability"), RecoveryTime("fast-recovery"),
                             Latency("p99-latency"), ErrorBudget("error-budget"),
                             NoCascadeDef("no-cascade")}
    [] t = "four-nines" -> {Availability("high-availability"), RecoveryTime("fast-recovery"),
                            Latency("p999-latency"), ErrorBudget("error-budget"),
                            NoCascadeDef("no-cascade")}
    [] t = "ci" -> {Availability("ci-availability"), RecoveryTime("ci-recovery")}
    [] t = "microservice" -> {Availability("high-availability"), RecoveryTime("fast-recovery"),
                              Latency("p99-latency"), NoCascadeDef("no-cascade"),
                              DnsResolution("dns-resolution"), SteadyState("steady-state")}
    [] t = "stateful" -> {Availability("high-availability"), RecoveryTime("recovery"),
                          ErrorBudget("error-budget"), SteadyState("steady-state"),
                          ThroughputDef("throughput")}

\* An explicit definition takes the place of those of the template that have
\* its name.
Merge(t, explicit) ==
  {d \in Template(t) : \A e \in explicit : e.name # d.name} \cup explicit

\* --property-template goes before the template of the config file.
Resolve(cli, explicit, file) == Merge(IF cli = "none" THEN file ELSE cli, explicit)
=============================================================================
