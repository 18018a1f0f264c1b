------------------------------ MODULE FaultOps ------------------------------
(***************************************************************************)
(* FaultOperator (crates/k8s/src/fault_ops.rs) and the pods it works on:   *)
(* the kubectl commands an injection and a revert of each kind of fault    *)
(* consist of, and what the kernel of a pod does with one such command.    *)
(*                                                                         *)
(* A pod's network state is the number of instances of each rule a fault   *)
(* may install: the root netem qdisc of eth0, of which there is at most    *)
(* one, and iptables DROP rules, of which -A appends as many as asked and  *)
(* -D removes one.                                                         *)
(*                                                                         *)
(* With the inject method "exec" a command runs in the pod's own container *)
(* and its exit status comes back through kubectl.  With "debug" kubectl   *)
(* only creates an ephemeral container and is not attached to it: its exit *)
(* status says that the container was created.  The container runs its     *)
(* command once, at a time of its own, and nobody learns how that went.    *)
(***************************************************************************)
EXTENDS Naturals, Sequences

CONSTANTS
  Pods,        \* the pods of the target namespace
  Methods,     \* the inject methods considered (--inject-method)
  Unreliable,  \* the operations that may fail although nothing forced them to
  MaxErrs      \* bound: how many errors without cause kubectl reports in a behaviour

\* "lost": the reply of an addition that took effect is lost.
\* "container": the command of a debug container, whose failure nobody reports.
OpNames == {"add", "lost", "del", "discover", "timeout", "container"}
Verbs == {"add", "del"}

ASSUME MethodsAssumption == Methods \subseteq {"exec", "debug"}
ASSUME UnreliableAssumption == Unreliable \subseteq OpNames
ASSUME MaxErrsAssumption == MaxErrs \in Nat

VARIABLES
  method,   \* FaultOperator.inject_method; never changes
  rules,    \* rules[r]: instances of rule r in the kernel of its pod
  up,       \* up[p]: the pod exists under its name
  waiting,  \* waiting[verb][r]: debug containers that have yet to run that command
  vain,     \* history, vain[r]: debug containers that were to delete r and deleted nothing
  errs      \* errors reported so far beyond those the pods' state forces

podVars == <<method, rules, up, waiting, vain, errs>>

NetworkKinds == {"latency", "partition", "dns"}
Kinds == NetworkKinds \cup {"stress", "crash", "eviction"}

\* A fault: its kind, its target pod and, for a partition, the address it cuts
\* off.  Addresses go by the names of pods, and no pod is bound to its own: one
\* that is started again has another.
FaultDesc == [kind : Kinds, pod : Pods, peer : Pods]

RuleNames == {"netem", "drop", "udp53", "tcp53"}
Rules == {r \in Pods \X RuleNames \X Pods : r[2] = "drop" <=> r[1] # r[3]}

\* The rules a fault installs, in the order its commands do.
LatencyRules(d) == <<<<d.pod, "netem", d.pod>>>>
PartitionRules(d) == <<<<d.pod, "drop", d.peer>>>>
DnsRules(d) == <<<<d.pod, "udp53", d.pod>>, <<d.pod, "tcp53", d.pod>>>>

RulesOf(d) ==
  CASE d.kind = "latency"   -> LatencyRules(d)
    [] d.kind = "partition" -> PartitionRules(d)
    [] d.kind = "dns"       -> DnsRules(d)
    [] OTHER                -> <<>>

PodsTypeOK ==
  /\ method \in Methods
  /\ rules \in [Rules -> Nat]
  /\ up \in [Pods -> BOOLEAN]
  /\ waiting \in [Verbs -> [Rules -> Nat]]
  /\ vain \in [Rules -> Nat]
  /\ errs \in 0..MaxErrs

PodsInit ==
  /\ method \in Methods
  /\ rules = [r \in Rules |-> 0]
  /\ up = [p \in Pods |-> TRUE]
  /\ waiting = [verb \in Verbs |-> [r \in Rules |-> 0]]
  /\ vain = [r \in Rules |-> 0]
  /\ errs = 0

\* What the kernel grants: `tc qdisc add` one root qdisc, a deletion only what is there.
Granted(verb, r) ==
  /\ up[r[1]]
  /\ verb = "add" => (r[2] = "netem" => rules[r] = 0)
  /\ verb = "del" => rules[r] > 0

\* Mutation for RulesMatchFaults: the chain is flushed instead of one rule deleted.
BadDone(verb, r) == [rules EXCEPT ![r] = IF verb = "add" THEN @ + 1 ELSE 0]

Done(verb, r) == [rules EXCEPT ![r] = IF verb = "add" THEN @ + 1 ELSE @ - 1]

\* One more error than the state of the pods forces, for an operation that may have one.
SpareError(op) ==
  /\ op \in Unreliable
  /\ errs < MaxErrs
  /\ errs' = errs + 1

\* kubectl has nothing to report an error for: the command succeeds in the
\* pod's container, or the pod that is to get a debug container exists.
Accepted(verb, r) == IF method = "exec" THEN Granted(verb, r) ELSE up[r[1]]

\* What kubectl does: it runs the command, or it creates a container that will.
Accept(verb, r) ==
  IF method = "exec"
  THEN rules' = Done(verb, r) /\ UNCHANGED waiting
  ELSE waiting' = [waiting EXCEPT ![verb][r] = @ + 1] /\ UNCHANGED rules

\* exec_network_command: the reply is kubectl's exit status, or kubectl reports
\* an error without such a cause, whether it did what it was asked to or not.
Exec(verb, r, reply) ==
  /\ \/ /\ reply = Accepted(verb, r)
        /\ IF reply THEN Accept(verb, r) ELSE UNCHANGED <<rules, waiting>>
        /\ UNCHANGED errs
     \/ /\ reply = FALSE
        /\ Accepted(verb, r)
        /\ \/ UNCHANGED <<rules, waiting>> /\ SpareError(verb)
           \/ Accept(verb, r) /\ SpareError(IF verb = "add" THEN "lost" ELSE "del")
  /\ UNCHANGED <<method, up, vain>>

\* kubectl is killed before it has replied.
Cut(verb, r) ==
  /\ \/ UNCHANGED <<rules, waiting>>
     \/ Accepted(verb, r) /\ Accept(verb, r)
  /\ SpareError("timeout")
  /\ UNCHANGED <<method, up, vain>>

-----------------------------------------------------------------------------
\* The cluster, whose steps no command waits for.

\* A debug container runs its command, or comes to nothing: the kernel refuses
\* the command, or the image, a capability or the container fails.  Containers
\* of one pod run in any order.
RunContainer(verb, r) ==
  /\ waiting[verb][r] > 0
  /\ waiting' = [waiting EXCEPT ![verb][r] = @ - 1]
  /\ \/ Granted(verb, r) /\ rules' = Done(verb, r) /\ UNCHANGED vain
     \/ /\ Granted(verb, r) => "container" \in Unreliable
        /\ vain' = IF verb = "del" THEN [vain EXCEPT ![r] = @ + 1] ELSE vain
        /\ UNCHANGED rules
  /\ UNCHANGED <<method, up, errs>>

\* A pod is gone: its network namespace with all rules in it, and the debug
\* containers it had.
DeletePod(p) ==
  LET Kept(count) == [r \in Rules |-> IF r[1] = p THEN 0 ELSE count[r]]
  IN  /\ up' = [up EXCEPT ![p] = FALSE]
      /\ rules' = Kept(rules)
      /\ waiting' = [verb \in Verbs |-> Kept(waiting[verb])]
      /\ vain' = Kept(vain)
      /\ UNCHANGED <<method, errs>>

\* A StatefulSet starts its pod again under the same name, with a network
\* namespace of its own.
PodReturns(p) ==
  /\ ~up[p]
  /\ up' = [up EXCEPT ![p] = TRUE]
  /\ UNCHANGED <<method, rules, waiting, vain, errs>>
=============================================================================
