----------------------------- MODULE VdsoTarget -----------------------------
(***************************************************************************)
(* A process whose clock_gettime is patched (crates/intercept/src/vdso):   *)
(* the bytes at the start of the function, the regions mapped into it, and *)
(* its threads, one of which (Main, the one named by the pid) is traced.   *)
(*                                                                         *)
(* The twelve bytes are one of: the original ones, a jump to the payload   *)
(* in some region, or half of each.  What the kernel does with signals,    *)
(* stops and memory is external: it is modelled from how injector.rs uses  *)
(* ptrace, waitpid and /proc/PID/mem.                                      *)
(***************************************************************************)
EXTENDS Naturals

CONSTANTS
  Threads,     \* the threads of the target
  Main,        \* the first of them
  Addrs,       \* addresses at which mmap may place a region
  NoAddr,      \* any other address
  MaxSignals,  \* bound on the signals others send to Main
  MaxLives     \* bound on the starts of the container

ASSUME TargetAssumption ==
  /\ Main \in Threads
  /\ NoAddr \notin Addrs
  /\ {"orig", "half", "zero"} \cap Addrs = {}
  /\ MaxSignals \in Nat
  /\ MaxLives \in Nat

VARIABLES
  fn,           \* the first bytes of clock_gettime
  mem,          \* mem[a]: the region at a
  place,        \* place[t]: where the thread t runs
  within,       \* within[t]: the region of its payload or saved bytes
  regs,         \* the registers of Main and the code it is to run next: its
                \* own, those of an injected system call, or such ones for good
  traced,       \* Main is stopped under ptrace
  stopPending,  \* the SIGSTOP of an attach is queued and not yet reported
  signal,       \* some other signal is queued for Main
  sent,         \* the signals sent so far
  frozen,       \* SIGSTOP was delivered: every thread is stopped
  alive,        \* the process exists
  life          \* how often its container was started again

codeVars == <<fn, mem>>
threadVars == <<place, within, regs>>
stopVars == <<traced, stopPending, signal, sent, frozen>>
targetVars == <<codeVars, threadVars, stopVars, alive, life>>

Bytes == {"orig", "half"} \cup Addrs
Controls == {"off", "on"}
Region == [mapped : BOOLEAN, code : BOOLEAN, control : Controls \cup {"zero"},
           saved : Bytes \cup {"zero"}]
Unmapped == [mapped |-> FALSE, code |-> FALSE, control |-> "zero", saved |-> "zero"]
Zeroed == [Unmapped EXCEPT !.mapped = TRUE]
Places == {"out", "entry", "body", "payload", "saved", "beyond"}

TargetTypeOK ==
  /\ fn \in Bytes
  /\ mem \in [Addrs -> Region]
  /\ place \in [Threads -> Places]
  /\ within \in [Threads -> Addrs \cup {NoAddr}]
  /\ regs \in {"own", "call", "lost"}
  /\ traced \in BOOLEAN
  /\ stopPending \in BOOLEAN
  /\ signal \in BOOLEAN
  /\ sent \in Nat
  /\ frozen \in BOOLEAN
  /\ alive \in BOOLEAN
  /\ life \in Nat

Fresh ==
  [fn |-> "orig", mem |-> [a \in Addrs |-> Unmapped],
   place |-> [t \in Threads |-> "out"], within |-> [t \in Threads |-> NoAddr]]

TargetInit ==
  /\ fn = Fresh.fn
  /\ mem = Fresh.mem
  /\ place = Fresh.place
  /\ within = Fresh.within
  /\ regs = "own"
  /\ traced = FALSE
  /\ stopPending = FALSE
  /\ signal = FALSE
  /\ sent = 0
  /\ frozen = FALSE
  /\ alive = TRUE
  /\ life = 0

-----------------------------------------------------------------------------
\* The threads.

Runs(t) ==
  /\ alive
  /\ ~frozen
  /\ t = Main => ~traced /\ regs = "own"

\* A thread moves within the code that is there.
Move(t, p, a) ==
  /\ place' = [place EXCEPT ![t] = p]
  /\ within' = [within EXCEPT ![t] = a]
  /\ UNCHANGED <<codeVars, regs, stopVars, alive, life>>

Readable(a) == a \in Addrs /\ mem[a].mapped

\* MOV RAX, addr; JMP RAX.
JumpTo(t, a) ==
  IF Readable(a) /\ mem[a].code THEN Move(t, "payload", a) ELSE Move(t, "beyond", NoAddr)

\* A call: the function, its trampoline, or a mixture of both.
Enter(t) ==
  /\ Runs(t)
  /\ place[t] = "out"
  /\ \/ fn = "orig" /\ Move(t, "entry", NoAddr)
     \/ fn \in Addrs /\ JumpTo(t, fn)
     \/ fn = "half" /\ Move(t, "beyond", NoAddr)

\* Between two of the first instructions, which may have been written over.
RunEntry(t) ==
  /\ Runs(t)
  /\ place[t] = "entry"
  /\ Move(t, IF fn = "orig" THEN "body" ELSE "beyond", NoAddr)

RunBody(t) ==
  /\ Runs(t)
  /\ place[t] = "body"
  /\ Move(t, "out", NoAddr)

\* The payload tests `enabled` and calls the saved bytes in either case.
RunPayload(t) ==
  /\ Runs(t)
  /\ place[t] = "payload"
  /\ IF Readable(within[t]) THEN Move(t, "saved", within[t]) ELSE Move(t, "beyond", NoAddr)

\* The saved bytes: a trampoline, if the function was patched before, or the
\* first instructions of the function, after which comes no jump back to the
\* rest of it but what lies behind the saved bytes.
RunSaved(t) ==
  /\ Runs(t)
  /\ place[t] = "saved"
  /\ IF Readable(within[t]) /\ mem[within[t]].saved \in Addrs
       THEN JumpTo(t, mem[within[t]].saved)
       ELSE Move(t, "beyond", NoAddr)

\* Main is let go in the middle of an injected call, or another thread runs
\* over the two bytes meanwhile.
GoAstray(t) ==
  /\ alive /\ ~frozen
  /\ regs # "own"
  /\ IF t = Main THEN ~traced ELSE place[t] = place[Main] /\ within[t] = within[Main]
  /\ place[t] # "beyond"
  /\ Move(t, "beyond", NoAddr)

\* Code that is none ends the process sooner or later.
Crash ==
  /\ alive
  /\ \E t \in Threads : place[t] = "beyond"
  /\ alive' = FALSE
  /\ UNCHANGED <<codeVars, threadVars, stopVars, life>>

-----------------------------------------------------------------------------
\* Signals.

SendSignal ==
  /\ alive
  /\ ~signal
  /\ sent < MaxSignals
  /\ signal' = TRUE
  /\ sent' = sent + 1
  /\ UNCHANGED <<codeVars, threadVars, traced, stopPending, frozen, alive, life>>

\* Its handler runs and returns.
HandleSignal ==
  /\ Runs(Main)
  /\ signal
  /\ ~stopPending
  /\ signal' = FALSE
  /\ UNCHANGED <<codeVars, threadVars, traced, stopPending, sent, frozen, alive, life>>

\* Somebody sends SIGCONT.
Thaw ==
  /\ alive
  /\ frozen
  /\ frozen' = FALSE
  /\ UNCHANGED <<codeVars, threadVars, traced, stopPending, signal, sent, alive, life>>

\* The kubelet starts the container again: the same pid, another process.
Restart ==
  /\ ~alive
  /\ ~traced
  /\ life < MaxLives
  /\ life' = life + 1
  /\ alive' = TRUE
  /\ fn' = Fresh.fn
  /\ mem' = Fresh.mem
  /\ place' = Fresh.place
  /\ within' = Fresh.within
  /\ regs' = "own"
  /\ stopPending' = FALSE
  /\ signal' = FALSE
  /\ frozen' = FALSE
  /\ UNCHANGED <<traced, sent>>

\* What a wait for Main reports first: the SIGSTOP of the attach or another
\* signal.  Either is taken from its queue and, as every request that lets
\* Main go on passes no signal, is not delivered.
Report ==
  \/ stopPending /\ stopPending' = FALSE /\ UNCHANGED signal
  \/ signal /\ signal' = FALSE /\ UNCHANGED stopPending

ThreadStep ==
  \/ \E t \in Threads : \/ Enter(t) \/ RunEntry(t) \/ RunBody(t)
                        \/ RunPayload(t) \/ RunSaved(t) \/ GoAstray(t)
  \/ Crash \/ SendSignal \/ HandleSignal \/ Thaw
=============================================================================
