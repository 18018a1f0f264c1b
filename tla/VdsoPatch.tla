----------------------------- MODULE VdsoPatch ------------------------------
(***************************************************************************)
(* heisensim-inject (crates/intercept/src/bin/heisensim_inject.rs) at work *)
(* on a VdsoTarget: inject, revert and update_time of vdso/injector.rs.    *)
(*                                                                         *)
(* One invocation works at a time, since a second one cannot attach.  A    *)
(* step is one request that the target's other threads can tell from the   *)
(* next; the write of the twelve bytes is two, and the one of a control    *)
(* block is one, because the payload reads nothing else after `enabled`.   *)
(* An invocation may be killed between any two steps.                      *)
(***************************************************************************)
EXTENDS VdsoTarget, Sequences, FiniteSets

CONSTANTS
  MaxOps,     \* bound on the invocations
  MaxKills    \* bound on those that are killed

ASSUME PatchAssumption == MaxOps \in Nat /\ MaxKills \in Nat

VARIABLES
  tool,       \* the invocation at work
  handles,    \* InjectionHandle: what the injections that succeeded printed
  ops,        \* invocations so far
  kills,      \* how many of them were killed
  chain,      \* history: the regions patched in, the latest last
  disturbed   \* history: a revert was made out of turn, or of another process,
              \* or an invocation was killed within the twelve bytes

toolVars == <<tool, handles, ops, kills, chain, disturbed>>
vars == <<targetVars, toolVars>>

Handle == [life : Nat, addr : Addrs, orig : Bytes]
NoHandle == [life |-> 0, addr |-> NoAddr, orig |-> "orig"]

PC == {"none", "attach", "maps", "elf", "poke", "step", "restore", "payload",
       "control", "save", "jump", "jumped", "unjump", "unjumped", "detach"}

Tool == [op : {"none", "inject", "revert", "update"}, pc : PC,
         handle : Handle \cup {NoHandle}, control : Controls,
         result : {"none", "done", "failed"}, addr : Addrs \cup {NoAddr}, ok : BOOLEAN]

Idle == [op |-> "none", pc |-> "none", handle |-> NoHandle, control |-> "off",
         result |-> "none", addr |-> NoAddr, ok |-> FALSE]

VdsoTypeOK ==
  /\ TargetTypeOK
  /\ tool \in Tool
  /\ handles \subseteq Handle
  /\ ops \in Nat
  /\ kills \in Nat
  /\ chain \in Seq(Addrs)
  /\ disturbed \in BOOLEAN

Init ==
  /\ TargetInit
  /\ tool = Idle
  /\ handles = {}
  /\ ops = 0
  /\ kills = 0
  /\ chain = <<>>
  /\ disturbed = FALSE

-----------------------------------------------------------------------------
\* What the properties speak of.

\* The bytes that the latest injection in place, the n-th, has put there.
Layer(n) == IF n = 0 THEN "orig" ELSE chain[n]

Current(h) ==
  /\ h.life = life
  /\ chain # <<>>
  /\ h.addr = chain[Len(chain)]
  /\ h.orig = Layer(Len(chain) - 1)

-----------------------------------------------------------------------------
\* Helpers: each step keeps what it does not name.

At(step) == alive /\ tool.pc = step

Go(step) == tool' = [tool EXCEPT !.pc = step]

\* `?`: the guard is dropped, which detaches.
Fail == tool' = [tool EXCEPT !.pc = "detach", !.ok = FALSE]

Succeed == tool' = [tool EXCEPT !.pc = "detach", !.ok = TRUE]

KeepHistory == UNCHANGED <<handles, ops, kills, chain, disturbed>>

KeepTarget == UNCHANGED targetVars

\* write_proc_mem to the whole of the region at a or to a part of it.
WriteRegion(a, r) ==
  /\ mem' = [mem EXCEPT ![a] = r]
  /\ UNCHANGED <<fn, threadVars, stopVars, alive, life>>

\* write_proc_mem to the function.
WriteFunction(b) ==
  /\ fn' = b
  /\ UNCHANGED <<mem, threadVars, stopVars, alive, life>>

-----------------------------------------------------------------------------
\* The command line.

Invoke(op, h, c) ==
  /\ tool.op = "none"
  /\ ops < MaxOps
  /\ alive
  /\ tool' = [Idle EXCEPT !.op = op, !.pc = "attach", !.handle = h, !.control = c]
  /\ ops' = ops + 1
  /\ stopPending' = TRUE  \* PTRACE_ATTACH
  /\ UNCHANGED <<codeVars, threadVars, traced, signal, sent, frozen, alive, life,
                 handles, kills, chain, disturbed>>

\* inject(): from a shell or by `heisensim time-warp`, whose --revert does
\* nothing but print what to do.
TimeWarp == Invoke("inject", NoHandle, "on")

\* revert_injection(): --pid is the pid of the handle; the processes of two
\* lives of a container have the same one.
RevertInjection == \E h \in handles : Invoke("revert", h, "off")

\* update_time(), which is public and which no command calls.
UpdateTime == \E h \in handles, c \in Controls : Invoke("update", h, c)

-----------------------------------------------------------------------------
\* (Mutation: a revert frees the region before it has put the bytes back.)
BadAttached ==
  /\ At("attach")
  /\ traced' = TRUE
  /\ Report
  /\ Go(CASE tool.op = "inject" -> "maps"
          [] tool.op = "revert" -> "poke"
          [] tool.op = "update" -> "control")
  /\ UNCHANGED <<codeVars, threadVars, sent, frozen, alive, life>>
  /\ KeepHistory

\* (Mutation: ptrace_attach returns without waiting for the stop.)
BadAttachedAtOnce ==
  /\ At("attach")
  /\ traced' = TRUE
  /\ Go(CASE tool.op = "inject" -> "maps"
          [] tool.op = "revert" -> "unjump"
          [] tool.op = "update" -> "control")
  /\ UNCHANGED <<codeVars, threadVars, stopPending, signal, sent, frozen, alive, life>>
  /\ KeepHistory

\* ptrace_attach() ends with whatever stop waitpid reports first.
Attached ==
  /\ At("attach")
  /\ traced' = TRUE
  /\ Report
  /\ Go(CASE tool.op = "inject" -> "maps"
          [] tool.op = "revert" -> "unjump"
          [] tool.op = "update" -> "control")
  /\ UNCHANGED <<codeVars, threadVars, sent, frozen, alive, life>>
  /\ KeepHistory

FindVdso == At("maps") /\ (Go("elf") \/ Fail) /\ KeepTarget /\ KeepHistory

FindClockGettime == At("elf") /\ (Go("poke") \/ Fail) /\ KeepTarget /\ KeepHistory

\* Main was stopped in a region that is gone.
Stranded == place[Main] \in {"payload", "saved"} /\ ~Readable(within[Main])

\* ptrace_mmap and ptrace_munmap write a syscall instruction where Main is,
\* once they have read what is there, and set its registers.
Poke ==
  /\ At("poke")
  /\ IF Stranded
       THEN Fail /\ UNCHANGED regs
       ELSE Go("step") /\ regs' = IF regs = "own" THEN "call" ELSE regs
  /\ UNCHANGED <<codeVars, place, within, stopVars, alive, life>>
  /\ KeepHistory

\* One step of Main executes the call, unless a signal stops it before; waitpid
\* does not tell.
StepInterrupted ==
  /\ At("step")
  /\ Report
  /\ tool' = [tool EXCEPT !.pc = "restore", !.result = "none"]
  /\ UNCHANGED <<codeVars, threadVars, traced, sent, frozen, alive, life>>
  /\ KeepHistory

StepDone ==
  /\ At("step")
  /\ ~stopPending /\ ~signal
  /\ UNCHANGED <<fn, threadVars, stopVars, alive, life>>
  /\ KeepHistory
  /\ \/ /\ tool.op = "inject"
        /\ \E a \in Addrs :
             /\ ~mem[a].mapped
             /\ mem' = [mem EXCEPT ![a] = Zeroed]
             /\ tool' = [tool EXCEPT !.pc = "restore", !.result = "done", !.addr = a]
     \/ /\ tool.op = "inject"  \* mmap returns an error
        /\ tool' = [tool EXCEPT !.pc = "restore", !.result = "failed"]
        /\ UNCHANGED mem
     \/ /\ tool.op = "revert"
        /\ mem' = [mem EXCEPT ![tool.handle.addr] = Unmapped]
        /\ tool' = [tool EXCEPT !.pc = "restore", !.result = "done"]

\* (Mutation: an error of mmap returns before the registers are put back.)
BadRestore ==
  /\ At("restore")
  /\ IF Stranded \/ tool.result = "failed"
       THEN Fail /\ UNCHANGED regs
       ELSE /\ regs' = IF regs = "call" THEN "own" ELSE regs
            /\ IF tool.op = "revert" THEN Succeed ELSE Go("payload")
  /\ UNCHANGED <<codeVars, place, within, stopVars, alive, life>>
  /\ KeepHistory

\* The code and the registers of Main are put back; the code cannot be if it
\* was in the region just freed.  What mmap left in RAX when it was not
\* executed is its number, a small address.
Restore ==
  /\ At("restore")
  /\ IF Stranded
       THEN Fail /\ UNCHANGED regs
       ELSE /\ regs' = IF regs = "call" THEN "own" ELSE regs
            /\ IF tool.op = "revert" THEN Succeed
               ELSE IF tool.result = "failed" THEN Fail ELSE Go("payload")
  /\ UNCHANGED <<codeVars, place, within, stopVars, alive, life>>
  /\ KeepHistory

WritePayload ==
  /\ At("payload")
  /\ IF tool.addr = NoAddr
       THEN Fail /\ KeepTarget
       ELSE /\ WriteRegion(tool.addr, [mem[tool.addr] EXCEPT !.code = TRUE])
            /\ Go("control")
  /\ KeepHistory

\* The address of the block is the invocation's own, or that of the handle.
WriteControl ==
  /\ At("control")
  /\ LET a == IF tool.op = "inject" THEN tool.addr ELSE tool.handle.addr IN
       IF mem[a].mapped /\ (tool.op = "update" => tool.handle.life = life)
         THEN /\ WriteRegion(a, [mem[a] EXCEPT !.control = tool.control])
              /\ IF tool.op = "inject" THEN Go("save") ELSE Succeed
         ELSE Fail /\ KeepTarget
  /\ KeepHistory

SaveOriginal ==
  /\ At("save")
  /\ WriteRegion(tool.addr, [mem[tool.addr] EXCEPT !.saved = fn])
  /\ tool' = [tool EXCEPT !.pc = "jump", !.handle = [life |-> life, addr |-> tool.addr, orig |-> fn]]
  /\ KeepHistory

WriteJump ==
  /\ At("jump")
  /\ WriteFunction("half")
  /\ Go("jumped")
  /\ KeepHistory

JumpWritten ==
  /\ At("jumped")
  /\ WriteFunction(tool.addr)
  /\ Succeed
  /\ chain' = Append(chain, tool.addr)
  /\ UNCHANGED <<handles, ops, kills, disturbed>>

\* (Mutation: an error after the bytes were put back is returned before munmap.)
BadBytesRestoredOnly ==
  /\ At("unjumped")
  /\ WriteFunction(tool.handle.orig)
  /\ Go("poke") \/ Fail
  /\ chain' = IF Current(tool.handle) THEN SubSeq(chain, 1, Len(chain) - 1) ELSE chain
  /\ UNCHANGED <<handles, ops, kills, disturbed>>

\* (Mutation: the bytes come from the region, not from the handle.)
BadBytesRestored ==
  /\ At("unjumped")
  /\ WriteFunction(mem[tool.handle.addr].saved)
  /\ Go("poke")
  /\ chain' = IF Current(tool.handle) THEN SubSeq(chain, 1, Len(chain) - 1) ELSE chain
  /\ UNCHANGED <<handles, ops, kills, disturbed>>

\* The function of another process is somewhere else: what is written there is
\* not its code, if anything is mapped there at all.
RestoreBytes ==
  /\ At("unjump")
  /\ disturbed' = (disturbed \/ ~Current(tool.handle))
  /\ \/ tool.handle.life = life /\ WriteFunction("half") /\ Go("unjumped")
     \/ tool.handle.life # life /\ KeepTarget /\ (Go("poke") \/ Fail)
  /\ UNCHANGED <<handles, ops, kills, chain>>

BytesRestored ==
  /\ At("unjumped")
  /\ WriteFunction(tool.handle.orig)
  /\ Go("poke")
  /\ chain' = IF Current(tool.handle) THEN SubSeq(chain, 1, Len(chain) - 1) ELSE chain
  /\ UNCHANGED <<handles, ops, kills, disturbed>>

\* A request to a process that is gone fails.
TargetGone ==
  /\ ~alive
  /\ tool.pc \notin {"none", "detach"}
  /\ Fail
  /\ KeepTarget
  /\ KeepHistory

\* Main goes on with the registers it has.
LetGo ==
  /\ traced' = FALSE
  /\ stopPending' = FALSE
  /\ frozen' = (frozen \/ (alive /\ stopPending))
  /\ regs' = IF regs = "call" THEN "lost" ELSE regs
  /\ UNCHANGED <<codeVars, place, within, signal, sent, alive, life>>

\* The guard detaches and passes no signal; a SIGSTOP still queued stops the
\* process then.  An injection that succeeded prints its handle.
Detach ==
  /\ tool.pc = "detach"
  /\ LetGo
  /\ handles' = IF tool.op = "inject" /\ tool.ok THEN handles \cup {tool.handle} ELSE handles
  /\ tool' = Idle
  /\ UNCHANGED <<ops, kills, chain, disturbed>>

\* The process of the tool is killed, which detaches as well.
Killed ==
  /\ tool.op # "none"
  /\ kills < MaxKills
  /\ kills' = kills + 1
  /\ LetGo
  /\ disturbed' = (disturbed \/ fn = "half")
  /\ tool' = Idle
  /\ UNCHANGED <<handles, ops, chain>>

StartAgain ==
  /\ tool.op = "none"
  /\ Restart
  /\ chain' = <<>>
  /\ UNCHANGED <<tool, handles, ops, kills, disturbed>>

-----------------------------------------------------------------------------
ToolStep ==
  \/ Attached \/ FindVdso \/ FindClockGettime \/ Poke \/ StepInterrupted \/ StepDone
  \/ Restore \/ WritePayload \/ WriteControl \/ SaveOriginal \/ WriteJump
  \/ JumpWritten \/ RestoreBytes \/ BytesRestored \/ TargetGone \/ Detach

TargetStep == ThreadStep /\ UNCHANGED toolVars

Next ==
  \/ TimeWarp \/ RevertInjection \/ UpdateTime
  \/ ToolStep \/ Killed \/ TargetStep \/ StartAgain

Spec == Init /\ [][Next]_vars

\* The tool is scheduled; nobody is obliged to start or to kill it.
Fairness == WF_vars(ToolStep)

FairSpec == Spec /\ Fairness
-----------------------------------------------------------------------------
\* Properties.

\* Patches nest (inject, SaveOriginal; revert, BytesRestored): the function
\* holds what the latest injection in place wrote, a jump, and what that jump
\* leads to is complete: payload, control block and the bytes that were there
\* before, which are those of the injection before it.  So it is at every
\* step of an invocation, and when one fails or is killed at any step outside
\* the twelve bytes, as long as handles are reverted latest first.
PatchChain ==
  alive /\ ~disturbed =>
    /\ fn # "half" => fn = Layer(Len(chain))
    /\ fn = "half" => tool.pc \in {"jumped", "unjumped"}
    /\ \A i \in DOMAIN chain :
         /\ mem[chain[i]].mapped /\ mem[chain[i]].code
         /\ mem[chain[i]].control # "zero"
         /\ mem[chain[i]].saved = Layer(i - 1)

\* Main stands in a region since freed, or has left it for what is no code: it
\* takes the process with it.
Doomed == place[Main] = "beyond" \/ Stranded

\* A region stays mapped only under a patch or in the hands of the invocation
\* that allocated it or is to free it (`?` between ptrace_mmap and
\* ptrace_munmap would leak it), unless a signal stopped the step that was to
\* execute munmap, the tool was killed, or an earlier munmap took the ground
\* from under Main, so that the next invocation finds nowhere to put its call.
RegionsOwned ==
  alive /\ ~disturbed /\ sent = 0 /\ kills = 0 /\ ~Doomed =>
    \A a \in Addrs : mem[a].mapped =>
      \/ \E i \in DOMAIN chain : chain[i] = a
      \/ tool.op = "inject" /\ tool.addr = a
      \/ tool.op = "revert" /\ tool.handle.addr = a

\* Main goes on with its own registers and code after every invocation that was
\* not killed, failed ones included (ptrace_mmap, ptrace_munmap): all but the
\* one that freed the region in which Main was stopped.
MainUntouched ==
  alive /\ regs = "lost" =>
    \/ kills > 0
    \/ Doomed

\* Every invocation ends, whatever signals and deaths it meets, and leaves the
\* target running (ptrace_attach, ptrace_detach), unless a signal raced with
\* the attach or the tool was killed: then SIGSTOP is still queued.
Resumes ==
  (tool.op # "none") ~> (tool.op = "none" /\ (frozen => sent > 0 \/ kills > 0))

\* trampoline.rs:173-174: "we execute the saved original bytes then jump to the
\* continuation", which is the rest of the function.
Continues ==
  [][\A t \in Threads :
       place[t] = "saved" /\ place'[t] # "saved" /\ mem[within[t]].saved = "orig"
         => place'[t] = "body"]_vars
=============================================================================
