-------------------------- MODULE VdsoPatch_proofs --------------------------
(***************************************************************************)
(* Proofs about VdsoPatch, for any threads, addresses, signals, lives and  *)
(* invocations: its types, that patches nest, that Main keeps its          *)
(* registers, and that no region leaks.                                    *)
(***************************************************************************)
EXTENDS VdsoPatch, SequenceTheorems, TLAPS

-----------------------------------------------------------------------------
\* The threads.

LEMMA MoveTyped ==
  ASSUME TargetTypeOK, NEW t \in Threads, NEW p \in Places, NEW a \in Addrs \cup {NoAddr},
         Move(t, p, a)
  PROVE  TargetTypeOK'
BY DEF Move, TargetTypeOK, codeVars, stopVars

LEMMA PlacesKnown ==
  {"out", "entry", "body", "payload", "saved", "beyond"} \subseteq Places
BY DEF Places

LEMMA JumpTyped ==
  ASSUME TargetTypeOK, NEW t \in Threads, NEW a, JumpTo(t, a)
  PROVE  TargetTypeOK'
<1>1. CASE Readable(a) /\ mem[a].code
  BY <1>1, MoveTyped, PlacesKnown DEF JumpTo, Readable
<1>2. CASE ~(Readable(a) /\ mem[a].code)
  BY <1>2, MoveTyped, PlacesKnown DEF JumpTo
<1> QED
  BY <1>1, <1>2

LEMMA ThreadTypes == TargetTypeOK /\ ThreadStep => TargetTypeOK'
<1> SUFFICES ASSUME TargetTypeOK, ThreadStep PROVE TargetTypeOK'
  OBVIOUS
<1>1. ASSUME NEW t \in Threads,
             \/ Enter(t) \/ RunEntry(t) \/ RunBody(t)
             \/ RunPayload(t) \/ RunSaved(t) \/ GoAstray(t)
      PROVE  TargetTypeOK'
  <2>1. CASE Enter(t)
    BY <2>1, MoveTyped, JumpTyped, PlacesKnown DEF Enter
  <2>2. CASE RunEntry(t)
    BY <2>2, MoveTyped, PlacesKnown DEF RunEntry
  <2>3. CASE RunBody(t)
    BY <2>3, MoveTyped, PlacesKnown DEF RunBody
  <2>4. CASE RunPayload(t)
    BY <2>4, MoveTyped, PlacesKnown DEF RunPayload, Readable
  <2>5. CASE RunSaved(t)
    BY <2>5, MoveTyped, JumpTyped, PlacesKnown DEF RunSaved
  <2>6. CASE GoAstray(t)
    BY <2>6, MoveTyped, PlacesKnown DEF GoAstray
  <2> QED
    BY <1>1, <2>1, <2>2, <2>3, <2>4, <2>5, <2>6
<1>2. CASE Crash
  BY <1>2 DEF Crash, TargetTypeOK, codeVars, threadVars, stopVars
<1>3. CASE SendSignal
  BY <1>3 DEF SendSignal, TargetTypeOK, codeVars, threadVars
<1>4. CASE HandleSignal
  BY <1>4 DEF HandleSignal, TargetTypeOK, codeVars, threadVars
<1>5. CASE Thaw
  BY <1>5 DEF Thaw, TargetTypeOK, codeVars, threadVars
<1> QED
  BY <1>1, <1>2, <1>3, <1>4, <1>5 DEF ThreadStep

\* Where Main runs; it leaves that place only on its own, and it stays beyond.
MainAt == <<place[Main], within[Main]>>

LEMMA MoveOfMain ==
  ASSUME TargetTypeOK, NEW t \in Threads, NEW p, NEW a, Move(t, p, a)
  PROVE  /\ UNCHANGED <<fn, mem, regs, life, traced, alive>>
         /\ t # Main => MainAt' = MainAt
         /\ place'[t] = p
BY TargetAssumption DEF Move, TargetTypeOK, codeVars, stopVars, MainAt

LEMMA JumpOfMain ==
  ASSUME TargetTypeOK, NEW t \in Threads, NEW a, JumpTo(t, a)
  PROVE  /\ UNCHANGED <<fn, mem, regs, life, traced, alive>>
         /\ t # Main => MainAt' = MainAt
BY MoveOfMain DEF JumpTo

LEMMA ThreadsKeep ==
  ASSUME TargetTypeOK, ThreadStep
  PROVE  /\ UNCHANGED <<fn, mem, regs, life, traced>>
         /\ alive' => alive
         /\ \/ MainAt' = MainAt
            \/ ~traced /\ regs = "own"
            \/ ~traced /\ place'[Main] = "beyond"
<1>1. ASSUME NEW t \in Threads,
             \/ Enter(t) \/ RunEntry(t) \/ RunBody(t) \/ RunPayload(t) \/ RunSaved(t)
      PROVE  /\ UNCHANGED <<fn, mem, regs, life, traced, alive>>
             /\ MainAt' = MainAt \/ (~traced /\ regs = "own")
  <2> DEFINE Kept == /\ UNCHANGED <<fn, mem, regs, life, traced, alive>>
                     /\ t # Main => MainAt' = MainAt
  <2>1. Kept
    <3> HIDE DEF Kept
    <3>1. \A p, a : Move(t, p, a) => Kept
      BY MoveOfMain DEF Kept
    <3>2. \A a : JumpTo(t, a) => Kept
      BY JumpOfMain DEF Kept
    <3> QED
      BY <1>1, <3>1, <3>2 DEF Enter, RunEntry, RunBody, RunPayload, RunSaved
  <2>2. t = Main => ~traced /\ regs = "own"
    BY <1>1 DEF Enter, RunEntry, RunBody, RunPayload, RunSaved, Runs
  <2> QED
    BY <2>1, <2>2
<1>2. ASSUME NEW t \in Threads, GoAstray(t)
      PROVE  /\ UNCHANGED <<fn, mem, regs, life, traced, alive>>
             /\ MainAt' = MainAt \/ (~traced /\ place'[Main] = "beyond")
  <2>1. Move(t, "beyond", NoAddr) /\ (t = Main => ~traced)
    BY <1>2 DEF GoAstray
  <2> QED
    BY <2>1, MoveOfMain
<1>3. CASE Crash \/ SendSignal \/ HandleSignal \/ Thaw
  BY <1>3 DEF Crash, SendSignal, HandleSignal, Thaw, codeVars, threadVars, stopVars, MainAt
<1> QED
  BY <1>1, <1>2, <1>3 DEF ThreadStep

-----------------------------------------------------------------------------
\* Types.

\* What an invocation has in hand at each of its steps.
ToolInv ==
  /\ tool.op = "none" <=> tool.pc = "none"
  /\ tool.pc \in {"maps", "elf", "payload", "save", "jump", "jumped"} => tool.op = "inject"
  /\ tool.pc \in {"unjump", "unjumped"} => tool.op = "revert"
  /\ tool.pc \in {"poke", "step", "restore"} => tool.op \in {"inject", "revert"}
  /\ tool.op \in {"revert", "update"} => tool.handle \in Handle
  /\ tool.op = "inject" /\ tool.pc \in {"control", "save", "jump", "jumped"} =>
       tool.addr \in Addrs
  /\ tool.pc \in {"jump", "jumped"} => tool.handle \in Handle
  /\ tool.op = "inject" /\ tool.pc = "detach" /\ tool.ok => tool.handle \in Handle
  /\ tool.pc \notin {"none", "attach", "detach"} => traced
  /\ tool.pc = "detach" => traced \/ ~alive

TypeInv == VdsoTypeOK /\ ToolInv

LEMMA ToolTyped ==
  ASSUME tool \in Tool
  PROVE  /\ tool.op \in {"none", "inject", "revert", "update"} /\ tool.pc \in PC
         /\ tool.handle \in Handle \cup {NoHandle} /\ tool.control \in Controls
         /\ tool.addr \in Addrs \cup {NoAddr}
         /\ tool.ok \in BOOLEAN /\ tool.handle.orig \in Bytes
BY DEF Tool, Handle, NoHandle, Bytes

LEMMA IdleTyped == Idle \in Tool /\ Idle.op = "none" /\ Idle.pc = "none"
BY DEF Idle, Tool, PC, Controls

LEMMA FreshTyped ==
  /\ Fresh.fn \in Bytes /\ Fresh.mem \in [Addrs -> Region]
  /\ Fresh.place \in [Threads -> Places] /\ Fresh.within \in [Threads -> Addrs \cup {NoAddr}]
BY DEF Fresh, Bytes, Region, Unmapped, Places, Controls

LEMMA RegionTyped ==
  /\ Unmapped \in Region /\ Zeroed \in Region
  /\ \A r \in Region : [r EXCEPT !.code = TRUE] \in Region
  /\ \A r \in Region, c \in Controls : [r EXCEPT !.control = c] \in Region
  /\ \A r \in Region, b \in Bytes : [r EXCEPT !.saved = b] \in Region
BY DEF Region, Unmapped, Zeroed

\* A step of an invocation on its own: where it goes next.
LEMMA GoTyped ==
  ASSUME VdsoTypeOK, NEW step \in PC, Go(step)
  PROVE  /\ tool' \in Tool /\ tool'.pc = step
         /\ UNCHANGED <<tool.op, tool.handle, tool.addr, tool.ok, tool.control>>
BY DEF Go, VdsoTypeOK, Tool

LEMMA EndTyped ==
  ASSUME VdsoTypeOK, Fail \/ Succeed
  PROVE  /\ tool' \in Tool /\ tool'.pc = "detach"
         /\ UNCHANGED <<tool.op, tool.handle, tool.addr, tool.control>>
         /\ Fail => ~tool'.ok
BY DEF Fail, Succeed, VdsoTypeOK, Tool, PC

LEMMA RegionsTyped ==
  ASSUME VdsoTypeOK, NEW a, NEW r \in Region
  PROVE  [mem EXCEPT ![a] = r] \in [Addrs -> Region]
BY DEF VdsoTypeOK, TargetTypeOK

LEMMA WriteTyped ==
  ASSUME VdsoTypeOK,
         \/ \E a : \E r \in Region : WriteRegion(a, r)
         \/ \E b \in Bytes : WriteFunction(b)
         \/ KeepTarget
  PROVE  TargetTypeOK' /\ UNCHANGED <<traced, life, alive, place, within, regs>>
<1>1. ASSUME NEW a, NEW r \in Region, WriteRegion(a, r)
      PROVE  TargetTypeOK' /\ UNCHANGED <<traced, life, alive, place, within, regs>>
  BY <1>1, RegionsTyped DEF WriteRegion, VdsoTypeOK, TargetTypeOK, threadVars, stopVars
<1>2. ASSUME NEW b \in Bytes, WriteFunction(b)
      PROVE  TargetTypeOK' /\ UNCHANGED <<traced, life, alive, place, within, regs>>
  BY <1>2 DEF WriteFunction, VdsoTypeOK, TargetTypeOK, threadVars, stopVars
<1>3. CASE KeepTarget
  BY <1>3 DEF KeepTarget, VdsoTypeOK, TargetTypeOK, targetVars, codeVars, threadVars, stopVars
<1> QED
  BY <1>1, <1>2, <1>3

LEMMA ReportTyped ==
  ASSUME VdsoTypeOK, Report
  PROVE  stopPending' \in BOOLEAN /\ signal' \in BOOLEAN
BY DEF Report, VdsoTypeOK, TargetTypeOK

LEMMA HistoryTyped ==
  ASSUME VdsoTypeOK, KeepHistory
  PROVE  /\ handles' \subseteq Handle /\ ops' \in Nat /\ kills' \in Nat
         /\ chain' \in Seq(Addrs) /\ disturbed' \in BOOLEAN
BY DEF KeepHistory, VdsoTypeOK

LEMMA Shorter ==
  ASSUME NEW S, NEW s \in Seq(S), s # <<>>
  PROVE  /\ SubSeq(s, 1, Len(s) - 1) \in Seq(S)
         /\ Len(SubSeq(s, 1, Len(s) - 1)) = Len(s) - 1
         /\ \A i \in 1..(Len(s) - 1) : SubSeq(s, 1, Len(s) - 1)[i] = s[i]
<1>1. PICK n \in Nat \ {0} : n = Len(s)
  BY EmptySeq
<1>2. n - 1 \in Int /\ \A i \in 1..(n - 1) : s[i] \in S
  BY <1>1, LenProperties
<1>3. /\ SubSeq(s, 1, n - 1) \in Seq(S)
      /\ Len(SubSeq(s, 1, n - 1)) = IF 1 <= n - 1 THEN n - 1 - 1 + 1 ELSE 0
      /\ \A i \in 1..(n - 1 - 1 + 1) : SubSeq(s, 1, n - 1)[i] = s[1 + i - 1]
  BY <1>2, SubSeqProperties
<1>4. \A i \in 1..(n - 1) : i \in 1..(n - 1 - 1 + 1) /\ 1 + i - 1 = i
  OBVIOUS
<1> QED
  BY <1>1, <1>3, <1>4

\* A step of the tool that leaves the target alone or writes to its memory.
LEMMA ToolMoves ==
  ASSUME TypeInv, KeepHistory,
         \/ \E step \in PC \ {"none", "jump"} : Go(step)
         \/ Fail \/ Succeed,
         \/ \E a : \E r \in Region : WriteRegion(a, r)
         \/ \E b \in Bytes : WriteFunction(b)
         \/ KeepTarget
  PROVE  VdsoTypeOK'
<1>1. tool' \in Tool
  BY GoTyped, EndTyped DEF TypeInv
<1>2. TargetTypeOK'
  BY WriteTyped DEF TypeInv
<1>3. /\ handles' \subseteq Handle /\ ops' \in Nat /\ kills' \in Nat
      /\ chain' \in Seq(Addrs) /\ disturbed' \in BOOLEAN
  BY HistoryTyped DEF TypeInv
<1> QED
  BY <1>1, <1>2, <1>3 DEF VdsoTypeOK

LEMMA InvocationTypes ==
  ASSUME TypeInv, NEW op \in {"inject", "revert", "update"}, NEW c \in Controls,
         NEW h \in Handle \cup {NoHandle}, op # "inject" => h \in Handle, Invoke(op, h, c)
  PROVE  TypeInv'
<1>1. tool' = [Idle EXCEPT !.op = op, !.pc = "attach", !.handle = h, !.control = c]
  BY DEF Invoke
<1>2. /\ tool' \in Tool /\ tool'.op = op /\ tool'.pc = "attach" /\ tool'.handle = h
  BY <1>1, PlacesKnown DEF Idle, Tool, PC
<1>3. VdsoTypeOK'
  BY <1>2 DEF Invoke, TypeInv, VdsoTypeOK, TargetTypeOK, codeVars, threadVars
<1>4. ToolInv'
  BY <1>2 DEF ToolInv
<1> QED
  BY <1>3, <1>4 DEF TypeInv

\* The steps of an invocation that write nothing but memory, or nothing.
LEMMA PlainToolTypes ==
  ASSUME TypeInv,
         \/ FindVdso \/ FindClockGettime \/ WritePayload \/ WriteControl
         \/ WriteJump \/ TargetGone
  PROVE  TypeInv'
<1> USE DEF TypeInv
<1>1. tool \in Tool /\ fn \in Bytes
  BY DEF VdsoTypeOK, TargetTypeOK
<1>2. /\ tool.op \in {"none", "inject", "revert", "update"}
      /\ tool.addr \in Addrs \cup {NoAddr} /\ tool.control \in Controls
  BY <1>1, ToolTyped
<1>3. \A a \in Addrs : mem[a] \in Region
  BY DEF VdsoTypeOK, TargetTypeOK
<1>4. CASE FindVdso
  <2>1. /\ tool.pc = "maps" /\ KeepTarget /\ KeepHistory
        /\ Go("elf") \/ Fail
    BY <1>4 DEF FindVdso, At
  <2>2. VdsoTypeOK'
    BY <2>1, ToolMoves DEF PC
  <2>3. ToolInv'
    BY <2>1, GoTyped, EndTyped, WriteTyped DEF ToolInv, PC
  <2> QED
    BY <2>2, <2>3
<1>5. CASE FindClockGettime
  <2>1. /\ tool.pc = "elf" /\ KeepTarget /\ KeepHistory
        /\ Go("poke") \/ Fail
    BY <1>5 DEF FindClockGettime, At
  <2>2. VdsoTypeOK'
    BY <2>1, ToolMoves DEF PC
  <2>3. ToolInv'
    BY <2>1, GoTyped, EndTyped, WriteTyped DEF ToolInv, PC
  <2> QED
    BY <2>2, <2>3
<1>6. CASE WritePayload
  <2>1. CASE tool.addr = NoAddr
    <3>1. tool.pc = "payload" /\ Fail /\ KeepTarget /\ KeepHistory
      BY <1>6, <2>1 DEF WritePayload, At
    <3>2. VdsoTypeOK'
      BY <3>1, ToolMoves
    <3>3. ToolInv'
      BY <3>1, EndTyped, WriteTyped DEF ToolInv
    <3> QED
      BY <3>2, <3>3
  <2>2. CASE tool.addr # NoAddr
    <3>1. /\ tool.pc = "payload" /\ Go("control") /\ KeepHistory
          /\ WriteRegion(tool.addr, [mem[tool.addr] EXCEPT !.code = TRUE])
      BY <1>6, <2>2 DEF WritePayload, At
    <3>2. tool.addr \in Addrs /\ [mem[tool.addr] EXCEPT !.code = TRUE] \in Region
      <4>1. tool.addr \in Addrs
        BY <1>2, <2>2
      <4>2. mem[tool.addr] \in Region
        BY <1>3, <4>1
      <4> QED
        BY <4>1, <4>2, RegionTyped, Zenon
    <3>3. \E a : \E r \in Region : WriteRegion(a, r)
      BY <3>1, <3>2
    <3>4. VdsoTypeOK'
      BY <3>1, <3>3, ToolMoves DEF PC
    <3>5. tool'.pc = "control" /\ UNCHANGED <<tool.op, tool.handle, tool.addr, tool.ok>>
      BY <3>1, GoTyped DEF PC
    <3>6. UNCHANGED <<traced, alive>>
      BY <3>3, WriteTyped
    <3>7. ToolInv'
      BY <3>1, <3>2, <3>5, <3>6 DEF ToolInv
    <3> QED
      BY <3>4, <3>7
  <2> QED
    BY <2>1, <2>2
<1>7. CASE WriteControl
  <2> DEFINE a == IF tool.op = "inject" THEN tool.addr ELSE tool.handle.addr
  <2>1. tool.pc = "control" /\ KeepHistory
    BY <1>7 DEF WriteControl, At
  <2>2. a \in Addrs
    <3>1. CASE tool.op = "inject"
      BY <2>1, <3>1 DEF ToolInv
    <3>2. CASE tool.op # "inject"
      <4>1. tool.op \in {"revert", "update"}
        BY <1>2, <2>1, <3>2 DEF ToolInv
      <4>2. tool.handle \in Handle
        BY <4>1 DEF ToolInv
      <4> QED
        BY <3>2, <4>2 DEF Handle
    <3> QED
      BY <3>1, <3>2
  <2>3. [mem[a] EXCEPT !.control = tool.control] \in Region
    <3> HIDE DEF a
    <3>1. mem[a] \in Region
      BY <1>3, <2>2
    <3> QED
      BY <1>2, <3>1, RegionTyped, Zenon
  <2>4. CASE Fail /\ KeepTarget
    <3>1. VdsoTypeOK'
      BY <2>1, <2>4, ToolMoves
    <3>2. ToolInv'
      BY <2>1, <2>4, EndTyped, WriteTyped DEF ToolInv
    <3> QED
      BY <3>1, <3>2
  <2>5. CASE /\ WriteRegion(a, [mem[a] EXCEPT !.control = tool.control])
             /\ IF tool.op = "inject" THEN Go("save") ELSE Succeed
    <3>1. \E b : \E r \in Region : WriteRegion(b, r)
      BY <2>3, <2>5
    <3> HIDE DEF a
    <3>2. VdsoTypeOK'
      BY <2>1, <2>5, <3>1, ToolMoves DEF PC
    <3>3. CASE tool.op = "inject"
      BY <2>1, <2>5, <3>1, <3>3, <3>2, GoTyped, WriteTyped DEF ToolInv, PC
    <3>4. CASE tool.op # "inject"
      BY <2>1, <2>5, <3>1, <3>4, <3>2, EndTyped, WriteTyped DEF ToolInv
    <3> QED
      BY <3>3, <3>4
  <2> QED
    BY <1>7, <2>4, <2>5 DEF WriteControl
<1>8. CASE WriteJump
  <2>1. tool.pc = "jump" /\ KeepHistory /\ Go("jumped") /\ WriteFunction("half")
    BY <1>8 DEF WriteJump, At
  <2>2. \E b \in Bytes : WriteFunction(b)
    BY <2>1 DEF Bytes
  <2>3. VdsoTypeOK'
    BY <2>1, <2>2, ToolMoves DEF PC
  <2>4. ToolInv'
    BY <2>1, <2>2, GoTyped, WriteTyped DEF ToolInv, PC
  <2> QED
    BY <2>3, <2>4
<1>9. CASE TargetGone
  <2>1. tool.pc # "none" /\ Fail /\ KeepTarget /\ KeepHistory /\ ~alive
    BY <1>9 DEF TargetGone
  <2>2. VdsoTypeOK'
    BY <2>1, ToolMoves
  <2>3. ToolInv'
    BY <2>1, EndTyped, WriteTyped DEF ToolInv
  <2> QED
    BY <2>2, <2>3
<1> QED
  BY <1>4, <1>5, <1>6, <1>7, <1>8, <1>9

LEMMA TracedToolTypes ==
  ASSUME TypeInv,
         Attached \/ Poke \/ StepInterrupted \/ StepDone \/ Restore
  PROVE  TypeInv'
<1> USE DEF TypeInv
<1>1. /\ tool \in Tool /\ TargetTypeOK /\ mem \in [Addrs -> Region]
      /\ regs \in {"own", "call", "lost"}
      /\ tool.op \in {"none", "inject", "revert", "update"}
  BY ToolTyped DEF VdsoTypeOK, TargetTypeOK
<1>2. KeepHistory =>
        /\ handles' \subseteq Handle /\ ops' \in Nat /\ kills' \in Nat
        /\ chain' \in Seq(Addrs) /\ disturbed' \in BOOLEAN
  BY HistoryTyped
<1>3. CASE Attached
  <2> DEFINE next == CASE tool.op = "inject" -> "maps"
                       [] tool.op = "revert" -> "unjump"
                       [] tool.op = "update" -> "control"
  <2>1. tool.pc = "attach" /\ Go(next) /\ Report /\ KeepHistory /\ traced' = TRUE
    BY <1>3 DEF Attached, At
  <2>2. tool.op \in {"inject", "revert", "update"}
    BY <1>1, <2>1 DEF ToolInv
  <2>3. /\ next \in PC
        /\ tool.op = "inject" => next = "maps"
        /\ tool.op = "revert" => next = "unjump"
        /\ tool.op = "update" => next = "control"
    BY <2>2 DEF PC
  <2> HIDE DEF next
  <2>4. /\ tool' \in Tool /\ tool'.pc = next
        /\ UNCHANGED <<tool.op, tool.handle, tool.addr, tool.ok>>
    BY <2>1, <2>3, GoTyped
  <2>5. stopPending' \in BOOLEAN /\ signal' \in BOOLEAN
    BY <2>1, ReportTyped
  <2>6. VdsoTypeOK'
    BY <1>1, <1>2, <1>3, <2>1, <2>4, <2>5 DEF Attached, VdsoTypeOK, TargetTypeOK, codeVars, threadVars
  <2>7. ToolInv'
    BY <2>1, <2>2, <2>3, <2>4 DEF ToolInv
  <2> QED
    BY <2>6, <2>7
<1>4. CASE Poke
  <2>1. /\ tool.pc = "poke" /\ KeepHistory
        /\ Go("step") \/ Fail
        /\ regs' \in {"own", "call", "lost"}
        /\ UNCHANGED <<codeVars, place, within, stopVars, alive, life>>
    BY <1>1, <1>4 DEF Poke, At
  <2>2. VdsoTypeOK'
    BY <1>1, <1>2, <2>1, GoTyped, EndTyped DEF VdsoTypeOK, TargetTypeOK, codeVars, stopVars, PC
  <2>3. UNCHANGED <<traced, alive>>
    BY <2>1 DEF stopVars
  <2>4. CASE Go("step")
    BY <2>1, <2>2, <2>3, <2>4, GoTyped DEF ToolInv, PC
  <2>5. CASE Fail
    BY <2>1, <2>2, <2>3, <2>5, EndTyped DEF ToolInv
  <2> QED
    BY <2>1, <2>2, <2>4, <2>5
<1>5. CASE StepInterrupted
  <2>1. /\ tool.pc = "step" /\ Report /\ KeepHistory
        /\ tool' = [tool EXCEPT !.pc = "restore", !.result = "none"]
        /\ UNCHANGED <<codeVars, threadVars, traced, sent, frozen, alive, life>>
    BY <1>5 DEF StepInterrupted, At
  <2>2. /\ tool' \in Tool /\ tool'.pc = "restore"
        /\ UNCHANGED <<tool.op, tool.handle, tool.addr, tool.ok>>
    BY <1>1, <2>1 DEF Tool, PC
  <2>3. stopPending' \in BOOLEAN /\ signal' \in BOOLEAN
    BY <2>1, ReportTyped
  <2>4. VdsoTypeOK'
    BY <1>1, <1>2, <2>1, <2>2, <2>3 DEF VdsoTypeOK, TargetTypeOK, codeVars, threadVars
  <2>5. ToolInv'
    BY <2>1, <2>2 DEF ToolInv
  <2> QED
    BY <2>4, <2>5
<1>6. CASE StepDone
  <2>1. /\ tool.pc = "step" /\ KeepHistory
        /\ UNCHANGED <<fn, threadVars, stopVars, alive, life>>
    BY <1>6 DEF StepDone, At
  <2>2. /\ mem' \in [Addrs -> Region]
        /\ tool' \in Tool /\ tool'.pc = "restore"
        /\ UNCHANGED <<tool.op, tool.handle, tool.ok>>
    <3>1. ASSUME NEW a \in Addrs, mem' = [mem EXCEPT ![a] = Zeroed],
                 tool' = [tool EXCEPT !.pc = "restore", !.result = "done", !.addr = a]
          PROVE  <2>2
      <4>1. mem' \in [Addrs -> Region]
        BY <3>1, RegionsTyped, RegionTyped
      <4> QED
        BY <1>1, <3>1, <4>1 DEF Tool, PC
    <3>2. ASSUME tool' = [tool EXCEPT !.pc = "restore", !.result = "failed"], UNCHANGED mem
          PROVE  <2>2
      BY <1>1, <3>2 DEF Tool, PC
    <3>3. ASSUME mem' = [mem EXCEPT ![tool.handle.addr] = Unmapped],
                 tool' = [tool EXCEPT !.pc = "restore", !.result = "done"]
          PROVE  <2>2
      <4>1. mem' \in [Addrs -> Region]
        BY <3>3, RegionsTyped, RegionTyped
      <4> QED
        BY <1>1, <3>3, <4>1 DEF Tool, PC
    <3> QED
      BY <1>6, <3>1, <3>2, <3>3 DEF StepDone
  <2>3. VdsoTypeOK'
    BY <1>1, <1>2, <2>1, <2>2 DEF VdsoTypeOK, TargetTypeOK, threadVars, stopVars
  <2>4. ToolInv'
    BY <2>1, <2>2 DEF ToolInv, stopVars
  <2> QED
    BY <2>3, <2>4
<1>7. CASE Restore
  <2>1. /\ tool.pc = "restore" /\ KeepHistory
        /\ \/ Fail
           \/ Succeed /\ tool.op = "revert"
           \/ Go("payload") /\ tool.op # "revert"
        /\ regs' \in {"own", "call", "lost"}
        /\ UNCHANGED <<codeVars, place, within, stopVars, alive, life>>
    BY <1>1, <1>7 DEF Restore, At
  <2>2. VdsoTypeOK'
    BY <1>1, <1>2, <2>1, GoTyped, EndTyped DEF VdsoTypeOK, TargetTypeOK, codeVars, stopVars, PC
  <2>3. UNCHANGED <<traced, alive>>
    BY <2>1 DEF stopVars
  <2>4. CASE Go("payload") /\ tool.op # "revert"
    BY <2>1, <2>2, <2>3, <2>4, GoTyped DEF ToolInv, PC
  <2>5. CASE Fail \/ (Succeed /\ tool.op = "revert")
    BY <2>1, <2>2, <2>3, <2>5, EndTyped DEF ToolInv
  <2> QED
    BY <2>1, <2>2, <2>4, <2>5
<1> QED
  BY <1>3, <1>4, <1>5, <1>6, <1>7

LEMMA PatchToolTypes ==
  ASSUME TypeInv,
         SaveOriginal \/ JumpWritten \/ RestoreBytes \/ BytesRestored \/ Detach
  PROVE  TypeInv'
<1> USE DEF TypeInv
<1>1. /\ tool \in Tool /\ TargetTypeOK /\ mem \in [Addrs -> Region] /\ fn \in Bytes
      /\ regs \in {"own", "call", "lost"} /\ life \in Nat
      /\ tool.op \in {"none", "inject", "revert", "update"}
      /\ tool.handle.orig \in Bytes
  BY ToolTyped DEF VdsoTypeOK, TargetTypeOK
<1>2. /\ handles \subseteq Handle /\ ops \in Nat /\ kills \in Nat
      /\ chain \in Seq(Addrs) /\ disturbed \in BOOLEAN
  BY DEF VdsoTypeOK
<1>3. CASE SaveOriginal
  <2> DEFINE h == [life |-> life, addr |-> tool.addr, orig |-> fn]
  <2>1. /\ tool.pc = "save" /\ KeepHistory
        /\ WriteRegion(tool.addr, [mem[tool.addr] EXCEPT !.saved = fn])
        /\ tool' = [tool EXCEPT !.pc = "jump", !.handle = h]
    BY <1>3 DEF SaveOriginal, At
  <2>2. tool.addr \in Addrs /\ tool.op = "inject"
    BY <2>1 DEF ToolInv
  <2>3. h \in Handle
    BY <1>1, <2>2 DEF Handle
  <2>4. mem[tool.addr] \in Region
    BY <1>1, <2>2
  <2>5. [mem[tool.addr] EXCEPT !.saved = fn] \in Region
    BY <1>1, <2>4, RegionTyped, Zenon
  <2>6. \E a : \E r \in Region : WriteRegion(a, r)
    BY <2>1, <2>5
  <2>7. TargetTypeOK' /\ UNCHANGED <<traced, alive>>
    BY <2>6, WriteTyped
  <2> HIDE DEF h
  <2>8. /\ tool' \in Tool /\ tool'.pc = "jump" /\ tool'.handle = h
        /\ UNCHANGED <<tool.op, tool.addr, tool.ok>>
    BY <1>1, <2>1, <2>3 DEF Tool, PC
  <2>9. VdsoTypeOK'
    BY <2>1, <2>7, <2>8, HistoryTyped DEF VdsoTypeOK
  <2>10. ToolInv'
    BY <2>1, <2>2, <2>3, <2>7, <2>8 DEF ToolInv
  <2> QED
    BY <2>9, <2>10
<1>4. CASE JumpWritten
  <2>1. /\ tool.pc = "jumped" /\ WriteFunction(tool.addr) /\ Succeed
        /\ chain' = Append(chain, tool.addr)
        /\ UNCHANGED <<handles, ops, kills, disturbed>>
    BY <1>4 DEF JumpWritten, At
  <2>2. tool.addr \in Addrs /\ tool.op = "inject" /\ tool.handle \in Handle
    BY <2>1 DEF ToolInv
  <2>3. \E b \in Bytes : WriteFunction(b)
    BY <2>1, <2>2 DEF Bytes
  <2>4. TargetTypeOK' /\ UNCHANGED <<traced, alive>>
    BY <2>3, WriteTyped
  <2>5. /\ tool' \in Tool /\ tool'.pc = "detach"
        /\ UNCHANGED <<tool.op, tool.handle, tool.addr>>
    BY <2>1, EndTyped
  <2>6. chain' \in Seq(Addrs)
    BY <1>2, <2>1, <2>2
  <2>7. VdsoTypeOK'
    BY <1>2, <2>1, <2>4, <2>5, <2>6 DEF VdsoTypeOK
  <2>8. ToolInv'
    BY <2>1, <2>2, <2>4, <2>5 DEF ToolInv
  <2> QED
    BY <2>7, <2>8
<1>5. CASE RestoreBytes
  <2>1. /\ tool.pc = "unjump" /\ tool.op = "revert"
        /\ disturbed' \in BOOLEAN /\ UNCHANGED <<handles, ops, kills, chain>>
        /\ WriteFunction("half") \/ KeepTarget
        /\ Go("unjumped") \/ Go("poke") \/ Fail
    BY <1>2, <1>5 DEF RestoreBytes, At, ToolInv, Current
  <2>2. WriteFunction("half") => \E b \in Bytes : WriteFunction(b)
    BY DEF Bytes
  <2>3. TargetTypeOK' /\ UNCHANGED <<traced, alive>>
    BY <2>1, <2>2, WriteTyped
  <2>4. /\ tool' \in Tool /\ tool'.pc \in {"unjumped", "poke", "detach"}
        /\ UNCHANGED <<tool.op, tool.handle>>
    BY <2>1, GoTyped, EndTyped DEF PC
  <2>5. VdsoTypeOK'
    BY <1>2, <2>1, <2>3, <2>4 DEF VdsoTypeOK
  <2>6. ToolInv'
    BY <2>1, <2>3, <2>4 DEF ToolInv
  <2> QED
    BY <2>5, <2>6
<1>6. CASE BytesRestored
  <2>1. /\ tool.pc = "unjumped" /\ tool.op = "revert"
        /\ WriteFunction(tool.handle.orig) /\ Go("poke")
        /\ chain' = IF Current(tool.handle) THEN SubSeq(chain, 1, Len(chain) - 1) ELSE chain
        /\ UNCHANGED <<handles, ops, kills, disturbed>>
    BY <1>6 DEF BytesRestored, At, ToolInv
  <2>2. \E b \in Bytes : WriteFunction(b)
    BY <1>1, <2>1
  <2>3. TargetTypeOK' /\ UNCHANGED <<traced, alive>>
    BY <2>2, WriteTyped
  <2>4. /\ tool' \in Tool /\ tool'.pc = "poke"
        /\ UNCHANGED <<tool.op, tool.handle>>
    BY <2>1, GoTyped DEF PC
  <2>5. chain' \in Seq(Addrs)
    BY <1>2, <2>1, Shorter DEF Current
  <2>6. VdsoTypeOK'
    BY <1>2, <2>1, <2>3, <2>4, <2>5 DEF VdsoTypeOK
  <2>7. ToolInv'
    BY <2>1, <2>3, <2>4 DEF ToolInv
  <2> QED
    BY <2>6, <2>7
<1>7. CASE Detach
  <2>1. handles' \subseteq Handle
    BY <1>2, <1>7 DEF Detach, ToolInv
  <2>2. tool' = Idle /\ UNCHANGED <<ops, kills, chain, disturbed>> /\ LetGo
    BY <1>7 DEF Detach
  <2>3. TargetTypeOK'
    BY <1>1, <2>2 DEF LetGo, TargetTypeOK, codeVars
  <2> QED
    BY <1>2, <2>1, <2>2, <2>3, IdleTyped DEF VdsoTypeOK, ToolInv, Idle
<1> QED
  BY <1>3, <1>4, <1>5, <1>6, <1>7

LEMMA TypeStep == TypeInv /\ [Next]_vars => TypeInv'
<1> SUFFICES ASSUME TypeInv, [Next]_vars PROVE TypeInv'
  OBVIOUS
<1> USE DEF TypeInv
<1>1. CASE TimeWarp
  <2>1. NoHandle \in Handle \cup {NoHandle} /\ "on" \in Controls
    BY DEF Controls
  <2> QED
    BY <1>1, <2>1, InvocationTypes DEF TimeWarp
<1>2. CASE RevertInjection
  <2>1. handles \subseteq Handle /\ "off" \in Controls
    BY DEF VdsoTypeOK, Controls
  <2> QED
    BY <1>2, <2>1, InvocationTypes DEF RevertInjection
<1>3. CASE UpdateTime
  <2>1. handles \subseteq Handle
    BY DEF VdsoTypeOK
  <2> QED
    BY <1>3, <2>1, InvocationTypes DEF UpdateTime
<1>4. CASE ToolStep
  BY <1>4, PlainToolTypes, TracedToolTypes, PatchToolTypes DEF ToolStep
<1>5. CASE Killed
  <2>1. tool' = Idle /\ LetGo /\ kills' = kills + 1 /\ UNCHANGED <<handles, ops, chain>>
        /\ disturbed' \in BOOLEAN
    BY <1>5 DEF Killed, VdsoTypeOK
  <2>2. TargetTypeOK'
    BY <2>1 DEF LetGo, VdsoTypeOK, TargetTypeOK, codeVars
  <2> QED
    BY <2>1, <2>2, IdleTyped DEF VdsoTypeOK, ToolInv, Idle
<1>6. CASE TargetStep
  <2>1. TargetTypeOK' /\ UNCHANGED toolVars
    BY <1>6, ThreadTypes DEF TargetStep, VdsoTypeOK
  <2>2. UNCHANGED traced /\ (alive' => alive)
    BY <1>6, ThreadsKeep DEF TargetStep, VdsoTypeOK
  <2>3. VdsoTypeOK'
    BY <2>1 DEF VdsoTypeOK, toolVars
  <2>4. ToolInv'
    BY <2>1, <2>2 DEF ToolInv, toolVars
  <2> QED
    BY <2>3, <2>4
<1>7. CASE StartAgain
  <2>1. /\ tool.op = "none" /\ chain' = <<>> /\ UNCHANGED <<tool, handles, ops, kills, disturbed>>
        /\ Restart
    BY <1>7 DEF StartAgain
  <2>2. TargetTypeOK'
    <3>1. traced \in BOOLEAN /\ sent \in Nat /\ life \in Nat
      BY DEF VdsoTypeOK, TargetTypeOK
    <3>2. /\ fn' = Fresh.fn /\ mem' = Fresh.mem /\ place' = Fresh.place
          /\ within' = Fresh.within /\ regs' = "own" /\ stopPending' = FALSE
          /\ signal' = FALSE /\ frozen' = FALSE /\ alive' = TRUE /\ life' = life + 1
          /\ UNCHANGED <<traced, sent>>
      BY <2>1 DEF Restart
    <3>3. /\ fn' \in Bytes /\ mem' \in [Addrs -> Region] /\ place' \in [Threads -> Places]
          /\ within' \in [Threads -> Addrs \cup {NoAddr}]
      BY <3>2, FreshTyped, Zenon
    <3>4. sent' \in Nat /\ life' \in Nat /\ regs' \in {"own", "call", "lost"}
      BY <3>1, <3>2
    <3>5. /\ traced' \in BOOLEAN /\ stopPending' \in BOOLEAN /\ signal' \in BOOLEAN
          /\ frozen' \in BOOLEAN /\ alive' \in BOOLEAN
      BY <3>1, <3>2
    <3> QED
      BY <3>3, <3>4, <3>5 DEF TargetTypeOK
  <2>3. VdsoTypeOK'
    BY <2>1, <2>2 DEF VdsoTypeOK
  <2>4. ToolInv'
    BY <2>1 DEF ToolInv
  <2> QED
    BY <2>3, <2>4
<1>8. CASE UNCHANGED vars
  BY <1>8 DEF vars, toolVars, targetVars, codeVars, threadVars, stopVars, VdsoTypeOK,
     TargetTypeOK, ToolInv
<1> QED
  BY <1>1, <1>2, <1>3, <1>4, <1>5, <1>6, <1>7, <1>8 DEF Next

LEMMA InitTyped == Init => TypeInv
<1> SUFFICES ASSUME Init PROVE TypeInv
  OBVIOUS
<1>1. TargetTypeOK
  BY FreshTyped DEF Init, TargetInit, TargetTypeOK
<1> QED
  BY <1>1, IdleTyped, EmptySeq DEF Init, VdsoTypeOK, ToolInv, TypeInv, Idle

\* An invocation never works with an address or a handle it does not have, and
\* the target keeps its types, for any interleaving.
THEOREM VdsoTypes == Spec => []VdsoTypeOK
<1>1. TypeInv => VdsoTypeOK
  BY DEF TypeInv
<1> QED
  BY <1>1, InitTyped, TypeStep, PTL DEF Spec

-----------------------------------------------------------------------------
\* The registers of Main.

\* Main has the registers of an injected call only within it, or at the end of
\* an invocation whose last write to Main's code failed.
MainInv ==
  /\ MainUntouched
  /\ regs = "call" =>
       \/ tool.pc \in {"step", "restore"}
       \/ tool.pc = "detach" /\ (alive => Stranded)
  /\ tool.pc = "step" /\ alive => ~Stranded

\* A step that leaves Main where it is, its registers and the mapping of the
\* regions, and is not the one that enters an injected call.
LEMMA MainFrame ==
  ASSUME MainInv, MainAt' = MainAt, UNCHANGED regs, kills' = kills, alive' => alive,
         \A a \in Addrs : mem'[a].mapped = mem[a].mapped,
         tool'.pc = tool.pc \/ tool'.pc # "step",
         regs = "call" => \/ tool'.pc \in {"step", "restore"}
                          \/ tool'.pc = "detach" /\ (alive' => Stranded)
  PROVE  MainInv'
<1>1. place'[Main] = place[Main] /\ within'[Main] = within[Main]
  BY DEF MainAt
<1>2. Stranded' <=> Stranded
  BY <1>1 DEF Stranded, Readable
<1> QED
  BY <1>1, <1>2 DEF MainInv, MainUntouched, Doomed

LEMMA MainStep == TypeInv /\ MainInv /\ [Next]_vars => MainInv'
<1> SUFFICES ASSUME TypeInv, MainInv, [Next]_vars PROVE MainInv'
  OBVIOUS
<1>1. /\ VdsoTypeOK /\ ToolInv /\ TargetTypeOK /\ tool \in Tool
      /\ mem \in [Addrs -> Region] /\ kills \in Nat
  BY DEF TypeInv, VdsoTypeOK, TargetTypeOK
<1>2. ASSUME NEW op, NEW h, NEW c, Invoke(op, h, c) PROVE MainInv'
  <2>1. /\ tool' = [Idle EXCEPT !.op = op, !.pc = "attach", !.handle = h, !.control = c]
        /\ tool.pc = "none" /\ UNCHANGED <<codeVars, threadVars, alive, kills>>
    BY <1>1, <1>2 DEF Invoke, ToolInv
  <2>2. tool'.pc = "attach"
    BY <2>1 DEF Idle
  <2>3. regs # "call"
    BY <2>1 DEF MainInv
  <2> QED
    BY <2>1, <2>2, <2>3, MainFrame DEF codeVars, threadVars, MainAt
<1>3. ASSUME Fail \/ Succeed \/ \E step \in PC \ {"step"} : Go(step)
      PROVE  tool'.pc # "step"
  BY <1>1, <1>3, GoTyped, EndTyped
\* The steps outside an injected call.
<1>4. ASSUME tool.pc \notin {"step", "restore", "detach"}, MainAt' = MainAt, tool'.pc # "step",
             UNCHANGED <<regs, kills, alive>>,
             \A a \in Addrs : mem'[a].mapped = mem[a].mapped
      PROVE  MainInv'
  BY <1>4, MainFrame DEF MainInv
<1>5. CASE Attached \/ FindVdso \/ FindClockGettime \/ WriteJump \/ JumpWritten
           \/ RestoreBytes \/ BytesRestored
  <2>1. /\ tool.pc \in {"attach", "maps", "elf", "jump", "jumped", "unjump", "unjumped"}
        /\ UNCHANGED <<mem, threadVars, alive, kills>>
    BY <1>5 DEF Attached, FindVdso, FindClockGettime, WriteJump, JumpWritten, RestoreBytes,
       BytesRestored, At, KeepTarget, KeepHistory, WriteFunction, targetVars, codeVars
  <2>2. tool'.pc # "step"
    <3>1. CASE Attached
      <4>1. tool.op \in {"inject", "revert", "update"}
        BY <1>1, <3>1, ToolTyped DEF Attached, At, ToolInv
      <4> QED
        BY <1>1, <3>1, <4>1 DEF Attached, Go, Tool
    <3>2. CASE ~Attached
      BY <1>3, <1>5, <3>2 DEF FindVdso, FindClockGettime, WriteJump, JumpWritten, RestoreBytes,
         BytesRestored, PC
    <3> QED
      BY <3>1, <3>2
  <2> QED
    BY <1>4, <2>1, <2>2 DEF threadVars, MainAt
<1>6. CASE WritePayload \/ WriteControl \/ SaveOriginal
  <2>1. /\ tool.pc \in {"payload", "control", "save"}
        /\ UNCHANGED <<threadVars, alive, kills>>
    BY <1>6 DEF WritePayload, WriteControl, SaveOriginal, At, KeepTarget, KeepHistory,
       WriteRegion, targetVars
  <2>2. tool'.pc # "step"
    BY <1>1, <1>3, <1>6 DEF WritePayload, WriteControl, SaveOriginal, PC, Tool
  <2>3. \/ UNCHANGED mem
        \/ \E a : mem' = [mem EXCEPT ![a] = [mem[a] EXCEPT !.code = TRUE]]
        \/ \E a : mem' = [mem EXCEPT ![a] = [mem[a] EXCEPT !.control = tool.control]]
        \/ \E a : mem' = [mem EXCEPT ![a] = [mem[a] EXCEPT !.saved = fn]]
    BY <1>6 DEF WritePayload, WriteControl, SaveOriginal, KeepTarget, WriteRegion, targetVars,
       codeVars
  <2>4. \A a \in Addrs : mem'[a].mapped = mem[a].mapped
    BY <1>1, <2>3 DEF Region
  <2> QED
    BY <1>4, <2>1, <2>2, <2>4 DEF threadVars, MainAt
<1>7. CASE Poke
  <2>1. /\ tool.pc = "poke" /\ UNCHANGED <<mem, MainAt, alive, kills>>
        /\ regs # "call"
    BY <1>7 DEF Poke, At, KeepHistory, codeVars, MainAt, MainInv
  <2>2. CASE Stranded
    <3>1. Fail /\ UNCHANGED regs
      BY <1>7, <2>2 DEF Poke
    <3> QED
      BY <1>3, <1>4, <2>1, <3>1
  <2>3. CASE ~Stranded
    <3>1. Go("step") /\ regs' = IF regs = "own" THEN "call" ELSE regs
      BY <1>7, <2>3 DEF Poke
    <3>2. tool'.pc = "step"
      BY <1>1, <3>1, GoTyped DEF PC
    <3>3. Stranded' <=> Stranded
      BY <2>1 DEF Stranded, MainAt, Readable
    <3> QED
      BY <2>1, <2>3, <3>1, <3>2, <3>3 DEF MainInv, MainUntouched, Doomed, MainAt
  <2> QED
    BY <2>2, <2>3
<1>8. CASE StepInterrupted
  <2>1. /\ tool.pc = "step" /\ tool'.pc = "restore" /\ UNCHANGED <<mem, regs, MainAt, alive, kills>>
    BY <1>1, <1>8 DEF StepInterrupted, At, KeepHistory, codeVars, threadVars, MainAt, Tool
  <2> QED
    BY <2>1, MainFrame
<1>9. CASE StepDone
  <2>1. /\ tool.pc = "step" /\ alive /\ tool'.pc = "restore"
        /\ UNCHANGED <<regs, MainAt, alive, kills>>
    BY <1>1, <1>9 DEF StepDone, At, KeepHistory, threadVars, MainAt, Tool
  <2>2. ~Stranded
    BY <2>1 DEF MainInv
  <2> QED
    BY <2>1, <2>2 DEF MainInv, MainUntouched, Doomed, MainAt
<1>10. CASE Restore
  <2>1. /\ tool.pc = "restore" /\ UNCHANGED <<mem, MainAt, alive, kills>>
    BY <1>10 DEF Restore, At, KeepHistory, codeVars, MainAt
  <2>2. CASE Stranded
    <3>1. Fail /\ UNCHANGED regs
      BY <1>10, <2>2 DEF Restore
    <3>2. tool'.pc = "detach"
      BY <1>1, <3>1, EndTyped
    <3> QED
      BY <2>1, <2>2, <3>1, <3>2, MainFrame
  <2>3. CASE ~Stranded
    <3>1. regs' = (IF regs = "call" THEN "own" ELSE regs) /\ tool'.pc # "step"
      BY <1>3, <1>10, <2>3 DEF Restore, PC
    <3>2. Stranded' <=> Stranded
      BY <2>1 DEF Stranded, MainAt, Readable
    <3> QED
      BY <2>1, <3>1, <3>2 DEF MainInv, MainUntouched, Doomed, MainAt
  <2> QED
    BY <2>2, <2>3
<1>11. CASE TargetGone
  <2>1. ~alive' /\ tool'.pc = "detach" /\ UNCHANGED <<regs, kills>>
    BY <1>1, <1>11, EndTyped DEF TargetGone, KeepTarget, KeepHistory, targetVars, threadVars
  <2> QED
    BY <2>1 DEF MainInv, MainUntouched, Doomed
<1>12. CASE Detach
  <2>1. /\ tool.pc = "detach" /\ tool' = Idle /\ UNCHANGED <<mem, MainAt, alive, kills>>
        /\ regs' = IF regs = "call" THEN "lost" ELSE regs
    BY <1>12 DEF Detach, LetGo, codeVars, MainAt
  <2>2. Stranded' <=> Stranded
    BY <2>1 DEF Stranded, MainAt, Readable
  <2> QED
    BY <2>1, <2>2, IdleTyped DEF MainInv, MainUntouched, Doomed, MainAt, Idle
<1>13. CASE Killed
  <2>1. tool' = Idle /\ kills' > 0 /\ regs' # "call"
    BY <1>1, <1>13 DEF Killed, LetGo
  <2> QED
    BY <2>1 DEF MainInv, MainUntouched, Doomed, Idle
<1>14. CASE TargetStep
  <2>1. UNCHANGED <<tool, kills>> /\ ThreadStep
    BY <1>14 DEF TargetStep, toolVars
  <2>2. /\ UNCHANGED <<mem, regs, traced>>
        /\ alive' => alive
        /\ \/ MainAt' = MainAt
           \/ ~traced /\ regs = "own"
           \/ ~traced /\ place'[Main] = "beyond"
    BY <1>1, <2>1, ThreadsKeep
  <2>3. CASE MainAt' = MainAt
    BY <2>1, <2>2, <2>3, MainFrame DEF MainInv
  <2>4. CASE MainAt' # MainAt
    <3>1. ~traced
      BY <2>2, <2>4
    <3>2. tool.pc \in {"none", "attach", "detach"}
      BY <1>1, <3>1 DEF ToolInv
    <3>3. tool.pc = "detach" => ~alive'
      BY <1>1, <2>2, <3>1 DEF ToolInv
    <3> QED
      BY <2>1, <2>2, <2>4, <3>2, <3>3 DEF MainInv, MainUntouched, Doomed
  <2> QED
    BY <2>3, <2>4
<1>15. CASE StartAgain
  <2>1. regs' = "own" /\ tool' = tool /\ tool.pc = "none"
    BY <1>1, <1>15 DEF StartAgain, Restart, ToolInv
  <2> QED
    BY <2>1 DEF MainInv, MainUntouched, Doomed
<1>16. CASE UNCHANGED vars
  BY <1>16, MainFrame DEF MainInv, vars, targetVars, toolVars, codeVars, threadVars, MainAt
<1> QED
  BY <1>2, <1>5, <1>6, <1>7, <1>8, <1>9, <1>10, <1>11, <1>12, <1>13, <1>14, <1>15, <1>16
     DEF Next, ToolStep, TimeWarp, RevertInjection, UpdateTime

\* Main runs with its own registers and code after any invocation that was not
\* killed, however many signals interrupt its steps and whatever fails, unless
\* it was stopped in the region that this invocation has freed.
THEOREM MainGoesOn == Spec => []MainUntouched
<1>1. Init => TypeInv /\ MainInv
  BY InitTyped DEF Init, TargetInit, MainInv, MainUntouched, Doomed, Idle
<1>2. TypeInv /\ MainInv /\ [Next]_vars => (TypeInv /\ MainInv)'
  BY TypeStep, MainStep
<1>3. MainInv => MainUntouched
  BY DEF MainInv
<1> QED
  BY <1>1, <1>2, <1>3, PTL DEF Spec

-----------------------------------------------------------------------------
\* Patches nest.

Complete(i) ==
  /\ mem[chain[i]].mapped
  /\ mem[chain[i]].code
  /\ mem[chain[i]].control # "zero"
  /\ mem[chain[i]].saved = Layer(i - 1)

Unchained(a) == \A i \in DOMAIN chain : chain[i] # a

ChainInv ==
  /\ fn # "half" => fn = Layer(Len(chain))
  /\ fn = "half" => tool.pc \in {"jumped", "unjumped"}
  /\ \A i, j \in DOMAIN chain : chain[i] = chain[j] => i = j
  /\ \A i \in DOMAIN chain : Complete(i)

\* The region in the hands of an injection is its own and is as complete as its
\* step says; the handle of a revert is the current one until its bytes are
\* back, and its region is in nobody's chain from then on.
HandInv ==
  /\ tool.op = "inject" =>
       /\ tool.pc \in {"attach", "maps", "elf", "poke", "step"} => tool.addr = NoAddr
       /\ tool.addr \in Addrs /\ tool.pc # "detach" =>
            mem[tool.addr].mapped /\ Unchained(tool.addr)
       /\ tool.pc \in {"control", "save", "jump", "jumped"} => mem[tool.addr].code
       /\ tool.pc \in {"save", "jump", "jumped"} => mem[tool.addr].control # "zero"
       /\ tool.pc \in {"jump", "jumped"} => mem[tool.addr].saved = Layer(Len(chain))
  /\ tool.op = "revert" =>
       /\ tool.pc = "unjumped" => Current(tool.handle)
       /\ tool.pc \in {"poke", "step"} => Unchained(tool.handle.addr)

PatchInv == alive /\ ~disturbed => ChainInv /\ HandInv

LEMMA LayerKnown ==
  ASSUME TypeInv, NEW n \in 0..Len(chain)
  PROVE  Layer(n) \in {"orig"} \cup Addrs /\ Layer(n) # "half"
<1>1. chain \in Seq(Addrs)
  BY DEF TypeInv, VdsoTypeOK
<1>2. n # 0 => chain[n] \in Addrs
  BY <1>1
<1> QED
  BY <1>2, TargetAssumption DEF Layer

\* A step that leaves the code of the target alone and keeps its hands as they
\* are.
LEMMA CodeFrame ==
  ASSUME PatchInv, UNCHANGED <<fn, mem, chain, life, disturbed>>, alive' => alive,
         alive /\ ~disturbed => (fn = "half" => tool'.pc \in {"jumped", "unjumped"}),
         alive /\ ~disturbed /\ HandInv => HandInv'
  PROVE  PatchInv'
BY DEF PatchInv, ChainInv, Complete, Layer

\* Where an invocation goes on with what it has in hand.
LEMMA HandFrame ==
  ASSUME ToolInv, HandInv, UNCHANGED <<mem, chain, life>>,
         UNCHANGED <<tool.op, tool.handle, tool.addr>>,
         \/ tool'.pc = "detach"
         \/ tool.pc \in {"maps", "elf"} /\ tool'.pc \in {"elf", "poke"}
         \/ tool.pc = "attach" /\ tool'.pc \in {"maps", "unjump"}
         \/ tool.pc = "attach" /\ tool'.pc = "control" /\ tool.op = "update"
         \/ tool.pc = "poke" /\ tool'.pc = "step"
         \/ tool.pc = "step" /\ tool'.pc = "restore"
         \/ tool.pc = "restore" /\ tool'.pc = "payload" /\ tool.op = "inject"
  PROVE  HandInv'
<1>1. CASE tool.op = "inject"
  BY <1>1 DEF ToolInv, HandInv, Unchained, Layer
<1>2. CASE tool.op = "revert"
  BY <1>2 DEF ToolInv, HandInv, Unchained, Layer
<1>3. CASE tool.op \notin {"inject", "revert"}
  BY <1>3 DEF HandInv
<1> QED
  BY <1>1, <1>2, <1>3

LEMMA CodeKept ==
  ASSUME TypeInv, PatchInv,
         Attached \/ FindVdso \/ FindClockGettime \/ Poke \/ StepInterrupted \/ Restore
  PROVE  PatchInv'
<1>1. VdsoTypeOK /\ ToolInv /\ tool \in Tool
  BY DEF TypeInv, VdsoTypeOK
<1>2. UNCHANGED <<fn, mem, chain, life, disturbed, alive>>
  BY DEF Attached, FindVdso, FindClockGettime, Poke, StepInterrupted, Restore, KeepTarget,
     KeepHistory, targetVars, codeVars
<1>3. tool.pc \in {"attach", "maps", "elf", "poke", "step", "restore"}
  BY DEF Attached, FindVdso, FindClockGettime, Poke, StepInterrupted, Restore, At
<1>4. /\ UNCHANGED <<tool.op, tool.handle, tool.addr>>
      /\ \/ tool'.pc = "detach"
         \/ tool.pc \in {"maps", "elf"} /\ tool'.pc \in {"elf", "poke"}
         \/ tool.pc = "attach" /\ tool'.pc \in {"maps", "unjump"}
         \/ tool.pc = "attach" /\ tool'.pc = "control" /\ tool.op = "update"
         \/ tool.pc = "poke" /\ tool'.pc = "step"
         \/ tool.pc = "step" /\ tool'.pc = "restore"
         \/ tool.pc = "restore" /\ tool'.pc = "payload" /\ tool.op = "inject"
  <2>1. CASE Attached
    <3>1. tool.op \in {"inject", "revert", "update"}
      BY <1>1, <2>1, ToolTyped DEF Attached, At, ToolInv
    <3> QED
      BY <1>1, <2>1, <3>1 DEF Attached, At, Go, Tool
  <2>2. CASE FindVdso
    BY <1>1, <2>2, GoTyped, EndTyped DEF FindVdso, At, PC
  <2>3. CASE FindClockGettime
    BY <1>1, <2>3, GoTyped, EndTyped DEF FindClockGettime, At, PC
  <2>4. CASE Poke
    BY <1>1, <2>4, GoTyped, EndTyped DEF Poke, At, PC
  <2>5. CASE StepInterrupted
    BY <1>1, <2>5 DEF StepInterrupted, At, Tool
  <2>6. CASE Restore
    <3>1. tool.op \in {"inject", "revert"} /\ tool.pc = "restore"
      BY <1>1, <2>6 DEF Restore, At, ToolInv
    <3> QED
      BY <1>1, <2>6, <3>1, GoTyped, EndTyped DEF Restore, PC
  <2> QED
    BY <2>1, <2>2, <2>3, <2>4, <2>5, <2>6
<1>5. HandInv => HandInv'
  BY <1>1, <1>2, <1>4, HandFrame
<1>6. alive /\ ~disturbed => fn # "half"
  BY <1>3 DEF PatchInv, ChainInv
<1> QED
  BY <1>2, <1>5, <1>6, CodeFrame

\* A write to a region in nobody's chain.
LEMMA ChainFrame ==
  ASSUME TypeInv, ChainInv, UNCHANGED <<fn, chain>>, fn # "half",
         NEW a, Unchained(a), \A b \in Addrs : b # a => mem'[b] = mem[b]
  PROVE  ChainInv'
<1>1. chain \in Seq(Addrs)
  BY DEF TypeInv, VdsoTypeOK
<1>2. ASSUME NEW i \in DOMAIN chain PROVE Complete(i)'
  <2>1. chain[i] \in Addrs /\ chain[i] # a
    BY <1>1, <1>2 DEF Unchained
  <2> QED
    BY <2>1 DEF ChainInv, Complete, Layer
<1> QED
  BY <1>2 DEF ChainInv, Layer

LEMMA RegionWritten ==
  ASSUME TypeInv, PatchInv, WritePayload \/ WriteControl \/ SaveOriginal \/ StepDone
  PROVE  PatchInv'
<1>1. /\ VdsoTypeOK /\ ToolInv /\ tool \in Tool /\ mem \in [Addrs -> Region]
      /\ chain \in Seq(Addrs)
  BY DEF TypeInv, VdsoTypeOK, TargetTypeOK
<1>2. /\ UNCHANGED <<fn, chain, life, disturbed, alive>>
      /\ tool.pc \in {"payload", "control", "save", "step"}
  BY DEF WritePayload, WriteControl, SaveOriginal, StepDone, At, KeepTarget, KeepHistory,
     WriteRegion, targetVars, codeVars
<1>3. SUFFICES ASSUME alive, ~disturbed PROVE ChainInv' /\ HandInv'
  BY <1>2 DEF PatchInv
<1>4. ChainInv /\ HandInv
  BY <1>3 DEF PatchInv
<1>5. fn # "half"
  BY <1>2, <1>4 DEF ChainInv
<1>6. ASSUME Fail, KeepTarget PROVE ChainInv' /\ HandInv'
  <2>1. /\ tool'.pc = "detach" /\ UNCHANGED <<tool.op, tool.handle, tool.addr>>
        /\ UNCHANGED mem
    BY <1>1, <1>6, EndTyped DEF KeepTarget, targetVars, codeVars
  <2>2. HandInv'
    BY <1>1, <1>2, <1>4, <2>1, HandFrame
  <2> QED
    BY <1>2, <1>4, <1>5, <2>1, <2>2 DEF ChainInv, Complete, Layer
<1>7. CASE WritePayload
  <2>1. CASE tool.addr = NoAddr
    BY <1>6, <1>7, <2>1 DEF WritePayload
  <2>2. CASE tool.addr # NoAddr
    <3>1. /\ mem' = [mem EXCEPT ![tool.addr] = [mem[tool.addr] EXCEPT !.code = TRUE]]
          /\ tool.pc = "payload" /\ Go("control")
      BY <1>7, <2>2 DEF WritePayload, WriteRegion, At
    <3>2. /\ tool'.pc = "control" /\ UNCHANGED <<tool.op, tool.handle, tool.addr>>
      BY <1>1, <3>1, GoTyped DEF PC
    <3>3. tool.addr \in Addrs /\ tool.op = "inject"
      BY <1>1, <2>2, <3>1, ToolTyped DEF ToolInv
    <3>4. mem[tool.addr].mapped /\ Unchained(tool.addr)
      BY <1>4, <3>1, <3>3 DEF HandInv
    <3>5. mem'[tool.addr].mapped /\ mem'[tool.addr].code
      BY <1>1, <3>1, <3>3, <3>4 DEF Region
    <3>6. ChainInv'
      BY <1>1, <1>2, <1>4, <1>5, <3>1, <3>4, ChainFrame DEF TypeInv
    <3>7. HandInv'
      BY <1>2, <3>2, <3>3, <3>4, <3>5 DEF HandInv, Unchained
    <3> QED
      BY <3>6, <3>7
  <2> QED
    BY <2>1, <2>2
<1>8. CASE SaveOriginal
  <2>1. /\ mem' = [mem EXCEPT ![tool.addr] = [mem[tool.addr] EXCEPT !.saved = fn]]
        /\ tool.pc = "save" /\ tool'.pc = "jump"
        /\ UNCHANGED <<tool.op, tool.addr>>
    BY <1>1, <1>8 DEF SaveOriginal, WriteRegion, At, Tool
  <2>2. tool.addr \in Addrs /\ tool.op = "inject"
    BY <1>1, <2>1 DEF ToolInv
  <2>3. /\ mem[tool.addr].mapped /\ Unchained(tool.addr) /\ mem[tool.addr].code
        /\ mem[tool.addr].control # "zero"
    BY <1>4, <2>1, <2>2 DEF HandInv
  <2>4. mem[tool.addr] \in Region
    BY <1>1, <2>2
  <2>5. /\ mem'[tool.addr].mapped /\ mem'[tool.addr].code /\ mem'[tool.addr].control # "zero"
        /\ mem'[tool.addr].saved = fn
    BY <1>1, <2>1, <2>2, <2>3, <2>4 DEF Region
  <2>6. fn = Layer(Len(chain))
    BY <1>4, <1>5 DEF ChainInv
  <2>7. ChainInv'
    BY <1>1, <1>2, <1>4, <1>5, <2>1, <2>3, ChainFrame DEF TypeInv
  <2>8. HandInv'
    BY <1>2, <2>1, <2>2, <2>3, <2>5, <2>6 DEF HandInv, Unchained, Layer
  <2> QED
    BY <2>7, <2>8
<1>9. CASE WriteControl
  <2> DEFINE a == IF tool.op = "inject" THEN tool.addr ELSE tool.handle.addr
  <2>1. tool.pc = "control"
    BY <1>9 DEF WriteControl, At
  <2>2. CASE Fail /\ KeepTarget
    BY <1>6, <2>2
  <2>3. CASE /\ WriteRegion(a, [mem[a] EXCEPT !.control = tool.control])
             /\ IF tool.op = "inject" THEN Go("save") ELSE Succeed
    <3>1. mem' = [mem EXCEPT ![a] = [mem[a] EXCEPT !.control = tool.control]]
      BY <2>3 DEF WriteRegion
    <3>2. tool.control # "zero"
      BY <1>1, ToolTyped DEF Controls
    <3>3. \A b \in Addrs :
            /\ mem'[b].mapped = mem[b].mapped /\ mem'[b].code = mem[b].code
            /\ mem'[b].saved = mem[b].saved
            /\ mem'[b].control = IF b = a THEN tool.control ELSE mem[b].control
      <4> HIDE DEF a
      <4>1. ASSUME NEW b \in Addrs, b = a
            PROVE  /\ mem'[b].mapped = mem[b].mapped /\ mem'[b].code = mem[b].code
                   /\ mem'[b].saved = mem[b].saved /\ mem'[b].control = tool.control
        <5>1. mem[b] \in Region /\ mem'[b] = [mem[b] EXCEPT !.control = tool.control]
          BY <1>1, <3>1, <4>1
        <5> QED
          BY <5>1 DEF Region
      <4>2. ASSUME NEW b \in Addrs, b # a PROVE mem'[b] = mem[b]
        BY <1>1, <3>1, <4>2
      <4> QED
        BY <4>1, <4>2
    <3> HIDE DEF a
    <3>4. ASSUME NEW i \in DOMAIN chain PROVE Complete(i)'
      <4>1. chain[i] \in Addrs
        BY <1>1, <3>4
      <4> QED
        BY <1>2, <1>4, <3>2, <3>3, <3>4, <4>1 DEF ChainInv, Complete, Layer
    <3>5. ChainInv'
      BY <1>2, <1>4, <1>5, <3>4 DEF ChainInv, Layer
    <3>6. CASE tool.op = "inject"
      <4>1. a = tool.addr /\ a \in Addrs
        BY <1>1, <2>1, <3>6 DEF a, ToolInv
      <4>2. /\ tool'.pc = "save" /\ UNCHANGED <<tool.op, tool.handle, tool.addr>>
        BY <1>1, <2>3, <3>6, GoTyped DEF PC
      <4>3. mem[a].mapped /\ Unchained(a) /\ mem[a].code
        BY <1>4, <2>1, <3>6, <4>1 DEF HandInv
      <4>4. mem'[a].mapped /\ mem'[a].code /\ mem'[a].control # "zero"
        BY <3>2, <3>3, <4>1, <4>3
      <4>5. HandInv'
        BY <1>2, <3>6, <4>1, <4>2, <4>3, <4>4 DEF HandInv, Unchained
      <4> QED
        BY <3>5, <4>5
    <3>7. CASE tool.op # "inject"
      <4>1. tool'.pc = "detach" /\ UNCHANGED tool.op
        BY <1>1, <2>3, <3>7, EndTyped
      <4>2. HandInv'
        BY <3>7, <4>1 DEF HandInv
      <4> QED
        BY <3>5, <4>2
    <3> QED
      BY <3>6, <3>7
  <2> QED
    BY <1>9, <2>2, <2>3 DEF WriteControl
<1>10. CASE StepDone
  <2>1. tool.pc = "step"
    BY <1>10 DEF StepDone, At
  <2>2. ASSUME tool.op = "inject", NEW a \in Addrs, ~mem[a].mapped,
               mem' = [mem EXCEPT ![a] = Zeroed],
               tool' = [tool EXCEPT !.pc = "restore", !.result = "done", !.addr = a]
        PROVE  ChainInv' /\ HandInv'
    <3>1. Unchained(a)
      BY <1>4, <2>2 DEF ChainInv, Complete, Unchained
    <3>2. ChainInv'
      BY <1>1, <1>2, <1>4, <1>5, <2>2, <3>1, ChainFrame DEF TypeInv
    <3>3. tool'.op = "inject" /\ tool'.pc = "restore" /\ tool'.addr = a
      BY <1>1, <2>2 DEF Tool
    <3>4. mem'[a].mapped
      BY <1>1, <2>2 DEF Zeroed, Unmapped
    <3>5. HandInv'
      BY <1>2, <3>1, <3>3, <3>4 DEF HandInv, Unchained
    <3> QED
      BY <3>2, <3>5
  <2>3. ASSUME tool.op = "inject", UNCHANGED mem,
               tool' = [tool EXCEPT !.pc = "restore", !.result = "failed"]
        PROVE  ChainInv' /\ HandInv'
    <3>1. tool'.pc = "restore" /\ UNCHANGED <<tool.op, tool.handle, tool.addr>>
      BY <1>1, <2>3 DEF Tool
    <3>2. HandInv'
      BY <1>1, <1>2, <1>4, <2>1, <2>3, <3>1, HandFrame
    <3> QED
      BY <1>2, <1>4, <1>5, <2>3, <3>2 DEF ChainInv, Complete, Layer
  <2>4. ASSUME tool.op = "revert", mem' = [mem EXCEPT ![tool.handle.addr] = Unmapped],
               tool' = [tool EXCEPT !.pc = "restore", !.result = "done"]
        PROVE  ChainInv' /\ HandInv'
    <3>1. Unchained(tool.handle.addr)
      BY <1>4, <2>1, <2>4 DEF HandInv
    <3>2. \A b \in Addrs : b # tool.handle.addr => mem'[b] = mem[b]
      BY <1>1, <2>4
    <3>3. ChainInv'
      BY <1>1, <1>2, <1>4, <1>5, <3>1, <3>2, ChainFrame DEF TypeInv
    <3>4. tool'.op = "revert" /\ tool'.pc = "restore"
      BY <1>1, <2>4 DEF Tool
    <3>5. HandInv'
      BY <3>4 DEF HandInv
    <3> QED
      BY <3>3, <3>5
  <2> QED
    BY <1>10, <2>2, <2>3, <2>4 DEF StepDone
<1> QED
  BY <1>7, <1>8, <1>9, <1>10

\* The write of the jump: the region joins the chain.
LEMMA JumpInstalled ==
  ASSUME TypeInv, PatchInv, WriteJump \/ JumpWritten
  PROVE  PatchInv'
<1>1. VdsoTypeOK /\ ToolInv /\ tool \in Tool /\ chain \in Seq(Addrs)
  BY DEF TypeInv, VdsoTypeOK
<1>2. UNCHANGED <<mem, life, disturbed, alive>> /\ tool.op = "inject"
      /\ tool.pc \in {"jump", "jumped"}
  BY <1>1 DEF WriteJump, JumpWritten, At, KeepHistory, WriteFunction, ToolInv
<1>3. SUFFICES ASSUME alive, ~disturbed PROVE ChainInv' /\ HandInv'
  BY <1>2 DEF PatchInv
<1>4. ChainInv /\ HandInv
  BY <1>3 DEF PatchInv
<1>5. /\ tool.addr \in Addrs /\ Unchained(tool.addr)
      /\ mem[tool.addr].mapped /\ mem[tool.addr].code /\ mem[tool.addr].control # "zero"
      /\ mem[tool.addr].saved = Layer(Len(chain))
  BY <1>1, <1>2, <1>4 DEF ToolInv, HandInv
<1>6. CASE WriteJump
  <2>1. fn' = "half" /\ chain' = chain /\ Go("jumped")
    BY <1>6 DEF WriteJump, WriteFunction, KeepHistory
  <2>2. tool'.pc = "jumped" /\ UNCHANGED <<tool.op, tool.addr>>
    BY <1>1, <2>1, GoTyped DEF PC
  <2>3. ChainInv'
    BY <1>2, <1>4, <2>1, <2>2 DEF ChainInv, Complete, Layer
  <2>4. HandInv'
    BY <1>2, <1>5, <2>1, <2>2 DEF HandInv, Unchained, Layer
  <2> QED
    BY <2>3, <2>4
<1>7. CASE JumpWritten
  <2>1. fn' = tool.addr /\ chain' = Append(chain, tool.addr) /\ Succeed
    BY <1>7 DEF JumpWritten, WriteFunction
  <2>2. tool'.pc = "detach" /\ tool'.op = "inject"
    BY <1>1, <1>2, <2>1, EndTyped
  <2>3. PICK n \in Nat : n = Len(chain)
    BY <1>1
  <2>4. /\ DOMAIN chain = 1..n /\ DOMAIN chain' = 1..(n + 1) /\ Len(chain') = n + 1
        /\ \A i \in 1..n : chain'[i] = chain[i]
        /\ chain'[n + 1] = tool.addr
    BY <1>1, <1>5, <2>1, <2>3
  <2>5. \A i \in 0..n : Layer(i)' = Layer(i)
    BY <2>4 DEF Layer
  <2>6. Layer(n + 1)' = tool.addr
    BY <2>3, <2>4 DEF Layer
  <2>7. ASSUME NEW i \in 1..(n + 1) PROVE Complete(i)'
    <3>1. CASE i = n + 1
      <4>1. Layer(i - 1)' = Layer(n)
        BY <2>3, <2>5, <3>1
      <4>2. chain'[i] = tool.addr
        BY <2>4, <3>1
      <4> QED
        BY <1>2, <1>5, <2>3, <4>1, <4>2 DEF Complete
    <3>2. CASE i # n + 1
      <4>1. i \in 1..n /\ i - 1 \in 0..n
        BY <2>3, <3>2
      <4>2. chain'[i] = chain[i] /\ Layer(i - 1)' = Layer(i - 1) /\ Complete(i)
        BY <1>4, <2>4, <2>5, <4>1 DEF ChainInv
      <4> QED
        BY <1>2, <4>2 DEF Complete
    <3> QED
      BY <3>1, <3>2
  <2>8. \A i, j \in DOMAIN chain' : chain'[i] = chain'[j] => i = j
    <3>1. \A i, j \in 1..n : chain[i] = chain[j] => i = j
      BY <1>4, <2>4 DEF ChainInv
    <3>2. \A i \in 1..n : chain[i] # tool.addr
      BY <1>5, <2>4 DEF Unchained
    <3>3. \A i \in 1..(n + 1) : i \in 1..n \/ i = n + 1
      BY <2>3
    <3> QED
      BY <2>4, <3>1, <3>2, <3>3
  <2>9. fn' # "half" /\ fn' = Layer(Len(chain))'
    <3>1. Layer(Len(chain))' = tool.addr
      BY <2>3, <2>4 DEF Layer
    <3> QED
      BY <1>5, <2>1, <3>1, TargetAssumption
  <2>10. ChainInv'
    BY <2>4, <2>7, <2>8, <2>9 DEF ChainInv
  <2>11. HandInv'
    BY <2>2 DEF HandInv
  <2> QED
    BY <2>10, <2>11
<1> QED
  BY <1>6, <1>7

\* The bytes put back: the region leaves the chain.
LEMMA JumpRemoved ==
  ASSUME TypeInv, PatchInv, RestoreBytes \/ BytesRestored
  PROVE  PatchInv'
<1>1. VdsoTypeOK /\ ToolInv /\ tool \in Tool /\ chain \in Seq(Addrs)
  BY DEF TypeInv, VdsoTypeOK
<1>2. /\ UNCHANGED <<mem, life, alive>> /\ tool.op = "revert"
      /\ disturbed => disturbed'
      /\ tool.pc \in {"unjump", "unjumped"}
  <2>1. disturbed => disturbed'
    BY Zenon DEF RestoreBytes, BytesRestored
  <2>2. tool.pc \in {"unjump", "unjumped"} /\ tool.op = "revert"
    BY <1>1 DEF RestoreBytes, BytesRestored, At, ToolInv
  <2>3. UNCHANGED <<mem, life, alive>>
    BY DEF RestoreBytes, BytesRestored, WriteFunction, KeepTarget, targetVars, codeVars
  <2> QED
    BY <2>1, <2>2, <2>3
<1>3. SUFFICES ASSUME alive, ~disturbed, ~disturbed' PROVE ChainInv' /\ HandInv'
  BY <1>2 DEF PatchInv
<1>4. ChainInv /\ HandInv
  BY <1>3 DEF PatchInv
<1>5. CASE RestoreBytes
  <2>1. Current(tool.handle)
    BY <1>3, <1>5 DEF RestoreBytes
  <2>2. fn' = "half" /\ chain' = chain /\ Go("unjumped")
    BY <1>5, <2>1 DEF RestoreBytes, WriteFunction, Current
  <2>3. tool'.pc = "unjumped" /\ UNCHANGED <<tool.op, tool.handle>>
    BY <1>1, <2>2, GoTyped DEF PC
  <2>4. ChainInv'
    BY <1>2, <1>4, <2>2, <2>3 DEF ChainInv, Complete, Layer
  <2>5. HandInv'
    BY <1>2, <2>1, <2>2, <2>3 DEF HandInv, Current, Layer
  <2> QED
    BY <2>4, <2>5
<1>6. CASE BytesRestored
  <2>1. tool.pc = "unjumped" /\ fn' = tool.handle.orig /\ Go("poke")
    BY <1>6 DEF BytesRestored, At, WriteFunction
  <2>2. Current(tool.handle)
    BY <1>2, <1>4, <2>1 DEF HandInv
  <2>3. chain' = SubSeq(chain, 1, Len(chain) - 1) /\ chain # <<>>
    BY <1>6, <2>2 DEF BytesRestored, Current
  <2>4. tool'.pc = "poke" /\ UNCHANGED <<tool.op, tool.handle>>
    BY <1>1, <2>1, GoTyped DEF PC
  <2>5. PICK n \in Nat : Len(chain) = n + 1
    <3>1. Len(chain) \in Nat \ {0}
      BY <1>1, <2>3, EmptySeq
    <3> QED
      BY <3>1
  <2>6. /\ chain' \in Seq(Addrs) /\ Len(chain') = n
        /\ \A i \in 1..n : chain'[i] = chain[i]
    <3>1. Len(chain) - 1 = n
      BY <2>5
    <3> QED
      BY <1>1, <2>3, <3>1, Shorter
  <2>7. DOMAIN chain = 1..(n + 1) /\ DOMAIN chain' = 1..n
    BY <1>1, <2>5, <2>6, LenProperties
  <2>8. \A i \in 0..n : Layer(i)' = Layer(i)
    BY <2>6 DEF Layer
  <2>9. fn' = Layer(Len(chain))' /\ fn' # "half"
    <3>1. fn' = Layer(n)
      BY <2>1, <2>2, <2>5 DEF Current
    <3>2. Layer(n) # "half"
      BY <2>5, LayerKnown
    <3>3. Layer(Len(chain))' = Layer(n)
      BY <2>6 DEF Layer
    <3> QED
      BY <3>1, <3>2, <3>3
  <2>10. ASSUME NEW i \in 1..n PROVE Complete(i)'
    <3>1. i \in 1..(n + 1) /\ i - 1 \in 0..n
      OBVIOUS
    <3>2. Complete(i) /\ chain'[i] = chain[i] /\ Layer(i - 1)' = Layer(i - 1)
      BY <1>4, <2>6, <2>7, <2>8, <3>1 DEF ChainInv
    <3> QED
      BY <1>2, <3>2 DEF Complete
  <2>11. \A i, j \in DOMAIN chain' : chain'[i] = chain'[j] => i = j
    BY <1>4, <2>6, <2>7 DEF ChainInv
  <2>12. ChainInv'
    BY <2>7, <2>9, <2>10, <2>11 DEF ChainInv
  <2>13. \A i \in 1..n : chain'[i] # tool.handle.addr
    <3>1. tool.handle.addr = chain[n + 1]
      BY <2>2, <2>5 DEF Current
    <3>2. \A i \in 1..n : i \in 1..(n + 1) /\ n + 1 \in 1..(n + 1) /\ i # n + 1
      BY <2>5
    <3> QED
      BY <1>4, <2>6, <2>7, <3>1, <3>2 DEF ChainInv
  <2>14. HandInv'
    BY <1>2, <2>4, <2>7, <2>13 DEF HandInv, Unchained
  <2> QED
    BY <2>12, <2>14
<1> QED
  BY <1>5, <1>6

LEMMA PatchStep == TypeInv /\ PatchInv /\ [Next]_vars => PatchInv'
<1> SUFFICES ASSUME TypeInv, PatchInv, [Next]_vars PROVE PatchInv'
  OBVIOUS
<1>1. VdsoTypeOK /\ ToolInv /\ TargetTypeOK
  BY DEF TypeInv, VdsoTypeOK
<1>2. ASSUME NEW op \in {"inject", "revert", "update"}, NEW h, NEW c, Invoke(op, h, c)
      PROVE  PatchInv'
  <2>1. /\ UNCHANGED <<fn, mem, chain, life, disturbed, alive>> /\ tool.pc = "none"
        /\ tool' = [Idle EXCEPT !.op = op, !.pc = "attach", !.handle = h, !.control = c]
    BY <1>1, <1>2 DEF Invoke, codeVars, ToolInv
  <2>2. tool'.pc = "attach" /\ tool'.addr = NoAddr
    BY <2>1 DEF Idle
  <2>3. HandInv'
    BY <2>2, TargetAssumption DEF HandInv
  <2>4. alive /\ ~disturbed => fn # "half"
    BY <2>1 DEF PatchInv, ChainInv
  <2> QED
    BY <2>1, <2>3, <2>4, CodeFrame
<1>3. CASE TargetGone
  BY <1>3 DEF TargetGone, KeepTarget, targetVars, PatchInv
<1>4. CASE Detach
  <2>1. /\ UNCHANGED <<fn, mem, chain, life, disturbed, alive>> /\ tool.pc = "detach"
        /\ tool' = Idle
    BY <1>4 DEF Detach, LetGo, codeVars
  <2>2. HandInv'
    BY <2>1 DEF HandInv, Idle
  <2>3. alive /\ ~disturbed => fn # "half"
    BY <2>1 DEF PatchInv, ChainInv
  <2> QED
    BY <2>1, <2>2, <2>3, CodeFrame
<1>5. CASE Killed
  <2>1. /\ UNCHANGED <<fn, mem, chain, life, alive>> /\ tool' = Idle
        /\ disturbed' = (disturbed \/ fn = "half")
    BY <1>5 DEF Killed, LetGo, codeVars
  <2>2. HandInv'
    BY <2>1 DEF HandInv, Idle
  <2> QED
    BY <2>1, <2>2 DEF PatchInv, ChainInv, Complete, Layer
<1>6. CASE TargetStep
  <2>1. UNCHANGED <<tool, chain, disturbed>> /\ ThreadStep
    BY <1>6 DEF TargetStep, toolVars
  <2>2. /\ UNCHANGED <<fn, mem, life>>
        /\ alive' => alive
    BY <1>1, <2>1, ThreadsKeep
  <2>3. HandInv => HandInv'
    BY <2>1, <2>2 DEF HandInv, Unchained, Layer, Current
  <2>4. alive /\ ~disturbed => (fn = "half" => tool'.pc \in {"jumped", "unjumped"})
    BY <2>1 DEF PatchInv, ChainInv
  <2> QED
    BY <2>1, <2>2, <2>3, <2>4, CodeFrame
<1>7. CASE StartAgain
  <2>1. fn' = "orig" /\ chain' = <<>> /\ tool' = tool /\ tool.op = "none"
    BY <1>7 DEF StartAgain, Restart, Fresh
  <2>2. ChainInv'
    BY <2>1 DEF ChainInv, Layer
  <2>3. HandInv'
    BY <2>1 DEF HandInv
  <2> QED
    BY <2>2, <2>3 DEF PatchInv
<1>8. CASE UNCHANGED vars
  <2>1. UNCHANGED <<fn, mem, chain, life, disturbed, alive, tool>>
    BY <1>8 DEF vars, targetVars, toolVars, codeVars
  <2>2. HandInv => HandInv'
    BY <2>1 DEF HandInv, Unchained, Layer, Current
  <2> QED
    BY <2>1, <2>2 DEF PatchInv, ChainInv, Complete, Layer
<1>9. CASE ToolStep
  BY <1>3, <1>4, <1>9, CodeKept, RegionWritten, JumpInstalled, JumpRemoved DEF ToolStep
<1>10. CASE TimeWarp \/ RevertInjection \/ UpdateTime
  BY <1>2, <1>10 DEF TimeWarp, RevertInjection, UpdateTime
<1> QED
  BY <1>5, <1>6, <1>7, <1>8, <1>9, <1>10 DEF Next

\* Patches nest at every step of every invocation, failed, interrupted and
\* killed ones included, as long as handles are reverted latest first and no
\* kill falls within the twelve bytes: for any threads, regions, signals and
\* lives.
THEOREM PatchesNest == Spec => []PatchChain
<1>1. Init => TypeInv /\ PatchInv
  <2>1. SUFFICES ASSUME Init PROVE PatchInv
    BY InitTyped
  <2>2. fn = "orig" /\ chain = <<>> /\ tool = Idle
    BY <2>1 DEF Init, TargetInit, Fresh
  <2> QED
    BY <2>2 DEF PatchInv, ChainInv, HandInv, Layer, Idle
<1>2. TypeInv /\ PatchInv /\ [Next]_vars => (TypeInv /\ PatchInv)'
  BY TypeStep, PatchStep
<1>3. PatchInv => PatchChain
  BY DEF PatchInv, ChainInv, Complete, PatchChain
<1> QED
  BY <1>1, <1>2, <1>3, PTL DEF Spec
-----------------------------------------------------------------------------
\* No region leaks.

\* Nothing has disturbed the target or the tool.
Calm == alive /\ ~disturbed /\ sent = 0 /\ kills = 0

Mapped == {a \in Addrs : mem[a].mapped}
Patched == {chain[i] : i \in DOMAIN chain}

\* The region that the invocation has just allocated, or is about to free.
Held ==
  {a \in Addrs : \/ tool.op = "inject" /\ tool.addr = a /\ tool.pc # "detach"
                 \/ tool.op = "revert" /\ tool.handle.addr = a /\ tool.pc \in {"poke", "step"}}

\* Without signals Main's step executes the call: the SIGSTOP of the attach was
\* reported before.  So an injection has an address exactly if mmap gave it one,
\* and only an invocation that found Main stranded ends with a region in hand.
OwnedInv ==
  Calm =>
    /\ ~signal
    /\ tool.pc \notin {"none", "attach", "detach"} => ~stopPending
    /\ tool.op = "inject" /\ tool.pc = "restore" =>
         \/ tool.result = "done" /\ tool.addr \in Addrs
         \/ tool.result = "failed" /\ tool.addr = NoAddr
    /\ tool.pc = "payload" => tool.addr \in Addrs
    /\ ~Doomed => Mapped \subseteq Patched \cup Held

\* Whatever the threads do, nobody's signals stay nobody's, and Main finds no
\* way back from a region that is gone.
LEMMA DoomStays ==
  ASSUME TargetTypeOK, ThreadStep
  PROVE  /\ Doomed => Doomed'
         /\ UNCHANGED stopPending
         /\ sent' = 0 => sent = 0 /\ (signal' => signal)
<1>1. ASSUME NEW t \in Threads, NEW p, NEW a, Move(t, p, a)
      PROVE  /\ UNCHANGED <<stopPending, sent, signal>>
             /\ t # Main \/ p = "beyond" => (Doomed => Doomed')
  <2>1. UNCHANGED <<mem, stopPending, sent, signal>>
    BY <1>1 DEF Move, codeVars, stopVars
  <2>2. place'[t] = p /\ (t # Main => MainAt' = MainAt)
    BY <1>1, MoveOfMain
  <2> QED
    BY <2>1, <2>2 DEF Doomed, Stranded, Readable, MainAt
<1>2. ASSUME NEW t \in Threads,
             \/ Enter(t) \/ RunEntry(t) \/ RunBody(t)
             \/ RunPayload(t) \/ RunSaved(t) \/ GoAstray(t)
      PROVE  \E p, a : Move(t, p, a) /\ (t = Main /\ Doomed => p = "beyond")
  <2>1. CASE Enter(t)
    BY <2>1 DEF Enter, JumpTo, Doomed, Stranded
  <2>2. CASE RunEntry(t)
    BY <2>2 DEF RunEntry, Doomed, Stranded
  <2>3. CASE RunBody(t)
    BY <2>3 DEF RunBody, Doomed, Stranded
  <2>4. CASE RunPayload(t)
    BY <2>4 DEF RunPayload, Doomed, Stranded
  <2>5. CASE RunSaved(t)
    BY <2>5 DEF RunSaved, JumpTo, Doomed, Stranded
  <2>6. CASE GoAstray(t)
    BY <2>6 DEF GoAstray
  <2> QED
    BY <1>2, <2>1, <2>2, <2>3, <2>4, <2>5, <2>6
<1>3. CASE Crash \/ HandleSignal \/ Thaw
  BY <1>3 DEF Crash, HandleSignal, Thaw, codeVars, threadVars, stopVars, Doomed, Stranded,
     Readable, TargetTypeOK
<1>4. CASE SendSignal
  BY <1>4 DEF SendSignal, codeVars, threadVars, Doomed, Stranded, Readable, TargetTypeOK
<1> QED
  BY <1>1, <1>2, <1>3, <1>4 DEF ThreadStep

\* Nothing calms down but a container that starts again.
LEMMA CalmBefore ==
  ASSUME TypeInv, [Next]_vars, ~StartAgain, Calm'
  PROVE  Calm
<1>1. TargetTypeOK /\ kills \in Nat /\ sent \in Nat /\ alive \in BOOLEAN /\ disturbed \in BOOLEAN
  BY DEF TypeInv, VdsoTypeOK, TargetTypeOK
<1>2. CASE TimeWarp \/ RevertInjection \/ UpdateTime
  BY <1>1, <1>2 DEF TimeWarp, RevertInjection, UpdateTime, Invoke, Calm
<1>3. CASE ToolStep
  <2>1. UNCHANGED <<sent, alive, kills>> /\ (disturbed => disturbed')
    <3>1. CASE Attached \/ FindVdso \/ FindClockGettime \/ Poke \/ StepInterrupted \/ StepDone
               \/ Restore
      <4>1. UNCHANGED <<sent, alive>>
        BY <3>1 DEF Attached, FindVdso, FindClockGettime, Poke, StepInterrupted, StepDone,
           Restore, KeepTarget, targetVars, stopVars
      <4>2. KeepHistory
        BY <3>1 DEF Attached, FindVdso, FindClockGettime, Poke, StepInterrupted, StepDone, Restore
      <4> QED
        BY <4>1, <4>2, Zenon DEF KeepHistory
    <3>2. CASE WritePayload \/ WriteControl \/ SaveOriginal \/ WriteJump \/ JumpWritten
               \/ BytesRestored
      BY <3>2 DEF WritePayload, WriteControl, SaveOriginal, WriteJump, JumpWritten,
         BytesRestored, KeepTarget, KeepHistory, WriteRegion, WriteFunction, targetVars, stopVars
    <3>3. CASE RestoreBytes
      <4>1. disturbed => disturbed'
        BY <3>3, Zenon DEF RestoreBytes
      <4> QED
        BY <3>3, <4>1 DEF RestoreBytes, WriteFunction, KeepTarget, targetVars, stopVars
    <3>4. CASE TargetGone \/ Detach
      BY <3>4 DEF TargetGone, Detach, LetGo, KeepTarget, KeepHistory, targetVars, stopVars
    <3> QED
      BY <1>3, <3>1, <3>2, <3>3, <3>4 DEF ToolStep
  <2> QED
    BY <2>1 DEF Calm
<1>4. CASE Killed
  <2>1. kills' # 0
    BY <1>1, <1>4 DEF Killed
  <2> QED
    BY <2>1 DEF Calm
<1>5. CASE TargetStep
  <2>1. ThreadStep /\ UNCHANGED <<kills, disturbed>>
    BY <1>5 DEF TargetStep, toolVars
  <2> QED
    BY <1>1, <2>1, DoomStays, ThreadsKeep DEF Calm
<1>6. CASE UNCHANGED vars
  BY <1>6 DEF vars, targetVars, toolVars, stopVars, Calm
<1> QED
  BY <1>2, <1>3, <1>4, <1>5, <1>6 DEF Next

\* A step that maps nothing, removes no patch and drops nothing.
LEMMA HeldFrame ==
  ASSUME ~Doomed => Mapped \subseteq Patched \cup Held,
         Doomed => Doomed', Mapped' \subseteq Mapped, chain' = chain, Held \subseteq Held'
  PROVE  ~Doomed' => Mapped' \subseteq Patched' \cup Held'
BY DEF Patched

\* What tool' says of the region in hand.
LEMMA HeldAs ==
  ASSUME UNCHANGED <<tool.op, tool.handle, tool.addr>>,
         tool'.pc # "detach" \/ Held = {},
         tool.op = "revert" /\ tool.pc \in {"poke", "step"} => tool'.pc \in {"poke", "step"}
  PROVE  Held \subseteq Held'
BY DEF Held

LEMMA DoomKept ==
  ASSUME UNCHANGED <<mem, place, within>>
  PROVE  (Doomed' <=> Doomed) /\ Mapped' = Mapped
BY DEF Doomed, Stranded, Readable, Mapped

\* The steps of a calm invocation, each with the region it has in hand.
LEMMA OwnedToolStep ==
  ASSUME TypeInv, MainInv, PatchInv, OwnedInv, ToolStep, Calm, Calm'
  PROVE  OwnedInv'
<1>1. /\ VdsoTypeOK /\ ToolInv /\ tool \in Tool /\ mem \in [Addrs -> Region]
      /\ chain \in Seq(Addrs) /\ alive /\ alive' /\ ~disturbed'
      /\ tool.addr \in Addrs \cup {NoAddr}
      /\ tool.op \in {"none", "inject", "revert", "update"}
  BY ToolTyped DEF TypeInv, VdsoTypeOK, TargetTypeOK, Calm
<1>2. ChainInv /\ HandInv
  BY DEF PatchInv, Calm
<1>3. /\ ~signal
      /\ tool.pc \notin {"none", "attach", "detach"} => ~stopPending
      /\ tool.op = "inject" /\ tool.pc = "restore" =>
           \/ tool.result = "done" /\ tool.addr \in Addrs
           \/ tool.result = "failed" /\ tool.addr = NoAddr
      /\ tool.pc = "payload" => tool.addr \in Addrs
  BY DEF OwnedInv
<1>4. ~Doomed => Mapped \subseteq Patched \cup Held
  BY DEF OwnedInv
<1>5. \A a \in Addrs : a # NoAddr
  BY TargetAssumption
<1>6. CASE Attached
  <2>1. /\ tool.pc = "attach" /\ Report /\ chain' = chain
        /\ UNCHANGED <<mem, place, within>>
    BY <1>6 DEF Attached, At, KeepHistory, codeVars, threadVars
  <2>2. ~signal' /\ ~stopPending'
    BY <1>3, <2>1 DEF Report
  <2>3. /\ UNCHANGED <<tool.op, tool.handle, tool.addr>>
        /\ tool'.pc \in {"maps", "unjump", "control"}
    <3>1. tool.op \in {"inject", "revert", "update"}
      BY <1>1, <2>1 DEF ToolInv
    <3> QED
      BY <1>1, <1>6, <3>1 DEF Attached, Go, Tool
  <2>4. Held \subseteq Held'
    BY <2>1, <2>3, HeldAs
  <2> QED
    BY <1>4, <2>1, <2>2, <2>3, <2>4, DoomKept, HeldFrame DEF OwnedInv
\* A request that fails with nothing in hand.
<1>7. ASSUME Fail, UNCHANGED <<mem, place, within, chain, signal>>, Held = {} \/ Doomed
      PROVE  OwnedInv'
  <2>1. tool'.pc = "detach"
    BY <1>1, <1>7, EndTyped
  <2>2. ~Doomed' => Mapped' \subseteq Patched' \cup Held'
    <3>1. CASE Held = {}
      BY <1>4, <1>7, <3>1, DoomKept DEF Patched
    <3>2. CASE Doomed
      BY <1>7, <3>2, DoomKept
    <3> QED
      BY <1>7, <3>1, <3>2
  <2> QED
    BY <1>3, <1>7, <2>1, <2>2 DEF OwnedInv
\* A request that succeeds, or one that leaves the regions as they are.
<1>8. ASSUME NEW step \in PC \ {"none", "attach", "detach", "restore", "payload"}, Go(step),
             UNCHANGED <<stopPending, signal, place, within, chain>>,
             tool.pc \notin {"none", "attach", "detach"},
             \A a \in Addrs : mem'[a].mapped = mem[a].mapped,
             tool.op = "revert" /\ tool.pc \in {"poke", "step"} => step \in {"poke", "step"}
      PROVE  OwnedInv'
  <2>1. tool'.pc = step /\ UNCHANGED <<tool.op, tool.handle, tool.addr>>
    BY <1>1, <1>8, GoTyped
  <2>2. (Doomed' <=> Doomed) /\ Mapped' = Mapped
    BY <1>8 DEF Doomed, Stranded, Readable, Mapped
  <2>3. Held \subseteq Held'
    BY <1>8, <2>1, HeldAs
  <2>4. ~Doomed' => Mapped' \subseteq Patched' \cup Held'
    BY <1>4, <1>8, <2>2, <2>3, HeldFrame
  <2> QED
    BY <1>3, <1>8, <2>1, <2>4 DEF OwnedInv
<1>9. CASE FindVdso \/ FindClockGettime
  <2>1. /\ tool.pc \in {"maps", "elf"} /\ KeepTarget /\ KeepHistory
        /\ Go("elf") \/ Go("poke") \/ Fail
    BY <1>9 DEF FindVdso, FindClockGettime, At
  <2>2. UNCHANGED <<mem, place, within, chain, signal, stopPending>>
    BY <2>1 DEF KeepTarget, KeepHistory, targetVars, codeVars, threadVars, stopVars
  <2>3. tool.op = "inject" /\ tool.addr = NoAddr
    BY <1>1, <1>2, <2>1 DEF ToolInv, HandInv
  <2>4. Held = {}
    BY <1>5, <2>3 DEF Held
  <2> QED
    BY <1>7, <1>8, <2>1, <2>2, <2>4 DEF PC
<1>10. CASE Poke
  <2>1. tool.pc = "poke" /\ UNCHANGED <<mem, place, within, chain, stopPending, signal>>
    BY <1>10 DEF Poke, At, KeepHistory, codeVars, stopVars
  <2>2. CASE Stranded
    BY <1>7, <1>10, <2>1, <2>2 DEF Poke, Doomed
  <2>3. CASE ~Stranded
    BY <1>8, <1>10, <2>1, <2>3 DEF Poke, PC
  <2> QED
    BY <2>2, <2>3
<1>11. CASE StepInterrupted
  BY <1>3, <1>11 DEF StepInterrupted, At, Report
<1>12. CASE StepDone
  <2>1. /\ tool.pc = "step" /\ UNCHANGED <<place, within, stopPending, signal, chain>>
    BY <1>12 DEF StepDone, At, KeepHistory, threadVars, stopVars
  <2>2. ~Stranded
    BY <1>1, <2>1 DEF MainInv
  <2>3. Doomed => Doomed'
    BY <2>1, <2>2 DEF Doomed
  <2>4. ASSUME tool.op = "inject", NEW a \in Addrs, mem' = [mem EXCEPT ![a] = Zeroed],
               tool' = [tool EXCEPT !.pc = "restore", !.result = "done", !.addr = a]
        PROVE  OwnedInv'
    <3>1. tool'.op = "inject" /\ tool'.pc = "restore" /\ tool'.addr = a /\ tool'.result = "done"
      BY <1>1, <2>4 DEF Tool
    <3>2. Mapped' \subseteq Mapped \cup {a}
      BY <1>1, <2>4 DEF Mapped
    <3>3. Held = {} /\ a \in Held'
      BY <1>2, <1>5, <2>1, <2>4, <3>1 DEF Held, HandInv
    <3>4. ~Doomed' => Mapped' \subseteq Patched' \cup Held'
      BY <1>4, <2>1, <2>3, <3>2, <3>3 DEF Patched
    <3> QED
      BY <1>3, <2>1, <2>4, <3>1, <3>4 DEF OwnedInv
  <2>5. ASSUME tool.op = "inject", UNCHANGED mem,
               tool' = [tool EXCEPT !.pc = "restore", !.result = "failed"]
        PROVE  OwnedInv'
    <3>1. /\ tool'.pc = "restore" /\ tool'.result = "failed"
          /\ UNCHANGED <<tool.op, tool.handle, tool.addr>>
      BY <1>1, <2>5 DEF Tool
    <3>2. tool.addr = NoAddr
      BY <1>2, <2>1, <2>5 DEF HandInv
    <3>3. Held \subseteq Held'
      BY <2>5, <3>1, HeldAs
    <3>4. ~Doomed' => Mapped' \subseteq Patched' \cup Held'
      BY <1>4, <2>1, <2>3, <2>5, <3>3, DoomKept, HeldFrame
    <3> QED
      BY <1>3, <2>1, <3>1, <3>2, <3>4 DEF OwnedInv
  <2>6. ASSUME tool.op = "revert", mem' = [mem EXCEPT ![tool.handle.addr] = Unmapped],
               tool' = [tool EXCEPT !.pc = "restore", !.result = "done"]
        PROVE  OwnedInv'
    <3>1. tool'.op = "revert" /\ tool'.pc = "restore"
      BY <1>1, <2>6 DEF Tool
    <3>2. Mapped' \subseteq Mapped \ {tool.handle.addr}
      BY <1>1, <2>6 DEF Mapped, Unmapped
    <3>3. Held \subseteq {tool.handle.addr}
      BY <2>6 DEF Held
    <3>4. ~Doomed' => Mapped' \subseteq Patched' \cup Held'
      BY <1>4, <2>1, <2>3, <3>2, <3>3 DEF Patched
    <3> QED
      BY <1>3, <2>1, <3>1, <3>4 DEF OwnedInv
  <2> QED
    BY <1>12, <2>4, <2>5, <2>6 DEF StepDone
<1>13. CASE Restore
  <2>1. tool.pc = "restore" /\ UNCHANGED <<mem, place, within, chain, stopPending, signal>>
    BY <1>13 DEF Restore, At, KeepHistory, codeVars, stopVars
  <2>2. CASE Stranded
    BY <1>7, <1>13, <2>1, <2>2 DEF Restore, Doomed
  <2>3. CASE ~Stranded /\ tool.op = "revert"
    <3>1. Succeed
      BY <1>13, <2>3 DEF Restore
    <3>2. tool'.pc = "detach"
      BY <1>1, <3>1, EndTyped
    <3>3. Held = {}
      BY <2>1, <2>3 DEF Held
    <3>4. ~Doomed' => Mapped' \subseteq Patched' \cup Held'
      BY <1>4, <2>1, <3>3, DoomKept DEF Patched
    <3> QED
      BY <1>3, <2>1, <3>2, <3>4 DEF OwnedInv
  <2>4. CASE ~Stranded /\ tool.op # "revert"
    <3>1. tool.op = "inject"
      BY <1>1, <2>1, <2>4 DEF ToolInv
    <3>2. CASE tool.result = "failed"
      <4>1. Fail
        BY <1>13, <2>4, <3>2 DEF Restore
      <4>2. Held = {}
        BY <1>3, <1>5, <2>1, <3>1, <3>2 DEF Held
      <4> QED
        BY <1>7, <2>1, <4>1, <4>2
    <3>3. CASE tool.result # "failed"
      <4>1. Go("payload") /\ tool.addr \in Addrs
        BY <1>3, <1>13, <2>1, <2>4, <3>1, <3>3 DEF Restore
      <4>2. tool'.pc = "payload" /\ UNCHANGED <<tool.op, tool.handle, tool.addr>>
        BY <1>1, <4>1, GoTyped DEF PC
      <4>3. Held \subseteq Held'
        BY <3>1, <4>2, HeldAs
      <4>4. ~Doomed' => Mapped' \subseteq Patched' \cup Held'
        BY <1>4, <2>1, <4>3, DoomKept, HeldFrame
      <4> QED
        BY <1>3, <2>1, <4>1, <4>2, <4>4 DEF OwnedInv
    <3> QED
      BY <3>2, <3>3
  <2> QED
    BY <2>2, <2>3, <2>4
<1>14. CASE WritePayload
  <2>1. tool.pc = "payload" /\ tool.addr \in Addrs /\ tool.op = "inject" /\ KeepHistory
    BY <1>1, <1>3, <1>14 DEF WritePayload, At, ToolInv
  <2>2. /\ WriteRegion(tool.addr, [mem[tool.addr] EXCEPT !.code = TRUE])
        /\ Go("control")
    BY <1>5, <1>14, <2>1 DEF WritePayload
  <2>3. \A a \in Addrs : mem'[a].mapped = mem[a].mapped
    BY <1>1, <2>1, <2>2 DEF WriteRegion, Region
  <2> QED
    BY <1>8, <2>1, <2>2, <2>3 DEF WriteRegion, KeepHistory, threadVars, stopVars, PC
<1>15. CASE WriteControl
  <2>1. tool.pc = "control" /\ KeepHistory
    BY <1>15 DEF WriteControl, At
  <2>2. CASE tool.op = "inject"
    <3>1. mem[tool.addr].mapped /\ tool.addr \in Addrs
      BY <1>1, <1>2, <2>1, <2>2 DEF ToolInv, HandInv
    <3>2. /\ WriteRegion(tool.addr, [mem[tool.addr] EXCEPT !.control = tool.control])
          /\ Go("save")
      BY <1>15, <2>2, <3>1 DEF WriteControl
    <3>3. \A a \in Addrs : mem'[a].mapped = mem[a].mapped
      BY <1>1, <3>1, <3>2 DEF WriteRegion, Region
    <3> QED
      BY <1>8, <2>1, <2>2, <3>2, <3>3 DEF WriteRegion, KeepHistory, threadVars, stopVars, PC
  <2>3. CASE tool.op # "inject"
    <3>1. Held = {}
      BY <2>1, <2>3 DEF Held
    <3>2. CASE Fail /\ KeepTarget
      BY <1>7, <2>1, <3>1, <3>2 DEF KeepTarget, KeepHistory, targetVars, codeVars, threadVars,
         stopVars
    <3>3. CASE /\ Succeed
               /\ WriteRegion(tool.handle.addr,
                              [mem[tool.handle.addr] EXCEPT !.control = tool.control])
      <4>1. tool'.pc = "detach"
        BY <1>1, <3>3, EndTyped
      <4>2. /\ \A a \in Addrs : mem'[a].mapped = mem[a].mapped
            /\ UNCHANGED <<place, within, signal, stopPending, chain>>
        BY <1>1, <2>1, <3>3 DEF WriteRegion, Region, threadVars, stopVars, KeepHistory
      <4>3. (Doomed' <=> Doomed) /\ Mapped' = Mapped /\ Patched' = Patched
        BY <4>2 DEF Doomed, Stranded, Readable, Mapped, Patched
      <4> QED
        BY <1>3, <1>4, <3>1, <4>1, <4>2, <4>3 DEF OwnedInv
    <3> QED
      BY <1>15, <2>3, <3>2, <3>3 DEF WriteControl
  <2> QED
    BY <2>2, <2>3
<1>16. CASE SaveOriginal
  <2>1. /\ tool.pc = "save" /\ tool.addr \in Addrs /\ tool.op = "inject" /\ KeepHistory
        /\ WriteRegion(tool.addr, [mem[tool.addr] EXCEPT !.saved = fn])
    BY <1>1, <1>16 DEF SaveOriginal, At, ToolInv
  <2>2. tool'.pc = "jump" /\ tool'.op = "inject" /\ tool'.addr = tool.addr
    BY <1>1, <1>16, <2>1 DEF SaveOriginal, Tool
  <2>3. \A a \in Addrs : mem'[a].mapped = mem[a].mapped
    BY <1>1, <2>1 DEF WriteRegion, Region
  <2>4. UNCHANGED <<stopPending, signal, place, within, chain>>
    BY <2>1 DEF WriteRegion, KeepHistory, threadVars, stopVars
  <2>5. (Doomed' <=> Doomed) /\ Mapped' = Mapped
    BY <2>3, <2>4 DEF Doomed, Stranded, Readable, Mapped
  <2>6. Held \subseteq Held'
    BY <2>1, <2>2 DEF Held
  <2>7. ~Doomed' => Mapped' \subseteq Patched' \cup Held'
    BY <1>4, <2>4, <2>5, <2>6, HeldFrame
  <2> QED
    BY <1>3, <2>1, <2>2, <2>4, <2>7 DEF OwnedInv
<1>17. CASE WriteJump
  BY <1>8, <1>17 DEF WriteJump, WriteFunction, At, KeepHistory, threadVars, stopVars, PC
<1>18. CASE JumpWritten
  <2>1. /\ tool.pc = "jumped" /\ tool.addr \in Addrs /\ tool.op = "inject" /\ Succeed
        /\ chain' = Append(chain, tool.addr)
        /\ UNCHANGED <<mem, place, within, stopPending, signal>>
    BY <1>1, <1>18 DEF JumpWritten, At, ToolInv, WriteFunction, threadVars, stopVars
  <2>2. tool'.pc = "detach"
    BY <1>1, <2>1, EndTyped
  <2>3. Patched \cup {tool.addr} \subseteq Patched'
    <3>1. PICK n \in Nat : n = Len(chain)
      BY <1>1
    <3>2. /\ DOMAIN chain = 1..n /\ DOMAIN chain' = 1..(n + 1)
          /\ \A i \in 1..n : chain'[i] = chain[i]
          /\ chain'[n + 1] = tool.addr
      BY <1>1, <2>1, <3>1
    <3> QED
      BY <3>2 DEF Patched
  <2>4. Held \subseteq {tool.addr}
    BY <2>1 DEF Held
  <2>5. ~Doomed' => Mapped' \subseteq Patched' \cup Held'
    BY <1>4, <2>1, <2>3, <2>4, DoomKept
  <2> QED
    BY <1>3, <2>1, <2>2, <2>5 DEF OwnedInv
<1>19. CASE RestoreBytes
  <2>1. tool.pc = "unjump" /\ Current(tool.handle) /\ chain' = chain
    BY <1>1, <1>19 DEF RestoreBytes, At
  <2>2. WriteFunction("half") /\ Go("unjumped")
    BY <1>19, <2>1 DEF RestoreBytes, Current
  <2> QED
    BY <1>8, <2>1, <2>2 DEF WriteFunction, threadVars, stopVars, PC
<1>20. CASE BytesRestored
  <2>1. /\ tool.pc = "unjumped" /\ tool.op = "revert" /\ Go("poke")
        /\ UNCHANGED <<mem, place, within, stopPending, signal>>
    BY <1>1, <1>20 DEF BytesRestored, At, ToolInv, WriteFunction, threadVars, stopVars
  <2>2. Current(tool.handle)
    BY <1>2, <2>1 DEF HandInv
  <2>3. chain' = SubSeq(chain, 1, Len(chain) - 1) /\ chain # <<>>
    BY <1>20, <2>2 DEF BytesRestored, Current
  <2>4. tool'.pc = "poke" /\ UNCHANGED <<tool.op, tool.handle, tool.addr>>
    BY <1>1, <2>1, GoTyped DEF PC
  <2>5. PICK n \in Nat : Len(chain) = n + 1
    <3>1. Len(chain) \in Nat \ {0}
      BY <1>1, <2>3, EmptySeq
    <3> QED
      BY <3>1
  <2>6. /\ chain' \in Seq(Addrs) /\ Len(chain') = n
        /\ \A i \in 1..n : chain'[i] = chain[i]
    <3>1. Len(chain) - 1 = n
      BY <2>5
    <3> QED
      BY <1>1, <2>3, <3>1, Shorter
  <2>7. DOMAIN chain = 1..(n + 1) /\ DOMAIN chain' = 1..n
    BY <1>1, <2>5, <2>6, LenProperties
  <2>8. Patched \subseteq Patched' \cup {tool.handle.addr}
    <3>1. tool.handle.addr = chain[n + 1]
      BY <2>2, <2>5 DEF Current
    <3>2. \A i \in 1..(n + 1) : i \in 1..n \/ i = n + 1
      OBVIOUS
    <3> QED
      BY <2>6, <2>7, <3>1, <3>2 DEF Patched
  <2>9. Held = {}
    BY <2>1 DEF Held
  <2>10. Held' = Addrs \cap {tool.handle.addr}
    BY <2>1, <2>4 DEF Held
  <2>11. Mapped \subseteq Addrs
    BY DEF Mapped
  <2>12. ~Doomed' => Mapped' \subseteq Patched' \cup Held'
    BY <1>4, <2>1, <2>8, <2>9, <2>10, <2>11, DoomKept
  <2> QED
    BY <1>3, <2>1, <2>4, <2>12 DEF OwnedInv
<1>21. CASE TargetGone
  BY <1>1, <1>21 DEF TargetGone
<1>22. CASE Detach
  <2>1. /\ tool.pc = "detach" /\ tool' = Idle
        /\ UNCHANGED <<mem, place, within, signal, chain>>
    BY <1>22 DEF Detach, LetGo, codeVars
  <2>2. Held = {}
    BY <2>1 DEF Held
  <2>3. ~Doomed' => Mapped' \subseteq Patched' \cup Held'
    BY <1>4, <2>1, <2>2, DoomKept DEF Patched
  <2> QED
    BY <1>3, <2>1, <2>3, IdleTyped DEF OwnedInv
<1> QED
  BY <1>6, <1>9, <1>10, <1>11, <1>12, <1>13, <1>14, <1>15, <1>16, <1>17, <1>18, <1>19, <1>20,
     <1>21, <1>22 DEF ToolStep

LEMMA OwnedStep ==
  TypeInv /\ MainInv /\ PatchInv /\ OwnedInv /\ [Next]_vars => OwnedInv'
<1> SUFFICES ASSUME TypeInv, MainInv, PatchInv, OwnedInv, [Next]_vars PROVE OwnedInv'
  OBVIOUS
<1>1. SUFFICES ASSUME Calm' PROVE OwnedInv'
  BY DEF OwnedInv
<1>2. TargetTypeOK /\ ToolInv
  BY DEF TypeInv, VdsoTypeOK
<1>3. CASE StartAgain
  <2>1. /\ \A a \in Addrs : ~mem'[a].mapped
        /\ tool' = tool /\ tool.op = "none" /\ signal' = FALSE
    BY <1>3 DEF StartAgain, Restart, Fresh, Unmapped
  <2> QED
    BY <1>2, <2>1 DEF OwnedInv, ToolInv, Mapped
<1>4. CASE ~StartAgain
  <2>1. Calm
    BY <1>1, <1>4, CalmBefore
  <2>2. /\ ~signal /\ (tool.pc \notin {"none", "attach", "detach"} => ~stopPending)
        /\ ~Doomed => Mapped \subseteq Patched \cup Held
    BY <2>1 DEF OwnedInv
  <2>3. ASSUME NEW op, NEW h, NEW c, Invoke(op, h, c) PROVE OwnedInv'
    <3>1. /\ tool' = [Idle EXCEPT !.op = op, !.pc = "attach", !.handle = h, !.control = c]
          /\ tool.op = "none" /\ UNCHANGED <<mem, place, within, signal, chain>>
      BY <2>3 DEF Invoke, codeVars, threadVars
    <3>2. tool'.pc = "attach" /\ Held = {}
      BY <3>1 DEF Idle, Held
    <3>3. ~Doomed' => Mapped' \subseteq Patched' \cup Held'
      BY <2>2, <3>1, <3>2, DoomKept DEF Patched
    <3> QED
      BY <2>2, <3>1, <3>2, <3>3 DEF OwnedInv
  <2>4. CASE ToolStep
    BY <1>1, <2>1, <2>4, OwnedToolStep
  <2>5. CASE Killed
    <3>1. kills' # 0
      BY <2>5 DEF Killed, TypeInv, VdsoTypeOK
    <3> QED
      BY <1>1, <3>1 DEF Calm
  <2>6. CASE TargetStep
    <3>1. ThreadStep /\ UNCHANGED <<tool, chain>> /\ sent' = 0
      BY <1>1, <2>6 DEF TargetStep, toolVars, Calm
    <3>2. UNCHANGED mem /\ (Doomed => Doomed') /\ UNCHANGED stopPending /\ ~signal'
      BY <1>2, <2>2, <3>1, ThreadsKeep, DoomStays
    <3>3. Mapped' = Mapped /\ Held' = Held
      BY <3>1, <3>2 DEF Mapped, Held
    <3>4. ~Doomed' => Mapped' \subseteq Patched' \cup Held'
      BY <2>2, <3>1, <3>2, <3>3 DEF Patched
    <3> QED
      BY <2>1, <3>1, <3>2, <3>4 DEF OwnedInv
  <2>7. CASE UNCHANGED vars
    <3>1. UNCHANGED <<tool, chain, mem, place, within, signal, stopPending>>
      BY <2>7 DEF vars, toolVars, targetVars, codeVars, threadVars, stopVars
    <3>2. ~Doomed' => Mapped' \subseteq Patched' \cup Held'
      BY <2>2, <3>1, DoomKept DEF Patched, Held
    <3> QED
      BY <2>1, <3>1, <3>2 DEF OwnedInv
  <2> QED
    BY <1>4, <2>3, <2>4, <2>5, <2>6, <2>7 DEF Next, TimeWarp, RevertInjection, UpdateTime
<1> QED
  BY <1>3, <1>4

\* Injections and reverts, failed ones included, leave no region behind in a
\* target that is not disturbed: after any number of them, at any addresses and
\* in any life of the container, what is mapped is under a patch or in the
\* hands of the invocation at work.
THEOREM NoRegionLeaks == Spec => []RegionsOwned
<1>1. Init => TypeInv /\ MainInv /\ PatchInv /\ OwnedInv
  <2>1. SUFFICES ASSUME Init PROVE MainInv /\ PatchInv /\ OwnedInv
    BY InitTyped
  <2>2. MainInv
    BY <2>1 DEF Init, TargetInit, MainInv, MainUntouched, Doomed, Idle
  <2>3. PatchInv
    BY <2>1 DEF Init, TargetInit, Fresh, PatchInv, ChainInv, HandInv, Layer, Idle
  <2>4. tool.op = "none" /\ tool.pc = "none" /\ ~signal
    BY <2>1, IdleTyped DEF Init, TargetInit
  <2>5. Mapped = {}
    BY <2>1 DEF Init, TargetInit, Fresh, Unmapped, Mapped
  <2> QED
    BY <2>2, <2>3, <2>4, <2>5 DEF OwnedInv
<1>2. TypeInv /\ MainInv /\ PatchInv /\ OwnedInv /\ [Next]_vars
        => (TypeInv /\ MainInv /\ PatchInv /\ OwnedInv)'
  BY TypeStep, MainStep, PatchStep, OwnedStep
<1>3. OwnedInv => RegionsOwned
  BY DEF OwnedInv, Calm, Mapped, Patched, Held, RegionsOwned
<1> QED
  BY <1>1, <1>2, <1>3, PTL DEF Spec
=============================================================================
