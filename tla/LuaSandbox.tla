----------------------------- MODULE LuaSandbox -----------------------------
(***************************************************************************)
(* A Lua program attached to a housing (LuaProgramRuntime of lua.rs): a    *)
(* coroutine the scheduler resumes once a tick, with its own copy of the   *)
(* world, a sandboxed require, and limits on instructions, output, call    *)
(* depth, modules and source size.                                         *)
(*                                                                         *)
(* The program is arbitrary: while it runs it may do anything the sandbox  *)
(* offers.  A step of the model is one such call, or what the scheduler    *)
(* does between two invocations.  Globals, locals and values are left out; *)
(* a count hook stands for HOOK_INSTRUCTION_INTERVAL instructions, and a   *)
(* printed line for one unit of output.                                    *)
(***************************************************************************)
EXTENDS Integers, Sequences, FiniteSets

CONSTANTS
    Names,            \* module names a program may require
    Files,            \* module name -> the files it matches below the roots
    Size,             \* file -> its length
    EntrySize,        \* the length of the entry script
    DeviceCells,      \* device fields, slots and memory the program writes
    ChannelCells,     \* cable channels it writes
    Values, InitialValue,
    MaxInstructions, MaxOutput, MaxDepth, MaxModules, MaxSourceBytes,
    MaxTick,          \* bound: the last tick of a behaviour of the model
    MaxWrites,        \* bound: writes by others in a behaviour of the model
    NoSnapshot

Cells == DeviceCells \cup ChannelCells
Paths == UNION {Files[n] : n \in Names}

\* validate_limits: every limit is positive.
ValidLimits ==
    /\ MaxInstructions \in Nat \ {0} /\ MaxOutput \in Nat \ {0}
    /\ MaxDepth \in Nat \ {0} /\ MaxModules \in Nat \ {0}
    /\ MaxSourceBytes \in Nat \ {0}

\* The entry script fits, and a name matches finitely many files.
ASSUME LimitsAssumption ==
    /\ ValidLimits /\ EntrySize \in 0 .. MaxSourceBytes
    /\ Size \in [Paths -> Nat] /\ InitialValue \in Values
    /\ \A n \in Names : IsFiniteSet(Files[n])

VARIABLES
    world,         \* the simulator's world
    hostWorld,     \* LuaHostMock::world, the copy the program works on
    tick, state, wake,
    running,       \* inside resume_once
    thread,        \* "fresh", "suspended" or "dead"
    stack,         \* what the coroutine is executing
    depth,         \* the call counter of the hook
    instructions, outputBytes,
    loaded,        \* the table of require, by module name
    loading, loadedPaths, sourceBytes,  \* ModuleResolver
    faulted,
    saved,         \* a snapshot
    begun,         \* history: the world when the invocation began
    completed,     \* history: how often the body of a module has completed
    writes         \* how often others have written

vars == <<world, hostWorld, tick, state, wake, running, thread, stack, depth,
          instructions, outputBytes, loaded, loading, loadedPaths, sourceBytes,
          faulted, saved, begun, completed, writes>>

scheduling == <<tick, state, wake, thread>>
budgets == <<instructions, outputBytes>>
resolver == <<loaded, loadedPaths, sourceBytes, completed>>
outside == <<tick, state, wake, saved, begun, writes>>

-----------------------------------------------------------------------------
(* The stack of the coroutine.  A frame is the entry script, a Lua call, a  *)
(* module being required, or a coroutine the program has resumed itself,    *)
(* which catches errors.                                                    *)

Entry == [kind |-> "entry", name |-> ""]
Call == [kind |-> "call", name |-> ""]
Guard == [kind |-> "guard", name |-> ""]
Module(n) == [kind |-> "module", name |-> n]

\* How many call events a frame has had: require and resume are calls too.
Calls(frame) == IF frame.kind \in {"entry", "call"} THEN 1 ELSE 2

ModulesOf(frames) ==
    {frames[i].name : i \in {j \in DOMAIN frames : frames[j].kind = "module"}}

Top == stack[Len(stack)]
Below == SubSeq(stack, 1, Len(stack) - 1)
Guards == {i \in DOMAIN stack : stack[i].kind = "guard"}
Innermost(S) == CHOOSE i \in S : \A j \in S : j <= i

\* Return events count down, and never below zero.
Less(n, k) == IF n < k THEN 0 ELSE n - k

\* Every require removes its name, whether its module returns or fails.
LoadingAfter(names, frames) == names \ ModulesOf(frames)

\* Mistake: a caught error starts the counter again.
DepthAfter_Restarts(d) == 0

\* An error skips the return events of what it leaves; only the resume that
\* catches it returns.
DepthAfter(d) == Less(d, 1)

\* Mistake: the program's world is copied back whether it failed or not.
WorldAfterError_Copied == hostWorld

\* step: the shared world is replaced only when the invocation succeeds.
WorldAfterError == world

\* An error with the call counter at d: caught by the innermost coroutine of
\* the program, or the end of the invocation and of the thread.
Throw(d, names) ==
    \/ /\ Guards # {}
       /\ LET g == Innermost(Guards)
          IN  /\ stack' = SubSeq(stack, 1, g - 1)
              /\ loading' = LoadingAfter(names, SubSeq(stack, g, Len(stack)))
       /\ depth' = DepthAfter(d)
       /\ UNCHANGED <<world, running, thread, faulted>>
    \/ /\ Guards = {}
       /\ stack' = <<>> /\ loading' = LoadingAfter(names, stack)
       /\ depth' = d
       /\ world' = WorldAfterError
       /\ running' = FALSE /\ thread' = "dead" /\ faulted' = TRUE

-----------------------------------------------------------------------------
\* LuaProgramRuntime::new
Init ==
    /\ world = [c \in Cells |-> InitialValue] /\ hostWorld = world
    /\ tick = 0 /\ state = "Ready" /\ wake = 0
    /\ running = FALSE /\ thread = "fresh" /\ stack = <<>>
    /\ depth = 0 /\ instructions = 0 /\ outputBytes = 0
    /\ loaded = {} /\ loading = {} /\ loadedPaths = {}
    /\ sourceBytes = EntrySize
    /\ faulted = FALSE /\ saved = NoSnapshot
    /\ begun = world /\ completed = [n \in Names |-> 0]
    /\ writes = 0

(* Between two invocations.                                                *)

\* Another program, a test or the user writes the world.
WriteWorld(c, v) ==
    /\ ~running /\ writes < MaxWrites
    /\ world' = [world EXCEPT ![c] = v] /\ writes' = writes + 1
    /\ UNCHANGED <<hostWorld, scheduling, running, stack, depth, budgets,
                   resolver, loading, faulted, saved, begun>>

\* step: the program gets a copy of the world, and its coroutine goes on
\* where it stopped or starts afresh.
Resume ==
    /\ ~running /\ state = "Ready" /\ thread # "dead"
    /\ running' = TRUE /\ hostWorld' = world /\ begun' = world
    /\ \/ /\ thread = "suspended" /\ UNCHANGED <<stack, depth>>
       \/ /\ thread = "fresh"
          /\ stack' = <<Entry>> /\ depth' = depth + 1
    /\ UNCHANGED <<world, scheduling, budgets, resolver, loading, faulted,
                   saved, writes>>

\* The coroutine has ended with an error: resuming it is an error again.
ResumeFails ==
    /\ ~running /\ state = "Ready" /\ thread = "dead"
    /\ hostWorld' = world /\ begun' = world /\ faulted' = TRUE
    /\ UNCHANGED <<world, scheduling, running, stack, depth, budgets, resolver,
                   loading, saved, writes>>

\* The scheduler moves on only when the slot has given way.
BeginTick ==
    /\ ~running /\ state = "Waiting" /\ tick < MaxTick
    /\ tick' = tick + 1
    /\ state' = IF wake <= tick' THEN "Ready" ELSE "Waiting"
    /\ UNCHANGED <<world, hostWorld, wake, thread, running, stack, depth,
                   budgets, resolver, loading, faulted, saved, begun,
                   writes>>

TakeSnapshot ==
    /\ ~running /\ saved = NoSnapshot
    /\ saved' = [world |-> world, tick |-> tick, state |-> state,
                 wake |-> wake, faulted |-> faulted]
    /\ UNCHANGED <<world, hostWorld, scheduling, running, stack, depth, budgets,
                   resolver, loading, faulted, begun, writes>>

\* restore: the bookkeeping comes back.  The coroutine, its modules and its
\* counters stay as they are.
Restore ==
    /\ ~running /\ saved # NoSnapshot
    /\ world' = saved.world /\ hostWorld' = saved.world
    /\ tick' = saved.tick /\ state' = saved.state /\ wake' = saved.wake
    /\ faulted' = saved.faulted /\ saved' = NoSnapshot
    /\ UNCHANGED <<thread, running, stack, depth, budgets, resolver, loading,
                   begun, writes>>

-----------------------------------------------------------------------------
(* What a running program does.                                            *)

\* device:set, slot:set, setMemory, ic.set
WriteDevice(c, v) ==
    /\ running /\ depth < MaxDepth
    /\ hostWorld' = [hostWorld EXCEPT ![c] = v]
    /\ UNCHANGED <<world, outside, running, thread, stack, depth, budgets,
                   resolver, loading, faulted>>

\* ic.write
WriteChannel(c, v) ==
    /\ running /\ depth < MaxDepth
    /\ hostWorld' = [hostWorld EXCEPT ![c] = v]
    /\ UNCHANGED <<world, outside, running, thread, stack, depth, budgets,
                   resolver, loading, faulted>>

\* An error at call depth d, with nothing else done.
Raises(d) ==
    /\ running /\ Throw(d, loading)
    /\ UNCHANGED <<hostWorld, outside, budgets, resolver>>

\* A call of the host that fails (a missing device, pin, field or address), or
\* an error in the script, which needs no call.
HostRaises == Raises(depth) \/ Raises(depth + 1)

\* A library the profile leaves out.  pcall is one: only a coroutine catches.
DeniedCall == Raises(depth + 1)

\* The count hook.  Beyond the limit the count makes no difference any more.
CountInstructions ==
    /\ running
    /\ \/ /\ instructions < MaxInstructions
          /\ instructions' = instructions + 1
          /\ UNCHANGED <<world, running, thread, stack, loading, faulted, depth>>
       \/ /\ instructions >= MaxInstructions
          /\ instructions' = MaxInstructions + 1
          /\ Throw(depth, loading)
    /\ UNCHANGED <<hostWorld, outside, outputBytes, resolver>>

\* print: the lines are collected after the invocation, the count is kept.
PrintLine ==
    /\ running /\ depth < MaxDepth
    /\ \/ /\ outputBytes < MaxOutput
          /\ outputBytes' = outputBytes + 1
          /\ UNCHANGED <<world, running, thread, stack, loading, faulted, depth>>
       \/ /\ outputBytes >= MaxOutput
          /\ Throw(depth + 1, loading)
          /\ UNCHANGED outputBytes
    /\ UNCHANGED <<hostWorld, outside, instructions, resolver>>

\* The call hook: a call too deep is an error in the caller.
CallFunction ==
    /\ running
    /\ IF depth < MaxDepth
       THEN /\ stack' = Append(stack, Call) /\ depth' = depth + 1
            /\ UNCHANGED <<world, running, thread, loading, faulted>>
       ELSE Throw(depth + 1, loading)
    /\ UNCHANGED <<hostWorld, outside, budgets, resolver>>

\* The program resumes a coroutine of its own.  When the body is the call too
\* deep, the resume catches the error at once.
ResumeCoroutine ==
    /\ running /\ depth < MaxDepth
    /\ IF depth + 2 <= MaxDepth
       THEN stack' = Append(stack, Guard) /\ depth' = depth + 2
       ELSE UNCHANGED stack /\ depth' = DepthAfter(depth + 2)
    /\ UNCHANGED <<world, hostWorld, outside, running, thread, budgets,
                   resolver, loading, faulted>>

\* A coroutine of the program yields, which a require above it forbids.  Its
\* resume returns; what it was calling stays counted.
CoroutineYields ==
    /\ running /\ depth < MaxDepth /\ Guards # {}
    /\ LET g == Innermost(Guards)
       IN  /\ ModulesOf(SubSeq(stack, g, Len(stack))) = {}
           /\ stack' = SubSeq(stack, 1, g - 1)
    /\ UNCHANGED <<world, hostWorld, outside, running, thread, depth, budgets,
                   resolver, loading, faulted>>

\* The return hook.
ReturnFunction ==
    /\ running /\ Top.kind \in {"call", "guard"}
    /\ stack' = Below /\ depth' = Less(depth, Calls(Top))
    /\ UNCHANGED <<world, hostWorld, outside, running, thread, budgets,
                   resolver, loading, faulted>>

-----------------------------------------------------------------------------
(* require.                                                                *)

\* resolve_module: a name is good for one file, neither none nor several.
Resolves(n) == Cardinality(Files[n]) = 1

\* The conditions under which a module that is not cached is looked up in
\* vain: it is being loaded, its name matches no file or several, or there
\* are too many modules.
Refused(n) ==
    \/ n \in loading
    \/ ~Resolves(n)
    \/ /\ Files[n] \cap loadedPaths = {}
       /\ Cardinality(loadedPaths) >= MaxModules

RequireRefused(n) ==
    /\ running /\ depth < MaxDepth /\ n \notin loaded /\ Refused(n)
    /\ Throw(depth + 1, loading)
    /\ UNCHANGED <<hostWorld, outside, budgets, resolver>>

\* Mistake: a source that is too long leaves its name behind.
NamesAfterRead_Kept(n) == loading \cup {n}

NamesAfterRead(n) == loading

\* The file cannot be read, or is too much source.  Its path is kept.
RequireUnreadable(n) ==
    /\ running /\ depth < MaxDepth /\ n \notin loaded /\ ~Refused(n)
    /\ loadedPaths' = loadedPaths \cup Files[n]
    /\ Throw(depth + 1, NamesAfterRead(n))
    /\ UNCHANGED <<hostWorld, outside, budgets, loaded, sourceBytes, completed>>

\* Mistake: sizes are compared one by one.
Fits_Singly(n) == \A p \in Files[n] : Size[p] <= MaxSourceBytes

Fits(n) == \A p \in Files[n] : sourceBytes + Size[p] <= MaxSourceBytes

\* The source is taken; it does not compile, or its chunk is called.
RequireLoads(n) ==
    /\ running /\ depth < MaxDepth /\ n \notin loaded /\ ~Refused(n) /\ Fits(n)
    /\ loadedPaths' = loadedPaths \cup Files[n]
    /\ \E p \in Files[n] : sourceBytes' = sourceBytes + Size[p]
    /\ \/ Throw(depth + 1, loading)
       \/ depth + 2 > MaxDepth /\ Throw(depth + 2, loading)
       \/ /\ depth + 2 <= MaxDepth
          /\ loading' = loading \cup {n}
          /\ stack' = Append(stack, Module(n)) /\ depth' = depth + 2
          /\ UNCHANGED <<world, running, thread, faulted>>
    /\ UNCHANGED <<hostWorld, outside, budgets, loaded, completed>>

\* A module that returns nil is remembered as true.
Cached(n) == {loaded \cup {n}}

ModuleReturns ==
    /\ running /\ Top.kind = "module"
    /\ loaded' \in Cached(Top.name)
    /\ loading' = loading \ {Top.name}
    /\ completed' = [completed EXCEPT ![Top.name] = @ + 1]
    /\ stack' = Below /\ depth' = Less(depth, Calls(Top))
    /\ UNCHANGED <<world, hostWorld, outside, running, thread, budgets,
                   loadedPaths, sourceBytes, faulted>>

-----------------------------------------------------------------------------
(* The end of an invocation.                                               *)

EndInvocation(next) ==
    /\ running' = FALSE /\ thread' = next /\ world' = hostWorld
    /\ state' = "Waiting" /\ wake' = tick + 1
    /\ UNCHANGED <<hostWorld, tick, budgets, resolver, loading, faulted, saved,
                   begun, writes>>

\* The entry script returns: the next tick starts it again.
EntryReturns ==
    /\ running /\ stack = <<Entry>>
    /\ stack' = <<>> /\ depth' = Less(depth, 1)
    /\ EndInvocation("fresh")

\* coroutine.yield, outside a require and outside coroutines of the program's
\* own: the rest of the script is left for the next tick.
YieldTick ==
    /\ running /\ \A i \in DOMAIN stack : stack[i].kind \in {"entry", "call"}
    /\ UNCHANGED <<stack, depth>>
    /\ EndInvocation("suspended")

Require ==
    \/ \E n \in Names : RequireRefused(n) \/ RequireUnreadable(n) \/ RequireLoads(n)
    \/ ModuleReturns

Run ==
    \/ \E c \in DeviceCells, v \in Values : WriteDevice(c, v)
    \/ \E c \in ChannelCells, v \in Values : WriteChannel(c, v)
    \/ HostRaises \/ DeniedCall \/ CountInstructions \/ PrintLine
    \/ CallFunction \/ ReturnFunction
    \/ ResumeCoroutine \/ CoroutineYields
    \/ Require \/ EntryReturns \/ YieldTick

Next ==
    \/ \E c \in Cells, v \in Values : WriteWorld(c, v)
    \/ Resume \/ ResumeFails \/ BeginTick \/ TakeSnapshot \/ Restore \/ Run

Spec == Init /\ [][Next]_vars

-----------------------------------------------------------------------------
(* Properties.                                                             *)

\* Type correctness, and the limits of the sandbox: whatever a program does,
\* its output, its modules and its source stay within them, and a counter
\* passes its limit by one call or one hook at most.
TypeOK ==
    /\ world \in [Cells -> Values] /\ hostWorld \in [Cells -> Values]
    /\ tick \in Nat /\ wake \in Nat /\ state \in {"Ready", "Waiting"}
    /\ running \in BOOLEAN /\ faulted \in BOOLEAN
    /\ thread \in {"fresh", "suspended", "dead"}
    /\ depth \in 0 .. MaxDepth + 1 /\ outputBytes \in 0 .. MaxOutput
    /\ instructions \in 0 .. MaxInstructions + 1
    /\ sourceBytes \in 0 .. MaxSourceBytes
    /\ loaded \subseteq Names /\ loading \subseteq Names
    /\ loadedPaths \subseteq Paths /\ Cardinality(loadedPaths) <= MaxModules

\* The names require takes for being loaded are exactly those of the modules
\* on the stack, each once, whatever errors have passed through it: no module
\* is refused as cyclic that is not, and none is entered twice.
LoadingExact ==
    /\ loading = ModulesOf(stack)
    /\ \A i, j \in DOMAIN stack :
          stack[i].kind = "module" /\ stack[i] = stack[j] => i = j

\* The body of a module completes at most once in the life of a program, and
\* is cached from then on.
ModuleCompletesOnce ==
    \A n \in Names : completed[n] <= 1 /\ (n \in loaded <=> completed[n] = 1)

\* What require remembers is what happened: no module is refused, entered or
\* run again for a reason that is not there (install_require).
RequireExact == LoadingExact /\ ModuleCompletesOnce

\* The call events of the frames of a stack: one each, and one more for those
\* that have had two.
CallsIn(frames) ==
    Len(frames) + Cardinality({i \in DOMAIN frames : Calls(frames[i]) = 2})

\* The hook never counts fewer calls than the program is in, whatever errors
\* and yields have passed: no program evades the recursion limit, and no
\* running program is beyond it.
DepthCovers ==
    /\ CallsIn(stack) <= depth
    /\ running => depth <= MaxDepth

\* An invocation is all or nothing: until it ends, others see the world it
\* began with; then they see all it has written, or, when it ended with an
\* error, nothing of it.
AllOrNothing ==
    [][running => world' = IF running' \/ thread' = "dead" THEN begun
                                                           ELSE hostWorld]_vars
=============================================================================
