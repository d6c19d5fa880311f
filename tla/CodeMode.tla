------------------------------- MODULE CodeMode ------------------------------
(***************************************************************************)
(* The programs one AgentCell executes: execute_typescript of a run,       *)
(* snippets invoked by a route or by the alarm, and the snippets these     *)
(* test and invoke in turn (runtime.ts, isolate.ts, capabilities.ts,       *)
(* agent-cell.ts).                                                         *)
(*                                                                         *)
(* A program is any sequence of tool calls.  The isolate admits a call,    *)
(* the host checks cancellation, fence, grant and budget (requireCap), and *)
(* only then the tool runs, to its first await in one step.  A call that   *)
(* times out is forgotten by the isolate and goes on in the host.  The     *)
(* isolate's own count of calls, at least what is left of the shared       *)
(* budget, is left out.                                                    *)
(*                                                                         *)
(* The versions are those of one snippet name.  Their test results and the *)
(* activation are left out: they select the version an invocation names,   *)
(* which is any here.  Approvals are AgentRuns', schedules Schedules',     *)
(* delegated tasks Delegation's.  Fuel, memory and deadlines are a program *)
(* that ends at any time.                                                  *)
(***************************************************************************)
EXTENDS Integers, FiniteSets

CONSTANTS
    Cap,          \* capabilities
    MemoryCap,    \* the one of the memory and tasks tools
    SnippetsCap,  \* the one of the snippets tools
    Grants,       \* bound: what the operator grants
    Requirements, \* bound: what a snippet requires
    MaxExecs,     \* bound: executions
    MaxRoots,     \* bound: those that are not nested
    MaxVersions,  \* bound: versions of the snippet
    MaxGen,       \* bound: runs
    HostCalls,    \* LIMITS.hostCallsPerExecution
    Concurrent    \* LIMITS.concurrentHostCalls

ASSUME CapAssumption ==
    /\ {MemoryCap, SnippetsCap} \subseteq Cap
    /\ Grants \subseteq SUBSET Cap /\ Requirements \subseteq SUBSET Cap
ASSUME BoundsAssumption ==
    /\ MaxExecs \in Nat \ {0} /\ MaxVersions \in Nat \ {0} /\ MaxGen \in Nat
    /\ MaxRoots \in Nat
    /\ HostCalls \in Nat \ {0} /\ Concurrent \in Nat \ {0}

VARIABLES
    generation,   \* currentGeneration
    runActive,    \* a run streams
    session,      \* its budget and its grants
    stopped,      \* the generations whose run was told to stop
    granted,      \* agent.granted_capabilities
    execs,        \* executions so far
    state,        \* of an execution: "free", "running", "ended"
    mode,         \* live, test or schedule
    parent,       \* the execution that called executeSnippet, or 0
    owner,        \* the execution or run whose budget it shares
    allowed,      \* ctx.allowed
    gen,          \* ctx.generation
    signal,       \* the run whose abort signal it has, or 0
    testing,      \* the version it tests, or 0
    awaited,      \* the isolate of the parent still waits for it
    inFlight,     \* execState.inFlightHostCalls
    saving,       \* snippets_save after its first await
    versions,     \* snippet_versions
    required,     \* snippet_versions.required_capabilities
    budget,       \* what is left of each shared budget
    used,         \* host calls that passed its check
    wrote         \* the execution that changed memory or tasks in this step, or 0

run == <<generation, runActive, session, stopped>>
contexts == <<execs, state, mode, parent, owner, allowed, gen, signal, testing>>
isolates == <<awaited, inFlight>>
snippets == <<versions, required>>
vars == <<run, granted, contexts, isolates, saving, snippets, budget, used, wrote>>

Exec == 1 .. MaxExecs
Version == 1 .. MaxVersions

\* The budget of a run, and that of an execution that has one of its own.
OfRun(g) == <<"run", g>>
OfExec(x) == <<"exec", x>>
Owner == {OfRun(g) : g \in 0 .. MaxGen} \cup {OfExec(x) : x \in Exec}

Init ==
    /\ generation = 0 /\ runActive = FALSE /\ session = {}
    /\ stopped = {} /\ granted = Cap
    /\ execs = 0
    /\ state = [x \in Exec |-> "free"]
    /\ mode = [x \in Exec |-> "live"]
    /\ parent = [x \in Exec |-> 0]
    /\ owner = [x \in Exec |-> OfExec(x)]
    /\ allowed = [x \in Exec |-> {}]
    /\ gen = [x \in Exec |-> 0]
    /\ signal = [x \in Exec |-> 0]
    /\ testing = [x \in Exec |-> 0]
    /\ awaited = [x \in Exec |-> FALSE]
    /\ inFlight = [x \in Exec |-> 0]
    /\ saving = {}
    /\ versions = {}
    /\ required = [v \in Version |-> {}]
    /\ budget = [o \in Owner |-> HostCalls]
    /\ used = [o \in Owner |-> 0]
    /\ wrote = 0

------------------------------------------------------------------------------
(* What other handlers of the cell change. *)

\* runConversation reads the grants once.
StartRun ==
    /\ ~runActive /\ generation < MaxGen
    /\ generation' = generation + 1
    /\ runActive' = TRUE
    /\ session' = granted
    /\ wrote' = 0
    /\ UNCHANGED <<stopped, granted, contexts, isolates, saving, snippets, budget,
                   used>>

EndRun ==
    /\ runActive
    /\ runActive' = FALSE
    /\ session' = {}
    /\ wrote' = 0
    /\ UNCHANGED <<generation, stopped, granted, contexts, isolates, saving,
                   snippets, budget, used>>

\* cancel_requested, and the abort of its controller
Stop ==
    /\ runActive
    /\ stopped' = stopped \cup {generation}
    /\ wrote' = 0
    /\ UNCHANGED <<generation, runActive, session, granted, contexts, isolates,
                   saving, snippets, budget, used>>

SetCapabilities ==
    /\ granted' \in Grants
    /\ wrote' = 0
    /\ UNCHANGED <<run, contexts, isolates, saving, snippets, budget, used>>

------------------------------------------------------------------------------
(* executeProgram *)

NextExec == execs + 1

\* A new execution with its context and its isolate.
Execute(as, by, o, caps, g, s, v) ==
    /\ execs < MaxExecs
    /\ execs' = NextExec
    /\ state' = [state EXCEPT ![NextExec] = "running"]
    /\ mode' = [mode EXCEPT ![NextExec] = as]
    /\ parent' = [parent EXCEPT ![NextExec] = by]
    /\ owner' = [owner EXCEPT ![NextExec] = o]
    /\ allowed' = [allowed EXCEPT ![NextExec] = caps]
    /\ gen' = [gen EXCEPT ![NextExec] = g]
    /\ signal' = [signal EXCEPT ![NextExec] = s]
    /\ testing' = [testing EXCEPT ![NextExec] = v]

MayStart == Cardinality({x \in 1 .. execs : parent[x] = 0}) < MaxRoots

\* execute_typescript of a run: every program has a whole isolate budget and
\* shares that of the run.
StartProgram ==
    /\ runActive /\ MayStart
    /\ Execute("live", 0, OfRun(generation), session, generation, generation, 0)
    /\ wrote' = 0
    /\ UNCHANGED <<run, granted, awaited, inFlight, saving, snippets, budget, used>>

\* runtimeOptions: what it holds of the run that streams is its abort signal.
RuntimeSignal == IF runActive THEN generation ELSE 0

\* POST /snippets/invoke (live) and the alarm (schedule)
InvokeSnippet(v) ==
    /\ v \in versions /\ required[v] \subseteq granted /\ MayStart
    /\ \E as \in {"live", "schedule"} :
         Execute(as, 0, OfExec(NextExec), required[v], generation,
                 RuntimeSignal, 0)
    /\ wrote' = 0
    /\ UNCHANGED <<run, granted, awaited, inFlight, saving, snippets, budget, used>>

------------------------------------------------------------------------------
(* invokeBinding and requireCap *)

Admitted(x) ==
    state[x] = "running" /\ inFlight[x] < Concurrent

Gate(x, cap) ==
    /\ signal[x] \notin stopped
    /\ gen[x] = generation
    /\ cap \in allowed[x]
    /\ budget[owner[x]] > 0

\* consumeHostCall
Charged(x) ==
    /\ budget' = [budget EXCEPT ![owner[x]] = @ - 1]
    /\ used' = [used EXCEPT ![owner[x]] = @ + 1]

\* The call ends without an effect on what is modelled.
Reads(x, cap) ==
    /\ Admitted(x)
    /\ Gate(x, cap) /\ Charged(x)
    /\ wrote' = 0
    /\ UNCHANGED <<run, granted, contexts, awaited, inFlight, saving, snippets>>

\* memory_get, memory_list; a change of memory or tasks that is refused
ReadMemory(x) == Reads(x, MemoryCap)

\* snippets_search, snippets_inspect; a save, test or invocation that is refused
ReadSnippets(x) == Reads(x, SnippetsCap)

\* config_get, config_update (preferences are left out), resources_list_eligible
UseOther(x) == \E c \in Cap \ {MemoryCap, SnippetsCap} : Reads(x, c)

\* memory_set, memory_delete, tasks_create, tasks_update, tasks_complete,
\* tasks_delete: a test changes its scratch.
Write(x) ==
    /\ Admitted(x)
    /\ Gate(x, MemoryCap) /\ Charged(x)
    /\ wrote' = IF mode[x] = "test" THEN 0 ELSE x
    /\ UNCHANGED <<run, granted, contexts, awaited, inFlight, saving, snippets>>

------------------------------------------------------------------------------
(* The snippets tools *)

NextVersion ==
    CHOOSE n \in 1 .. MaxVersions + 1 :
      (n = 1 \/ n - 1 \in versions) /\ \A v \in versions : v < n

\* snippets_save takes its version before it awaits the hash.
SnippetsSave(x) ==
    /\ Admitted(x)
    /\ Gate(x, SnippetsCap) /\ Charged(x)
    /\ NextVersion <= MaxVersions
    /\ \E caps \in Requirements :
         /\ mode[x] # "live" => caps \subseteq allowed[x]
         /\ [exec |-> x, version |-> NextVersion, caps |-> caps] \notin saving
         /\ saving' = saving \cup
              {[exec |-> x, version |-> NextVersion, caps |-> caps]}
    /\ inFlight' = [inFlight EXCEPT ![x] = @ + 1]
    /\ wrote' = 0
    /\ UNCHANGED <<run, granted, contexts, awaited, snippets>>

\* The row is refused when another save took the version: UNIQUE(name,
\* version).  Nothing is checked again.
SaveRow(c) ==
    /\ c \in saving
    /\ saving' = saving \ {c}
    /\ inFlight' = [inFlight EXCEPT ![c.exec] = @ - 1]
    /\ IF c.version \in versions
         THEN UNCHANGED <<versions, required>>
         ELSE /\ versions' = versions \cup {c.version}
              /\ required' = [required EXCEPT ![c.version] = c.caps]
    /\ wrote' = 0
    /\ UNCHANGED <<run, granted, contexts, awaited,
                   budget, used>>

\* Mutant: the grants of the agent bound every snippet.
ParentGrants(x) == granted

\* options.allowed, which the program of a run does not have.
Parent(x) == IF owner[x] = OfRun(gen[x]) /\ parent[x] = 0 THEN granted ELSE allowed[x]

\* narrowCapabilities, and the grants once more for a schedule.
MayExecute(x, v, as) ==
    /\ required[v] \subseteq Parent(x)
    /\ as = "schedule" => required[v] \subseteq granted

\* Mutant: every snippet that is called gets a budget of its own.
BudgetOfExec(x) == OfExec(NextExec)

\* sharedBudget
BudgetOf(x) == owner[x]

\* The isolate of the parent waits for it with one of its calls in flight.
Nest(x, v, as, tested) ==
    /\ v \in versions /\ MayExecute(x, v, as)
    /\ Execute(as, x, BudgetOf(x), required[v], gen[x], signal[x], tested)
    /\ awaited' = [awaited EXCEPT ![NextExec] = TRUE]
    /\ inFlight' = [inFlight EXCEPT ![x] = @ + 1]

\* Mutant: a nested execution is live unless told otherwise.
ModeLive(x) == IF mode[x] = "schedule" THEN "schedule" ELSE "live"

\* mode ?? options.mode
ModeOf(x) == mode[x]

SnippetsInvoke(x, v) ==
    /\ Admitted(x)
    /\ Gate(x, SnippetsCap) /\ Charged(x)
    /\ Nest(x, v, ModeOf(x), 0)
    /\ wrote' = 0
    /\ UNCHANGED <<run, granted, saving, snippets>>

SnippetsTest(x, v) ==
    /\ Admitted(x)
    /\ Gate(x, SnippetsCap) /\ Charged(x)
    /\ Nest(x, v, "test", v)
    /\ wrote' = 0
    /\ UNCHANGED <<run, granted, saving, snippets>>

------------------------------------------------------------------------------
(* The ends of executions and calls *)

\* Mutant: the slot of a call is released by its timeout and by its end.
ReleasedTwice(x) ==
    inFlight' = [inFlight EXCEPT ![parent[x]] = @ - 1]

\* The finally of invokeBinding, once for each call.
Released(x) ==
    inFlight' = IF awaited[x] THEN [inFlight EXCEPT ![parent[x]] = @ - 1]
                ELSE inFlight

\* The program ends, or runs out of fuel, memory or time.
End(x) ==
    /\ state[x] = "running"
    /\ state' = [state EXCEPT ![x] = "ended"]
    /\ IF parent[x] = 0 THEN UNCHANGED inFlight ELSE Released(x)
    /\ awaited' = [awaited EXCEPT ![x] = FALSE]
    /\ wrote' = 0
    /\ UNCHANGED <<run, granted, execs, mode, parent, owner, allowed, gen, signal,
                   testing, saving, snippets, budget,
                   used>>

\* hostCallTimeoutMs, which is less than executionTimeoutMs.
HostCallTimesOut(x) ==
    /\ state[x] = "running" /\ awaited[x]
    /\ Released(x)
    /\ awaited' = [awaited EXCEPT ![x] = FALSE]
    /\ wrote' = 0
    /\ UNCHANGED <<run, granted, contexts, saving, snippets, budget, used>>

------------------------------------------------------------------------------
Next ==
    \/ StartRun \/ EndRun \/ Stop
    \/ SetCapabilities
    \/ StartProgram
    \/ \E v \in Version : InvokeSnippet(v)
    \/ \E x \in Exec :
         \/ ReadMemory(x) \/ ReadSnippets(x) \/ UseOther(x)
         \/ Write(x)
         \/ SnippetsSave(x)
         \/ End(x)
         \/ HostCallTimesOut(x)
         \/ \E v \in Version :
              SnippetsInvoke(x, v) \/ SnippetsTest(x, v)
    \/ \E c \in saving : SaveRow(c)

Spec == Init /\ [][Next]_vars

------------------------------------------------------------------------------
(* The type of the contexts, the isolates and the snippets. *)
TypeOK ==
    /\ generation \in 0 .. MaxGen /\ runActive \in BOOLEAN
    /\ session \subseteq Cap /\ granted \subseteq Cap
    /\ stopped \subseteq 0 .. MaxGen
    /\ execs \in 0 .. MaxExecs
    /\ state \in [Exec -> {"free", "running", "ended"}]
    /\ mode \in [Exec -> {"live", "test", "schedule"}]
    /\ parent \in [Exec -> 0 .. MaxExecs] /\ owner \in [Exec -> Owner]
    /\ allowed \in [Exec -> SUBSET Cap]
    /\ gen \in [Exec -> 0 .. MaxGen] /\ signal \in [Exec -> 0 .. MaxGen]
    /\ testing \in [Exec -> 0 .. MaxVersions]
    /\ awaited \in [Exec -> BOOLEAN]
    /\ inFlight \in [Exec -> 0 .. Concurrent]
    /\ saving \subseteq [exec : Exec, version : Version, caps : SUBSET Cap]
    /\ versions \subseteq Version
    /\ required \in [Version -> SUBSET Cap]
    /\ budget \in [Owner -> 0 .. HostCalls] /\ used \in [Owner -> Nat]
    /\ wrote \in 0 .. MaxExecs

\* x and the executions it was called by: the least set with x and the parent of
\* each of its members.
Callers(x) ==
    {y \in Exec : \A S \in SUBSET Exec :
       x \in S /\ (\A z \in S : parent[z] # 0 => parent[z] \in S) => y \in S}

(***************************************************************************)
(* docs/COMPATIBILITY.md:101, "Nested snippet invocations share the        *)
(* host-call budget; they do not reset it": all the programs of a run, the *)
(* snippets they invoke and test, and those that go on after a timeout,    *)
(* pass no more host calls than one budget has.                            *)
(***************************************************************************)
BudgetShared ==
    /\ \A x \in Exec : \A y \in Callers(x) : owner[y] = owner[x]
    /\ \A o \in Owner : used[o] <= HostCalls

(***************************************************************************)
(* docs/ARCHITECTURE.md:127, "Snippet tests run ... against an in-memory   *)
(* scratch copy of memory/tasks": neither the version under test nor a     *)
(* snippet it invokes changes the memory and tasks of the chat.            *)
(***************************************************************************)
TestIsolation ==
    wrote # 0 => \A x \in Callers(wrote) : testing[x] = 0

(***************************************************************************)
(* docs/SECURITY.md:30, "Nested snippets ... cannot escalate               *)
(* capabilities": a snippet holds no capability that the snippet which     *)
(* called it does not hold, whatever is granted meanwhile.                 *)
(***************************************************************************)
NoEscalation ==
    \A x \in 1 .. execs :
      parent[x] # 0 /\ (parent[parent[x]] # 0 \/ owner[x] = OfExec(parent[x]))
        => allowed[x] \subseteq allowed[parent[x]]
==============================================================================
