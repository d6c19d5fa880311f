---------------------------- MODULE CodeModeProofs ---------------------------
(***************************************************************************)
(* Proofs about CodeMode, for any capabilities, grants and requirements    *)
(* and any number of runs, executions, versions and calls.                 *)
(*                                                                         *)
(* That the count of calls in flight stays within its bounds rests on what *)
(* it counts: the nested executions that are awaited and the saves under   *)
(* way (CallsCounted).  An execution is called by one that began before it *)
(* (CallersFirst), and the versions of a snippet are numbered without gaps *)
(* (VersionsInOrder).  What an execution inherits from the one that called *)
(* it (Inherits) carries the rest.                                         *)
(*                                                                         *)
(* The last part is about Delegation, the tasks such programs delegate,    *)
(* for any tasks, fan-out, capacity and number of calls that fail: a       *)
(* supervisor has only what was assigned, lets go of it only when asked,   *)
(* and reports only what it let go of (Asking).  The two components share  *)
(* no variable.                                                            *)
(***************************************************************************)
EXTENDS CodeMode, Delegation, TLAPS, FiniteSetTheorems

AwaitedBy(x) == {y \in Exec : awaited[y] /\ parent[y] = x}
SavedBy(x) == {c \in saving : c.exec = x}

CallsCounted ==
    /\ IsFiniteSet(saving)
    /\ \A x \in Exec :
         inFlight[x] = Cardinality(AwaitedBy(x)) + Cardinality(SavedBy(x))

CallersFirst ==
    \A x \in Exec :
      /\ parent[x] < x
      /\ awaited[x] => parent[x] # 0
      /\ x > execs => state[x] = "free" /\ parent[x] = 0

VersionsInOrder ==
    /\ \E k \in 0 .. MaxVersions : versions = 1 .. k
    /\ \A c \in saving : c.version = 1 \/ c.version - 1 \in versions

\* What an execution has from the one that called it.
Inherits ==
    \A x \in Exec :
      /\ testing[x] # 0 => mode[x] = "test"
      /\ parent[x] # 0 =>
           /\ owner[x] = owner[parent[x]]
           /\ mode[parent[x]] = "test" => mode[x] = "test"
           /\ parent[parent[x]] # 0 \/ owner[x] = OfExec(parent[x])
                => allowed[x] \subseteq allowed[parent[x]]

BudgetKept == \A o \in Owner : budget[o] + used[o] = HostCalls

WritesLive == wrote # 0 => wrote \in Exec /\ mode[wrote] # "test"

TypeInv == TypeOK /\ CallsCounted /\ CallersFirst /\ VersionsInOrder

USE CapAssumption, BoundsAssumption

------------------------------------------------------------------------------
(* Types *)

(* A run and a detached execution each own one budget. *)
LEMMA OwnersTyped ==
  /\ \A g \in 0 .. MaxGen : OfRun(g) \in Owner
  /\ \A x \in Exec : OfExec(x) \in Owner
  BY DEF Owner

(* What is counted is finite. *)
LEMMA CountsFinite ==
  ASSUME CallsCounted, NEW x
  PROVE  /\ IsFiniteSet(AwaitedBy(x)) /\ Cardinality(AwaitedBy(x)) \in Nat
         /\ IsFiniteSet(SavedBy(x)) /\ Cardinality(SavedBy(x)) \in Nat
<1>1. IsFiniteSet(Exec)
  BY FS_Interval DEF Exec
<1>2. IsFiniteSet(AwaitedBy(x))
  BY <1>1, FS_Subset DEF AwaitedBy
<1>3. IsFiniteSet(SavedBy(x))
  BY FS_Subset DEF SavedBy, CallsCounted
<1> QED BY <1>2, <1>3, FS_CardinalityType

(* Nothing has run yet. *)
LEMMA InitTyped == Init => TypeInv
<1> SUFFICES ASSUME Init PROVE TypeInv
  OBVIOUS
<1>1. TypeOK
  <2>0. runActive \in BOOLEAN
    BY DEF Init
  <2>1. /\ generation \in 0 .. MaxGen
        /\ session \subseteq Cap /\ granted \subseteq Cap
        /\ stopped \subseteq 0 .. MaxGen
        /\ execs \in 0 .. MaxExecs /\ wrote \in 0 .. MaxExecs
    BY DEF Init
  <2>2. /\ state \in [Exec -> {"free", "running", "ended"}]
        /\ mode \in [Exec -> {"live", "test", "schedule"}]
        /\ parent \in [Exec -> 0 .. MaxExecs]
        /\ allowed \in [Exec -> SUBSET Cap]
        /\ gen \in [Exec -> 0 .. MaxGen] /\ signal \in [Exec -> 0 .. MaxGen]
        /\ testing \in [Exec -> 0 .. MaxVersions]
        /\ awaited \in [Exec -> BOOLEAN]
        /\ inFlight \in [Exec -> 0 .. Concurrent]
    BY DEF Init
  <2>3. owner \in [Exec -> Owner]
    BY OwnersTyped DEF Init
  <2>4. /\ saving \subseteq [exec : Exec, version : Version, caps : SUBSET Cap]
        /\ versions \subseteq Version /\ required \in [Version -> SUBSET Cap]
    BY DEF Init
  <2>5. budget \in [Owner -> 0 .. HostCalls] /\ used \in [Owner -> Nat]
    BY DEF Init
  <2> QED BY <2>0, <2>1, <2>2, <2>3, <2>4, <2>5 DEF TypeOK
<1>2. CallsCounted
  <2>1. ASSUME NEW x \in Exec
        PROVE  inFlight[x] = Cardinality(AwaitedBy(x)) + Cardinality(SavedBy(x))
    <3>1. inFlight[x] = 0 /\ AwaitedBy(x) = {} /\ SavedBy(x) = {}
      BY DEF Init, AwaitedBy, SavedBy
    <3> QED BY <3>1, FS_EmptySet
  <2>2. saving = {}
    BY DEF Init
  <2> QED BY <2>1, <2>2, FS_EmptySet DEF CallsCounted
<1>3. CallersFirst
  <2>1. \A x \in Exec : parent[x] = 0 /\ ~awaited[x] /\ state[x] = "free"
    BY DEF Init
  <2> QED BY <2>1 DEF CallersFirst, Exec
<1>4. VersionsInOrder
  <2>1. versions = 1 .. 0 /\ saving = {}
    BY DEF Init
  <2> QED BY <2>1 DEF VersionsInOrder
<1> QED BY <1>1, <1>2, <1>3, <1>4 DEF TypeInv

(* The next version is the one after the last. *)
LEMMA NextVersionIs ==
  ASSUME VersionsInOrder
  PROVE  /\ NextVersion \in 1 .. MaxVersions + 1
         /\ NextVersion = 1 \/ NextVersion - 1 \in versions
<1>1. PICK k \in 0 .. MaxVersions : versions = 1 .. k
  BY DEF VersionsInOrder
<1>2. \E n \in 1 .. MaxVersions + 1 :
        (n = 1 \/ n - 1 \in versions) /\ \A v \in versions : v < n
  <2> WITNESS k + 1 \in 1 .. MaxVersions + 1
  <2> QED BY <1>1
<1> QED BY <1>2 DEF NextVersion

(* What changes neither what is counted nor who called whom. *)
LEMMA CountsKept ==
  ASSUME TypeInv, UNCHANGED <<awaited, inFlight, saving, versions, execs, state,
                              parent>>
  PROVE  CallsCounted' /\ CallersFirst' /\ VersionsInOrder'
<1>1. \A x : AwaitedBy(x)' = AwaitedBy(x) /\ SavedBy(x)' = SavedBy(x)
  BY DEF AwaitedBy, SavedBy
<1>2. CallsCounted'
  BY <1>1 DEF TypeInv, CallsCounted
<1> QED BY <1>2 DEF TypeInv, CallersFirst, VersionsInOrder

(* A new execution. *)
LEMMA ExecuteTyped ==
  ASSUME TypeInv,
         NEW as \in {"live", "test", "schedule"}, NEW by \in 0 .. execs,
         NEW o \in Owner, NEW caps \in SUBSET Cap, NEW g \in 0 .. MaxGen,
         NEW s \in 0 .. MaxGen, NEW v \in 0 .. MaxVersions,
         Execute(as, by, o, caps, g, s, v)
  PROVE  /\ NextExec \in Exec /\ NextExec = execs + 1 /\ execs \in Nat
         /\ execs' = NextExec /\ execs' \in 0 .. MaxExecs
         /\ state' \in [Exec -> {"free", "running", "ended"}]
         /\ mode' \in [Exec -> {"live", "test", "schedule"}]
         /\ parent' \in [Exec -> 0 .. MaxExecs]
         /\ owner' \in [Exec -> Owner] /\ allowed' \in [Exec -> SUBSET Cap]
         /\ gen' \in [Exec -> 0 .. MaxGen] /\ signal' \in [Exec -> 0 .. MaxGen]
         /\ testing' \in [Exec -> 0 .. MaxVersions]
<1>1. /\ NextExec \in Exec /\ NextExec = execs + 1 /\ execs \in Nat
      /\ execs' = NextExec /\ execs' \in 0 .. MaxExecs
  BY DEF Execute, NextExec, TypeInv, TypeOK, Exec
<1>2. by \in 0 .. MaxExecs
  BY DEF TypeInv, TypeOK
<1> QED BY <1>1, <1>2 DEF Execute, TypeInv, TypeOK

(* An execution started from outside is a new row under no parent. *)
LEMMA RootTyped ==
  ASSUME TypeInv, NEW as \in {"live", "test", "schedule"}, NEW o \in Owner,
         NEW caps \in SUBSET Cap, NEW g \in 0 .. MaxGen, NEW s \in 0 .. MaxGen,
         Execute(as, 0, o, caps, g, s, 0),
         UNCHANGED <<run, granted, awaited, inFlight, saving, snippets, budget,
                     used>>,
         wrote' = 0
  PROVE  TypeInv'
<1> USE DEF run, snippets
<1>a. 0 \in 0 .. execs /\ 0 \in 0 .. MaxVersions
  BY DEF TypeInv, TypeOK
<1>0. /\ NextExec \in Exec /\ execs' = NextExec /\ NextExec = execs + 1
      /\ parent' = [parent EXCEPT ![NextExec] = 0]
      /\ state' = [state EXCEPT ![NextExec] = "running"]
  BY <1>a, ExecuteTyped DEF Execute
<1>1. TypeOK'
  <2>1. /\ execs' \in 0 .. MaxExecs
        /\ state' \in [Exec -> {"free", "running", "ended"}]
        /\ mode' \in [Exec -> {"live", "test", "schedule"}]
        /\ parent' \in [Exec -> 0 .. MaxExecs]
        /\ owner' \in [Exec -> Owner] /\ allowed' \in [Exec -> SUBSET Cap]
        /\ gen' \in [Exec -> 0 .. MaxGen] /\ signal' \in [Exec -> 0 .. MaxGen]
        /\ testing' \in [Exec -> 0 .. MaxVersions]
    BY <1>a, ExecuteTyped
  <2> QED BY <2>1 DEF TypeInv, TypeOK
<1>2. parent' = parent
  <2>1. NextExec > execs
    BY <1>0 DEF TypeInv, TypeOK
  <2>2. parent[NextExec] = 0
    BY <1>0, <2>1 DEF TypeInv, CallersFirst
  <2> QED BY <1>0, <2>2 DEF TypeInv, TypeOK
<1>3. CallersFirst'
  <2>1. ASSUME NEW x \in Exec, x > NextExec
        PROVE  state'[x] = "free" /\ parent[x] = 0
    <3>1. x > execs /\ x # NextExec
      BY <1>0, <2>1 DEF TypeInv, TypeOK, Exec
    <3> QED BY <1>0, <3>1 DEF TypeInv, TypeOK, CallersFirst
  <2> QED BY <1>0, <1>2, <2>1 DEF TypeInv, CallersFirst
<1>4. \A x : AwaitedBy(x)' = AwaitedBy(x) /\ SavedBy(x)' = SavedBy(x)
  BY <1>2 DEF AwaitedBy, SavedBy
<1>5. CallsCounted'
  BY <1>4 DEF TypeInv, CallsCounted
<1> QED BY <1>1, <1>3, <1>5 DEF TypeInv, VersionsInOrder

(* The gate charges only below the limit, so the budget stays in its range. *)
LEMMA ChargedTyped ==
  ASSUME TypeInv, NEW x \in Exec, NEW cap, Gate(x, cap), Charged(x)
  PROVE  budget' \in [Owner -> 0 .. HostCalls] /\ used' \in [Owner -> Nat]
  BY DEF TypeInv, TypeOK, Gate, Charged

(* A nested execution takes one of the calls of its parent. *)
LEMMA NestTyped ==
  ASSUME TypeInv, NEW x \in Exec, Admitted(x), NEW v \in Version,
         NEW as \in {"live", "test", "schedule"}, NEW tested \in 0 .. MaxVersions,
         Nest(x, v, as, tested), NEW cap, Gate(x, cap), Charged(x),
         UNCHANGED <<run, granted, saving, snippets>>, wrote' = 0
  PROVE  TypeInv'
<1> USE DEF run, snippets
<1>a. /\ x \in 0 .. execs /\ BudgetOf(x) \in Owner
      /\ required[v] \in SUBSET Cap
      /\ gen[x] \in 0 .. MaxGen /\ signal[x] \in 0 .. MaxGen
  <2>1. x \in 0 .. execs
    BY DEF Admitted, TypeInv, TypeOK, CallersFirst, Exec
  <2> QED BY <2>1 DEF BudgetOf, TypeInv, TypeOK
<1>e. Execute(as, x, BudgetOf(x), required[v], gen[x], signal[x], tested)
  BY DEF Nest
<1>t. /\ NextExec \in Exec /\ NextExec = execs + 1 /\ execs \in Nat
      /\ execs' = NextExec /\ execs' \in 0 .. MaxExecs
      /\ state' \in [Exec -> {"free", "running", "ended"}]
      /\ mode' \in [Exec -> {"live", "test", "schedule"}]
      /\ parent' \in [Exec -> 0 .. MaxExecs]
      /\ owner' \in [Exec -> Owner] /\ allowed' \in [Exec -> SUBSET Cap]
      /\ gen' \in [Exec -> 0 .. MaxGen] /\ signal' \in [Exec -> 0 .. MaxGen]
      /\ testing' \in [Exec -> 0 .. MaxVersions]
  BY <1>a, <1>e, ExecuteTyped
<1>0. /\ parent' = [parent EXCEPT ![NextExec] = x]
      /\ state' = [state EXCEPT ![NextExec] = "running"]
      /\ awaited' = [awaited EXCEPT ![NextExec] = TRUE]
      /\ inFlight' = [inFlight EXCEPT ![x] = @ + 1]
  BY <1>e DEF Execute, Nest
<1>1. TypeOK'
  <2>1. inFlight' \in [Exec -> 0 .. Concurrent] /\ awaited' \in [Exec -> BOOLEAN]
    <3>1. inFlight[x] + 1 \in 0 .. Concurrent
      BY DEF TypeInv, TypeOK, Admitted
    <3> QED BY <1>0, <3>1 DEF TypeInv, TypeOK
  <2>2. budget' \in [Owner -> 0 .. HostCalls] /\ used' \in [Owner -> Nat]
    BY ChargedTyped
  <2> QED BY <1>t, <2>1, <2>2 DEF TypeInv, TypeOK
<1>2. parent[NextExec] = 0 /\ ~awaited[NextExec] /\ x # NextExec
  BY <1>t, <1>a DEF TypeInv, TypeOK, CallersFirst
<1>3. CallersFirst'
  <2>1. ASSUME NEW y \in Exec
        PROVE  /\ parent'[y] < y
               /\ awaited'[y] => parent'[y] # 0
               /\ y > NextExec => state'[y] = "free" /\ parent'[y] = 0
    <3>1. CASE y = NextExec
      BY <3>1, <1>0, <1>t, <1>a DEF TypeInv, TypeOK, Exec
    <3>2. CASE y # NextExec
      <4>1. /\ parent'[y] = parent[y] /\ awaited'[y] = awaited[y]
            /\ state'[y] = state[y]
        BY <3>2, <1>0 DEF TypeInv, TypeOK
      <4>2. y > NextExec => y > execs
        BY <1>t DEF Exec
      <4> QED BY <4>1, <4>2 DEF TypeInv, CallersFirst
    <3> QED BY <3>1, <3>2
  <2> QED BY <1>t, <2>1 DEF CallersFirst
<1>4. CallsCounted'
  <2>1. AwaitedBy(x)' = AwaitedBy(x) \cup {NextExec} /\ NextExec \notin AwaitedBy(x)
    BY <1>0, <1>2, <1>t DEF AwaitedBy, TypeInv, TypeOK
  <2>2. \A y \in Exec : y # x => AwaitedBy(y)' = AwaitedBy(y)
    BY <1>0, <1>2, <1>t DEF AwaitedBy, TypeInv, TypeOK
  <2>3. \A y : SavedBy(y)' = SavedBy(y)
    BY DEF SavedBy
  <2>4. Cardinality(AwaitedBy(x)') = Cardinality(AwaitedBy(x)) + 1
    BY <2>1, CountsFinite, FS_AddElement DEF TypeInv
  <2>5. ASSUME NEW y \in Exec
        PROVE  inFlight'[y] = Cardinality(AwaitedBy(y)') + Cardinality(SavedBy(y)')
    <3>1. inFlight[y] = Cardinality(AwaitedBy(y)) + Cardinality(SavedBy(y))
      BY DEF TypeInv, CallsCounted
    <3>2. Cardinality(AwaitedBy(y)) \in Nat /\ Cardinality(SavedBy(y)) \in Nat
      BY CountsFinite DEF TypeInv
    <3>3. inFlight'[y] = IF y = x THEN inFlight[y] + 1 ELSE inFlight[y]
      BY <1>0 DEF TypeInv, TypeOK
    <3> QED BY <2>2, <2>3, <2>4, <3>1, <3>2, <3>3
  <2> QED BY <2>5 DEF TypeInv, CallsCounted
<1> QED BY <1>1, <1>3, <1>4 DEF TypeInv, VersionsInOrder

(* snippets_save *)
LEMMA SaveTyped ==
  ASSUME TypeInv, NEW x \in Exec, SnippetsSave(x)
  PROVE  TypeInv'
<1> USE DEF run, contexts, snippets
<1> DEFINE new(caps) == [exec |-> x, version |-> NextVersion, caps |-> caps]
<1>1. PICK caps \in Requirements :
        new(caps) \notin saving /\ saving' = saving \cup {new(caps)}
  BY DEF SnippetsSave
<1>v. NextVersion \in Version /\ (NextVersion = 1 \/ NextVersion - 1 \in versions)
  BY NextVersionIs DEF TypeInv, SnippetsSave, Version
<1>2. inFlight' = [inFlight EXCEPT ![x] = @ + 1]
  BY DEF SnippetsSave
<1>3. TypeOK'
  <2>1. saving' \subseteq [exec : Exec, version : Version, caps : SUBSET Cap]
    BY <1>1, <1>v DEF TypeInv, TypeOK
  <2>2. inFlight' \in [Exec -> 0 .. Concurrent]
    BY <1>2 DEF TypeInv, TypeOK, SnippetsSave, Admitted
  <2>3. budget' \in [Owner -> 0 .. HostCalls] /\ used' \in [Owner -> Nat]
    BY ChargedTyped DEF SnippetsSave
  <2> QED BY <2>1, <2>2, <2>3 DEF TypeInv, TypeOK, SnippetsSave
<1>4. CallsCounted'
  <2>1. \A y : AwaitedBy(y)' = AwaitedBy(y)
    BY DEF AwaitedBy, SnippetsSave
  <2>2. SavedBy(x)' = SavedBy(x) \cup {new(caps)} /\ new(caps) \notin SavedBy(x)
    BY <1>1 DEF SavedBy
  <2>3. \A y \in Exec : y # x => SavedBy(y)' = SavedBy(y)
    BY <1>1 DEF SavedBy
  <2>4. Cardinality(SavedBy(x)') = Cardinality(SavedBy(x)) + 1
    BY <2>2, CountsFinite, FS_AddElement DEF TypeInv
  <2>5. ASSUME NEW y \in Exec
        PROVE  inFlight'[y] = Cardinality(AwaitedBy(y)') + Cardinality(SavedBy(y)')
    <3>1. inFlight[y] = Cardinality(AwaitedBy(y)) + Cardinality(SavedBy(y))
      BY DEF TypeInv, CallsCounted
    <3>2. Cardinality(AwaitedBy(y)) \in Nat /\ Cardinality(SavedBy(y)) \in Nat
      BY CountsFinite DEF TypeInv
    <3>3. inFlight'[y] = IF y = x THEN inFlight[y] + 1 ELSE inFlight[y]
      BY <1>2 DEF TypeInv, TypeOK
    <3> QED BY <2>1, <2>3, <2>4, <3>1, <3>2, <3>3
  <2>6. IsFiniteSet(saving')
    BY <1>1, FS_AddElement DEF TypeInv, CallsCounted
  <2> QED BY <2>5, <2>6 DEF CallsCounted
<1>5. CallersFirst'
  BY DEF TypeInv, CallersFirst, SnippetsSave
<1>6. VersionsInOrder'
  BY <1>1, <1>v DEF TypeInv, VersionsInOrder, SnippetsSave
<1> QED BY <1>3, <1>4, <1>5, <1>6 DEF TypeInv

(* Saving a snippet row keeps the types. *)
LEMMA SaveRowTyped ==
  ASSUME TypeInv, NEW c \in saving, SaveRow(c)
  PROVE  TypeInv'
<1> USE DEF run, contexts
<1>0. c \in [exec : Exec, version : Version, caps : SUBSET Cap]
  BY DEF TypeInv, TypeOK
<1>1. /\ saving' = saving \ {c}
      /\ inFlight' = [inFlight EXCEPT ![c.exec] = @ - 1]
  BY DEF SaveRow
<1>2. CallsCounted'
  <2>1. \A y : AwaitedBy(y)' = AwaitedBy(y)
    BY DEF AwaitedBy, SaveRow
  <2>2. SavedBy(c.exec)' = SavedBy(c.exec) \ {c} /\ c \in SavedBy(c.exec)
    BY <1>1 DEF SavedBy
  <2>3. \A y \in Exec : y # c.exec => SavedBy(y)' = SavedBy(y)
    BY <1>1 DEF SavedBy
  <2>4. Cardinality(SavedBy(c.exec)') = Cardinality(SavedBy(c.exec)) - 1
    <3>1. IsFiniteSet(SavedBy(c.exec))
      BY CountsFinite DEF TypeInv
    <3>2. Cardinality(SavedBy(c.exec) \ {c}) = Cardinality(SavedBy(c.exec)) - 1
      BY <2>2, <3>1, FS_RemoveElement
    <3> QED BY <2>2, <3>2
  <2>5. ASSUME NEW y \in Exec
        PROVE  inFlight'[y] = Cardinality(AwaitedBy(y)') + Cardinality(SavedBy(y)')
    <3>1. inFlight[y] = Cardinality(AwaitedBy(y)) + Cardinality(SavedBy(y))
      BY DEF TypeInv, CallsCounted
    <3>2. Cardinality(AwaitedBy(y)) \in Nat /\ Cardinality(SavedBy(y)) \in Nat
      BY CountsFinite DEF TypeInv
    <3>3. inFlight'[y] = IF y = c.exec THEN inFlight[y] - 1 ELSE inFlight[y]
      BY <1>0, <1>1 DEF TypeInv, TypeOK
    <3> QED BY <2>1, <2>3, <2>4, <3>1, <3>2, <3>3
  <2>6. IsFiniteSet(saving')
    BY <1>1, FS_RemoveElement DEF TypeInv, CallsCounted
  <2> QED BY <2>5, <2>6 DEF CallsCounted
<1>3. TypeOK'
  <2>1. inFlight' \in [Exec -> 0 .. Concurrent]
    <3>1. SavedBy(c.exec) # {} /\ c.exec \in Exec
      BY <1>0 DEF SavedBy
    <3>2. Cardinality(SavedBy(c.exec)) # 0
      BY <3>1, CountsFinite, FS_EmptySet DEF TypeInv
    <3>3. /\ inFlight[c.exec]
               = Cardinality(AwaitedBy(c.exec)) + Cardinality(SavedBy(c.exec))
          /\ Cardinality(AwaitedBy(c.exec)) \in Nat
          /\ Cardinality(SavedBy(c.exec)) \in Nat
      BY <3>1, CountsFinite DEF TypeInv, CallsCounted
    <3>4. inFlight[c.exec] - 1 \in 0 .. Concurrent
      BY <3>1, <3>2, <3>3 DEF TypeInv, TypeOK
    <3> QED BY <1>1, <3>1, <3>4 DEF TypeInv, TypeOK
  <2>2. saving' \subseteq [exec : Exec, version : Version, caps : SUBSET Cap]
    BY <1>1 DEF TypeInv, TypeOK
  <2>3. versions' \subseteq Version /\ required' \in [Version -> SUBSET Cap]
    BY <1>0 DEF TypeInv, TypeOK, SaveRow
  <2> QED BY <2>1, <2>2, <2>3 DEF TypeInv, TypeOK, SaveRow
<1>4. CallersFirst'
  BY DEF TypeInv, CallersFirst, SaveRow
<1>5. VersionsInOrder'
  <2>1. PICK k \in 0 .. MaxVersions : versions = 1 .. k
    BY DEF TypeInv, VersionsInOrder
  <2>2. CASE c.version \in versions
    BY <1>1, <2>2 DEF TypeInv, VersionsInOrder, SaveRow
  <2>3. CASE c.version \notin versions
    <3>1. c.version \in 1 .. MaxVersions /\ (c.version = 1 \/ c.version - 1 \in 1 .. k)
      BY <1>0, <2>1 DEF TypeInv, VersionsInOrder, Version
    <3>2. k + 1 \in 0 .. MaxVersions /\ c.version = k + 1
      BY <2>1, <2>3, <3>1
    <3>3. versions' = 1 .. k + 1
      <4>1. versions' = versions \cup {c.version}
        BY <2>3 DEF SaveRow
      <4> QED BY <2>1, <3>2, <4>1
    <3> QED BY <1>1, <2>1, <3>2, <3>3 DEF TypeInv, VersionsInOrder
  <2> QED BY <2>2, <2>3
<1> QED BY <1>2, <1>3, <1>4, <1>5 DEF TypeInv

(* Nobody waits for the execution any more. *)
LEMMA ReleaseTyped ==
  ASSUME TypeInv, NEW x \in Exec, awaited[x],
         Released(x), awaited' = [awaited EXCEPT ![x] = FALSE],
         UNCHANGED <<saving, parent>>
  PROVE  inFlight' \in [Exec -> 0 .. Concurrent] /\ CallsCounted'
<1> DEFINE p == parent[x]
<1>1. p \in Exec
  <2>1. p \in 0 .. MaxExecs /\ p # 0
    BY DEF TypeInv, TypeOK, CallersFirst
  <2> QED BY <2>1 DEF Exec
<1>2. inFlight' = [inFlight EXCEPT ![p] = @ - 1]
  BY DEF Released
<1>3. AwaitedBy(p)' = AwaitedBy(p) \ {x} /\ x \in AwaitedBy(p)
  BY DEF AwaitedBy, TypeInv, TypeOK
<1>4. \A y \in Exec : y # p => AwaitedBy(y)' = AwaitedBy(y)
  BY DEF AwaitedBy, TypeInv, TypeOK
<1>5. \A y : SavedBy(y)' = SavedBy(y)
  BY DEF SavedBy
<1>6. Cardinality(AwaitedBy(p)') = Cardinality(AwaitedBy(p)) - 1
  <2>1. IsFiniteSet(AwaitedBy(p))
    BY CountsFinite DEF TypeInv
  <2>2. Cardinality(AwaitedBy(p) \ {x}) = Cardinality(AwaitedBy(p)) - 1
    BY <1>3, <2>1, FS_RemoveElement
  <2> QED BY <1>3, <2>2
<1>7. ASSUME NEW y \in Exec
      PROVE  /\ inFlight'[y] = Cardinality(AwaitedBy(y)') + Cardinality(SavedBy(y)')
             /\ Cardinality(AwaitedBy(y)) \in Nat /\ Cardinality(SavedBy(y)) \in Nat
             /\ inFlight[y] = Cardinality(AwaitedBy(y)) + Cardinality(SavedBy(y))
  <2>1. inFlight[y] = Cardinality(AwaitedBy(y)) + Cardinality(SavedBy(y))
    BY DEF TypeInv, CallsCounted
  <2>2. Cardinality(AwaitedBy(y)) \in Nat /\ Cardinality(SavedBy(y)) \in Nat
    BY CountsFinite DEF TypeInv
  <2>3. inFlight'[y] = IF y = p THEN inFlight[y] - 1 ELSE inFlight[y]
    BY <1>1, <1>2 DEF TypeInv, TypeOK
  <2> QED BY <1>4, <1>5, <1>6, <2>1, <2>2, <2>3
<1>8. inFlight' \in [Exec -> 0 .. Concurrent]
  <2>1. Cardinality(AwaitedBy(p)) # 0
    BY <1>3, CountsFinite, FS_EmptySet DEF TypeInv
  <2>2. inFlight[p] - 1 \in 0 .. Concurrent
    BY <1>1, <1>7, <2>1 DEF TypeInv, TypeOK
  <2> QED BY <1>1, <1>2, <2>2 DEF TypeInv, TypeOK
<1> QED BY <1>7, <1>8 DEF TypeInv, CallsCounted

(* An execution that ends, or times out in a host call, keeps the types. *)
LEMMA EndTyped ==
  ASSUME TypeInv, NEW x \in Exec, End(x) \/ HostCallTimesOut(x)
  PROVE  TypeInv'
<1> USE DEF run, contexts, snippets
<1>1. /\ awaited' = [awaited EXCEPT ![x] = FALSE]
      /\ state' \in [Exec -> {"free", "running", "ended"}]
      /\ state[x] = "running"
      /\ \A y \in Exec : y # x => state'[y] = state[y]
      /\ UNCHANGED <<run, granted, execs, mode, parent, owner, allowed, gen, signal,
                     testing, saving, versions, required, budget, used>>
      /\ wrote' = 0
  BY DEF End, HostCallTimesOut, TypeInv, TypeOK
<1>2. inFlight' \in [Exec -> 0 .. Concurrent] /\ CallsCounted'
  <2>1. CASE awaited[x]
    <3>1. parent[x] # 0
      BY <2>1 DEF TypeInv, CallersFirst
    <3>2. Released(x)
      BY <3>1 DEF End, HostCallTimesOut
    <3> QED BY <1>1, <2>1, <3>2, ReleaseTyped
  <2>2. CASE ~awaited[x]
    <3>1. inFlight' = inFlight
      BY <2>2 DEF End, HostCallTimesOut, Released
    <3>2. awaited' = awaited
      BY <1>1, <2>2 DEF TypeInv, TypeOK
    <3>3. \A y : AwaitedBy(y)' = AwaitedBy(y) /\ SavedBy(y)' = SavedBy(y)
      BY <1>1, <3>2 DEF AwaitedBy, SavedBy
    <3> QED BY <1>1, <3>1, <3>3 DEF TypeInv, TypeOK, CallsCounted
  <2> QED BY <2>1, <2>2
<1>3. TypeOK'
  <2>1. awaited' \in [Exec -> BOOLEAN]
    BY <1>1 DEF TypeInv, TypeOK
  <2> QED BY <1>1, <1>2, <2>1 DEF TypeInv, TypeOK
<1>4. CallersFirst'
  <2>1. x <= execs
    BY <1>1 DEF TypeInv, TypeOK, CallersFirst, Exec
  <2>2. ASSUME NEW y \in Exec
        PROVE  /\ awaited'[y] => awaited[y]
               /\ y > execs => state'[y] = state[y]
    BY <1>1, <2>1 DEF TypeInv, TypeOK, Exec
  <2> QED BY <1>1, <2>2 DEF TypeInv, CallersFirst
<1> QED BY <1>1, <1>2, <1>3, <1>4 DEF TypeInv, VersionsInOrder

(* Every step keeps the types. *)
LEMMA NextTyped == TypeInv /\ [Next]_vars => TypeInv'
<1> SUFFICES ASSUME TypeInv, [Next]_vars PROVE TypeInv'
  OBVIOUS
<1> USE DEF run, contexts, isolates, snippets
<1>1. CASE StartRun \/ EndRun \/ Stop \/ SetCapabilities
  <2>0. runActive' \in BOOLEAN
    BY <1>1, Zenon DEF StartRun, EndRun, Stop, SetCapabilities, TypeInv, TypeOK
  <2>1. generation' \in 0 .. MaxGen
    BY <1>1 DEF StartRun, EndRun, Stop, SetCapabilities, TypeInv, TypeOK
  <2>2. /\ session' \subseteq Cap /\ granted' \subseteq Cap
        /\ stopped' \subseteq 0 .. MaxGen /\ wrote' = 0
    BY <1>1 DEF StartRun, EndRun, Stop, SetCapabilities, TypeInv, TypeOK
  <2>3. UNCHANGED <<contexts, isolates, saving, snippets, budget, used>>
    BY <1>1 DEF StartRun, EndRun, Stop, SetCapabilities
  <2>4. TypeOK'
    BY <2>0, <2>1, <2>2, <2>3 DEF TypeInv, TypeOK
  <2> QED BY <2>3, <2>4, CountsKept DEF TypeInv
<1>2. CASE StartProgram
  <2>1. OfRun(generation) \in Owner
    BY OwnersTyped DEF TypeInv, TypeOK
  <2>2. session \in SUBSET Cap /\ generation \in 0 .. MaxGen
    BY DEF TypeInv, TypeOK
  <2> QED BY <1>2, <2>1, <2>2, RootTyped DEF StartProgram
<1>3. ASSUME NEW v \in Version, InvokeSnippet(v)
      PROVE  TypeInv'
  <2>1. PICK as \in {"live", "schedule"} :
          Execute(as, 0, OfExec(NextExec), required[v], generation, RuntimeSignal, 0)
    BY <1>3 DEF InvokeSnippet
  <2>2. NextExec \in Exec
    BY <2>1 DEF Execute, NextExec, TypeInv, TypeOK, Exec
  <2>3. OfExec(NextExec) \in Owner
    BY <2>2, OwnersTyped
  <2>4. /\ required[v] \in SUBSET Cap /\ generation \in 0 .. MaxGen
        /\ RuntimeSignal \in 0 .. MaxGen
    BY DEF RuntimeSignal, TypeInv, TypeOK
  <2> QED BY <1>3, <2>1, <2>3, <2>4, RootTyped DEF InvokeSnippet
<1>4. ASSUME NEW x \in Exec, NEW cap, Gate(x, cap), Charged(x),
             wrote' \in 0 .. MaxExecs,
             UNCHANGED <<run, granted, contexts, awaited, inFlight, saving, snippets>>
      PROVE  TypeInv'
  <2>1. budget' \in [Owner -> 0 .. HostCalls] /\ used' \in [Owner -> Nat]
    BY <1>4, ChargedTyped
  <2>2. TypeOK'
    BY <1>4, <2>1 DEF TypeInv, TypeOK
  <2> QED BY <1>4, <2>2, CountsKept DEF TypeInv
<1>5. ASSUME NEW x \in Exec,
             ReadMemory(x) \/ ReadSnippets(x) \/ UseOther(x) \/ Write(x)
      PROVE  TypeInv'
  <2>1. x \in 0 .. MaxExecs
    BY DEF Exec
  <2> QED BY <1>4, <1>5, <2>1 DEF ReadMemory, ReadSnippets, UseOther, Reads, Write
<1>6. ASSUME NEW x \in Exec, NEW v \in Version,
             SnippetsInvoke(x, v) \/ SnippetsTest(x, v)
      PROVE  TypeInv'
  <2>1. /\ ModeOf(x) \in {"live", "test", "schedule"}
        /\ 0 \in 0 .. MaxVersions /\ v \in 0 .. MaxVersions
    BY DEF ModeOf, TypeInv, TypeOK, Version
  <2>2. CASE SnippetsInvoke(x, v)
    BY <2>1, <2>2, NestTyped DEF SnippetsInvoke
  <2>3. CASE SnippetsTest(x, v)
    BY <2>1, <2>3, NestTyped DEF SnippetsTest
  <2> QED BY <1>6, <2>2, <2>3
<1>7. CASE UNCHANGED vars
  BY <1>7, CountsKept DEF vars, TypeInv, TypeOK
<1> QED BY <1>1, <1>2, <1>3, <1>5, <1>6, <1>7, SaveTyped, SaveRowTyped, EndTyped
        DEF Next

(***************************************************************************)
(* The contexts of executions have their types, and the calls an isolate   *)
(* has in flight are never fewer than none nor more than its limit: each   *)
(* call that ends, fails or times out gives its place back exactly once    *)
(* (isolate.ts, invokeBinding).                                            *)
(***************************************************************************)
THEOREM TypeCorrect == Spec => []TypeOK
<1>1. TypeInv => TypeOK
  BY DEF TypeInv
<1> QED BY <1>1, InitTyped, NextTyped, PTL DEF Spec

------------------------------------------------------------------------------
(* What nested executions inherit *)

(* A start whose owner, mode and capabilities come from its parent keeps Inherits. *)
LEMMA ExecuteInherits ==
  ASSUME TypeInv, Inherits,
         NEW as \in {"live", "test", "schedule"}, NEW by \in 0 .. execs,
         NEW o \in Owner, NEW caps \in SUBSET Cap, NEW g \in 0 .. MaxGen,
         NEW s \in 0 .. MaxGen, NEW v \in 0 .. MaxVersions,
         Execute(as, by, o, caps, g, s, v),
         v # 0 => as = "test",
         by # 0 => /\ o = owner[by]
                   /\ mode[by] = "test" => as = "test"
                   /\ parent[by] # 0 \/ o = OfExec(by) => caps \subseteq allowed[by]
  PROVE  Inherits'
<1>1. /\ NextExec \in Exec /\ NextExec = execs + 1 /\ execs \in Nat
  BY ExecuteTyped
<1>2. ASSUME NEW x \in Exec, x # NextExec
      PROVE  /\ parent'[x] = parent[x] /\ mode'[x] = mode[x]
             /\ owner'[x] = owner[x] /\ allowed'[x] = allowed[x]
             /\ testing'[x] = testing[x]
  BY <1>2 DEF Execute, TypeInv, TypeOK
<1>3. /\ parent'[NextExec] = by /\ mode'[NextExec] = as
      /\ owner'[NextExec] = o /\ allowed'[NextExec] = caps
      /\ testing'[NextExec] = v
  BY <1>1 DEF Execute, TypeInv, TypeOK
<1>4. ASSUME NEW x \in Exec, parent[x] # 0
      PROVE  parent[x] \in Exec /\ parent[x] # NextExec /\ x # NextExec
  <2>1. x <= execs
    BY <1>4 DEF TypeInv, TypeOK, CallersFirst, Exec
  <2>2. parent[x] < x /\ parent[x] \in 0 .. MaxExecs
    BY DEF TypeInv, TypeOK, CallersFirst
  <2> QED BY <1>1, <1>4, <2>1, <2>2 DEF Exec
<1>5. ASSUME NEW x \in Exec
      PROVE  /\ testing'[x] # 0 => mode'[x] = "test"
             /\ parent'[x] # 0 =>
                  /\ owner'[x] = owner'[parent'[x]]
                  /\ mode'[parent'[x]] = "test" => mode'[x] = "test"
                  /\ parent'[parent'[x]] # 0 \/ owner'[x] = OfExec(parent'[x])
                       => allowed'[x] \subseteq allowed'[parent'[x]]
  <2>1. CASE x # NextExec
    <3>1. CASE parent[x] = 0
      BY <1>2, <2>1, <3>1 DEF Inherits
    <3>2. CASE parent[x] # 0
      <4>1. /\ owner'[x] = owner[x] /\ owner'[parent[x]] = owner[parent[x]]
            /\ mode'[x] = mode[x] /\ mode'[parent[x]] = mode[parent[x]]
            /\ allowed'[x] = allowed[x] /\ allowed'[parent[x]] = allowed[parent[x]]
            /\ parent'[x] = parent[x] /\ parent'[parent[x]] = parent[parent[x]]
            /\ testing'[x] = testing[x]
        BY <1>2, <1>4, <2>1, <3>2
      <4> QED BY <3>2, <4>1 DEF Inherits
    <3> QED BY <3>1, <3>2
  <2>2. CASE x = NextExec
    <3>1. CASE by = 0
      BY <1>3, <2>2, <3>1
    <3>2. CASE by # 0
      <4>1. by \in Exec /\ by # NextExec
        BY <1>1, <3>2 DEF Exec
      <4>2. /\ owner'[by] = owner[by] /\ mode'[by] = mode[by]
            /\ allowed'[by] = allowed[by] /\ parent'[by] = parent[by]
        BY <1>2, <4>1
      <4> QED BY <1>3, <2>2, <3>2, <4>2
    <3> QED BY <3>1, <3>2
  <2> QED BY <2>1, <2>2
<1> QED BY <1>5 DEF Inherits

(* A program of a run is the only one whose grants are those of the agent. *)
LEMMA NestInherits ==
  ASSUME TypeInv, Inherits, NEW x \in Exec, Admitted(x), NEW v \in Version,
         NEW as \in {"live", "test", "schedule"}, NEW tested \in 0 .. MaxVersions,
         Nest(x, v, as, tested), tested # 0 => as = "test",
         mode[x] = "test" => as = "test"
  PROVE  Inherits'
<1>1. Execute(as, x, owner[x], required[v], gen[x], signal[x], tested)
  BY DEF Nest, BudgetOf
<1>2. /\ x \in 0 .. execs /\ owner[x] \in Owner /\ required[v] \in SUBSET Cap
      /\ gen[x] \in 0 .. MaxGen /\ signal[x] \in 0 .. MaxGen
  <2>1. x \in 0 .. execs
    BY DEF Admitted, TypeInv, TypeOK, CallersFirst, Exec
  <2> QED BY <2>1 DEF TypeInv, TypeOK
<1>3. ASSUME parent[x] # 0 \/ owner[x] = OfExec(x)
      PROVE  required[v] \subseteq allowed[x]
  <2>1. ~(owner[x] = OfRun(gen[x]) /\ parent[x] = 0)
    BY <1>3 DEF OfRun, OfExec
  <2> QED BY <2>1 DEF Nest, MayExecute, Parent
<1> QED BY <1>1, <1>2, <1>3, ExecuteInherits

(* Every start in the module is one of those, so every step keeps Inherits. *)
LEMMA NextInherits == TypeInv /\ Inherits /\ [Next]_vars => Inherits'
<1> SUFFICES ASSUME TypeInv, Inherits, [Next]_vars PROVE Inherits'
  OBVIOUS
<1> USE DEF run, contexts, isolates, snippets
<1>a. 0 \in 0 .. execs /\ 0 \in 0 .. MaxVersions
  BY DEF TypeInv, TypeOK
<1>1. CASE UNCHANGED <<mode, parent, owner, allowed, testing>>
  BY <1>1 DEF Inherits
<1>2. CASE StartProgram
  <2>1. OfRun(generation) \in Owner
    BY OwnersTyped DEF TypeInv, TypeOK
  <2>2. session \in SUBSET Cap /\ generation \in 0 .. MaxGen
    BY DEF TypeInv, TypeOK
  <2>3. Execute("live", 0, OfRun(generation), session, generation, generation, 0)
    BY <1>2 DEF StartProgram
  <2> QED BY <1>a, <2>1, <2>2, <2>3, ExecuteInherits
<1>3. ASSUME NEW v \in Version, InvokeSnippet(v)
      PROVE  Inherits'
  <2>1. PICK as \in {"live", "schedule"} :
          Execute(as, 0, OfExec(NextExec), required[v], generation, RuntimeSignal, 0)
    BY <1>3 DEF InvokeSnippet
  <2>2. NextExec \in Exec
    BY <2>1 DEF Execute, NextExec, TypeInv, TypeOK, Exec
  <2>3. OfExec(NextExec) \in Owner
    BY <2>2, OwnersTyped
  <2>4. /\ required[v] \in SUBSET Cap /\ generation \in 0 .. MaxGen
        /\ RuntimeSignal \in 0 .. MaxGen
    BY DEF RuntimeSignal, TypeInv, TypeOK
  <2> QED BY <1>a, <2>1, <2>3, <2>4, ExecuteInherits
<1>4. ASSUME NEW x \in Exec, NEW v \in Version,
             SnippetsInvoke(x, v) \/ SnippetsTest(x, v)
      PROVE  Inherits'
  <2>1. /\ ModeOf(x) \in {"live", "test", "schedule"} /\ ModeOf(x) = mode[x]
        /\ v \in 0 .. MaxVersions
    BY DEF ModeOf, TypeInv, TypeOK, Version
  <2>2. CASE SnippetsInvoke(x, v)
    BY <1>a, <2>1, <2>2, NestInherits DEF SnippetsInvoke
  <2>3. CASE SnippetsTest(x, v)
    BY <2>1, <2>3, NestInherits DEF SnippetsTest
  <2> QED BY <1>4, <2>2, <2>3
<1>5. \/ UNCHANGED <<mode, parent, owner, allowed, testing>>
      \/ StartProgram \/ \E v \in Version : InvokeSnippet(v)
      \/ \E x \in Exec, v \in Version : SnippetsInvoke(x, v) \/ SnippetsTest(x, v)
  BY DEF Next, vars, StartRun, EndRun, Stop, SetCapabilities, ReadMemory,
         ReadSnippets, UseOther, Reads, Write, SnippetsSave, SaveRow, End,
         HostCallTimesOut
<1> QED BY <1>1, <1>2, <1>3, <1>4, <1>5

(* No execution, so no parent. *)
LEMMA InitInherits == Init => Inherits
  BY DEF Init, Inherits

(* Types and inheritance as one invariant of the specification. *)
LEMMA InheritsHolds == Spec => [](TypeInv /\ Inherits)
  BY InitTyped, NextTyped, InitInherits, NextInherits, PTL DEF Spec

(* What follows for all the callers of an execution, as the set of executions *)
(* that have the same is closed under "was called by".                        *)
LEMMA CallersInherit ==
  ASSUME TypeOK, Inherits, NEW x \in Exec, NEW y \in Callers(x)
  PROVE  owner[y] = owner[x] /\ (mode[x] # "test" => mode[y] # "test")
<1>1. \A z \in Exec : parent[z] # 0 => parent[z] \in Exec
  <2>1. \A z \in Exec : parent[z] \in 0 .. MaxExecs
    BY DEF TypeOK
  <2> QED BY <2>1 DEF Exec
<1>2. owner[y] = owner[x]
  <2> DEFINE S == {z \in Exec : owner[z] = owner[x]}
  <2>1. x \in S /\ \A z \in S : parent[z] # 0 => parent[z] \in S
    BY <1>1 DEF Inherits
  <2>2. y \in S
    BY <2>1 DEF Callers
  <2> QED BY <2>2
<1>3. ASSUME mode[x] # "test" PROVE mode[y] # "test"
  <2> DEFINE S == {z \in Exec : mode[z] # "test"}
  <2>1. x \in S /\ \A z \in S : parent[z] # 0 => parent[z] \in S
    BY <1>1, <1>3 DEF Inherits
  <2>2. y \in S
    BY <2>1 DEF Callers
  <2> QED BY <2>2
<1> QED BY <1>2, <1>3

(***************************************************************************)
(* However programs, snippets, tests and calls that time out interleave,   *)
(* all executions that descend from one share its budget, and no budget is *)
(* spent twice (requireCap, consumeHostCall, sharedBudget).                *)
(***************************************************************************)
THEOREM NestedShareOneBudget == Spec => []BudgetShared
<1> DEFINE Inv == TypeInv /\ Inherits /\ BudgetKept
<1>1. Init => Inv
  <2>1. Init => BudgetKept
    BY DEF Init, BudgetKept
  <2> QED BY <2>1, InitTyped, InitInherits
<1>2. Inv /\ [Next]_vars => Inv'
  <2> SUFFICES ASSUME Inv, [Next]_vars PROVE BudgetKept'
    BY NextTyped, NextInherits
  <2>1. ASSUME NEW x \in Exec, Charged(x)
        PROVE  BudgetKept'
    <3>1. owner[x] \in Owner
      BY DEF TypeInv, TypeOK
    <3>2. ASSUME NEW o \in Owner PROVE budget'[o] + used'[o] = HostCalls
      BY <2>1, <3>1 DEF Charged, TypeInv, TypeOK, BudgetKept
    <3> QED BY <3>2 DEF BudgetKept
  <2>2. CASE UNCHANGED <<budget, used>>
    BY <2>2 DEF BudgetKept
  <2>3. UNCHANGED <<budget, used>> \/ \E x \in Exec : Charged(x)
    BY DEF Next, vars, StartRun, EndRun, Stop, SetCapabilities, StartProgram,
           InvokeSnippet, ReadMemory, ReadSnippets, UseOther, Reads, Write,
           SnippetsSave, SaveRow, SnippetsInvoke, SnippetsTest, End,
           HostCallTimesOut
  <2> QED BY <2>1, <2>2, <2>3
<1>3. Inv => BudgetShared
  <2> SUFFICES ASSUME Inv PROVE BudgetShared
    OBVIOUS
  <2>1. \A x \in Exec : \A y \in Callers(x) : owner[y] = owner[x]
    BY CallersInherit DEF TypeInv
  <2>2. ASSUME NEW o \in Owner PROVE used[o] <= HostCalls
    BY DEF BudgetKept, TypeInv, TypeOK
  <2> QED BY <2>1, <2>2 DEF BudgetShared
<1> QED BY <1>1, <1>2, <1>3, PTL DEF Spec

(***************************************************************************)
(* Whatever a version under test invokes, and however deep, does not       *)
(* change memory or tasks (executeSnippet, mode ?? options.mode).          *)
(***************************************************************************)
THEOREM TestsAreIsolated == Spec => []TestIsolation
<1> DEFINE Inv == TypeInv /\ Inherits /\ WritesLive
<1>1. Init => Inv
  <2>1. Init => WritesLive
    BY DEF Init, WritesLive
  <2> QED BY <2>1, InitTyped, InitInherits
<1>2. Inv /\ [Next]_vars => Inv'
  <2> SUFFICES ASSUME Inv, [Next]_vars PROVE WritesLive'
    BY NextTyped, NextInherits
  <2>1. CASE wrote' = 0
    BY <2>1 DEF WritesLive
  <2>2. ASSUME NEW x \in Exec, Write(x) PROVE WritesLive'
    BY <2>2 DEF Write, WritesLive, contexts
  <2>3. CASE UNCHANGED vars
    BY <2>3 DEF vars, contexts, WritesLive
  <2>4. wrote' = 0 \/ UNCHANGED vars \/ \E x \in Exec : Write(x)
    BY DEF Next, StartRun, EndRun, Stop, SetCapabilities, StartProgram,
           InvokeSnippet, ReadMemory, ReadSnippets, UseOther, Reads,
           SnippetsSave, SaveRow, SnippetsInvoke, SnippetsTest, End,
           HostCallTimesOut
  <2> QED BY <2>1, <2>2, <2>3, <2>4
<1>3. Inv => TestIsolation
  <2> SUFFICES ASSUME Inv, wrote # 0, NEW y \in Callers(wrote)
               PROVE  testing[y] = 0
    BY DEF TestIsolation
  <2>1. wrote \in Exec /\ mode[wrote] # "test"
    BY DEF WritesLive
  <2>2. mode[y] # "test"
    BY <2>1, CallersInherit DEF TypeInv
  <2>3. y \in Exec
    BY DEF Callers
  <2> QED BY <2>2, <2>3 DEF Inherits
<1> QED BY <1>1, <1>2, <1>3, PTL DEF Spec

(***************************************************************************)
(* A snippet holds no capability that the snippet which called it does not *)
(* hold, however grants and runs change meanwhile (narrowCapabilities).    *)
(***************************************************************************)
THEOREM NestedNeverEscalate == Spec => []NoEscalation
<1>1. TypeInv /\ Inherits => NoEscalation
  <2> SUFFICES ASSUME TypeInv, Inherits, NEW x \in 1 .. execs,
                      parent[x] # 0,
                      parent[parent[x]] # 0 \/ owner[x] = OfExec(parent[x])
               PROVE  allowed[x] \subseteq allowed[parent[x]]
    BY DEF NoEscalation
  <2>1. x \in Exec
    BY DEF TypeInv, TypeOK, Exec
  <2> QED BY <2>1 DEF Inherits
<1> QED BY <1>1, InheritsHolds, PTL

------------------------------------------------------------------------------
(* Delegation *)

(* The steps of submitting, cancelling and running a task keep the types. *)
LEMMA DelTypeNext ==
  ASSUME DelTypeOK, [DelNext]_delVars
  PROVE  DelTypeOK'
<1> USE FaultsAssumption
        DEF DelTypeOK, LiveTask, Ended, LiveAttempt, agent, taskCell, teamCell,
            supervisor
<1>1. ASSUME NEW t \in Task,
             \/ CreateTask(t) \/ CreateAttempt(t)
             \/ QueueTaskAssignment(t) \/ SubmitFails(t)
      PROVE  DelTypeOK'
  BY <1>1 DEF CreateTask, CreateAttempt, GoesOn, QueueTaskAssignment, SubmitFails
<1>2. CASE StopAll
  BY <1>2 DEF StopAll, kSubset
<1>3. ASSUME NEW k \in Command, CancelAssignment(k) \/ CancelFails(k)
      PROVE  DelTypeOK'
  <2>1. CASE CancelFails(k)
    BY <2>1 DEF CancelFails
  <2>2. CASE CancelAssignment(k)
    <3> DEFINE t == command[k]
               value == asked[t] \/ Marked(t)
    <3>1. t \in Task
      BY <2>2 DEF CancelAssignment
    <3>2. value \in BOOLEAN
      BY Zenon
    <3>3. asked' = [asked EXCEPT ![t] = value]
      BY <2>2, Zenon DEF CancelAssignment
    <3> HIDE DEF value
    <3>4. asked' \in [Task -> BOOLEAN]
      BY <3>2, <3>3
    <3>5. command' \in [Command -> Task \cup {NoTask}]
      BY <2>2 DEF CancelAssignment
    <3>6. settled' \subseteq Task
      BY <2>2, <3>1 DEF CancelAssignment
    <3> QED BY <2>2, <3>4, <3>5, <3>6 DEF CancelAssignment
  <2> QED BY <1>3, <2>1, <2>2
<1>4. ASSUME NEW k \in Command, NEW t \in Task, CancelTask(k, t)
      PROVE  DelTypeOK'
  BY <1>4 DEF CancelTask, Takes
<1>5. ASSUME NEW t \in Task,
             \/ CancelAssignmentOnly(t) \/ RunnerEvents(t)
             \/ StopRunner(t) \/ StartRunner(t)
      PROVE  DelTypeOK'
  BY <1>5 DEF CancelAssignmentOnly, RunnerEvents, StopRunner, StartRunner
<1>6. ASSUME NEW t \in Task,
             \/ ReportCancelled(t) \/ ReportEnds(t) \/ CompleteTask(t) \/ Expire(t)
      PROVE  DelTypeOK'
  BY <1>6 DEF ReportCancelled, ReportEnds, CompleteTask, Expire, Confirmed, TriedAgain
<1>8. CASE Poll \/ Drain \/ SupervisorDies
  BY <1>8 DEF Poll, Drain, SupervisorDies
<1>7. CASE UNCHANGED delVars
  BY <1>7 DEF delVars
<1> QED BY <1>1, <1>2, <1>3, <1>4, <1>5, <1>6, <1>7, <1>8
        DEF DelNext, Submitting, Cancelling, Running

(***************************************************************************)
(* Every variable of the delegation has its type in every reachable state, *)
(* for any tasks and any number of calls that fail: in particular a status *)
(* of one cell is one of those the others look for (task_assignments,      *)
(* tasks and attempts).                                                    *)
(***************************************************************************)
THEOREM DelegationTyped == DelSpec => []DelTypeOK
<1>1. DelInit => DelTypeOK
  BY FaultsAssumption DEF DelInit, DelTypeOK
<1>2. DelTypeOK /\ [DelNext]_delVars => DelTypeOK'
  BY DelTypeNext
<1> QED BY <1>1, <1>2, PTL DEF DelSpec

\* Nothing is assigned before the submission is there, a supervisor that lets
\* go was asked to, and it reports what it let go of.
Asking ==
    \A t \in Task :
      /\ submit[t] \in {"task", "attempt", "assignment"} => assignment[t] = "none"
      /\ assignment[t] # "assigned" => runner[t] = "none"
      /\ runner[t] \in {"stopping", "released"} => asked[t]
      /\ t \in reports => runner[t] = "released"

DelegationInv == DelTypeOK /\ Asking /\ ConfirmedIsStopped

(* Every step of the three cells keeps the strengthening of ConfirmedIsStopped. *)
LEMMA DelegationNext ==
  ASSUME DelegationInv, [DelNext]_delVars
  PROVE  DelegationInv'
<1>t. DelTypeOK'
  BY DelTypeNext DEF DelegationInv
<1> DEFINE Holds(t) ==
      /\ submit[t] \in {"task", "attempt", "assignment"} => assignment[t] = "none"
      /\ assignment[t] # "assigned" => runner[t] = "none"
      /\ runner[t] \in {"stopping", "released"} => asked[t]
      /\ t \in reports => runner[t] = "released"
      /\ cancellation[t] = "confirmed"
           => asked[t] /\ ~IsLive(t) /\ runner[t] = "released"
<1>h. \A t \in Task : Holds(t)
  BY DEF DelegationInv, Asking, ConfirmedIsStopped
<1> SUFFICES ASSUME NEW u \in Task PROVE Holds(u)'
  BY <1>t DEF DelegationInv, Asking, ConfirmedIsStopped
<1> USE DEF IsLive, LiveAttempt, agent, taskCell, teamCell, supervisor
<1>0. CASE UNCHANGED <<submit, assignment, runner, reports, asked, cancellation, attempt>>
  BY <1>0, <1>h
<1>1. ASSUME NEW t \in Task,
             \/ CreateTask(t) \/ CreateAttempt(t)
             \/ QueueTaskAssignment(t) \/ SubmitFails(t)
      PROVE  Holds(u)'
  BY <1>1, <1>h
     DEF CreateTask, CreateAttempt, GoesOn, QueueTaskAssignment, SubmitFails,
         DelegationInv, DelTypeOK
<1>2. ASSUME NEW k \in Command, CancelAssignment(k)
      PROVE  Holds(u)'
  <2>1. asked[u] => asked'[u]
    BY <1>2, Zenon DEF CancelAssignment, DelegationInv, DelTypeOK
  <2>2. UNCHANGED <<submit, assignment, runner, reports, cancellation, attempt>>
    BY <1>2 DEF CancelAssignment
  <2> QED BY <1>h, <2>1, <2>2
<1>3. ASSUME NEW k \in Command, NEW t \in Task, CancelTask(k, t)
      PROVE  Holds(u)'
  BY <1>3, <1>h DEF CancelTask, DelegationInv, DelTypeOK
<1>4. ASSUME NEW t \in Task,
             \/ CancelAssignmentOnly(t) \/ RunnerEvents(t)
             \/ StopRunner(t) \/ StartRunner(t)
      PROVE  Holds(u)'
  BY <1>4, <1>h
     DEF CancelAssignmentOnly, RunnerEvents, StopRunner, StartRunner, Held,
         AssignedHere, DelegationInv, DelTypeOK
<1>5. ASSUME NEW t \in Task,
             \/ ReportCancelled(t) \/ ReportEnds(t) \/ CompleteTask(t) \/ Expire(t)
      PROVE  Holds(u)'
  BY <1>5, <1>h
     DEF ReportCancelled, ReportEnds, CompleteTask, Expire, Confirmed,
         DelegationInv, DelTypeOK
<1>7. CASE Poll
  <2>1. /\ UNCHANGED <<submit, asked, cancellation, attempt, reports>>
        /\ runner'[u] = IF runner[u] = "running" /\ asked[u] THEN "stopping"
                        ELSE runner[u]
        /\ \/ assignment'[u] = assignment[u]
           \/ /\ assignment[u] = "pending"
              /\ assignment'[u] = "assigned"
    BY <1>7 DEF Poll, DelegationInv, DelTypeOK
  <2>2. asked[u] \in BOOLEAN
    BY DEF DelegationInv, DelTypeOK
  <2> QED BY <1>h, <2>1, <2>2
<1>8. CASE Drain \/ SupervisorDies
  BY <1>8, <1>h DEF Drain, SupervisorDies
<1>6. \/ UNCHANGED <<submit, assignment, runner, reports, asked, cancellation, attempt>>
      \/ \E k \in Command : CancelAssignment(k)
      \/ \E k \in Command, t \in Task : CancelTask(k, t)
      \/ \E t \in Task :
           \/ CreateTask(t) \/ CreateAttempt(t)
           \/ QueueTaskAssignment(t) \/ SubmitFails(t)
           \/ CancelAssignmentOnly(t) \/ RunnerEvents(t)
           \/ StopRunner(t) \/ StartRunner(t)
           \/ ReportCancelled(t) \/ ReportEnds(t) \/ CompleteTask(t)
           \/ Expire(t)
      \/ Poll \/ Drain \/ SupervisorDies
  BY DEF DelNext, delVars, Submitting, Cancelling, Running, StopAll, CancelFails
<1> QED BY <1>0, <1>1, <1>2, <1>3, <1>4, <1>5, <1>6, <1>7, <1>8

(***************************************************************************)
(* For any tasks, fan-out, capacity and failed calls: what the TaskCell has *)
(* confirmed as cancelled was asked of the TeamCell, its attempt has ended, *)
(* and the supervisor has told docker to stop its container and let go of  *)
(* it (submitAttemptEvents, requestAssignmentCancel, run.ts).              *)
(***************************************************************************)
THEOREM ConfirmedWasStopped == DelSpec => []ConfirmedIsStopped
<1>1. DelInit => DelegationInv
  BY FaultsAssumption
     DEF DelInit, DelegationInv, Asking, ConfirmedIsStopped, DelTypeOK, IsLive,
         LiveAttempt
<1>2. DelegationInv /\ [DelNext]_delVars => DelegationInv'
  BY DelegationNext
<1>3. DelegationInv => ConfirmedIsStopped
  BY DEF DelegationInv
<1> QED BY <1>1, <1>2, <1>3, PTL DEF DelSpec
==============================================================================
