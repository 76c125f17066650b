----------------------------- MODULE CoreProof -----------------------------
(***************************************************************************)
(* Proofs about the life cycle engine: in every application, however many   *)
(* modules it has and whatever fails, modules are started in boot order and *)
(* stopped in the reverse of the order they were started in; and about the  *)
(* registry's topological_sort, for every dependency graph.                 *)
(***************************************************************************)
EXTENDS Lifecycle, Boot, FiniteSetTheorems, TLAPS

\* The modules that were started are the first ones of the boot order.
StartInv ==
    /\ Len(started) <= Len(entries)
    /\ \A i \in 1..Len(started) : started[i] = entries[i]

\* The modules that were stopped are the last ones that were started, the last one first;
\* during a rollback those it still has to stop are the others.
StopInv ==
    /\ Len(stopped) <= Len(started)
    /\ \A i \in 1..Len(stopped) : stopped[i] = started[Len(started) + 1 - i]
    /\ pc \in {"rollback", "stop"} =>
          /\ Len(stopping) + Len(stopped) = Len(started)
          /\ \A i \in 1..Len(stopping) : stopping[i] = started[i]

\* Where run() is in each phase.
PhaseInv ==
    /\ pc = "build" => phase = "none" /\ entries = <<>>
    /\ pc \in {"start", "rollback"} => phase = "Init"
    /\ pc \in {"wait", "parked"} => phase = "Ready"
    /\ pc = "stop" => phase = "Stopping"
    /\ pc = "hook" => phase # "Stopped"

\* How many modules have been started and stopped there.
ProgressInv ==
    /\ pc = "build" \/ (pc = "hook" /\ phase \in {"none", "Config", "Validate"})
          => Len(started) = 0
    /\ pc \in {"wait", "parked", "stop"} \/ (pc = "hook" /\ phase \in {"Init", "Start", "Ready"})
          => Len(started) = Len(entries)
    /\ pc \in {"build", "start", "wait", "parked"} \/ (pc = "hook" /\ phase # "Stopping")
          => Len(stopped) = 0
    /\ pc = "hook" /\ phase = "Stopping" /\ first_err => Len(stopped) = Len(started)

\* What run() returned.
ResultInv ==
    /\ result # "none" => pc = "done"
    /\ result \in {"start_error", "stop_error"} => Len(stopped) = Len(started)
    /\ result = "ok" => ~first_err

\* The inductive invariant.
LifecycleIInv == TypeOK /\ StartInv /\ StopInv /\ PhaseInv /\ ProgressInv /\ ResultInv

-----------------------------------------------------------------------------

\* The sorted entries are a sequence of all N modules.
LEMMA SortedEntries ==
    ASSUME NEW s \in sort_by_priority
    PROVE  s \in Seq(Modules) /\ Len(s) = N
<1>1. s \in [1..N -> Modules]
  BY DEF sort_by_priority, Modules
<1>. QED
  BY <1>1, LifecycleAssumption

\* What rollback() stops next, and what remains.
LEMMA PopLast ==
    ASSUME NEW S, NEW s \in Seq(S), s # <<>>
    PROVE  LET rest == SubSeq(s, 1, Len(s) - 1)
           IN  /\ Len(s) > 0 /\ s[Len(s)] \in S
               /\ rest \in Seq(S) /\ Len(rest) = Len(s) - 1
               /\ \A i \in 1..Len(s) - 1 : rest[i] = s[i]
<1>1. Len(s) \in Nat /\ Len(s) > 0 /\ s[Len(s)] \in S
  OBVIOUS
<1>2. SubSeq(s, 1, Len(s) - 1) \in Seq(S)
  BY <1>1
<1>3. Len(SubSeq(s, 1, Len(s) - 1)) = Len(s) - 1
  <2>. PICK n \in Nat : n = Len(s) - 1
    BY <1>1
  <2>1. Len(SubSeq(s, 1, n)) = n
    OBVIOUS
  <2>. QED
    BY <2>1
<1>4. \A i \in 1..Len(s) - 1 : SubSeq(s, 1, Len(s) - 1)[i] = s[i]
  BY <1>1
<1>. QED
  BY <1>1, <1>2, <1>3, <1>4, Zenon

LEMMA LifecycleInitial == Init => LifecycleIInv
<1>. SUFFICES ASSUME Init PROVE LifecycleIInv
  OBVIOUS
<1>. USE DEF Init
<1>1. TypeOK
  <2>1. {D \in SUBSET Modules : Cardinality(D) <= MaxDeps} \subseteq SUBSET Modules
    OBVIOUS
  <2>2. deps \in [Modules -> SUBSET Modules]
    BY <2>1
  <2>3. <<>> \in Seq(Modules) /\ Len(<<>>) <= N
    BY LifecycleAssumption
  <2>. QED
    BY <2>2, <2>3, Zenon DEF TypeOK, Phases
<1>2. StartInv /\ StopInv
  BY DEF StartInv, StopInv
<1>3. PhaseInv /\ ProgressInv /\ ResultInv
  BY SMTT(60) DEF PhaseInv, ProgressInv, ResultInv
<1>. QED
  BY <1>1, <1>2, <1>3 DEF LifecycleIInv

LEMMA LifecycleStep == LifecycleIInv /\ [Next]_vars => LifecycleIInv'
<1>. SUFFICES ASSUME LifecycleIInv, [Next]_vars PROVE LifecycleIInv'
  OBVIOUS
<1>. USE DEF LifecycleIInv
<1>1. CASE build
  <2>1. entries' \in Seq(Modules) /\ Len(entries') = N
    BY <1>1, SortedEntries DEF build
  <2>2. TypeOK'
    BY <1>1, <2>1, LifecycleAssumption DEF build, TypeOK, app, shutVars
  <2>3. StartInv' /\ StopInv'
    BY <1>1, <2>1, LifecycleAssumption DEF build, TypeOK, StartInv, StopInv, ProgressInv
  <2>4. PhaseInv' /\ ProgressInv' /\ ResultInv'
    BY <1>1, <2>1 DEF build, TypeOK, PhaseInv, ProgressInv, ResultInv
  <2>. QED
    BY <2>2, <2>3, <2>4
<1>2. CASE notify_ok
  <2>. USE <1>2 DEF notify_ok, next_phase, After, Phases
  <2>1. TypeOK'
    BY DEF TypeOK, app, shutVars
  <2>2. StartInv'
    BY DEF TypeOK, StartInv
  <2>3. StopInv'
    BY SMTT(60) DEF TypeOK, StopInv, StartInv, ProgressInv, PhaseInv
  <2>4. PhaseInv' /\ ProgressInv'
    BY SMTT(60) DEF TypeOK, PhaseInv, ProgressInv
  <2>5. ResultInv'
    BY DEF TypeOK, PhaseInv, ProgressInv, ResultInv
  <2>. QED
    BY <2>1, <2>2, <2>3, <2>4, <2>5, SMTT(60)
<1>3. CASE notify_err
  <2>1. TypeOK'
    BY <1>3 DEF notify_err, next_phase, Phases, TypeOK, app, shutVars
  <2>2. StartInv' /\ StopInv'
    BY <1>3 DEF notify_err, TypeOK, StartInv, StopInv
  <2>3. PhaseInv' /\ ProgressInv' /\ ResultInv'
    BY <1>3 DEF notify_err, TypeOK, PhaseInv, ProgressInv, ResultInv
  <2>. QED
    BY <2>1, <2>2, <2>3
<1>4. CASE on_start_ok
  <2>. USE <1>4 DEF on_start_ok
  <2>1. CASE Len(started) = Len(entries)
    <3>1. TypeOK' /\ StartInv' /\ StopInv'
      BY <2>1, SMTT(60) DEF TypeOK, StartInv, StopInv, app, shutVars
    <3>2. PhaseInv' /\ ProgressInv' /\ ResultInv'
      BY <2>1 DEF TypeOK, PhaseInv, ProgressInv, ResultInv
    <3>. QED
      BY <3>1, <3>2
  <2>2. CASE Len(started) # Len(entries)
    <3>1. Len(started) + 1 \in 1..Len(entries)
      BY <2>2 DEF TypeOK, StartInv
    <3>2. started' = Append(started, entries[Len(started) + 1]) /\ pc' = pc
      BY <2>2
    <3>3. started' \in Seq(Modules) /\ Len(started') = Len(started) + 1
      BY <3>1, <3>2 DEF TypeOK
    <3>4. TypeOK' /\ StartInv'
      BY <3>1, <3>2, <3>3, SMTT(60) DEF TypeOK, StartInv, app, shutVars
    <3>5. StopInv'
      BY <3>2, <3>3 DEF TypeOK, StopInv, ProgressInv
    <3>6. PhaseInv' /\ ProgressInv' /\ ResultInv'
      BY <3>2, <3>3 DEF TypeOK, PhaseInv, ProgressInv, ResultInv
    <3>. QED
      BY <3>4, <3>5, <3>6
  <2>. QED
    BY <2>1, <2>2
<1>5. CASE on_start_err
  <2>. USE <1>5 DEF on_start_err
  <2>1. /\ stopping' \in Seq(Modules) /\ Len(stopping') = Len(started)
        /\ \A i \in 1..Len(started) : stopping'[i] = started[i]
    BY DEF TypeOK, StartInv
  <2>2. TypeOK' /\ StartInv'
    BY <2>1 DEF TypeOK, StartInv, app, shutVars
  <2>3. StopInv'
    BY <2>1 DEF TypeOK, StopInv, ProgressInv
  <2>4. PhaseInv' /\ ProgressInv' /\ ResultInv'
    BY DEF TypeOK, PhaseInv, ProgressInv, ResultInv
  <2>. QED
    BY <2>2, <2>3, <2>4
<1>6. CASE on_stop
  <2>1. /\ Len(stopping) > 0 /\ stopping[Len(stopping)] \in Modules
        /\ stopping' \in Seq(Modules) /\ Len(stopping') = Len(stopping) - 1
        /\ \A i \in 1..Len(stopping) - 1 : stopping'[i] = stopping[i]
    BY <1>6, PopLast, Zenon DEF on_stop, TypeOK
  <2>2. /\ stopped' \in Seq(Modules) /\ Len(stopped') = Len(stopped) + 1
        /\ stopped'[Len(stopped) + 1] = stopping[Len(stopping)]
        /\ \A i \in 1..Len(stopped) : stopped'[i] = stopped[i]
    BY <1>6, <2>1 DEF on_stop, TypeOK
  <2>3. pc \in {"rollback", "stop"} /\ pc' = pc /\ started' = started
    BY <1>6 DEF on_stop
  <2>4. TypeOK' /\ StartInv'
    BY <1>6, <2>1, <2>2, ZenonT(60) DEF on_stop, TypeOK, StartInv, app, shutVars
  <2>5. StopInv'
    <3>1. /\ Len(stopped) \in Nat /\ Len(stopping) \in Nat /\ Len(started) \in Nat
          /\ Len(stopping) + Len(stopped) = Len(started)
      BY <2>3 DEF StopInv, TypeOK
    <3>2. stopping[Len(stopping)] = started[Len(started) + 1 - (Len(stopped) + 1)]
      BY <2>1, <2>3, <3>1 DEF StopInv
    <3>3. Len(stopped') <= Len(started') /\ Len(stopping') + Len(stopped') = Len(started')
      <4>1. /\ Len(started') = Len(started) /\ Len(stopped') = Len(stopped) + 1
            /\ Len(stopping') = Len(stopping) - 1 /\ Len(stopping) > 0
        BY <2>1, <2>2, <2>3
      <4>. QED
        BY <3>1, <4>1, SMTT(60)
    <3>4. \A i \in 1..Len(stopped') : stopped'[i] = started'[Len(started') + 1 - i]
      <4>. SUFFICES ASSUME NEW i \in 1..Len(stopped')
                    PROVE  stopped'[i] = started[Len(started) + 1 - i]
        BY <2>3
      <4>1. i \in 1..Len(stopped) \/ i = Len(stopped) + 1
        BY <2>2, <3>1
      <4>2. CASE i \in 1..Len(stopped)
        BY <2>2, <4>2, SMTT(60) DEF StopInv
      <4>3. CASE i = Len(stopped) + 1
        BY <2>2, <3>2, <4>3
      <4>. QED
        BY <4>1, <4>2, <4>3
    <3>5. \A i \in 1..Len(stopping') : stopping'[i] = started'[i]
      BY <2>1, <2>3, <3>1 DEF StopInv
    <3>. QED
      BY <3>3, <3>4, <3>5 DEF StopInv
  <2>6. PhaseInv' /\ ProgressInv' /\ ResultInv'
    BY <1>6 DEF on_stop, TypeOK, PhaseInv, ProgressInv, ResultInv
  <2>. QED
    BY <2>4, <2>5, <2>6
<1>7. CASE rollback_done
  <2>. USE <1>7 DEF rollback_done
  <2>1. Len(stopped) = Len(started)
    BY DEF TypeOK, StopInv
  <2>2. TypeOK' /\ StartInv'
    BY DEF TypeOK, StartInv, app, shutVars
  <2>3. StopInv'
    BY SMTT(60) DEF TypeOK, StopInv
  <2>4. PhaseInv' /\ ProgressInv' /\ ResultInv'
    BY <2>1 DEF TypeOK, PhaseInv, ProgressInv, ResultInv
  <2>. QED
    BY <2>2, <2>3, <2>4
<1>8. CASE drain_timeout
  <2>. USE <1>8 DEF drain_timeout
  <2>1. TypeOK'
    <3>1. <<>> \in Seq(Modules)
      OBVIOUS
    <3>. QED
      BY <3>1, Zenon DEF TypeOK, app, shutVars
  <2>2. StartInv' /\ StopInv'
    BY DEF TypeOK, StartInv, StopInv
  <2>3. PhaseInv' /\ ProgressInv' /\ ResultInv'
    BY DEF TypeOK, PhaseInv, ProgressInv, ResultInv
  <2>. QED
    BY <2>1, <2>2, <2>3
<1>9. CASE wait_poll \/ wait_repoll \/ request \/ signal
  <2>. USE <1>9 DEF wait_poll, wait_repoll, request, signal
  <2>1. TypeOK' /\ StartInv'
    BY ZenonT(60)  DEF TypeOK, StartInv, app
  <2>2. StopInv'
    BY Zenon DEF TypeOK, StopInv
  <2>3. PhaseInv' /\ ProgressInv' /\ ResultInv'
    BY DEF TypeOK, PhaseInv, ProgressInv, ResultInv
  <2>. QED
    BY <2>1, <2>2, <2>3
<1>10. CASE UNCHANGED vars
  BY <1>10 DEF vars, app, shutVars, TypeOK, StartInv, StopInv, PhaseInv, ProgressInv, ResultInv
<1>. QED
  BY <1>1, <1>2, <1>3, <1>4, <1>5, <1>6, <1>7, <1>8, <1>9, <1>10, SMTT(60) DEF Next, Engine

\* The engine's invariant, in every application: Moduvex::run and LifecycleEngine::run.
THEOREM LifecycleInvariant == Spec => []LifecycleIInv
<1>. QED
  BY LifecycleInitial, LifecycleStep, PTL DEF Spec

LEMMA StopsReverseFromInv == LifecycleIInv => StopsReverse
<1>. SUFFICES ASSUME LifecycleIInv PROVE StopsReverse
  OBVIOUS
<1>. USE DEF LifecycleIInv
<1>1. Len(started) \in Nat /\ Len(stopped) \in Nat /\ Len(stopped) \in 0..Len(started)
  BY DEF TypeOK, StopInv
<1>2. stopped = Newest(Len(stopped))
  <2>1. \A i \in 1..Len(stopped) : stopped[i] = started[Len(started) + 1 - i]
    BY DEF StopInv
  <2>2. stopped = [i \in 1..Len(stopped) |-> stopped[i]]
    BY DEF TypeOK
  <2>. QED
    BY <2>1, <2>2 DEF Newest
<1>3. ASSUME Len(stopped) = Len(started) PROVE Range(stopped) = Range(started)
  <2>1. \A i \in 1..Len(started) : /\ Len(started) + 1 - i \in 1..Len(started)
                                  /\ stopped[i] = started[Len(started) + 1 - i]
                                  /\ started[i] = stopped[Len(started) + 1 - i]
    <3>1. \A i \in 1..Len(started) : stopped[i] = started[Len(started) + 1 - i]
      BY <1>3, SMTT(60) DEF StopInv
    <3>. SUFFICES ASSUME NEW i \in 1..Len(started)
                  PROVE  /\ Len(started) + 1 - i \in 1..Len(started)
                         /\ started[i] = stopped[Len(started) + 1 - i]
      BY <3>1
    <3>2. /\ Len(started) + 1 - i \in 1..Len(started)
          /\ Len(started) + 1 - (Len(started) + 1 - i) = i
      BY <1>1
    <3>. QED
      BY <3>1, <3>2
  <2>2. DOMAIN stopped = 1..Len(started) /\ DOMAIN started = 1..Len(started)
    BY <1>3 DEF TypeOK
  <2>. QED
    BY <2>1, <2>2 DEF Range
<1>. QED
  BY <1>1, <1>2, <1>3 DEF StopsReverse, ResultInv

\* rollback() at every on_start error, at every shutdown and whenever the drain timeout
\* strikes: modules are stopped in the reverse of the order they were started in.
THEOREM LifecycleStopsReverse == Spec => []StopsReverse
<1>. QED
  BY LifecycleInvariant, StopsReverseFromInv, PTL

\* Once rollback() has stopped a module, no on_start is called any more.
THEOREM LifecycleNoStartAfterStop == Spec => [][stopped # <<>> => started' = started]_vars
<1>1. LifecycleIInv /\ [Next]_vars => [stopped # <<>> => started' = started]_vars
  <2>. SUFFICES ASSUME LifecycleIInv, Next, started' # started PROVE stopped = <<>>
    BY SMTT(60) DEF vars
  <2>1. pc = "start"
    BY Zenon DEF Next, Engine, build, notify_ok, notify_err, on_start_ok, on_start_err, on_stop,
           rollback_done, drain_timeout, wait_poll, wait_repoll, request, signal
  <2>2. stopped \in Seq(Modules) /\ Len(stopped) = 0
    BY <2>1 DEF LifecycleIInv, TypeOK, ProgressInv
  <2>. QED
    BY <2>2
<1>. QED
  BY <1>1, LifecycleInvariant, PTL DEF Spec

\* Boot order: a module with a higher priority is started first, equal ones as they were
\* registered, and none twice.
StartsByPriority ==
    \A i, j \in 1..Len(started) :
        i < j => Before(started[i], started[j]) /\ started[i] # started[j]

\* The entries stay as sort_by_priority left them.
BootInv == pc # "build" => entries \in sort_by_priority

\* on_start is called in the order of sort_by_priority, up to the module that failed.
THEOREM LifecycleStartsByPriority == Spec => []StartsByPriority
<1>1. Init => BootInv
  BY DEF Init, BootInv
<1>2. BootInv /\ [Next]_vars => BootInv'
  <2>. SUFFICES ASSUME BootInv, [Next]_vars PROVE BootInv'
    OBVIOUS
  <2>1. CASE build
    <3>1. sort_by_priority' = sort_by_priority
      BY <2>1 DEF build, app, sort_by_priority, Before
    <3>. QED
      BY <2>1, <3>1 DEF build, BootInv
  <2>2. CASE ~build
    <3>1. priority' = priority /\ entries' = entries /\ (pc = "build" => pc' = "build")
      BY <2>2, Zenon DEF Next, Engine, build, notify_ok, notify_err, on_start_ok, on_start_err, on_stop,
           rollback_done, drain_timeout, wait_poll, wait_repoll, request, signal, vars, app
    <3>2. sort_by_priority' = sort_by_priority
      BY <3>1 DEF sort_by_priority, Before
    <3>. QED
      BY <3>1, <3>2 DEF BootInv
  <2>. QED
    BY <2>1, <2>2
<1>3. LifecycleIInv /\ BootInv => StartsByPriority
  <2>. SUFFICES ASSUME LifecycleIInv, BootInv, NEW i \in 1..Len(started), NEW j \in 1..Len(started), i < j
                PROVE  Before(started[i], started[j]) /\ started[i] # started[j]
    BY DEF StartsByPriority
  <2>1. started[i] = entries[i] /\ started[j] = entries[j] /\ Len(started) <= Len(entries)
    BY DEF LifecycleIInv, StartInv
  <2>2. Len(started) \in Nat /\ Len(entries) \in Nat /\ Len(entries) <= N /\ Len(entries) > 0
    BY <2>1 DEF LifecycleIInv, TypeOK
  <2>3. i \in Modules /\ j \in Modules
    BY <2>1, <2>2, LifecycleAssumption DEF Modules
  <2>4. entries \in sort_by_priority
    BY <2>2 DEF LifecycleIInv, PhaseInv, BootInv
  <2>5. Before(entries[i], entries[j]) /\ entries[i] \in Modules
    BY <2>3, <2>4 DEF sort_by_priority
  <2>6. priority[entries[i]] \in Int /\ entries[i] \in Int
    <3>1. priority[entries[i]] \in Priorities
      BY <2>5 DEF LifecycleIInv, TypeOK
    <3>2. entries[i] \in Int
      BY <2>5, LifecycleAssumption DEF Modules
    <3>. QED
      BY <3>1, <3>2, LifecycleAssumption, Zenon
  <2>7. ~Before(entries[i], entries[i])
    BY <2>6 DEF Before
  <2>. QED
    BY <2>1, <2>5, <2>7
<1>. QED
  BY <1>1, <1>2, <1>3, LifecycleInvariant, PTL DEF Spec

-----------------------------------------------------------------------------
(* ModuleRegistry::topological_sort                                          *)

\* The modules already in sorted_indices.
Placed == {sorted[i] : i \in 1..Len(sorted)}

\* Sets in which every module waits for another of the set.
Knots == {S \in SUBSET RgModules : \A m \in S : rgDeps[m] \cap S # {}}

RegistryTypeOK ==
    /\ rgDeps \in [RgModules -> SUBSET RgModules]
    /\ in_degree \in [RgModules -> Nat]
    /\ sorted \in Seq(RgModules)
    /\ rgResult \in {"none", "ok", "cycle"}

\* in_degree counts the dependencies that are not placed yet, the heap holds the modules
\* that wait for none, every placed module comes after its dependencies, and none of a knot
\* is ever placed.
RegistryIInv ==
    /\ RegistryTypeOK
    /\ \A i, j \in 1..Len(sorted) : sorted[i] = sorted[j] => i = j
    /\ \A i \in 1..Len(sorted) : \A d \in rgDeps[sorted[i]] : \E j \in 1..i - 1 : sorted[j] = d
    /\ \A m \in RgModules : in_degree[m] = Cardinality(rgDeps[m] \ Placed)
    /\ heap = {m \in RgModules \ Placed : rgDeps[m] \subseteq Placed}
    /\ \A S \in Knots : S \cap Placed = {}
    /\ rgResult # "none" => heap = {}
    /\ rgResult = "ok" => Len(sorted) = RgN
    /\ rgResult = "cycle" => Len(sorted) # RgN

-----------------------------------------------------------------------------

\* A turn of the loop places one dependency of some of the modules.
LEMMA OneFewer ==
    ASSUME NEW D, IsFiniteSet(D), NEW P, NEW m, m \notin P
    PROVE  Cardinality(D \ (P \cup {m})) =
              IF m \in D THEN Cardinality(D \ P) - 1 ELSE Cardinality(D \ P)
<1>1. IsFiniteSet(D \ P)
  BY FS_Subset
<1>2. Cardinality((D \ P) \ {m}) = IF m \in D \ P THEN Cardinality(D \ P) - 1 ELSE Cardinality(D \ P)
  BY <1>1, FS_RemoveElement, Zenon
<1>3. D \ (P \cup {m}) = (D \ P) \ {m}
  OBVIOUS
<1>4. m \in D \ P <=> m \in D
  OBVIOUS
<1>. QED
  BY <1>2, <1>3, <1>4, Zenon

LEMMA RgModulesFinite ==
    /\ IsFiniteSet(RgModules) /\ Cardinality(RgModules) = RgN
    /\ \A D \in SUBSET RgModules : IsFiniteSet(D)
<1>1. IsFiniteSet(1..RgN) /\ Cardinality(1..RgN) = IF 1 > RgN THEN 0 ELSE RgN - 1 + 1
  BY FS_Interval, RegistryAssumption
<1>2. (IF 1 > RgN THEN 0 ELSE RgN - 1 + 1) = RgN
  BY RegistryAssumption
<1>. QED
  BY <1>1, <1>2, FS_Subset, Zenon DEF RgModules

LEMMA RegistryInitial == RgInit => RegistryIInv
<1>. SUFFICES ASSUME RgInit PROVE RegistryIInv
  OBVIOUS
<1>1. /\ rgDeps \in [RgModules -> {D \in SUBSET RgModules : Cardinality(D) <= RgDeps}]
      /\ in_degree = [m \in RgModules |-> Cardinality(rgDeps[m])]
      /\ heap = {m \in RgModules : rgDeps[m] = {}}
      /\ sorted = <<>> /\ rgResult = "none"
  BY DEF RgInit
<1>2. {D \in SUBSET RgModules : Cardinality(D) <= RgDeps} \subseteq SUBSET RgModules
  OBVIOUS
<1>3. rgDeps \in [RgModules -> SUBSET RgModules]
  BY <1>1, <1>2
<1>4. \A m \in RgModules : IsFiniteSet(rgDeps[m]) /\ Cardinality(rgDeps[m]) \in Nat
  BY <1>3, RgModulesFinite, FS_CardinalityType
<1>5. in_degree \in [RgModules -> Nat]
  BY <1>1, <1>4, Zenon
<1>6. <<>> \in Seq(RgModules) /\ Len(<<>>) = 0
  OBVIOUS
<1>7. Placed = {} /\ Len(sorted) = 0
  BY <1>1, <1>6 DEF Placed
<1>8. RegistryTypeOK
  BY <1>1, <1>3, <1>5, <1>6 DEF RegistryTypeOK
<1>9. \A m \in RgModules : in_degree[m] = Cardinality(rgDeps[m] \ Placed)
  <2>1. \A m \in RgModules : rgDeps[m] \ Placed = rgDeps[m]
    BY <1>7
  <2>. QED
    BY <1>1, <2>1, Zenon
<1>10. heap = {m \in RgModules \ Placed : rgDeps[m] \subseteq Placed}
  BY <1>1, <1>7
<1>. QED
  BY <1>1, <1>7, <1>8, <1>9, <1>10 DEF RegistryIInv

LEMMA RegistryStep == RegistryIInv /\ [RgNext]_rgVars => RegistryIInv'
<1>. SUFFICES ASSUME RegistryIInv, [RgNext]_rgVars PROVE RegistryIInv'
  OBVIOUS
<1>1. ASSUME NEW m \in RgModules, pop(m) PROVE RegistryIInv'
  <2>0. /\ m \in heap /\ sorted' = Append(sorted, m)
        /\ in_degree' = [n \in RgModules |-> IF m \in rgDeps[n] THEN in_degree[n] - 1 ELSE in_degree[n]]
        /\ heap' = (heap \ {m}) \cup {n \in {k \in RgModules : m \in rgDeps[k]} : in_degree'[n] = 0}
        /\ rgDeps' = rgDeps /\ rgResult' = rgResult
    BY <1>1, SMTT(60) DEF pop, Dependents, RgModules
  <2>1. m \notin Placed /\ rgDeps[m] \subseteq Placed
    BY <2>0 DEF RegistryIInv
  <2>2. /\ sorted' \in Seq(RgModules) /\ Len(sorted') = Len(sorted) + 1 /\ Len(sorted) \in Nat
        /\ \A i \in 1..Len(sorted) : sorted'[i] = sorted[i]
        /\ sorted'[Len(sorted) + 1] = m
    BY <2>0 DEF RegistryIInv, RegistryTypeOK
  <2>3. Placed' = Placed \cup {m}
    <3>1. 1..Len(sorted') = (1..Len(sorted)) \cup {Len(sorted) + 1}
      BY <2>2
    <3>. QED
      BY <2>2, <3>1, SMTT(60) DEF Placed
  <2>4. \A n \in RgModules : in_degree'[n] = Cardinality(rgDeps[n] \ Placed')
    <3>. SUFFICES ASSUME NEW n \in RgModules
                  PROVE  in_degree'[n] = Cardinality(rgDeps[n] \ Placed')
      BY Zenon
    <3>1. in_degree[n] = Cardinality(rgDeps[n] \ Placed)
      BY Zenon DEF RegistryIInv
    <3>2. IsFiniteSet(rgDeps[n])
      BY RgModulesFinite DEF RegistryIInv, RegistryTypeOK
    <3>3. in_degree'[n] = IF m \in rgDeps[n] THEN in_degree[n] - 1 ELSE in_degree[n]
      BY <2>0, Zenon
    <3>4. m \notin Placed
      BY <2>1
    <3>5. Cardinality(rgDeps[n] \ (Placed \cup {m})) =
             IF m \in rgDeps[n] THEN Cardinality(rgDeps[n] \ Placed) - 1
             ELSE Cardinality(rgDeps[n] \ Placed)
      BY ONLY <3>2, <3>4, OneFewer, Zenon
    <3>. QED
      BY <2>3, <3>1, <3>3, <3>5, Zenon
  <2>5. \A n \in RgModules : in_degree'[n] \in Nat /\ (in_degree'[n] = 0 <=> rgDeps[n] \subseteq Placed')
    <3>. SUFFICES ASSUME NEW n \in RgModules
                  PROVE  in_degree'[n] \in Nat /\ (in_degree'[n] = 0 <=> rgDeps[n] \subseteq Placed')
      OBVIOUS
    <3>1. IsFiniteSet(rgDeps[n]) /\ IsFiniteSet(rgDeps[n] \ Placed')
      BY RgModulesFinite, FS_Subset DEF RegistryIInv, RegistryTypeOK
    <3>2. rgDeps[n] \ Placed' = {} <=> rgDeps[n] \subseteq Placed'
      OBVIOUS
    <3>3. Cardinality(rgDeps[n] \ Placed') \in Nat
          /\ (Cardinality(rgDeps[n] \ Placed') = 0 <=> rgDeps[n] \ Placed' = {})
      BY <3>1, FS_CardinalityType, FS_EmptySet, SMTT(60)
    <3>. QED
      BY <2>4, <3>2, <3>3, Zenon
  <2>6. RegistryTypeOK'
    BY <2>0, <2>2, <2>5 DEF RegistryTypeOK, RegistryIInv
  <2>7. (\A i, j \in 1..Len(sorted) : sorted[i] = sorted[j] => i = j)'
    <3>1. \A i \in 1..Len(sorted) : sorted[i] # m
      BY <2>1 DEF Placed
    <3>. QED
      BY <2>2, <3>1 DEF RegistryIInv
  <2>8. (\A i \in 1..Len(sorted) : \A d \in rgDeps[sorted[i]] : \E j \in 1..i - 1 : sorted[j] = d)'
    <3>. SUFFICES ASSUME NEW i \in 1..Len(sorted'), NEW d \in rgDeps[sorted'[i]]
                  PROVE  \E j \in 1..i - 1 : sorted'[j] = d
      BY <2>0
    <3>1. CASE i = Len(sorted) + 1
      <4>1. d \in Placed
        BY <2>1, <2>2, <3>1, SMTT(60)
      <4>. QED
        BY <2>2, <3>1, <4>1 DEF Placed
    <3>2. CASE i \in 1..Len(sorted)
      <4>1. PICK j \in 1..i - 1 : sorted[j] = d
        BY <2>2, <3>2, ZenonT(60) DEF RegistryIInv
      <4>. QED
        BY <2>2, <3>2, <4>1
    <3>. QED
      BY <2>2, <3>1, <3>2, SMTT(60)
  <2>9. (heap = {n \in RgModules \ Placed : rgDeps[n] \subseteq Placed})'
    <3>1. heap = {n \in RgModules \ Placed : rgDeps[n] \subseteq Placed}
      BY DEF RegistryIInv
    <3>2. ASSUME NEW n \in RgModules PROVE n \in heap' <=> (n \notin Placed' /\ rgDeps[n] \subseteq Placed')
      <4>1. CASE n = m
        <5>1. ~(m \in rgDeps[m])
          BY <2>1
        <5>. QED
          BY <2>0, <2>3, <4>1, <5>1
      <4>2. CASE n # m /\ m \in rgDeps[n]
        <5>1. n \in heap' <=> in_degree'[n] = 0
          BY <2>0, <2>1, <3>1, <4>2
        <5>2. rgDeps[n] \subseteq Placed' => n \notin Placed
          <6>. SUFFICES ASSUME n \in Placed PROVE FALSE
            OBVIOUS
          <6>1. PICK i \in 1..Len(sorted) : sorted[i] = n
            BY SMTT(60) DEF Placed
          <6>2. PICK j \in 1..i - 1 : sorted[j] = m
            BY <4>2, <6>1, SMTT(60) DEF RegistryIInv
          <6>. QED
            BY <2>1, <2>2, <6>2 DEF Placed
        <5>. QED
          BY <2>3, <2>5, <4>2, <5>1, <5>2, SMTT(60)
      <4>3. CASE n # m /\ m \notin rgDeps[n]
        BY <2>0, <2>3, <3>1, <4>3
      <4>. QED
        BY <4>1, <4>2, <4>3, SMTT(60)
    <3>3. heap' \subseteq RgModules
      BY <2>0, <3>1
    <3>. QED
      BY <2>0, <3>2, <3>3, SMTT(60)
  <2>10. (\A S \in Knots : S \cap Placed = {})'
    <3>1. Knots' = Knots
      BY <2>0, SMTT(60) DEF Knots
    <3>. SUFFICES ASSUME NEW S \in Knots PROVE m \notin S
      BY <2>3, <3>1 DEF RegistryIInv
    <3>2. S \cap Placed = {}
      BY DEF RegistryIInv
    <3>3. m \in S => rgDeps[m] \cap S # {}
      BY DEF Knots
    <3>. QED
      BY <2>1, <3>2, <3>3, SMTT(60)
  <2>11. rgResult = "none"
    BY <2>0, SMTT(60) DEF RegistryIInv
  <2>. QED
    BY <2>0, <2>4, <2>6, <2>7, <2>8, <2>9, <2>10, <2>11, ZenonT(60) DEF RegistryIInv
<1>2. CASE finish
  <2>1. UNCHANGED <<rgDeps, in_degree, heap, sorted>> /\ heap = {}
    BY <1>2 DEF finish
  <2>2. Placed' = Placed /\ Knots' = Knots
    BY <2>1 DEF Placed, Knots
  <2>3. rgResult' = IF Len(sorted) = RgN THEN "ok" ELSE "cycle"
    BY <1>2, SMTT(60) DEF finish
  <2>. QED
    BY <2>1, <2>2, <2>3 DEF RegistryIInv, RegistryTypeOK
<1>3. CASE UNCHANGED rgVars
  <2>1. UNCHANGED <<rgDeps, in_degree, heap, sorted, rgResult>>
    BY <1>3 DEF rgVars
  <2>2. Placed' = Placed /\ Knots' = Knots
    BY <2>1 DEF Placed, Knots
  <2>. QED
    BY <2>1, <2>2 DEF RegistryIInv, RegistryTypeOK
<1>. QED
  BY <1>1, <1>2, <1>3 DEF RgNext, RgModules

\* The while loop of topological_sort, for any dependencies that were declared.
THEOREM RegistryInvariant == RgSpec => []RegistryIInv
<1>. QED
  BY RegistryInitial, RegistryStep, PTL DEF RgSpec

\* Every module is placed exactly when there are as many as were registered.
LEMMA AllPlaced == RegistryIInv => (Len(sorted) = RgN <=> Placed = RgModules)
<1>. SUFFICES ASSUME RegistryIInv PROVE Len(sorted) = RgN <=> Placed = RgModules
  OBVIOUS
<1>1. sorted \in Bijection(1..Len(sorted), Placed)
  <2>1. sorted \in [1..Len(sorted) -> Placed]
    BY DEF RegistryIInv, RegistryTypeOK, Placed
  <2>. QED
    BY <2>1 DEF RegistryIInv, Placed, Bijection, Injection, Surjection, IsInjective
<1>2. ExistsBijection(1..Len(sorted), Placed)
  BY <1>1 DEF ExistsBijection
<1>3. Len(sorted) \in Nat
  BY DEF RegistryIInv, RegistryTypeOK
<1>4. IsFiniteSet(1..Len(sorted)) /\ Cardinality(1..Len(sorted)) = Len(sorted)
  <2>1. /\ IsFiniteSet(1..Len(sorted))
        /\ Cardinality(1..Len(sorted)) = IF 1 > Len(sorted) THEN 0 ELSE Len(sorted) - 1 + 1
    BY <1>3, FS_Interval, SMTT(60)
  <2>2. (IF 1 > Len(sorted) THEN 0 ELSE Len(sorted) - 1 + 1) = Len(sorted)
    BY <1>3
  <2>. QED
    BY <2>1, <2>2
<1>5. Cardinality(Placed) = Len(sorted)
  BY <1>2, <1>4, FS_Bijection
<1>6. Placed \in SUBSET RgModules
  BY DEF RegistryIInv, RegistryTypeOK, Placed
<1>. QED
  BY <1>5, <1>6, RgModulesFinite, FS_Subset

LEMMA SortsFromInv == RegistryIInv => SortsDependencyFirst
<1>. SUFFICES ASSUME RegistryIInv PROVE SortsDependencyFirst
  OBVIOUS
<1>1. Range(sorted) = Placed
  BY DEF Range, Placed, RegistryIInv, RegistryTypeOK
<1>2. Cyclic <=> \E S \in Knots : S # {}
  BY Zenon DEF Cyclic, RgModules, Knots
<1>3. ASSUME rgResult = "ok"
      PROVE  /\ ~Cyclic /\ Range(sorted) = RgModules
             /\ \A i, j \in 1..RgN : sorted[j] \in rgDeps[sorted[i]] => j < i
  <2>1. Len(sorted) = RgN /\ Placed = RgModules
    BY <1>3, AllPlaced, Zenon DEF RegistryIInv
  <2>2. ~Cyclic
    BY <1>2, <2>1 DEF RegistryIInv, Knots
  <2>3. \A i, j \in 1..RgN : sorted[j] \in rgDeps[sorted[i]] => j < i
    <3>. SUFFICES ASSUME NEW i \in 1..RgN, NEW j \in 1..RgN, sorted[j] \in rgDeps[sorted[i]]
                  PROVE  j < i
      OBVIOUS
    <3>1. PICK k \in 1..i - 1 : sorted[k] = sorted[j]
      BY <2>1 DEF RegistryIInv
    <3>2. k = j
      BY <2>1, <3>1, RegistryAssumption DEF RegistryIInv
    <3>. QED
      BY <3>1, <3>2, RegistryAssumption
  <2>. QED
    BY <1>1, <2>1, <2>2, <2>3, SMTT(60) DEF RgModules
<1>4. ASSUME rgResult = "cycle" PROVE Cyclic
  <2>. DEFINE S == RgModules \ Placed
  <2>1. Placed # RgModules /\ Placed \subseteq RgModules /\ heap = {}
    <3>1. Len(sorted) # RgN /\ heap = {}
      BY <1>4 DEF RegistryIInv
    <3>2. Placed \subseteq RgModules
      BY DEF RegistryIInv, RegistryTypeOK, Placed
    <3>. QED
      BY <3>1, <3>2, AllPlaced
  <2>2. \A m \in S : rgDeps[m] \cap S # {}
    BY <2>1 DEF RegistryIInv, RegistryTypeOK
  <2>. QED
    BY <1>2, <2>1, <2>2, ZenonT(60) DEF Knots
<1>. QED
  BY <1>3, <1>4, Zenon DEF SortsDependencyFirst

\* topological_sort succeeds exactly when the dependencies have no cycle, with every module
\* after what it depends on, for any number of modules and any priorities.
THEOREM RegistrySortsDependencyFirst == RgSpec => []SortsDependencyFirst
<1>. QED
  BY RegistryInvariant, SortsFromInv, PTL
=============================================================================
