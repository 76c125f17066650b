------------------------------ MODULE TaskLocal ------------------------------
(***************************************************************************)
(* TaskLocal::scope: a Scope future moves its value into the thread's        *)
(* STORAGE around every poll of its inner future and puts back what was      *)
(* there.  A task is a nest of scopes with code in the innermost one that is *)
(* still running; that code may itself drive other tasks (a nested           *)
(* block_on), so that the polls of several tasks nest on one thread.         *)
(***************************************************************************)
EXTENDS Integers, Sequences, Functions

CONSTANTS ScopeTasks,
          ScopesOf    \* each task's scopes from the outside in: <<key, value>>

ASSUME ScopeAssumption == \A t \in ScopeTasks : ScopesOf[t] \in Seq(Range(ScopesOf[t]))

VARIABLES storage,      \* STORAGE: key -> value
          frames,       \* the Scope::poll calls in progress, the innermost last
          scope_value   \* Scope.value: held between polls, "stored" during one, gone

scopeVars == <<storage, frames, scope_value>>

TlInit ==
    /\ storage = <<>>
    /\ frames = <<>>
    /\ scope_value = [t \in ScopeTasks |-> [i \in DOMAIN ScopesOf[t] |-> "held"]]

Key(t, i) == ScopesOf[t][i][1]
Val(t, i) == ScopesOf[t][i][2]

\* the scope of task t that is next to be polled below depth i, if any
Inner(t, i) == i < Len(ScopesOf[t]) /\ scope_value[t][i + 1] = "held"

Top == frames[Len(frames)]

\* the task's own code is running: no scope of it is left to enter
AtLeaf == frames # <<>> /\ ~Inner(Top.t, Top.i)

\* Scope::poll up to the poll of its inner future
enter(t) ==
    /\ LET i == IF frames # <<>> /\ Top.t = t THEN Top.i ELSE 0 IN
       /\ Inner(t, i)
       /\ i = 0 => /\ frames = <<>> \/ AtLeaf
                   /\ \A k \in DOMAIN frames : frames[k].t # t
       /\ frames' = Append(frames, [t |-> t, i |-> i + 1,
                       prev |-> Restrict(storage, DOMAIN storage \cap {Key(t, i + 1)})])
       /\ storage' = [k \in DOMAIN storage \cup {Key(t, i + 1)} |->
                         IF k = Key(t, i + 1) THEN Val(t, i + 1) ELSE storage[k]]
       /\ scope_value' = [scope_value EXCEPT ![t][i + 1] = "stored"]

\* variant: what was there before is not put back
exit_NoRestore(ready) ==
    /\ frames # <<>> /\ frames' = SubSeq(frames, 1, Len(frames) - 1)
    /\ storage' = Restrict(storage, DOMAIN storage \ {Key(Top.t, Top.i)})
    /\ scope_value' = [scope_value EXCEPT ![Top.t][Top.i] = IF ready THEN "gone" ELSE "held"]

\* Scope::poll after the inner poll: remove, restore, and keep the value for
\* the next poll unless the inner future is ready
exit(ready) ==
    /\ frames # <<>>
    /\ LET t == Top.t
           i == Top.i
       IN /\ ready => AtLeaf
          /\ frames' = SubSeq(frames, 1, Len(frames) - 1)
          /\ storage' = [k \in (DOMAIN storage \ {Key(t, i)}) \cup DOMAIN Top.prev |->
                            IF k \in DOMAIN Top.prev THEN Top.prev[k] ELSE storage[k]]
          /\ scope_value' = [scope_value EXCEPT ![t][i] = IF ready THEN "gone" ELSE "held"]

TlNext == (\E t \in ScopeTasks : enter(t)) \/ (\E ready \in BOOLEAN : exit(ready))

TlSpec == TlInit /\ [][TlNext]_scopeVars

-----------------------------------------------------------------------------
\* the frames in which key k was set
Setting(k) == {n \in DOMAIN frames : Key(frames[n].t, frames[n].i) = k}

\* with() finds the value of the innermost scope being polled, and outside every
\* scope it finds nothing: no value leaks from one poll or task into another
\* (Scope::poll, TaskLocal::try_with).
InnermostScope ==
    /\ DOMAIN storage = {Key(frames[n].t, frames[n].i) : n \in DOMAIN frames}
    /\ \A k \in DOMAIN storage :
         LET n == CHOOSE n \in Setting(k) : \A m \in Setting(k) : m <= n
         IN storage[k] = Val(frames[n].t, frames[n].i)
=============================================================================
