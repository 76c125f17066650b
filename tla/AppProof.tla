------------------------------ MODULE AppProof ------------------------------
(***************************************************************************)
(* Proofs about an application: how it is wired, for any set of modules,    *)
(* dependencies, ranks and singletons; and what its health checks answer,   *)
(* for any set of checks.                                                   *)
(***************************************************************************)
EXTENDS Boot, Monitoring, WellFoundedInduction, FiniteSetTheorems, TLAPS

Up == {"boot", "ready", "failed"}

\* The program, and a list of entries without repetition.
BdTypes ==
    /\ Required \in [BdModules -> SUBSET BdModules]
    /\ rank \in [BdModules -> Int]
    /\ bdEntries \in Seq(BdModules)
    /\ \A i, j \in DOMAIN bdEntries : bdEntries[i] = bdEntries[j] => i = j
    /\ bdNext \in 1..Len(bdEntries) + 1
    /\ bdState \in {"Unconfigured", "Configured"} \cup Up
    /\ bdFound = [m \in BdModules |-> bdFound[m]]
    /\ bdState \notin Up => bdNext = 1 /\ bdError = NoError
    /\ bdState = "ready" => bdError = NoError

\* What the compile-time check and the sort leave: a dependency comes before the module that
\* requires it, unless it has a lower rank.
OrderInv ==
    bdState \in Up =>
        \A i \in DOMAIN bdEntries : \A d \in Required[bdEntries[i]] :
            \/ d = bdEntries[i] \/ rank[d] < rank[bdEntries[i]]
            \/ \E j \in 1..i - 1 : bdEntries[j] = d

\* Entry j is the last before n that provides t.
LastBefore(n, t, j) ==
    /\ j \in 1..n - 1 /\ Provides[bdEntries[j]] = t
    /\ \A k \in 1..n - 1 : Provides[bdEntries[k]] = t => k <= j

\* The TypeMap holds, of each type, the value of the last module that has started.
MapInv ==
    /\ \A t \in DOMAIN singletons :
           \E j \in DOMAIN bdEntries : LastBefore(bdNext, t, j) /\ singletons[t] = bdEntries[j]
    /\ \A j \in 1..bdNext - 1 : Provides[bdEntries[j]] \in DOMAIN singletons

\* What the hooks that have run found.
FoundInv ==
    \A i \in 1..bdNext - 1 : \A d \in Required[bdEntries[i]] :
        \E j \in DOMAIN bdEntries :
            LastBefore(i, Provides[d], j) /\ bdFound[bdEntries[i]][d] = bdEntries[j]

\* The error on its way up: of the entry that is starting, and still what was raised.
Same(e, root) ==
    /\ e.variant \in DOMAIN Answers /\ DOMAIN e = Answers[e.variant]
    /\ DOMAIN e = DOMAIN root
    /\ \A a \in DOMAIN root \ {"message", "key"} : e[a] = root[a]
ErrorInv ==
    /\ bdState \notin Up \/ bdError = NoError => bdRoot = NoError /\ bdError = NoError
    /\ bdError # NoError =>
          /\ bdNext \in DOMAIN bdEntries
          /\ bdState = "boot" => Same(bdError, bdRoot)
          /\ bdState = "failed" => bdError.module = bdEntries[bdNext]
          /\ bdRoot = ConfigError(<<"missing">>) =>
                \E d \in Required[bdEntries[bdNext]] : Provides[d] \notin DOMAIN singletons

BdIInv == BdTypes /\ OrderInv /\ MapInv /\ FoundInv /\ ErrorInv

LEMMA BdInitial == BdInit => BdIInv
<1>. SUFFICES ASSUME BdInit PROVE BdIInv
  OBVIOUS
<1>1. /\ Required \in [BdModules -> SUBSET BdModules]
      /\ bdFound = [m \in BdModules |-> bdFound[m]]
  BY Zenon DEF BdInit
<1>2. rank \in [BdModules -> Int]
  BY BootAssumption, Zenon DEF BdInit
<1>3. /\ bdEntries \in Seq(BdModules)
      /\ \A i, j \in DOMAIN bdEntries : bdEntries[i] = bdEntries[j] => i = j
      /\ bdNext \in 1..Len(bdEntries) + 1
  BY DEF BdInit
<1>4. BdTypes
  BY <1>1, <1>2, <1>3 DEF BdInit, BdTypes, Up
<1>5. OrderInv /\ MapInv /\ FoundInv
  BY DEF BdInit, OrderInv, MapInv, FoundInv, Up
<1>6. ErrorInv
  BY DEF BdInit, ErrorInv, Up
<1>. QED
  BY <1>4, <1>5, <1>6 DEF BdIInv

\* The invariant gives the property: the CHOOSEs of BootWired are unique.
LEMMA BdImplies == BdIInv => BootWired
<1>. SUFFICES ASSUME BdIInv PROVE BootWired
  OBVIOUS
<1>. DEFINE at(m) == CHOOSE i \in DOMAIN bdEntries : bdEntries[i] = m
            before(m, t) == {i \in 1..at(m) - 1 : Provides[bdEntries[i]] = t}
            last(m, t) == CHOOSE j \in before(m, t) : \A k \in before(m, t) : k <= j
<1>1. ASSUME NEW i \in 1..bdNext - 1, NEW d \in Required[bdEntries[i]]
      PROVE  bdFound[bdEntries[i]][d] = bdEntries[last(bdEntries[i], Provides[d])]
  <2>. DEFINE m == bdEntries[i]
              t == Provides[d]
  <2>1. i \in DOMAIN bdEntries
    BY DEF BdIInv, BdTypes
  <2>2. at(m) = i
    BY <2>1, Zenon DEF BdIInv, BdTypes
  <2>3. PICK j \in DOMAIN bdEntries :
           LastBefore(i, t, j) /\ bdFound[m][d] = bdEntries[j]
    BY Zenon DEF BdIInv, FoundInv
  <2>4. before(m, t) = {k \in 1..i - 1 : Provides[bdEntries[k]] = t}
    BY <2>2, Zenon
  <2>. HIDE DEF before, at, t, m
  <2>5. j \in before(m, t) /\ \A k \in before(m, t) : k <= j
    BY <2>3, <2>4, Zenon DEF LastBefore
  <2>6. ASSUME NEW h \in before(m, t), \A k \in before(m, t) : k <= h
        PROVE  h = j
    <3>1. h \in Int /\ j \in Int
      BY <2>4, <2>5, <2>6
    <3>2. h <= j /\ j <= h
      BY <2>5, <2>6, Zenon
    <3>. QED
      BY <3>1, <3>2
  <2>7. last(m, t) = j
    BY <2>5, <2>6, Zenon
  <2>. HIDE DEF last
  <2>8. bdFound[m][d] = bdEntries[last(m, t)]
    BY <2>3, <2>7, Zenon
  <2>. QED
    BY <2>8, Zenon DEF m, t
<1>2. ASSUME bdState = "failed", bdRoot = ConfigError(<<"missing">>)
      PROVE  \E d \in Required[bdError.module] :
                 rank[d] < rank[bdError.module] \/ d = bdError.module
  <2>1. bdRoot # NoError
    BY <1>2 DEF ConfigError, NoError
  <2>2. /\ bdError # NoError /\ bdNext \in DOMAIN bdEntries
        /\ bdError.module = bdEntries[bdNext]
        /\ \E d \in Required[bdEntries[bdNext]] : Provides[d] \notin DOMAIN singletons
    BY <1>2, <2>1, Zenon DEF BdIInv, ErrorInv
  <2>3. PICK d \in Required[bdEntries[bdNext]] : Provides[d] \notin DOMAIN singletons
    BY <2>2, Zenon
  <2>4. \/ d = bdEntries[bdNext] \/ rank[d] < rank[bdEntries[bdNext]]
        \/ \E j \in 1..bdNext - 1 : bdEntries[j] = d
    BY <1>2, <2>2, Zenon DEF BdIInv, OrderInv, Up
  <2>5. ~ \E j \in 1..bdNext - 1 : bdEntries[j] = d
    BY <2>3, Zenon DEF BdIInv, MapInv
  <2>. QED
    BY <2>2, <2>4, <2>5, Zenon
<1>3. ASSUME bdState = "boot"
      PROVE  /\ DOMAIN bdError = DOMAIN bdRoot
             /\ \A a \in DOMAIN bdRoot \ {"message", "key"} : bdError[a] = bdRoot[a]
  BY <1>3, Zenon DEF BdIInv, ErrorInv, Same
<1>. QED
  BY <1>1, <1>2, <1>3, Zenon DEF BootWired

----------------------------------------------------------------------------
\* The steps that change neither the entries nor what the hooks have done.

LEMMA BdSame ==
    ASSUME bdApp' = bdApp, bdEntries' = bdEntries, bdNext' = bdNext, singletons' = singletons,
           bdFound' = bdFound, BdIInv
    PROVE  MapInv' /\ FoundInv' /\ ((bdState' \in Up => bdState \in Up) => OrderInv')
<1>1. Required' = Required /\ rank' = rank /\ Provides' = Provides
  BY DEF bdApp
<1>2. \A n, t, j : LastBefore(n, t, j)' <=> LastBefore(n, t, j)
  BY <1>1 DEF LastBefore
<1>3. MapInv'
  BY <1>1, <1>2 DEF BdIInv, MapInv
<1>4. FoundInv'
  BY <1>1, <1>2 DEF BdIInv, FoundInv
<1>5. ASSUME bdState' \in Up => bdState \in Up PROVE OrderInv'
  BY <1>1, <1>5 DEF BdIInv, OrderInv
<1>. QED
  BY <1>3, <1>4, <1>5, Zenon

LEMMA BdConfig == BdIInv /\ config => BdIInv'
<1>. SUFFICES ASSUME BdIInv, config PROVE BdIInv'
  OBVIOUS
<1>1. bdState' \notin Up
  BY DEF config, Up
<1>2. MapInv' /\ FoundInv' /\ OrderInv'
  BY <1>1, BdSame, Zenon DEF config, OrderInv
<1>3. BdTypes'
  BY DEF config, BdIInv, BdTypes, bdApp, Up
<1>4. ErrorInv'
  BY <1>1 DEF config, BdIInv, ErrorInv, BdTypes, Up
<1>. QED
  BY <1>2, <1>3, <1>4, Zenon DEF BdIInv

LEMMA BdReady == BdIInv /\ ready => BdIInv'
<1>. SUFFICES ASSUME BdIInv, ready PROVE BdIInv'
  OBVIOUS
<1>1. bdState \in Up /\ bdState' \in Up
  BY DEF ready, Up
<1>2. MapInv' /\ FoundInv' /\ OrderInv'
  BY <1>1, BdSame, Zenon DEF ready
<1>3. bdError = NoError
  BY DEF ready, BdIInv, ErrorInv, BdTypes
<1>4. BdTypes'
  BY <1>1, <1>3 DEF ready, BdIInv, BdTypes, bdApp, Up
<1>5. ErrorInv'
  BY <1>1, <1>3, Zenon DEF ready, BdIInv, ErrorInv
<1>. QED
  BY <1>2, <1>4, <1>5, Zenon DEF BdIInv

----------------------------------------------------------------------------
\* Errors.

LEMMA Variants ==
    DOMAIN Answers = {"Infra", "Domain", "Other", "Config", "Lifecycle"}
  BY DEF Answers

\* wrap_with_context keeps every answer but the message and the key.
LEMMA WrapSame ==
    ASSUME NEW e, NEW root, NEW msg, Same(e, root)
    PROVE  Same(wrap_with_context(e, msg), root) /\ wrap_with_context(e, msg) # NoError
<1>. DEFINE w == wrap_with_context(e, msg)
<1>0. e.variant \in {"Infra", "Domain", "Other", "Config", "Lifecycle"}
  BY Variants, Zenon DEF Same
<1>1. CASE e.variant = "Infra"
  <2>1. w = InfraContextError(e, msg)
    BY <1>1 DEF wrap_with_context
  <2>. QED
    BY <1>1, <2>1 DEF Same, InfraContextError, Answers, NoError
<1>2. CASE e.variant = "Domain"
  <2>1. w = DomainContextError(e, msg)
    BY <1>2 DEF wrap_with_context
  <2>. QED
    BY <1>2, <2>1 DEF Same, DomainContextError, Answers, NoError
<1>3. CASE e.variant = "Other"
  <2>1. w = ContextError(e, msg)
    BY <1>3 DEF wrap_with_context
  <2>. QED
    BY <1>3, <2>1 DEF Same, ContextError, Answers, NoError
<1>4. CASE e.variant = "Config"
  <2>1. w = ConfigError(<<msg>> \o to_string(e))
    BY <1>4 DEF wrap_with_context
  <2>. QED
    BY <1>4, <2>1 DEF Same, ConfigError, Answers, NoError
<1>5. CASE e.variant = "Lifecycle"
  <2>1. w = LifecycleError(<<msg>> \o e.message, e.module)
    BY <1>5 DEF wrap_with_context
  <2>. QED
    BY <1>5, <2>1 DEF Same, LifecycleError, Answers, NoError
<1>. QED
  BY <1>0, <1>1, <1>2, <1>3, <1>4, <1>5, Zenon

\* What a hook raises is an error, and not the one of require().
LEMMA RaisedError ==
    ASSUME NEW e \in Raised \cup {from_io("TimedOut"), from_io("NotFound")}
    PROVE  Same(e, e) /\ e # NoError /\ e # ConfigError(<<"missing">>)
<1>1. CASE e \in Raised
  <2>1. e.variant # "none"
    BY <1>1, BootAssumption, Variants
  <2>. QED
    BY <1>1, <2>1, BootAssumption DEF Same, NoError
<1>2. ASSUME NEW kind, e = from_io(kind)
      PROVE  Same(e, e) /\ e # NoError /\ e # ConfigError(<<"missing">>)
  BY <1>2 DEF from_io, Same, Answers, NoError, ConfigError
<1>. QED
  BY <1>1, <1>2, Zenon

LEMMA MissingError ==
    LET e == ConfigError(<<"missing">>) IN Same(e, e) /\ e # NoError
  BY DEF ConfigError, Same, Answers, NoError

LEMMA BdFail == BdIInv /\ fail => BdIInv'
<1>. SUFFICES ASSUME BdIInv, fail PROVE BdIInv'
  OBVIOUS
<1>1. bdState = "boot" /\ bdState' = bdState /\ bdState \in Up
  BY DEF fail, Up
<1>2. MapInv' /\ FoundInv' /\ OrderInv'
  BY <1>1, BdSame, Zenon DEF fail
<1>3. BdTypes'
  BY <1>1 DEF fail, BdIInv, BdTypes, bdApp, Up
<1>4. Same(bdError', bdRoot') /\ bdError' # NoError /\ bdRoot' # ConfigError(<<"missing">>)
  BY RaisedError, Zenon DEF fail
<1>5. bdNext' \in DOMAIN bdEntries'
  BY DEF fail, BdIInv, BdTypes
<1>6. ErrorInv'
  BY <1>1, <1>4, <1>5 DEF ErrorInv, Same
<1>. QED
  BY <1>2, <1>3, <1>6, Zenon DEF BdIInv

LEMMA BdContext == ASSUME NEW msg, BdIInv, context(msg) PROVE BdIInv'
<1>1. bdState = "boot" /\ bdState' = bdState /\ bdState \in Up
  BY DEF context, Up
<1>2. MapInv' /\ FoundInv' /\ OrderInv'
  BY <1>1, BdSame, Zenon DEF context
<1>3. BdTypes'
  BY <1>1 DEF context, BdIInv, BdTypes, bdApp, Up
<1>4. Same(bdError, bdRoot)
  BY <1>1, Zenon DEF context, BdIInv, ErrorInv
<1>5. Same(bdError', bdRoot') /\ bdError' # NoError
  BY <1>4, WrapSame, Zenon DEF context
<1>6. ErrorInv'
  BY <1>1, <1>5 DEF context, BdIInv, ErrorInv, Same, bdApp
<1>. QED
  BY <1>2, <1>3, <1>6, Zenon DEF BdIInv

LEMMA BdStartFailed == BdIInv /\ start_failed => BdIInv'
<1>. SUFFICES ASSUME BdIInv, start_failed PROVE BdIInv'
  OBVIOUS
<1>1. bdState = "boot" /\ bdState' = "failed" /\ bdState \in Up /\ bdState' \in Up
  BY DEF start_failed, Up
<1>2. MapInv' /\ FoundInv' /\ OrderInv'
  BY <1>1, BdSame, Zenon DEF start_failed
<1>3. BdTypes'
  BY <1>1 DEF start_failed, BdIInv, BdTypes, bdApp, Up
<1>4. bdError' # NoError /\ bdError'.module = bdEntries[bdNext]
  BY DEF start_failed, LifecycleError, NoError
<1>5. ErrorInv'
  BY <1>1, <1>4 DEF start_failed, BdIInv, ErrorInv, bdApp
<1>. QED
  BY <1>2, <1>3, <1>5, Zenon DEF BdIInv

----------------------------------------------------------------------------
\* Registration, and the sort.

LEMMA BdModule == ASSUME NEW m \in BdModules, BdIInv, module(m) PROVE BdIInv'
<1>1. /\ bdState = "Configured" /\ bdState' = bdState /\ bdState \notin Up
      /\ bdNext = 1 /\ bdNext' = 1 /\ bdError = NoError
  BY DEF module, Up, BdIInv, BdTypes
<1>2. DOMAIN singletons = {}
  <2>1. 1..bdNext - 1 = {}
    BY <1>1
  <2>. QED
    BY <2>1, Zenon DEF BdIInv, MapInv, LastBefore
<1>3. MapInv' /\ FoundInv' /\ OrderInv'
  <2>1. 1..bdNext' - 1 = {}
    BY <1>1
  <2>2. DOMAIN singletons' = {} /\ bdState' \notin Up
    BY <1>1, <1>2 DEF module
  <2>. QED
    BY <2>1, <2>2, Zenon DEF MapInv, FoundInv, OrderInv
<1>4. bdEntries' = Append(bdEntries, m) /\ bdEntries \in Seq(BdModules) /\ bdEntries' \in Seq(BdModules)
  BY DEF module, BdIInv, BdTypes
<1>5. ASSUME NEW i \in DOMAIN bdEntries', NEW j \in DOMAIN bdEntries', bdEntries'[i] = bdEntries'[j]
      PROVE  i = j
  <2>1. \A k \in DOMAIN bdEntries : bdEntries[k] # m
    BY DEF module, Range
  <2>. QED
    BY <1>4, <1>5, <2>1 DEF BdIInv, BdTypes
<1>6. bdNext' \in 1..Len(bdEntries') + 1
  BY <1>1, <1>4
<1>7. BdTypes'
  BY <1>1, <1>4, <1>5, <1>6, SMTT(60) DEF module, BdIInv, BdTypes, bdApp
<1>8. ErrorInv'
  BY <1>1 DEF module, BdIInv, ErrorInv
<1>. QED
  BY <1>3, <1>7, <1>8, Zenon DEF BdIInv

\* The compile-time check: a dependency is the module itself or was registered before it.
LEMMA DepsBefore ==
    ASSUME NEW list \in Seq(BdModules), AllDepsOk(type_list(list)),
           NEW i \in DOMAIN list, NEW d \in Required[list[i]]
    PROVE  \E j \in DOMAIN list : j <= i /\ list[j] = d
<1>. DEFINE n == Len(list)
            r == type_list(list)
            h == n - i + 1
<1>1. n \in Nat /\ i \in 1..n /\ DOMAIN list = 1..n /\ h \in 1..n
  OBVIOUS
<1>2. r \in Seq(BdModules) /\ Len(r) = n /\ DOMAIN r = 1..n /\ \A k \in 1..n : r[k] = list[n - k + 1]
  BY <1>1 DEF type_list
<1>3. r[h] = list[i]
  BY <1>1, <1>2
<1>. HIDE DEF r, h, n
<1>4. ContainsModule(SubSeq(r, h, n), d)
  BY <1>1, <1>2, <1>3, Zenon DEF AllDepsOk, ContainsAll, r
<1>5. PICK k \in DOMAIN SubSeq(r, h, n) : SubSeq(r, h, n)[k] = d
  BY <1>4, Zenon DEF ContainsModule
<1>6. k \in 1..n - h + 1 /\ d = r[h + k - 1]
  BY <1>1, <1>2, <1>5
<1>7. n - (h + k - 1) + 1 \in 1..i /\ h + k - 1 \in 1..n
  BY <1>1, <1>6, SMTT(60) DEF h
<1>8. d = list[n - (h + k - 1) + 1]
  BY <1>2, <1>6, <1>7
<1>. QED
  BY <1>1, <1>7, <1>8, SMTT(60)

\* What sort_by_priority returns.
LEMMA Sorted ==
    ASSUME NEW list \in Seq(BdModules), NEW new \in sort_by_rank(list)
    PROVE  \E p \in [DOMAIN list -> DOMAIN list] :
              /\ new = [i \in DOMAIN list |-> list[p[i]]]
              /\ \A i, j \in DOMAIN list : p[i] = p[j] => i = j
              /\ \A k \in DOMAIN list : \E i \in DOMAIN list : p[i] = k
              /\ \A i, j \in DOMAIN list :
                    i < j => \/ rank[list[p[i]]] > rank[list[p[j]]]
                             \/ rank[list[p[i]]] = rank[list[p[j]]] /\ p[i] < p[j]
<1>. DEFINE before(i, j) == \/ rank[list[i]] > rank[list[j]]
                            \/ rank[list[i]] = rank[list[j]] /\ i < j
<1>1. PICK p \in Bijection(DOMAIN list, DOMAIN list) :
         /\ \A i, j \in DOMAIN list : i < j => before(p[i], p[j])
         /\ new = [i \in DOMAIN list |-> list[p[i]]]
  BY Zenon DEF sort_by_rank
<1>2. /\ p \in [DOMAIN list -> DOMAIN list]
      /\ \A i, j \in DOMAIN list : p[i] = p[j] => i = j
      /\ \A k \in DOMAIN list : \E i \in DOMAIN list : p[i] = k
  BY <1>1, Zenon DEF Bijection, Injection, IsInjective, Surjection
<1>. QED
  BY <1>1, <1>2, Zenon

LEMMA BdRun == BdIInv /\ run => BdIInv'
<1>. SUFFICES ASSUME BdIInv, run PROVE BdIInv'
  OBVIOUS
<1>1. /\ bdState = "Configured" /\ bdState' = "boot" /\ bdState' \in Up /\ bdState \notin Up
      /\ bdNext = 1 /\ bdNext' = 1 /\ bdError = NoError
      /\ Required' = Required /\ rank' = rank
  BY DEF run, Up, BdIInv, BdTypes, bdApp
<1>2. /\ bdEntries \in Seq(BdModules)
      /\ \A i, j \in DOMAIN bdEntries : bdEntries[i] = bdEntries[j] => i = j
      /\ AllDepsOk(type_list(bdEntries)) /\ bdEntries' \in sort_by_rank(bdEntries)
  BY Zenon DEF run, BdIInv, BdTypes
<1>. DEFINE n == Len(bdEntries)
<1>3. n \in Nat /\ DOMAIN bdEntries = 1..n
  BY <1>2
<1>4. PICK p \in [DOMAIN bdEntries -> DOMAIN bdEntries] :
              /\ bdEntries' = [i \in DOMAIN bdEntries |-> bdEntries[p[i]]]
              /\ \A i, j \in DOMAIN bdEntries : p[i] = p[j] => i = j
              /\ \A k \in DOMAIN bdEntries : \E i \in DOMAIN bdEntries : p[i] = k
              /\ \A i, j \in DOMAIN bdEntries :
                    i < j => \/ rank[bdEntries[p[i]]] > rank[bdEntries[p[j]]]
                             \/ rank[bdEntries[p[i]]] = rank[bdEntries[p[j]]] /\ p[i] < p[j]
  BY <1>2, Sorted, Zenon
<1>. HIDE DEF n
<1>5. bdEntries' \in Seq(BdModules) /\ Len(bdEntries') = n /\ DOMAIN bdEntries' = 1..n
  <2>1. bdEntries' = [i \in 1..n |-> bdEntries[p[i]]]
    BY <1>3, <1>4, Zenon
  <2>2. \A i \in 1..n : bdEntries[p[i]] \in BdModules
    BY <1>2, <1>3, <1>4
  <2>. QED
    BY <1>3, <2>1, <2>2
<1>6. \A i \in 1..n : bdEntries'[i] = bdEntries[p[i]] /\ p[i] \in 1..n
  BY <1>3, <1>4, Zenon
<1>7. \A i, j \in DOMAIN bdEntries' : bdEntries'[i] = bdEntries'[j] => i = j
  BY <1>2, <1>3, <1>4, <1>5, <1>6, SMTT(60)
<1>8. bdNext' \in 1..Len(bdEntries') + 1
  BY <1>1, <1>3, <1>5
<1>9. BdTypes'
  BY <1>1, <1>5, <1>7, <1>8 DEF run, BdIInv, BdTypes, bdApp
<1>10. MapInv' /\ FoundInv'
  <2>1. 1..bdNext - 1 = {} /\ 1..bdNext' - 1 = {}
    BY <1>1
  <2>2. DOMAIN singletons = {}
    BY <2>1, Zenon DEF BdIInv, MapInv, LastBefore
  <2>3. DOMAIN singletons' = {}
    BY <2>2, Zenon DEF run
  <2>. QED
    BY <2>1, <2>3, Zenon DEF MapInv, FoundInv
<1>11. ErrorInv'
  BY <1>1 DEF run, BdIInv, ErrorInv
<1>12. ASSUME NEW i \in DOMAIN bdEntries', NEW d \in Required[bdEntries'[i]],
              d # bdEntries'[i], ~ rank[d] < rank[bdEntries'[i]]
       PROVE  \E j \in 1..i - 1 : bdEntries'[j] = d
  <2>1. i \in 1..n /\ bdEntries'[i] = bdEntries[p[i]] /\ p[i] \in DOMAIN bdEntries
    BY <1>3, <1>5, <1>6, Zenon
  <2>2. PICK h \in DOMAIN bdEntries : h <= p[i] /\ bdEntries[h] = d
    <3>1. d \in Required[bdEntries[p[i]]]
      BY <2>1, Zenon
    <3>2. ASSUME NEW k \in DOMAIN bdEntries, d \in Required[bdEntries[k]]
          PROVE  \E h \in DOMAIN bdEntries : h <= k /\ bdEntries[h] = d
      BY <1>2, <3>2, DepsBefore, Zenon
    <3>. QED
      BY <2>1, <3>1, <3>2, Zenon
  <2>3. PICK j \in DOMAIN bdEntries : p[j] = h
    BY <1>4, Zenon
  <2>4. bdEntries'[j] = d
    BY <1>3, <1>6, <2>2, <2>3, Zenon
  <2>5. j # i
    BY <1>12, <2>4, Zenon
  <2>6. rank[d] \in Int /\ rank[bdEntries[p[i]]] \in Int
    BY <1>2, <2>1, <2>2 DEF BdIInv, BdTypes
  <2>7. ~ i < j
    <3>1. SUFFICES ASSUME i < j PROVE FALSE
      OBVIOUS
    <3>2. \/ rank[bdEntries[p[i]]] > rank[bdEntries[p[j]]]
          \/ rank[bdEntries[p[i]]] = rank[bdEntries[p[j]]] /\ p[i] < p[j]
      BY <1>3, <1>4, <2>1, <3>1, Zenon
    <3>3. rank[bdEntries[p[i]]] > rank[d] \/ p[i] < h
      BY <2>2, <2>3, <3>2, Zenon
    <3>4. ~ rank[d] < rank[bdEntries[p[i]]]
      BY <1>12, <2>1, Zenon
    <3>. QED
      BY <1>3, <2>1, <2>2, <2>6, <3>3, <3>4, SMTT(60)
  <2>8. j \in 1..i - 1
    BY <1>3, <2>1, <2>5, <2>7
  <2>. QED
    BY <2>4, <2>8, Zenon
<1>13. OrderInv'
  BY <1>1, <1>12, Zenon DEF OrderInv
<1>. QED
  BY <1>9, <1>10, <1>11, <1>13, Zenon DEF BdIInv

----------------------------------------------------------------------------
\* A module's on_start.

\* A dependency whose type is there is found.
LEMMA RequireFound ==
    ASSUME NEW map, NEW t
    PROVE  require(map, t) = NoError <=> t \in DOMAIN map
<1>1. <<map[t]>> # <<>>
  OBVIOUS
<1>2. ConfigError(<<"missing">>) # NoError
  BY MissingError, Zenon
<1>. QED
  BY <1>1, <1>2, Zenon DEF require, get

\* A hook that misses a dependency fails.
LEMMA BdMissing ==
    ASSUME BdIInv, on_start, NEW d \in Required[bdEntries[bdNext]],
           Provides[d] \notin DOMAIN singletons
    PROVE  BdIInv'
<1>. DEFINE m    == bdEntries[bdNext]
            lost == {x \in Required[m] : require(singletons, Provides[x]) # NoError}
            e    == ConfigError(<<"missing">>)
<1>1. lost # {}
  BY RequireFound, Zenon
<1>2. bdError' = e /\ bdRoot' = e /\ UNCHANGED <<bdFound, singletons, bdNext>>
  BY <1>1, Zenon DEF on_start
<1>3. /\ bdState = "boot" /\ bdState' = bdState /\ bdState \in Up
      /\ UNCHANGED <<bdApp, bdEntries, bdFound, singletons, bdNext>>
      /\ Required' = Required /\ Provides' = Provides
  BY <1>2 DEF on_start, Up, bdApp
<1>4. MapInv' /\ FoundInv' /\ OrderInv'
  BY <1>3, BdSame, Zenon
<1>5. BdTypes'
  BY <1>3 DEF BdIInv, BdTypes, bdApp, Up
<1>6. Same(e, e) /\ e # NoError
  BY MissingError, Zenon
<1>. HIDE DEF e
<1>7. bdNext' \in DOMAIN bdEntries'
  BY <1>3 DEF on_start, BdIInv, BdTypes
<1>8. \E x \in Required'[bdEntries'[bdNext']] : Provides'[x] \notin DOMAIN singletons'
  BY <1>3, Zenon
<1>9. bdState' \in Up /\ bdState' # "failed"
  BY <1>3
<1>10. ErrorInv'
  BY <1>2, <1>6, <1>7, <1>8, <1>9, Zenon DEF ErrorInv
<1>. QED
  BY <1>4, <1>5, <1>10, Zenon DEF BdIInv

\* A hook that finds every dependency inserts its singleton.
LEMMA BdStarted ==
    ASSUME BdIInv, on_start, \A d \in Required[bdEntries[bdNext]] : Provides[d] \in DOMAIN singletons
    PROVE  BdIInv'
<1>. DEFINE n    == bdNext
            m    == bdEntries[bdNext]
            lost == {x \in Required[m] : require(singletons, Provides[x]) # NoError}
            got  == [d \in Required[m] |-> singletons[Provides[d]]]
<1>1. lost = {}
  BY RequireFound, Zenon
<1>2. /\ bdFound' = [bdFound EXCEPT ![m] = got]
      /\ singletons' = insert(singletons, Provides[m], m)
      /\ bdNext' = n + 1 /\ UNCHANGED <<bdError, bdRoot>>
  BY <1>1, Zenon DEF on_start
<1>3. /\ bdState = "boot" /\ bdState' = bdState /\ bdState \in Up
      /\ bdEntries' = bdEntries /\ bdError = NoError /\ bdError' = NoError /\ bdRoot' = bdRoot
      /\ Required' = Required /\ Provides' = Provides /\ rank' = rank
  BY <1>2 DEF on_start, Up, bdApp
<1>4. /\ n \in Nat /\ n \in 1..Len(bdEntries) /\ Len(bdEntries) \in Nat
      /\ bdEntries \in Seq(BdModules) /\ DOMAIN bdEntries = 1..Len(bdEntries) /\ m \in BdModules
  BY DEF on_start, BdIInv, BdTypes
<1>5. bdNext' - 1 = n /\ 1..bdNext' - 1 = (1..n - 1) \cup {n} /\ n \notin 1..n - 1
  BY <1>2, <1>4
<1>6. OrderInv'
  BY <1>3 DEF BdIInv, OrderInv
<1>7. bdFound' = [x \in BdModules |-> bdFound'[x]]
  BY <1>2, <1>4, Zenon DEF BdIInv, BdTypes
<1>8. BdTypes'
  BY <1>2, <1>3, <1>4, <1>7 DEF BdIInv, BdTypes
<1>9. ErrorInv'
  BY <1>3, Zenon DEF BdIInv, ErrorInv
<1>10. DOMAIN singletons' = DOMAIN singletons \cup {Provides[m]} /\ singletons'[Provides[m]] = m
       /\ \A t \in DOMAIN singletons : t # Provides[m] => singletons'[t] = singletons[t]
  BY <1>2, Zenon DEF insert
<1>11. /\ \A x \in Required[m] : bdFound'[m][x] = singletons[Provides[x]]
       /\ \A x \in BdModules : x # m => bdFound'[x] = bdFound[x]
  BY <1>2, <1>4, Zenon DEF BdIInv, BdTypes
<1>12. \A i, t, j : LastBefore(i, t, j)' <=> LastBefore(i, t, j)
  BY <1>3 DEF LastBefore
<1>. HIDE DEF n, m, got
<1>13. ASSUME NEW t \in DOMAIN singletons'
       PROVE  \E j \in DOMAIN bdEntries : LastBefore(n + 1, t, j) /\ singletons'[t] = bdEntries[j]
  <2>0. (n + 1) - 1 = n /\ 1..n = (1..n - 1) \cup {n} /\ n \in 1..n /\ \A k \in 1..n : k <= n
    BY <1>4
  <2>1. CASE t = Provides[m]
    <3>1. LastBefore(n + 1, t, n)
      BY <2>0, <2>1 DEF LastBefore, m, n
    <3>. QED
      BY <1>4, <1>10, <2>1, <3>1, Zenon DEF m, n
  <2>2. CASE t # Provides[m]
    <3>1. PICK j \in DOMAIN bdEntries : LastBefore(n, t, j) /\ singletons[t] = bdEntries[j]
      BY <1>10, <2>2, Zenon DEF BdIInv, MapInv, n
    <3>2. Provides[bdEntries[n]] # t
      BY <2>2, Zenon DEF m, n
    <3>3. LastBefore(n + 1, t, j)
      BY <2>0, <3>1, <3>2, Zenon DEF LastBefore
    <3>. QED
      BY <1>10, <2>2, <3>1, <3>3, Zenon
  <2>. QED
    BY <2>1, <2>2, Zenon
<1>14. MapInv'
  <2>1. \A j \in 1..n - 1 : Provides[bdEntries[j]] \in DOMAIN singletons
    BY Zenon DEF BdIInv, MapInv, n
  <2>2. \A j \in 1..bdNext' - 1 : Provides'[bdEntries'[j]] \in DOMAIN singletons'
    BY <1>3, <1>5, <1>10, <2>1, Zenon DEF m, n
  <2>3. \A t \in DOMAIN singletons' :
           \E j \in DOMAIN bdEntries' : LastBefore(bdNext, t, j)' /\ singletons'[t] = bdEntries'[j]
    <3>1. \A t, j : LastBefore(bdNext, t, j)' <=> LastBefore(n + 1, t, j)
      BY <1>2, <1>3 DEF LastBefore
    <3>. QED
      BY <1>3, <1>13, <3>1, Zenon
  <2>. QED
    BY <2>2, <2>3, Zenon DEF MapInv
<1>15. ASSUME NEW i \in 1..bdNext' - 1, NEW d \in Required[bdEntries[i]]
       PROVE  \E j \in DOMAIN bdEntries :
                 LastBefore(i, Provides[d], j) /\ bdFound'[bdEntries[i]][d] = bdEntries[j]
  <2>1. CASE i = n
    <3>1. d \in Required[m] /\ bdEntries[i] = m /\ Provides[d] \in DOMAIN singletons
      BY <2>1, Zenon DEF m, n
    <3>2. PICK j \in DOMAIN bdEntries :
             LastBefore(n, Provides[d], j) /\ singletons[Provides[d]] = bdEntries[j]
      BY <3>1, Zenon DEF BdIInv, MapInv, n
    <3>. QED
      BY <1>11, <2>1, <3>1, <3>2, Zenon
  <2>2. CASE i \in 1..n - 1
    <3>1. PICK j \in DOMAIN bdEntries :
             LastBefore(i, Provides[d], j) /\ bdFound[bdEntries[i]][d] = bdEntries[j]
      BY <2>2, Zenon DEF BdIInv, FoundInv, n
    <3>2. i \in DOMAIN bdEntries /\ i # n /\ n \in DOMAIN bdEntries
      BY <1>4, <2>2
    <3>3. bdEntries[i] # m /\ bdEntries[i] \in BdModules
      <4>1. bdEntries[i] # bdEntries[n]
        BY <3>2, Zenon DEF BdIInv, BdTypes
      <4>2. bdEntries[i] \in BdModules
        BY <1>4, <3>2
      <4>. QED
        BY <4>1, <4>2, Zenon DEF m, n
    <3>. QED
      BY <1>11, <3>1, <3>3, Zenon
  <2>. QED
    BY <1>5, <2>1, <2>2, Zenon
<1>16. FoundInv'
  BY <1>3, <1>12, <1>15, ZenonT(60) DEF FoundInv
<1>. QED
  BY <1>6, <1>8, <1>9, <1>14, <1>16, Zenon DEF BdIInv

----------------------------------------------------------------------------

\* The wiring's invariant is inductive.
THEOREM BootInvariant == BdSpec => []BdIInv
<1>1. ASSUME BdIInv, BdNext PROVE BdIInv'
  <2>1. ASSUME on_start PROVE BdIInv'
    BY <1>1, <2>1, BdMissing, BdStarted, Zenon
  <2>. QED
    BY <1>1, <2>1, BdConfig, BdRun, BdFail, BdStartFailed, BdReady, BdModule, BdContext, Zenon
       DEF BdNext
<1>2. ASSUME BdIInv, UNCHANGED bdVars PROVE BdIInv'
  <2>1. /\ bdApp' = bdApp /\ bdEntries' = bdEntries /\ bdNext' = bdNext
        /\ singletons' = singletons /\ bdFound' = bdFound /\ bdState' = bdState
        /\ bdError' = bdError /\ bdRoot' = bdRoot
    BY <1>2 DEF bdVars
  <2>2. MapInv' /\ FoundInv' /\ OrderInv'
    BY <1>2, <2>1, BdSame, Zenon
  <2>3. BdTypes'
    BY <1>2, <2>1 DEF BdIInv, BdTypes, bdApp
  <2>4. ErrorInv'
    BY <1>2, <2>1 DEF BdIInv, ErrorInv, bdApp
  <2>. QED
    BY <2>2, <2>3, <2>4, Zenon DEF BdIInv
<1>. QED
  BY <1>1, <1>2, BdInitial, PTL DEF BdSpec

\* Whatever modules an application is built from, with whatever dependencies, ranks and types
\* of singletons: a boot that compiles lacks a singleton only where a module outranks what it
\* depends on, every hook finds the value of the last module of the type, and an error keeps
\* its answers under contexts.
THEOREM BootIsWired == BdSpec => []BootWired
  BY BootInvariant, BdImplies, PTL

----------------------------------------------------------------------------
(* The health registry.                                                     *)

Checks == SyncChecks \cup AsyncChecks
Report == [name : Checks, status : Statuses]

NoRepeat(s) == \A i, j \in 1..Len(s) : s[i] = s[j] => i = j
Distinct(results) == \A i, j \in 1..Len(results) : results[i].name = results[j].name => i = j
Has(results, c) == \E i \in 1..Len(results) : results[i].name = c

\* The registered checks, each once, and the states of the components.
ListsInv ==
    /\ hlState \in [Checks -> Statuses]
    /\ hlSync \in Seq(SyncChecks) /\ NoRepeat(hlSync)
    /\ hlAsync \in Seq(AsyncChecks) /\ NoRepeat(hlAsync)

\* An aggregation under way: what it has and what it still awaits are the checks that were
\* registered as it began, and no check comes up twice.
CallInv ==
    /\ hlCall.at \in {"none", "collect", "await"}
    /\ hlCall.at = "none" => hlCall = NoCall
    /\ hlCall.at = "collect" =>
          /\ hlCall.results \in Seq(Report) /\ Distinct(hlCall.results)
          /\ \A i \in 1..Len(hlCall.results) : hlCall.results[i].name \in SyncChecks
          /\ \A c \in hlCall.asked : Has(hlCall.results, c) \/ c \in Range(hlAsync)
    /\ hlCall.at = "await" =>
          /\ hlCall = [at |-> "await", results |-> hlCall.results, asked |-> hlCall.asked,
                       futures |-> hlCall.futures]
          /\ hlCall.results \in Seq(Report) /\ Distinct(hlCall.results)
          /\ hlCall.futures \in Seq(AsyncChecks) /\ NoRepeat(hlCall.futures)
          /\ \A k \in 1..Len(hlCall.futures) : ~ Has(hlCall.results, hlCall.futures[k])
          /\ \A c \in hlCall.asked : Has(hlCall.results, c) \/ c \in Range(hlCall.futures)

\* The answer given last.
ResultInv ==
    hlResult # <<>> =>
        LET r == hlResult[1]
        IN  /\ r.seen \in Seq(Report) /\ Distinct(r.seen)
            /\ r.answer = aggregate_results(r.seen)
            /\ \A c \in r.asked : Has(r.seen, c)

HlIInv == ListsInv /\ CallInv /\ ResultInv

\* A set of natural numbers has a least one.
LEMMA Least ==
    ASSUME NEW T, T \subseteq Nat, T # {}
    PROVE  \E x \in T : \A y \in T : x <= y
<1>. DEFINE R == OpToRel(<, Nat)
<1>1. IsWellFoundedOn(R, Nat)
  BY NatLessThanWellFounded
<1>2. \A y, x \in Nat : y < x => <<y, x>> \in R
  BY DEF OpToRel
<1>. HIDE DEF R
<1>3. PICK x \in T : \A y \in T : ~ (<<y, x>> \in R)
  BY <1>1, WFMin, Zenon
<1>4. ASSUME NEW y \in T PROVE x <= y
  <2>1. x \in Nat /\ y \in Nat
    BY Zenon
  <2>2. ~ y < x
    BY <1>2, <1>3, <2>1, Zenon
  <2>. QED
    BY <2>1, <2>2
<1>. QED
  BY <1>4, Zenon


\* A set of indices has a greatest one.
LEMMA Greatest ==
    ASSUME NEW n \in Nat, NEW T, T \subseteq 1..n, T # {}
    PROVE  \E x \in T : \A y \in T : x >= y
<1>. DEFINE U == {n - x : x \in T}
<1>1. ASSUME NEW x \in T PROVE x \in Nat /\ n - x \in Nat
  <2>1. x \in 1..n
    BY Zenon
  <2>. QED
    BY <2>1
<1>2. U \subseteq Nat /\ U # {}
  BY <1>1, Zenon
<1>3. PICK u \in U : \A y \in U : u <= y
  BY <1>2, Least, Zenon
<1>4. PICK x \in T : u = n - x
  BY Zenon
<1>5. ASSUME NEW y \in T PROVE x >= y
  <2>1. n - x <= n - y
    BY <1>3, <1>4, Zenon
  <2>2. x \in Nat /\ y \in Nat
    BY <1>1, Zenon
  <2>. QED
    BY <2>1, <2>2
<1>. QED
  BY <1>5, Zenon

LEMMA HlInitial == HlInit => HlIInv
<1>. SUFFICES ASSUME HlInit PROVE HlIInv
  OBVIOUS
<1>1. ListsInv
  BY DEF HlInit, ListsInv, Checks, Statuses, NoRepeat
<1>2. CallInv
  BY DEF HlInit, CallInv, NoCall
<1>. QED
  BY <1>1, <1>2, Zenon DEF HlInit, HlIInv, ResultInv

\* aggregate_results answers with the worst status, and with a check that reported it.
LEMMA AggregateWorst ==
    ASSUME NEW seen \in Seq(Report)
    PROVE  LET a == aggregate_results(seen)
               reported == {seen[i].status : i \in 1..Len(seen)}
               Worst == IF "Unhealthy" \in reported THEN "Unhealthy"
                        ELSE IF "Degraded" \in reported THEN "Degraded" ELSE "Healthy"
           IN  /\ a.status = Worst
               /\ Worst # "Healthy" => [name |-> a.by, status |-> Worst] \in Range(seen)
<1>. DEFINE a == aggregate_results(seen)
            reported == {seen[i].status : i \in 1..Len(seen)}
            At(s) == {i \in 1..Len(seen) : seen[i].status = s}
            u == CHOOSE i \in At("Unhealthy") : \A j \in At("Unhealthy") : i <= j
            d == CHOOSE i \in At("Degraded") : \A j \in At("Degraded") : i >= j
<1>1. \A s : s \in reported <=> At(s) # {}
  BY Zenon
<1>2. Len(seen) \in Nat /\ DOMAIN seen = 1..Len(seen)
  OBVIOUS
<1>3. ASSUME NEW s, NEW i \in At(s)
      PROVE  [name |-> seen[i].name, status |-> s] \in Range(seen)
  <2>1. i \in DOMAIN seen /\ seen[i].status = s /\ seen[i] \in Report
    BY <1>2
  <2>2. [name |-> seen[i].name, status |-> s] = seen[i]
    BY <2>1 DEF Report
  <2>. QED
    BY <2>1, <2>2, Zenon DEF Range
<1>4. CASE At("Unhealthy") # {}
  <2>1. a = [status |-> "Unhealthy", by |-> seen[u].name]
    BY <1>4, Zenon DEF aggregate_results
  <2>2. At("Unhealthy") \subseteq Nat
    BY <1>2
  <2>3. u \in At("Unhealthy")
    <3>1. \E i \in At("Unhealthy") : \A j \in At("Unhealthy") : i <= j
      BY <1>4, <2>2, Least, Zenon
    <3>. QED
      BY <3>1, Zenon
  <2>. HIDE DEF u, At, a
  <2>4. [name |-> seen[u].name, status |-> "Unhealthy"] \in Range(seen)
    BY <1>3, <2>3, Zenon
  <2>5. a.status = "Unhealthy" /\ a.by = seen[u].name
    BY <2>1
  <2>6. "Unhealthy" \in reported
    BY <1>1, <1>4, Zenon
  <2>. HIDE DEF reported
  <2>. QED
    BY <2>4, <2>5, <2>6, Zenon DEF a, reported
<1>5. CASE At("Unhealthy") = {} /\ At("Degraded") # {}
  <2>1. a = [status |-> "Degraded", by |-> seen[d].name]
    BY <1>5, Zenon DEF aggregate_results
  <2>2. At("Degraded") \subseteq 1..Len(seen)
    BY Zenon
  <2>3. d \in At("Degraded")
    <3>1. \E i \in At("Degraded") : \A j \in At("Degraded") : i >= j
      BY <1>2, <1>5, <2>2, Greatest, Zenon
    <3>. QED
      BY <3>1, Zenon
  <2>. HIDE DEF d, At, a
  <2>4. [name |-> seen[d].name, status |-> "Degraded"] \in Range(seen)
    BY <1>3, <2>3, Zenon
  <2>5. a.status = "Degraded" /\ a.by = seen[d].name
    BY <2>1
  <2>6. "Degraded" \in reported /\ "Unhealthy" \notin reported
    BY <1>1, <1>5, Zenon
  <2>. HIDE DEF reported
  <2>. QED
    BY <2>4, <2>5, <2>6, Zenon DEF a, reported
<1>6. CASE At("Unhealthy") = {} /\ At("Degraded") = {}
  <2>1. a = [status |-> "Healthy", by |-> "none"]
    BY <1>6, Zenon DEF aggregate_results
  <2>. HIDE DEF At, a
  <2>2. a.status = "Healthy"
    BY <2>1
  <2>3. "Degraded" \notin reported /\ "Unhealthy" \notin reported
    BY <1>1, <1>6, Zenon
  <2>. HIDE DEF reported
  <2>. QED
    BY <2>2, <2>3, Zenon DEF a, reported
<1>. QED
  BY <1>4, <1>5, <1>6, Zenon

LEMMA HlImplies == HlIInv => AggregateIsWorst
<1>. SUFFICES ASSUME HlIInv, hlResult # <<>> PROVE AggregateIsWorst
  BY Zenon DEF AggregateIsWorst
<1>. DEFINE r == hlResult[1]
<1>1. /\ r.seen \in Seq(Report) /\ Distinct(r.seen)
      /\ r.answer = aggregate_results(r.seen)
      /\ \A c \in r.asked : Has(r.seen, c)
  BY Zenon DEF HlIInv, ResultInv
<1>2. ASSUME NEW c \in r.asked
      PROVE  Cardinality({i \in 1..Len(r.seen) : r.seen[i].name = c}) = 1
  <2>1. PICK i \in 1..Len(r.seen) : r.seen[i].name = c
    BY <1>1, Zenon DEF Has
  <2>2. {j \in 1..Len(r.seen) : r.seen[j].name = c} = {i}
    BY <1>1, <2>1, Zenon DEF Distinct
  <2>. QED
    BY <2>2, FS_Singleton, Zenon
<1>. QED
  BY <1>1, <1>2, AggregateWorst, Zenon DEF AggregateIsWorst

----------------------------------------------------------------------------
\* The steps of the registry.

\* What the checks of a list report.
LEMMA ProbedReport ==
    ASSUME ListsInv
    PROVE  LET results == Probed(hlSync)
           IN  /\ results \in Seq(Report) /\ Distinct(results)
               /\ \A i \in 1..Len(results) : results[i].name \in SyncChecks
               /\ \A c \in Range(hlSync) : Has(results, c)
<1>. DEFINE results == Probed(hlSync)
            n == Len(hlSync)
<1>1. n \in Nat /\ DOMAIN hlSync = 1..n /\ \A i \in 1..n : hlSync[i] \in SyncChecks
  BY DEF ListsInv
<1>2. ASSUME NEW i \in 1..n
      PROVE  Result(hlSync[i]) \in Report /\ Result(hlSync[i]).name = hlSync[i]
  <2>1. hlSync[i] \in Checks /\ hlState[hlSync[i]] \in Statuses
    BY <1>1, Zenon DEF ListsInv, Checks
  <2>. QED
    BY <2>1 DEF Result, Report
<1>3. results = [i \in 1..n |-> Result(hlSync[i])]
  BY Zenon DEF Probed
<1>. HIDE DEF results, n
<1>4. results \in Seq(Report) /\ Len(results) = n
  BY <1>1, <1>2, <1>3
<1>5. \A i \in 1..n : results[i].name = hlSync[i]
  BY <1>2, <1>3, Zenon
<1>6. Distinct(results)
  <2>1. \A i, j \in 1..n : hlSync[i] = hlSync[j] => i = j
    BY Zenon DEF ListsInv, NoRepeat, n
  <2>2. ASSUME NEW i \in 1..n, NEW j \in 1..n, results[i].name = results[j].name PROVE i = j
    BY <1>5, <2>1, <2>2, Zenon
  <2>. QED
    BY <1>4, <2>2, Zenon DEF Distinct
<1>7. \A i \in 1..Len(results) : results[i].name \in SyncChecks
  BY <1>1, <1>4, <1>5, Zenon
<1>8. \A c \in Range(hlSync) : Has(results, c)
  BY <1>1, <1>4, <1>5, Zenon DEF Range, Has
<1>. QED
  BY <1>4, <1>6, <1>7, <1>8, Zenon DEF results

LEMMA AppendNoRepeat ==
    ASSUME NEW S, NEW s \in Seq(S), NEW c \in S, NoRepeat(s), c \notin Range(s)
    PROVE  /\ Append(s, c) \in Seq(S) /\ NoRepeat(Append(s, c))
           /\ \A x \in Range(s) : x \in Range(Append(s, c))
<1>. DEFINE t == Append(s, c)
<1>1. /\ t \in Seq(S) /\ Len(t) = Len(s) + 1 /\ Len(s) \in Nat /\ t[Len(t)] = c
      /\ \A i \in 1..Len(s) : t[i] = s[i]
      /\ DOMAIN t = 1..Len(s) + 1 /\ DOMAIN s = 1..Len(s)
  OBVIOUS
<1>2. \A i \in 1..Len(s) : s[i] # c
  BY <1>1, Zenon DEF Range
<1>. HIDE DEF t
<1>3. NoRepeat(t)
  BY <1>1, <1>2 DEF NoRepeat
<1>4. \A x \in Range(s) : x \in Range(t)
  <2>1. \A i \in DOMAIN s : i \in DOMAIN t
    BY <1>1
  <2>. QED
    BY <1>1, <2>1, Zenon DEF Range
<1>. QED
  BY <1>1, <1>3, <1>4, Zenon DEF t

LEMMA HlChange ==
    ASSUME NEW c \in DOMAIN hlState, NEW s \in Statuses, HlIInv, Change(c, s)
    PROVE  HlIInv'
<1>1. ListsInv'
  BY DEF HlIInv, ListsInv, Change, NoRepeat
<1>2. CallInv'
  BY Zenon DEF HlIInv, CallInv, Change
<1>3. ResultInv'
  BY Zenon DEF HlIInv, ResultInv, Change
<1>. QED
  BY <1>1, <1>2, <1>3, Zenon DEF HlIInv

LEMMA HlRegister ==
    ASSUME NEW c \in SyncChecks, HlIInv, health_register(c)
    PROVE  HlIInv'
<1>1. ListsInv'
  <2>1. hlSync' \in Seq(SyncChecks) /\ NoRepeat(hlSync')
    BY AppendNoRepeat, Zenon DEF HlIInv, ListsInv, health_register
  <2>. QED
    BY <2>1, Zenon DEF HlIInv, ListsInv, health_register, NoRepeat
<1>2. CallInv'
  BY Zenon DEF HlIInv, CallInv, health_register
<1>3. ResultInv'
  BY Zenon DEF HlIInv, ResultInv, health_register
<1>. QED
  BY <1>1, <1>2, <1>3, Zenon DEF HlIInv

LEMMA HlRegisterAsync ==
    ASSUME NEW c \in AsyncChecks, HlIInv, register_async(c)
    PROVE  HlIInv'
<1>0. /\ hlAsync' \in Seq(AsyncChecks) /\ NoRepeat(hlAsync')
      /\ \A x \in Range(hlAsync) : x \in Range(hlAsync')
  BY AppendNoRepeat, Zenon DEF HlIInv, ListsInv, register_async
<1>1. ListsInv'
  BY <1>0, Zenon DEF HlIInv, ListsInv, register_async, NoRepeat
<1>2. CallInv'
  BY <1>0, Zenon DEF HlIInv, CallInv, register_async
<1>3. ResultInv'
  BY Zenon DEF HlIInv, ResultInv, register_async
<1>. QED
  BY <1>1, <1>2, <1>3, Zenon DEF HlIInv

LEMMA HlAggregate == HlIInv /\ aggregate => HlIInv'
<1>. SUFFICES ASSUME HlIInv, aggregate PROVE HlIInv'
  OBVIOUS
<1>1. ListsInv'
  BY Zenon DEF HlIInv, ListsInv, aggregate
<1>2. CallInv'
  BY Zenon DEF HlIInv, CallInv, aggregate
<1>. DEFINE results == Probed(hlSync)
            r == [answer |-> aggregate_results(results), seen |-> results, asked |-> Range(hlSync)]
<1>3. hlResult' = <<r>>
  BY Zenon DEF aggregate
<1>4. /\ results \in Seq(Report) /\ Distinct(results)
      /\ \A c \in Range(hlSync) : Has(results, c)
  BY ProbedReport, Zenon DEF HlIInv
<1>. HIDE DEF results
<1>5. /\ hlResult'[1] = r /\ r.seen = results /\ r.asked = Range(hlSync)
      /\ r.answer = aggregate_results(results)
  BY <1>3
<1>. HIDE DEF r
<1>6. ResultInv'
  BY <1>4, <1>5, Zenon DEF ResultInv
<1>. QED
  BY <1>1, <1>2, <1>6, Zenon DEF HlIInv

LEMMA HlCheckAll == HlIInv /\ check_all => HlIInv'
<1>. SUFFICES ASSUME HlIInv, check_all PROVE HlIInv'
  OBVIOUS
<1>1. ListsInv'
  BY Zenon DEF HlIInv, ListsInv, check_all
<1>2. ResultInv'
  BY Zenon DEF HlIInv, ResultInv, check_all
<1>. DEFINE results == Probed(hlSync)
            asked == Range(hlSync \o hlAsync)
<1>3. /\ results \in Seq(Report) /\ Distinct(results)
      /\ \A i \in 1..Len(results) : results[i].name \in SyncChecks
      /\ \A c \in Range(hlSync) : Has(results, c)
  BY ProbedReport, Zenon DEF HlIInv
<1>4. \A c \in asked : c \in Range(hlSync) \/ c \in Range(hlAsync)
  BY DEF HlIInv, ListsInv, Range
<1>5. hlCall' = [at |-> "collect", results |-> results, asked |-> asked]
  BY Zenon DEF check_all
<1>. HIDE DEF results, asked
<1>6. hlCall'.at = "collect" /\ hlCall'.results = results /\ hlCall'.asked = asked
  BY <1>5
<1>7. "collect" \in {"none", "collect", "await"} /\ "collect" # "none" /\ "collect" # "await"
  OBVIOUS
<1>8. hlAsync' = hlAsync
  BY Zenon DEF check_all
<1>9. CallInv'
  BY <1>3, <1>4, <1>6, <1>7, <1>8, Zenon DEF CallInv
<1>. QED
  BY <1>1, <1>2, <1>9, Zenon DEF HlIInv

\* The futures are of asynchronous checks, the results so far of synchronous ones.
LEMMA HlCollect == HlIInv /\ collect_futures => HlIInv'
<1>. SUFFICES ASSUME HlIInv, collect_futures PROVE HlIInv'
  OBVIOUS
<1>1. ListsInv'
  BY Zenon DEF HlIInv, ListsInv, collect_futures
<1>2. ResultInv'
  BY Zenon DEF HlIInv, ResultInv, collect_futures
<1>. DEFINE results == hlCall.results
            asked == hlCall.asked
<1>3. /\ results \in Seq(Report) /\ Distinct(results)
      /\ \A i \in 1..Len(results) : results[i].name \in SyncChecks
      /\ \A c \in asked : Has(results, c) \/ c \in Range(hlAsync)
  BY Zenon DEF HlIInv, CallInv, collect_futures
<1>4. hlCall' = [at |-> "await", results |-> results, asked |-> asked, futures |-> hlAsync]
  BY Zenon DEF collect_futures
<1>. HIDE DEF results, asked
<1>5. /\ hlCall'.at = "await" /\ hlCall'.results = results /\ hlCall'.asked = asked
      /\ hlCall'.futures = hlAsync
  BY <1>4
<1>6. "await" \in {"none", "collect", "await"} /\ "await" # "none" /\ "await" # "collect"
  OBVIOUS
<1>7. hlAsync \in Seq(AsyncChecks) /\ NoRepeat(hlAsync)
  BY Zenon DEF HlIInv, ListsInv
<1>8. \A k \in 1..Len(hlAsync) : ~ Has(results, hlAsync[k])
  <2>1. \A k \in 1..Len(hlAsync) : hlAsync[k] \in AsyncChecks
    BY <1>7
  <2>. QED
    BY <1>3, <2>1, HealthAssumption, Zenon DEF Has
<1>9. CallInv'
  BY <1>3, <1>4, <1>5, <1>6, <1>7, <1>8, Zenon DEF CallInv
<1>. QED
  BY <1>1, <1>2, <1>9, Zenon DEF HlIInv

\* The last future is ready: the answer.
LEMMA HlAnswer == HlIInv /\ await_next /\ hlCall.futures = <<>> => HlIInv'
<1>. SUFFICES ASSUME HlIInv, await_next, hlCall.futures = <<>> PROVE HlIInv'
  OBVIOUS
<1>1. ListsInv'
  BY Zenon DEF HlIInv, ListsInv, await_next
<1>. DEFINE results == hlCall.results
            r == [answer |-> aggregate_results(results), seen |-> results, asked |-> hlCall.asked]
<1>2. hlResult' = <<r>> /\ hlCall' = NoCall
  BY Zenon DEF await_next, answer
<1>3. CallInv'
  BY <1>2 DEF CallInv, NoCall
<1>4. /\ results \in Seq(Report) /\ Distinct(results)
      /\ \A c \in hlCall.asked : Has(results, c) \/ c \in Range(hlCall.futures)
  BY Zenon DEF HlIInv, CallInv, await_next
<1>5. Range(hlCall.futures) = {}
  BY DEF Range
<1>. HIDE DEF results
<1>6. /\ hlResult'[1] = r /\ r.seen = results /\ r.asked = hlCall.asked
      /\ r.answer = aggregate_results(results)
  BY <1>2
<1>. HIDE DEF r
<1>7. ResultInv'
  BY <1>4, <1>5, <1>6, Zenon DEF ResultInv
<1>. QED
  BY <1>1, <1>3, <1>7, Zenon DEF HlIInv

\* The next future is ready: its result is appended.
LEMMA HlAwait == HlIInv /\ await_next /\ hlCall.futures # <<>> => HlIInv'
<1>. SUFFICES ASSUME HlIInv, await_next, hlCall.futures # <<>> PROVE HlIInv'
  OBVIOUS
<1>. DEFINE results == hlCall.results
            futures == hlCall.futures
            asked == hlCall.asked
            one == Result(futures[1])
            more == Append(results, one)
            rest == Tail(futures)
<1>1. ListsInv'
  BY Zenon DEF HlIInv, ListsInv, await_next
<1>2. ResultInv'
  BY Zenon DEF HlIInv, ResultInv, await_next
<1>3. /\ hlCall.at = "await"
      /\ hlCall' = [hlCall EXCEPT !.futures = rest, !.results = more]
  BY Zenon DEF await_next
<1>4. /\ hlCall = [at |-> "await", results |-> results, asked |-> asked, futures |-> futures]
      /\ results \in Seq(Report) /\ Distinct(results)
      /\ futures \in Seq(AsyncChecks) /\ NoRepeat(futures)
      /\ \A k \in 1..Len(futures) : ~ Has(results, futures[k])
      /\ \A c \in asked : Has(results, c) \/ c \in Range(futures)
  BY <1>3, Zenon DEF HlIInv, CallInv
<1>5. futures[1] \in AsyncChecks
  BY <1>4
<1>6. one \in Report /\ one.name = futures[1]
  <2>1. futures[1] \in Checks /\ hlState[futures[1]] \in Statuses
    BY <1>5, Zenon DEF HlIInv, ListsInv, Checks
  <2>. HIDE DEF futures
  <2>. QED
    BY <2>1 DEF Result, Report
<1>. HIDE DEF results, futures, asked, one, more, rest
<1>7. hlCall' = [at |-> "await", results |-> more, asked |-> asked, futures |-> rest]
  BY <1>3, <1>4, Zenon
<1>8. /\ Len(results) \in Nat /\ Len(futures) \in Nat /\ futures # <<>> /\ Len(futures) # 0
      /\ DOMAIN futures = 1..Len(futures)
  BY <1>4 DEF futures
<1>9. /\ more \in Seq(Report) /\ Len(more) = Len(results) + 1 /\ more[Len(results) + 1] = one
      /\ \A i \in 1..Len(results) : more[i] = results[i]
  BY <1>4, <1>6, <1>8 DEF more
<1>10. /\ rest \in Seq(AsyncChecks) /\ Len(rest) = Len(futures) - 1
       /\ DOMAIN rest = 1..Len(rest)
       /\ \A k \in 1..Len(rest) : rest[k] = futures[k + 1] /\ k + 1 \in 1..Len(futures)
  BY <1>4, <1>8 DEF rest
<1>11. 1 \in 1..Len(futures)
  BY <1>8
<1>12. \A i \in 1..Len(results) : results[i].name # futures[1]
  BY <1>4, <1>11, Zenon DEF Has
<1>13. 1..Len(more) = (1..Len(results)) \cup {Len(results) + 1}
  BY <1>8, <1>9
<1>14. Distinct(more)
  <2>1. ASSUME NEW i \in 1..Len(more), NEW j \in 1..Len(more), more[i].name = more[j].name
        PROVE  i = j
    <3>1. CASE i \in 1..Len(results) /\ j \in 1..Len(results)
      BY <1>4, <1>9, <2>1, <3>1, Zenon DEF Distinct
    <3>2. CASE i \in 1..Len(results) /\ j = Len(results) + 1
      BY <1>6, <1>9, <1>12, <2>1, <3>2, Zenon
    <3>3. CASE i = Len(results) + 1 /\ j \in 1..Len(results)
      BY <1>6, <1>9, <1>12, <2>1, <3>3, Zenon
    <3>. QED
      BY <1>13, <3>1, <3>2, <3>3, Zenon
  <2>. QED
    BY <2>1, Zenon DEF Distinct
<1>15. \A c : Has(more, c) <=> Has(results, c) \/ c = futures[1]
  BY <1>6, <1>9, <1>13, Zenon DEF Has
<1>16. \A k, l \in 1..Len(futures) : futures[k] = futures[l] => k = l
  BY <1>4, Zenon DEF NoRepeat
<1>17. NoRepeat(rest)
  BY <1>10, <1>16, SMTT(60) DEF NoRepeat
<1>18. ASSUME NEW k \in 1..Len(rest) PROVE ~ Has(more, rest[k])
  <2>1. k + 1 # 1 /\ k + 1 \in 1..Len(futures) /\ rest[k] = futures[k + 1]
    BY <1>8, <1>10
  <2>2. futures[k + 1] # futures[1] /\ ~ Has(results, futures[k + 1])
    BY <1>4, <1>11, <1>16, <2>1, Zenon
  <2>. QED
    BY <1>15, <2>1, <2>2, Zenon
<1>19. ASSUME NEW c \in asked PROVE Has(more, c) \/ c \in Range(rest)
  <2>1. CASE Has(results, c)
    BY <1>15, <2>1, Zenon
  <2>2. CASE c \in Range(futures)
    <3>1. PICK k \in 1..Len(futures) : c = futures[k]
      BY <1>8, <2>2, Zenon DEF Range
    <3>2. CASE k = 1
      BY <1>15, <3>1, <3>2, Zenon
    <3>3. CASE k # 1
      <4>1. k - 1 \in 1..Len(rest) /\ (k - 1) + 1 = k
        BY <1>8, <1>10, <3>3
      <4>2. c = rest[k - 1]
        BY <1>10, <3>1, <4>1, Zenon
      <4>. QED
        BY <1>10, <4>1, <4>2, Zenon DEF Range
    <3>. QED
      BY <3>2, <3>3, Zenon
  <2>. QED
    BY <1>4, <2>1, <2>2, Zenon
<1>20. /\ hlCall'.at = "await" /\ hlCall'.results = more /\ hlCall'.asked = asked
       /\ hlCall'.futures = rest
  BY <1>7
<1>21. "await" \in {"none", "collect", "await"} /\ "await" # "none" /\ "await" # "collect"
  OBVIOUS
<1>22. CallInv'
  BY <1>7, <1>9, <1>10, <1>14, <1>17, <1>18, <1>19, <1>20, <1>21, Zenon DEF CallInv
<1>. QED
  BY <1>1, <1>2, <1>22, Zenon DEF HlIInv

----------------------------------------------------------------------------

\* The registry's invariant is inductive.
THEOREM HealthInvariant == HlSpec => []HlIInv
<1>1. ASSUME HlIInv, HlNext PROVE HlIInv'
  <2>1. ASSUME await_next PROVE HlIInv'
    BY <1>1, <2>1, HlAnswer, HlAwait, Zenon
  <2>. QED
    BY <1>1, <2>1, HlChange, HlRegister, HlRegisterAsync, HlAggregate, HlCheckAll, HlCollect, Zenon
       DEF HlNext
<1>2. ASSUME HlIInv, UNCHANGED hlVars PROVE HlIInv'
  <2>1. /\ hlState' = hlState /\ hlSync' = hlSync /\ hlAsync' = hlAsync
        /\ hlCall' = hlCall /\ hlResult' = hlResult
    BY <1>2 DEF hlVars
  <2>2. ListsInv'
    BY <1>2, <2>1, Zenon DEF HlIInv, ListsInv
  <2>3. CallInv'
    BY <1>2, <2>1, Zenon DEF HlIInv, CallInv
  <2>4. ResultInv'
    BY <1>2, <2>1, Zenon DEF HlIInv, ResultInv
  <2>. QED
    BY <2>2, <2>3, <2>4, Zenon DEF HlIInv
<1>. QED
  BY <1>1, <1>2, HlInitial, PTL DEF HlSpec

\* Whatever checks an application registers, before and during an aggregation, and however
\* its components change meanwhile: HealthRegistry::aggregate and aggregate_async answer with
\* the worst status a check reported, name a check that reported it, and every check
\* registered before the call took part once.
THEOREM HealthAggregated == HlSpec => []AggregateIsWorst
  BY HealthInvariant, HlImplies, PTL
=============================================================================
