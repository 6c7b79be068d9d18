---------------------------- MODULE FacadeProofs ----------------------------
(***************************************************************************)
(* For any number of threads that install a logger and log: the level in   *)
(* force is the installed logger's, an init that fails leaves no client    *)
(* behind and closes none that is in use, and no callback is entered under *)
(* the queue's lock.                                                       *)
(***************************************************************************)
EXTENDS Facade, FiniteSetTheorems, TLAPS

\* Those of the threads that were given the shared client whose logger is not
\* gone: each of them has a clone of it, used or still to be handed over.
Holding == {i \in Supplied : init[i] # "err"}

InitStates == {"idle", "built", "installed", "lost", "ok", "err"}
Stages == {"out", "lock", "unlock", "report", "return"}

Kinds ==
  /\ installed \in Initers \union {None}
  /\ init \in [Initers -> InitStates]
  /\ refs \in [Clients -> Int] /\ shut \in [Clients -> BOOLEAN]
  /\ dropped \in BOOLEAN /\ closed \in BOOLEAN
  /\ at \in [Threads -> Stages]

\* The one installed is the one whose init goes on to succeed.
OneWins ==
  /\ \A i \in Initers : init[i] \in {"installed", "ok"} <=> installed = i
  /\ \A i \in Initers : init[i] = "ok" => maxLevel = Level[i]
  /\ (\A i \in Initers : init[i] # "ok") => maxLevel = 0

\* Each client has as many clones as are held, and closes with the last, or when
\* the program says so.
RefsCounted ==
  /\ \A i \in Initers \ Supplied :
       refs[i] = IF init[i] \in {"idle", "err"} THEN 0 ELSE 1
  /\ refs[Shared] = Cardinality(Holding) + (IF dropped THEN 0 ELSE 1)
  /\ \A i \in Initers \ Supplied : shut[i] <=> init[i] = "err"
  /\ shut[Shared] <=> closed \/ refs[Shared] = 0

LockHeld == \A t \in Threads : lock = t => at[t] = "unlock"

FacadeInv == Kinds /\ OneWins /\ RefsCounted /\ LockHeld

-----------------------------------------------------------------------------
\* Every state that the invariant describes has the properties.
LEMMA FacadeInvSuffices ==
  FacadeInv => LevelOfInstalled /\ LoserLeavesNothing /\ InstalledOpen /\ CalledUnlocked
<1> SUFFICES ASSUME FacadeInv
             PROVE  LevelOfInstalled /\ LoserLeavesNothing /\ InstalledOpen /\ CalledUnlocked
  OBVIOUS
<1>1. LevelOfInstalled
  BY FacadeAssumption DEF FacadeInv, Kinds, OneWins, LevelOfInstalled, Threads
<1>2. LoserLeavesNothing
  BY DEF FacadeInv, RefsCounted, LoserLeavesNothing
<1>3. InstalledOpen
  <2> SUFFICES ASSUME installed # None,
                      shut[ClientOf(installed)]
               PROVE  closed /\ installed \in Supplied
    BY DEF InstalledOpen
  <2>1. installed \in Initers /\ init[installed] # "err"
    BY DEF FacadeInv, Kinds, OneWins
  <2>2. CASE installed \notin Supplied
    BY <2>1, <2>2 DEF FacadeInv, RefsCounted, ClientOf
  <2>3. CASE installed \in Supplied
    <3>1. IsFiniteSet(Holding)
      BY FacadeAssumption, FS_Subset DEF Holding
    <3>2. installed \in Holding
      BY <2>1, <2>3 DEF Holding
    <3>3. Cardinality(Holding) \in Nat /\ Cardinality(Holding) # 0
      BY <3>1, <3>2, FS_CardinalityType, FS_EmptySet
    <3>4. refs[Shared] # 0
      BY <3>3 DEF FacadeInv, RefsCounted, Kinds
    <3> QED
      BY <2>3, <3>4 DEF FacadeInv, RefsCounted, ClientOf
  <2> QED
    BY <2>2, <2>3
<1>4. CalledUnlocked
  BY DEF FacadeInv, LockHeld, CalledUnlocked
<1> QED
  BY <1>1, <1>2, <1>3, <1>4

LEMMA FacadeInvInit == Init => FacadeInv
<1> SUFFICES ASSUME Init PROVE FacadeInv
  OBVIOUS
<1> USE FacadeAssumption
<1>1. Holding = Supplied /\ Cardinality(Supplied) \in Nat
  BY FS_Subset, FS_CardinalityType DEF Init, Holding
<1>2. Kinds
  <2>1. refs \in [Clients -> Int] /\ shut \in [Clients -> BOOLEAN]
    BY <1>1 DEF Init
  <2>2. init \in [Initers -> InitStates] /\ at \in [Threads -> Stages]
    BY DEF Init, InitStates, Stages
  <2> QED
    BY <2>1, <2>2 DEF Init, Kinds
<1>3. OneWins
  BY DEF Init, OneWins, Threads
<1>4. RefsCounted
  BY <1>1 DEF Init, RefsCounted, Clients
<1>5. LockHeld
  BY DEF Init, LockHeld, Threads
<1> QED
  BY <1>2, <1>3, <1>4, <1>5 DEF FacadeInv

\* The step of one thread's init: everything but RefsCounted for DropLogger is
\* a matter of that thread's own entry.
LEMMA BuildInv ==
  ASSUME FacadeInv, NEW i \in Initers, Build(i) PROVE FacadeInv'
<1> USE FacadeAssumption
<1>1. Holding' = Holding
  BY DEF Build, FacadeInv, Kinds, Holding
<1>2. Kinds'
  BY DEF Build, FacadeInv, Kinds, global, queue, stack, InitStates, Clients
<1>3. OneWins'
  BY DEF Build, FacadeInv, Kinds, OneWins, global
<1>4. RefsCounted'
  <2>1. i \notin Supplied => i \in Clients /\ i # Shared
    BY DEF Clients
  <2>2. refs'[Shared] = refs[Shared] /\ Shared \in Clients
    BY DEF Build, FacadeInv, Kinds, Clients
  <2>3. \A j \in Initers \ Supplied :
          refs'[j] = IF init'[j] \in {"idle", "err"} THEN 0 ELSE 1
    BY <2>1 DEF Build, FacadeInv, Kinds, RefsCounted, Clients
  <2>4. \A j \in Initers \ Supplied : shut'[j] <=> init'[j] = "err"
    BY DEF Build, FacadeInv, Kinds, RefsCounted
  <2> QED
    BY <1>1, <2>2, <2>3, <2>4 DEF Build, FacadeInv, RefsCounted
<1>5. LockHeld'
  BY DEF Build, FacadeInv, LockHeld, queue, stack
<1> QED
  BY <1>2, <1>3, <1>4, <1>5 DEF FacadeInv

LEMMA InstallInv ==
  ASSUME FacadeInv, NEW i \in Initers, Install(i) PROVE FacadeInv'
<1> USE FacadeAssumption
<1>1. Holding' = Holding
  BY DEF Install, FacadeInv, Kinds, Holding
<1>2. Kinds'
  BY DEF Install, FacadeInv, Kinds, clients, queue, stack, InitStates
<1>3. OneWins'
  <2>1. i # None /\ init \in [Initers -> InitStates] /\ OneWins
    BY DEF Threads, FacadeInv, Kinds
  <2>2. CASE installed = None
    <3>1. installed' = i /\ init' = [init EXCEPT ![i] = "installed"]
      BY <2>2 DEF Install
    <3>2. \A j \in Initers : init[j] # "ok" /\ init'[j] # "ok"
      BY <2>1, <2>2, <3>1 DEF OneWins, Threads
    <3>3. \A j \in Initers : init'[j] \in {"installed", "ok"} <=> installed' = j
      BY <2>1, <2>2, <3>1 DEF OneWins, Threads
    <3> QED
      BY <2>1, <3>2, <3>3 DEF Install, OneWins
  <2>3. CASE installed # None
    BY <2>1, <2>3 DEF Install, OneWins
  <2> QED
    BY <2>2, <2>3
<1>4. RefsCounted'
  BY <1>1 DEF Install, FacadeInv, Kinds, RefsCounted, clients
<1>5. LockHeld'
  BY DEF Install, FacadeInv, LockHeld, queue, stack
<1> QED
  BY <1>2, <1>3, <1>4, <1>5 DEF FacadeInv

LEMMA SetLevelInv ==
  ASSUME FacadeInv, NEW i \in Initers, SetLevel(i) PROVE FacadeInv'
<1> USE FacadeAssumption
<1>1. Holding' = Holding
  BY DEF SetLevel, FacadeInv, Kinds, Holding
<1>2. Kinds'
  BY DEF SetLevel, FacadeInv, Kinds, clients, queue, stack, InitStates
<1>3. OneWins'
  BY DEF SetLevel, FacadeInv, Kinds, OneWins
<1>4. RefsCounted'
  BY <1>1 DEF SetLevel, FacadeInv, Kinds, RefsCounted, clients
<1>5. LockHeld'
  BY DEF SetLevel, FacadeInv, LockHeld, queue, stack
<1> QED
  BY <1>2, <1>3, <1>4, <1>5 DEF FacadeInv

LEMMA DropLoggerInv ==
  ASSUME FacadeInv, NEW i \in Initers, DropLogger(i) PROVE FacadeInv'
<1> USE FacadeAssumption
<1>1. ClientOf(i) \in Clients /\ Shared \in Clients
  BY DEF ClientOf, Clients
<1>2. Kinds'
  BY <1>1 DEF DropLogger, DropClone, FacadeInv, Kinds, global, queue, stack, InitStates
<1>3. OneWins'
  BY DEF DropLogger, FacadeInv, Kinds, OneWins, global
<1>4. RefsCounted'
  <2>1. /\ init[i] = "lost" /\ init' = [init EXCEPT ![i] = "err"]
        /\ dropped' = dropped /\ closed' = closed
    BY DEF DropLogger
  <2>2. refs' = [refs EXCEPT ![ClientOf(i)] = @ - 1]
    BY DEF DropLogger, DropClone
  <2>3. shut' = [shut EXCEPT ![ClientOf(i)] = @ \/ refs'[ClientOf(i)] = 0]
    BY DEF DropLogger, DropClone
  <2>4. CASE i \notin Supplied
    <3>1. Holding' = Holding /\ ClientOf(i) = i /\ i # Shared
      BY <2>1, <2>4 DEF Holding, ClientOf, FacadeInv, Kinds
    <3>2. refs[i] = 1 /\ refs'[i] = 0 /\ shut'[i]
      <4>1. refs \in [Clients -> Int] /\ shut \in [Clients -> BOOLEAN] /\ i \in Clients
        BY <1>1, <3>1 DEF FacadeInv, Kinds
      <4>2. refs[i] = 1
        BY <2>1, <2>4 DEF FacadeInv, RefsCounted
      <4>3. refs'[i] = 0
        BY <2>2, <3>1, <4>1, <4>2
      <4> QED
        BY <2>3, <3>1, <4>1, <4>2, <4>3
    <3>3. \A c \in Clients \ {i} : refs'[c] = refs[c] /\ shut'[c] = shut[c]
      BY <2>2, <2>3, <3>1 DEF FacadeInv, Kinds
    <3>4. \A j \in Initers \ Supplied : j # i => init'[j] = init[j] /\ j \in Clients
      BY <2>1 DEF FacadeInv, Kinds, Clients
    <3> QED
      BY <1>1, <2>1, <3>1, <3>2, <3>3, <3>4 DEF FacadeInv, Kinds, RefsCounted
  <2>5. CASE i \in Supplied
    <3>1. Holding' = Holding \ {i} /\ i \in Holding /\ ClientOf(i) = Shared
      BY <2>1, <2>5 DEF Holding, ClientOf, FacadeInv, Kinds
    <3>2. IsFiniteSet(Holding)
      BY FS_Subset DEF Holding
    <3>3. Cardinality(Holding') = Cardinality(Holding) - 1 /\ Cardinality(Holding') \in Nat
      BY <3>1, <3>2, FS_RemoveElement, FS_CardinalityType
    <3>4. Cardinality(Holding) \in Nat
      BY <3>2, FS_CardinalityType
    <3>5. refs'[Shared] = refs[Shared] - 1
      BY <1>1, <2>2, <3>1 DEF FacadeInv, Kinds
    <3>6. refs'[Shared] = Cardinality(Holding') + (IF dropped' THEN 0 ELSE 1)
      BY <2>1, <3>3, <3>4, <3>5 DEF FacadeInv, RefsCounted
    <3>7. shut[Shared] <=> closed
      BY <3>3, <3>4 DEF FacadeInv, RefsCounted
    <3>8. shut'[Shared] <=> closed' \/ refs'[Shared] = 0
      BY <1>1, <2>1, <2>3, <3>1, <3>7 DEF FacadeInv, Kinds
    <3>9. \A j \in Initers \ Supplied :
            /\ init'[j] = init[j] /\ refs'[j] = refs[j] /\ shut'[j] = shut[j]
      BY <2>1, <2>2, <2>3, <2>5, <3>1 DEF FacadeInv, Kinds, Clients
    <3> QED
      BY <3>6, <3>8, <3>9 DEF FacadeInv, RefsCounted
  <2> QED
    BY <2>4, <2>5
<1>5. LockHeld'
  BY DEF DropLogger, FacadeInv, LockHeld, queue, stack
<1> QED
  BY <1>2, <1>3, <1>4, <1>5 DEF FacadeInv

LEMMA ProgramDropsInv ==
  ASSUME FacadeInv, ProgramDrops PROVE FacadeInv'
<1> USE FacadeAssumption
<1>1. Shared \in Clients /\ Holding' = Holding
  BY DEF Clients, Holding, ProgramDrops
<1>2. Kinds'
  BY <1>1 DEF ProgramDrops, DropClone, FacadeInv, Kinds, global, queue, stack
<1>3. OneWins'
  BY DEF ProgramDrops, FacadeInv, OneWins, global
<1>4. RefsCounted'
  <2>1. IsFiniteSet(Holding) /\ Cardinality(Holding) \in Nat
    BY FS_Subset, FS_CardinalityType DEF Holding
  <2>2. /\ ~dropped /\ dropped' /\ closed' = closed
        /\ refs'[Shared] = refs[Shared] - 1
    BY <1>1 DEF ProgramDrops, DropClone, FacadeInv, Kinds
  <2>3. shut[Shared] <=> closed
    BY <2>1, <2>2 DEF FacadeInv, RefsCounted
  <2>4. shut'[Shared] <=> closed' \/ refs'[Shared] = 0
    BY <1>1, <2>2, <2>3 DEF ProgramDrops, DropClone, FacadeInv, Kinds
  <2>5. \A j \in Initers \ Supplied :
          init'[j] = init[j] /\ refs'[j] = refs[j] /\ shut'[j] = shut[j]
    BY DEF ProgramDrops, DropClone, FacadeInv, Kinds, Clients
  <2> QED
    BY <1>1, <2>1, <2>2, <2>4, <2>5 DEF FacadeInv, RefsCounted
<1>5. LockHeld'
  BY DEF ProgramDrops, FacadeInv, LockHeld, queue, stack
<1> QED
  BY <1>2, <1>3, <1>4, <1>5 DEF FacadeInv

LEMMA ProgramClosesInv ==
  ASSUME FacadeInv, ProgramCloses PROVE FacadeInv'
<1>1. Shared \in Clients /\ Holding' = Holding
  BY DEF Clients, Holding, ProgramCloses
<1>2. Kinds'
  BY <1>1 DEF ProgramCloses, FacadeInv, Kinds, global, stack
<1>3. OneWins'
  BY DEF ProgramCloses, FacadeInv, OneWins, global
<1>4. RefsCounted'
  <2>1. shut'[Shared] /\ closed'
    BY <1>1 DEF ProgramCloses, FacadeInv, Kinds
  <2>2. \A j \in Initers \ Supplied : shut'[j] = shut[j]
    BY FacadeAssumption DEF ProgramCloses, FacadeInv, Kinds, Clients
  <2> QED
    BY <1>1, <2>1, <2>2 DEF ProgramCloses, FacadeInv, RefsCounted
<1>5. LockHeld'
  BY DEF ProgramCloses, FacadeInv, LockHeld, queue, stack
<1> QED
  BY <1>2, <1>3, <1>4, <1>5 DEF FacadeInv

\* What a step of logging or of the worker leaves alone.
LEMMA SameGlobals ==
  ASSUME FacadeInv, UNCHANGED <<global, init, clients>>, at' \in [Threads -> Stages], LockHeld'
  PROVE  FacadeInv'
<1>1. Kinds'
  BY DEF FacadeInv, Kinds, global, clients
<1>2. OneWins' /\ RefsCounted'
  BY DEF FacadeInv, OneWins, RefsCounted, Holding, global, clients
<1> QED
  BY <1>1, <1>2 DEF FacadeInv

LEMMA LoggingInv ==
  ASSUME FacadeInv, NEW t \in Threads, LogCall(t) \/ InLog(t) PROVE FacadeInv'
<1> USE FacadeAssumption
<1>0. at \in [Threads -> Stages] /\ None \notin Threads /\ LockHeld
  BY DEF FacadeInv, Kinds
<1>1. CASE LogCall(t)
  <2>1. at' \in [Threads -> Stages] /\ LockHeld'
    BY <1>0, <1>1 DEF LogCall, Enter, LockHeld, Stages, queue
  <2> QED
    BY <1>1, <2>1, SameGlobals DEF LogCall
<1>2. CASE Push(t)
  <2>1. at' \in [Threads -> Stages] /\ LockHeld'
    BY <1>0, <1>2 DEF Push, LockHeld, Stages
  <2> QED
    BY <1>2, <2>1, SameGlobals DEF Push
<1>3. CASE Unlock(t)
  <2>1. at' \in [Threads -> Stages] /\ LockHeld'
    BY <1>0, <1>3 DEF Unlock, LockHeld, Stages
  <2> QED
    BY <1>3, <2>1, SameGlobals DEF Unlock
<1>4. CASE Report(t)
  <2>1. at' \in [Threads -> Stages] /\ LockHeld'
    BY <1>0, <1>4 DEF Report, Enter, LockHeld, Stages, queue
  <2> QED
    BY <1>4, <2>1, SameGlobals DEF Report
<1>5. CASE Return(t)
  <2>1. at' \in [Threads -> Stages] /\ LockHeld'
    BY <1>0, <1>5 DEF Return, LockHeld, Stages, queue
  <2> QED
    BY <1>5, <2>1, SameGlobals DEF Return
<1> QED
  BY <1>1, <1>2, <1>3, <1>4, <1>5 DEF InLog

LEMMA WorkerInv ==
  ASSUME FacadeInv, WorkerPops \/ WorkerFails PROVE FacadeInv'
<1>0. at \in [Threads -> Stages] /\ Worker \in Threads /\ LockHeld
  BY DEF FacadeInv, Kinds, Threads
<1>1. CASE WorkerPops
  <2>1. at' \in [Threads -> Stages] /\ LockHeld'
    BY <1>0, <1>1 DEF WorkerPops, stack, LockHeld
  <2> QED
    BY <1>1, <2>1, SameGlobals DEF WorkerPops
<1>2. CASE WorkerFails
  <2>1. at' \in [Threads -> Stages] /\ LockHeld'
    BY <1>0, <1>2 DEF WorkerFails, queue, LockHeld, Stages
  <2> QED
    BY <1>2, <2>1, SameGlobals DEF WorkerFails
<1> QED
  BY <1>1, <1>2

LEMMA FacadeInvNext == FacadeInv /\ [Next]_facadeVars => FacadeInv'
<1> SUFFICES ASSUME FacadeInv, [Next]_facadeVars PROVE FacadeInv'
  OBVIOUS
<1>1. ASSUME NEW i \in Initers, InitCall(i) PROVE FacadeInv'
  BY <1>1, BuildInv, InstallInv, SetLevelInv, DropLoggerInv DEF InitCall
<1>2. ASSUME NEW l \in Loggers, LogCall(l) PROVE FacadeInv'
  BY <1>2, LoggingInv, FacadeAssumption DEF Threads
<1>3. ASSUME NEW t \in Threads, InLog(t) PROVE FacadeInv'
  BY <1>3, LoggingInv
<1>4. CASE ProgramDrops \/ ProgramCloses
  BY <1>4, ProgramDropsInv, ProgramClosesInv
<1>5. CASE WorkerPops \/ WorkerFails
  BY <1>5, WorkerInv
<1>6. CASE UNCHANGED facadeVars
  BY <1>6 DEF facadeVars, global, clients, queue, stack, FacadeInv, Kinds, OneWins,
              RefsCounted, LockHeld, Holding
<1> QED
  BY <1>1, <1>2, <1>3, <1>4, <1>5, <1>6 DEF Next

LEMMA FacadeInvHolds == FacadeSpec => []FacadeInv
BY FacadeInvInit, FacadeInvNext, PTL DEF FacadeSpec

\* Whoever races to install a logger, and however many there are: the level is
\* the winner's once its init has returned.
THEOREM InstallRace == FacadeSpec => []LevelOfInstalled
BY FacadeInvHolds, FacadeInvSuffices, PTL

\* The client that a loser built is gone when its init returns, ...
THEOREM LoserCleansUp == FacadeSpec => []LoserLeavesNothing
BY FacadeInvHolds, FacadeInvSuffices, PTL

\* ... and the winner's stays open, also where the two were given the same one.
THEOREM WinnerKeepsItsClient == FacadeSpec => []InstalledOpen
BY FacadeInvHolds, FacadeInvSuffices, PTL

\* A callback that logs finds its thread without the queue's lock, at any depth
\* of recursion.
THEOREM CallbackMayLog == FacadeSpec => []CalledUnlocked
BY FacadeInvHolds, FacadeInvSuffices, PTL

-----------------------------------------------------------------------------
(* The rest of the type invariant.                                         *)

Bounds ==
  /\ lock \in Threads \union {None} /\ queued \in 0 .. BufferSize
  /\ owes \in [Threads -> BOOLEAN]
  /\ depth \in [Threads -> 0 .. MaxDepth] /\ calls \in [Threads -> 0 .. MaxCalls]

LEMMA BoundsNext == Bounds /\ [Next]_facadeVars => Bounds'
<1> SUFFICES ASSUME Bounds, [Next]_facadeVars PROVE Bounds'
  OBVIOUS
<1> USE FacadeAssumption DEF Bounds
<1>1. ASSUME NEW i \in Initers, InitCall(i) PROVE Bounds'
  BY <1>1 DEF InitCall, Build, Install, SetLevel, DropLogger, queue, stack
<1>2. ASSUME NEW l \in Loggers, LogCall(l) PROVE Bounds'
  BY <1>2 DEF LogCall, queue, Threads
<1>3. ASSUME NEW t \in Threads, Push(t) PROVE Bounds'
  BY <1>3 DEF Push
<1>4. ASSUME NEW t \in Threads, Unlock(t) PROVE Bounds'
  BY <1>4 DEF Unlock
<1>5. ASSUME NEW t \in Threads, Report(t) PROVE Bounds'
  BY <1>5 DEF Report, queue
<1>6. ASSUME NEW t \in Threads, Return(t) PROVE Bounds'
  BY <1>6 DEF Return, queue
<1>7. CASE ProgramDrops \/ ProgramCloses
  BY <1>7 DEF ProgramDrops, ProgramCloses, queue, stack
<1>8. CASE WorkerPops \/ WorkerFails
  BY <1>8 DEF WorkerPops, WorkerFails, queue, stack, Threads
<1>9. CASE UNCHANGED facadeVars
  BY <1>9 DEF facadeVars, queue, stack
<1> QED
  BY <1>1, <1>2, <1>3, <1>4, <1>5, <1>6, <1>7, <1>8, <1>9 DEF Next, InLog

\* No client has more clones than there are threads to hold one, and the
\* program's own.
LEMMA RefsBounded ==
  ASSUME FacadeInv
  PROVE  refs \in [Clients -> 0 .. 1 + Cardinality(Initers)]
<1>1. IsFiniteSet(Initers) /\ Holding \subseteq Initers
  BY FacadeAssumption DEF Holding
<1>2. /\ Cardinality(Initers) \in Nat /\ Cardinality(Holding) \in Nat
      /\ Cardinality(Holding) <= Cardinality(Initers)
  BY <1>1, FS_Subset, FS_CardinalityType
<1>3. \A c \in Clients : refs[c] \in 0 .. 1 + Cardinality(Initers)
  BY <1>2 DEF Clients, FacadeInv, Kinds, RefsCounted
<1> QED
  BY <1>3 DEF FacadeInv, Kinds

\* Every variable keeps its kind: the queue its capacity, the stack of
\* callbacks its bound, and each client a count of clones that is never negative.
THEOREM FacadeTypeCorrect == FacadeSpec => []FacadeTypeOK
<1>1. Init => Bounds
  BY FacadeAssumption DEF Init, Bounds
<1>2. FacadeInv /\ Bounds => FacadeTypeOK
  <2> SUFFICES ASSUME FacadeInv, Bounds PROVE FacadeTypeOK
    OBVIOUS
  <2>1. maxLevel \in 0 .. 5
    BY FacadeAssumption DEF FacadeInv, OneWins
  <2> QED
    BY <2>1, RefsBounded DEF FacadeInv, Kinds, InitStates, Stages, Bounds, FacadeTypeOK
<1> QED
  BY <1>1, <1>2, BoundsNext, FacadeInvHolds, PTL DEF FacadeSpec
=============================================================================
