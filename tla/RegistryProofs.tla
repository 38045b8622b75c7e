--------------------------- MODULE RegistryProofs ---------------------------
(***************************************************************************)
(* Proofs about Registry for any number of processes and names.  When      *)
(* names are given at the start only: WhereIs never finds a closed process *)
(* and the two maps agree.  With Register too: type correctness, one       *)
(* living process per name if only its supervisor starts it, and two maps  *)
(* that agree as long as a process is not registered under a second name,  *)
(* and no Register has met an UnRegister that had loaded its process.      *)
(***************************************************************************)
EXTENDS Registry, TLAPS

\* Every process has a name as soon as its start begins.
Named == \A p \in Pids : name[p] = None <=> stage[p] = "none"

\* Only a process between StoreName and the end of its UnRegister is found.
Holders == {"storingId", "init", "alive", "died", "notified", "failing", "unregistering"}
Stored(p) == stage[p] \notin {"none", "checking", "storing"}

HolderOK == \A n \in Names : LET p == nameMap[n] IN
              p # None => name[p] = n /\ stage[p] \in Holders

\* UnRegister loads only processes that were started under the same name, and
\* a start stores its process once.
FoundOK == \A p \in Pids : found[p] # None => name[found[p]] = name[p] /\ Stored(found[p])

\* If the name was free when it was loaded, the process itself is not, and
\* will not be, its holder.
GoneOK == \A p \in Pids : stage[p] = "unregistering" /\ nameMap[name[p]] = p => found[p] # None

\* What UnRegister has still to delete from id2Name is not found any more.
DeletingOK == \A p \in Pids : stage[p] = "deletingId" => nameMap[name[p]] # found[p]

\* Register is not called.
Quiet == crossed = {} /\ \A p \in Pids : adding[p] = None

IInv == TypeOK /\ Named /\ HolderOK /\ FoundOK /\ GoneOK /\ DeletingOK /\ Quiet /\ NameKnown

LEMMA InitOK == Init => IInv
  BY NoneAssumption DEF Init, IInv, TypeOK, Stages, Named, HolderOK, FoundOK, GoneOK, DeletingOK,
                        Quiet, NameKnown

LEMMA StepOK == ~ UseRegister /\ IInv /\ [Next]_vars => IInv'
<1> SUFFICES ASSUME ~ UseRegister, IInv, [Next]_vars PROVE IInv'
  OBVIOUS
<1> USE NoneAssumption DEF IInv, TypeOK, Stages, Enter, Stored, registerVars
<1>1. ASSUME NEW p \in Pids, NEW n \in Names, Begin(p, n) PROVE IInv'
  <2>1. TypeOK' /\ Named' /\ Quiet'
    BY <1>1 DEF Begin, Named, Quiet
  <2>2. \A q \in Pids : q # p => name'[q] = name[q] /\ stage'[q] = stage[q]
    BY <1>1 DEF Begin
  <2>3. \A m \in Names : nameMap'[m] # p
    BY <1>1 DEF Begin, HolderOK, Holders
  <2>4. HolderOK' /\ NameKnown'
    BY <1>1, <2>2, <2>3 DEF Begin, HolderOK, NameKnown, Quiet
  <2>5. FoundOK' /\ GoneOK' /\ DeletingOK'
    BY <1>1, <2>2 DEF Begin, FoundOK, GoneOK, DeletingOK, Named
  <2> QED
    BY <2>1, <2>4, <2>5
<1>2. ASSUME NEW p \in Pids, CheckName(p) PROVE IInv'
  BY <1>2 DEF CheckName, Named, HolderOK, Holders, FoundOK, GoneOK, DeletingOK, Quiet, NameKnown
<1>3. ASSUME NEW p \in Pids, StoreName(p) PROVE IInv'
  <2>1. name[p] \in Names
    BY <1>3 DEF StoreName, Named
  <2>2. \A q \in Pids : found[q] # p
    BY <1>3 DEF StoreName, FoundOK
  <2>3. DeletingOK'
    BY <1>3, <2>1, <2>2 DEF StoreName, DeletingOK, Named
  <2> QED
    BY <1>3, <2>1, <2>3 DEF StoreName, Named, HolderOK, Holders, FoundOK, GoneOK, Quiet, NameKnown
<1>4. ASSUME NEW p \in Pids, StoreId(p) PROVE IInv'
  <2>1. name[p] \in Names
    BY <1>4 DEF StoreId, Named
  <2> QED
    BY <1>4, <2>1 DEF StoreId, Named, HolderOK, Holders, FoundOK, GoneOK, DeletingOK, Quiet, NameKnown
<1>5. ASSUME NEW p \in Pids, InitReturns(p) \/ InitPanics(p) \/ Die(p) \/ NotifyLinks(p)
      PROVE  IInv'
  <2>1. name[p] # None
    BY <1>5 DEF InitReturns, InitPanics, Die, NotifyLinks, Named
  <2>2. /\ UNCHANGED <<nameMap, id2Name, name, found, mail, adding, crossed>>
        /\ stage[p] \notin {"none", "storingId", "checking", "storing"}
        /\ \E s \in {"alive", "failing", "died", "notified"} : stage' = [stage EXCEPT ![p] = s]
        /\ told' \subseteq Pids /\ stage[p] \notin {"unregistering", "deletingId"}
    BY <1>5, <2>1 DEF InitReturns, InitPanics, Die, NotifyLinks
  <2> QED
    BY <2>2 DEF Named, HolderOK, Holders, FoundOK, GoneOK, DeletingOK, Quiet, NameKnown
<1>6. ASSUME NEW p \in Pids, UnRegisterLoad(p) PROVE IInv'
  <2>1. name[p] \in Names
    BY <1>6 DEF UnRegisterLoad
  <2>2. TypeOK' /\ Named' /\ HolderOK' /\ GoneOK' /\ Quiet' /\ NameKnown'
    BY <1>6, <2>1 DEF UnRegisterLoad, Named, HolderOK, Holders, GoneOK, Quiet, NameKnown
  <2>3. FoundOK' /\ DeletingOK'
    BY <1>6, <2>1 DEF UnRegisterLoad, HolderOK, Holders, FoundOK, DeletingOK
  <2> QED
    BY <2>2, <2>3
<1>7. ASSUME NEW p \in Pids, UnRegisterName(p) PROVE IInv'
  <2>1. name[p] \in Names
    BY <1>7 DEF UnRegisterName, Named
  <2>2. nameMap'[name[p]] # p
    BY <1>7, <2>1 DEF UnRegisterName, GoneOK
  <2>3. TypeOK' /\ Named' /\ Quiet'
    BY <1>7, <2>1 DEF UnRegisterName, Named, Quiet
  <2>4. HolderOK'
    BY <1>7, <2>1, <2>2 DEF UnRegisterName, HolderOK, Holders
  <2>5. FoundOK'
    BY <1>7 DEF UnRegisterName, FoundOK
  <2>6. GoneOK'
    <3> SUFFICES ASSUME NEW q \in Pids, stage'[q] = "unregistering", nameMap'[name'[q]] = q
                 PROVE  found'[q] # None
      BY DEF GoneOK
    <3>1. q # p /\ stage[q] = "unregistering" /\ found'[q] = found[q] /\ name' = name
      BY <1>7 DEF UnRegisterName
    <3>2. name[q] \in Names
      BY <3>1 DEF Named
    <3>3. nameMap[name[q]] = q
      BY <1>7, <2>1, <3>1, <3>2 DEF UnRegisterName
    <3> QED
      BY <3>1, <3>3 DEF GoneOK
  <2>7. NameKnown'
    BY <1>7, <2>1 DEF UnRegisterName, NameKnown, Quiet
  <2>8. DeletingOK'
    <3> SUFFICES ASSUME NEW q \in Pids, stage'[q] = "deletingId"
                 PROVE  nameMap'[name[q]] # found[q]
      BY <1>7 DEF DeletingOK, UnRegisterName
    <3>1. name[q] \in Names /\ found[q] # None
      BY <1>7 DEF UnRegisterName, Named
    <3> QED
      BY <1>7, <2>1, <3>1 DEF UnRegisterName, DeletingOK
  <2> QED
    BY <2>3, <2>4, <2>5, <2>6, <2>7, <2>8
<1>8. ASSUME NEW p \in Pids, UnRegisterId(p) PROVE IInv'
  <2>1. name[p] \in Names /\ found[p] \in Pids
    BY <1>8 DEF UnRegisterId, Named
  <2>2. nameMap[name[p]] # found[p]
    BY <1>8 DEF UnRegisterId, DeletingOK
  <2>3. TypeOK' /\ Named' /\ Quiet'
    BY <1>8, <2>1 DEF UnRegisterId, Named, Quiet
  <2>4. \A n \in Names : nameMap[n] # p
    BY <1>8 DEF UnRegisterId, HolderOK, Holders
  <2>5. HolderOK' /\ FoundOK' /\ GoneOK' /\ DeletingOK'
    BY <1>8, <2>4 DEF UnRegisterId, HolderOK, FoundOK, GoneOK, DeletingOK
  <2>6. \A n \in Names : nameMap[n] # found[p]
    BY <2>1, <2>2 DEF HolderOK, FoundOK
  <2>7. NameKnown'
    BY <1>8, <2>1, <2>4, <2>6 DEF UnRegisterId, NameKnown, Quiet
  <2> QED
    BY <2>3, <2>5, <2>7
<1>9. ASSUME NEW p \in Pids, CloseChan(p) PROVE IInv'
  BY <1>9 DEF CloseChan, Named, HolderOK, Holders, FoundOK, GoneOK, DeletingOK, Quiet, NameKnown
<1>10. ASSUME NEW p \in Pids, SkipUnRegister(p) PROVE IInv'
  BY <1>10 DEF SkipUnRegister, Named
<1>11. ASSUME NEW p \in Pids, BeginAnonymous(p) \/ RegisterId(p) \/ \E n \in Names : RegisterName(n, p)
       PROVE  IInv'
  BY <1>11 DEF BeginAnonymous, RegisterName, RegisterId, Quiet
<1>12. ASSUME NEW p \in Pids, HandleRegName(p) PROVE IInv'
  BY <1>12 DEF HandleRegName, Named, HolderOK, FoundOK, GoneOK, DeletingOK, Quiet, NameKnown
<1>13. CASE UNCHANGED vars
  BY <1>13 DEF vars, Named, HolderOK, FoundOK, GoneOK, DeletingOK, Quiet, NameKnown
<1> HIDE DEF IInv, TypeOK, Stages, Enter, Stored, registerVars
<1> QED
  BY <1>1, <1>2, <1>3, <1>4, <1>5, <1>6, <1>7, <1>8, <1>9, <1>10, <1>11, <1>12, <1>13 DEF Next

\* WhereIs finds only processes whose channels are open: every start that ends
\* in initExit and every exitFinal has deleted the name's entry in between.
THEOREM NeverClosed == ASSUME ~ UseRegister PROVE Spec => []ClosedNotResolvable
<1>1. IInv => ClosedNotResolvable
  BY DEF IInv, HolderOK, Holders, ClosedNotResolvable
<1>2. IInv /\ [Next]_vars => IInv'
  BY StepOK
<1> QED
  BY <1>1, <1>2, InitOK, PTL DEF Spec

\* A process that WhereIs finds has its name in id2Name, whatever UnRegister
\* of other processes has deleted: without Register the exceptions of NameKnown
\* for it do not occur (Quiet).
THEOREM MapsAgree == ASSUME ~ UseRegister PROVE Spec => [](NameKnown /\ Quiet)
<1>1. IInv => NameKnown /\ Quiet
  BY DEF IInv
<1>2. IInv /\ [Next]_vars => IInv'
  BY StepOK
<1> QED
  BY <1>1, <1>2, InitOK, PTL DEF Spec

-----------------------------------------------------------------------------
LEMMA TypeStep == TypeOK /\ [Next]_vars => TypeOK'
<1> SUFFICES ASSUME TypeOK, [Next]_vars PROVE TypeOK'
  OBVIOUS
<1> USE DEF TypeOK, Stages, Enter, registerVars
<1>1. ASSUME NEW p \in Pids, NEW n \in Names,
             Begin(p, n) \/ RegisterName(n, p)
      PROVE  TypeOK'
  BY <1>1 DEF Begin, RegisterName
<1>2. ASSUME NEW p \in Pids,
             \/ BeginAnonymous(p) \/ CheckName(p) \/ StoreName(p)
             \/ StoreId(p) \/ InitReturns(p) \/ InitPanics(p)
      PROVE  TypeOK'
  BY <1>2 DEF BeginAnonymous, CheckName, StoreName, StoreId, InitReturns, InitPanics
<1>3. ASSUME NEW p \in Pids,
             Die(p) \/ NotifyLinks(p) \/ UnRegisterLoad(p) \/ SkipUnRegister(p) \/ CloseChan(p)
      PROVE  TypeOK'
  BY <1>3 DEF Die, NotifyLinks, UnRegisterLoad, SkipUnRegister, CloseChan
<1>4. ASSUME NEW p \in Pids,
             UnRegisterName(p) \/ UnRegisterId(p) \/ RegisterId(p) \/ HandleRegName(p)
      PROVE  TypeOK'
  BY <1>4 DEF UnRegisterName, UnRegisterId, RegisterId, HandleRegName
<1>5. CASE UNCHANGED vars
  BY <1>5 DEF vars
<1> HIDE DEF TypeOK, Stages, Enter, registerVars
<1> QED
  BY <1>1, <1>2, <1>3, <1>4, <1>5 DEF Next

\* Also with Register: what UnRegister has loaded is used only there.
THEOREM TypeCorrect == Spec => []TypeOK
<1>1. Init => TypeOK
  BY DEF Init, TypeOK, Stages
<1> QED
  BY <1>1, TypeStep, PTL DEF Spec
-----------------------------------------------------------------------------
(* Names that only a supervisor starts, with Register *)

\* What a supervisor waits for before it starts the name again.
Settled(p) == p \in told \/ stage[p] = "closed"

\* The start of a name finds all its processes settled, and a process that has
\* told its links is not alive.
TurnOK == /\ \A p \in told : stage[p] \in {"notified", "unregistering", "deletingId", "closing", "closed"}
          /\ \A p \in Pids : stage[p] = "none" => name[p] = None
          /\ \A p, q \in Pids : p # q /\ name[p] = name[q] /\ name[p] # None
                                  => Settled(p) \/ Settled(q)

LEMMA TurnStep == ~ Anybody /\ TypeOK /\ TurnOK /\ [Next]_vars => TurnOK'
<1> SUFFICES ASSUME ~ Anybody, TypeOK, TurnOK, [Next]_vars PROVE TurnOK'
  OBVIOUS
<1> USE DEF TypeOK, TurnOK, Settled, Enter
<1>1. ASSUME NEW p \in Pids, NEW n \in Names, Begin(p, n) PROVE TurnOK'
  <2>1. /\ stage[p] = "none" /\ told' = told /\ p \notin told
        /\ stage'[p] = "checking" /\ name'[p] = n
        /\ \A q \in Pids \ {p} : stage'[q] = stage[q] /\ name'[q] = name[q]
    BY <1>1 DEF Begin
  <2>2. \A q \in Pids : name[q] = n => Settled(q)
    BY <1>1 DEF Begin, Restartable
  <2> QED
    BY <2>1, <2>2
<1>2. ASSUME NEW p \in Pids,
             \/ BeginAnonymous(p) \/ CheckName(p) \/ StoreName(p) \/ StoreId(p)
             \/ InitReturns(p) \/ InitPanics(p) \/ Die(p)
      PROVE  TurnOK'
  <2>1. /\ name' = name /\ told' = told /\ p \notin told /\ stage[p] # "closed"
        /\ stage'[p] # "none" \/ name[p] = None
        /\ \A q \in Pids \ {p} : stage'[q] = stage[q]
    BY <1>2 DEF BeginAnonymous, CheckName, StoreName, StoreId, InitReturns, InitPanics, Die
  <2> QED
    BY <2>1
<1>3. ASSUME NEW p \in Pids,
             \/ NotifyLinks(p) \/ UnRegisterLoad(p) \/ UnRegisterName(p) \/ UnRegisterId(p)
             \/ SkipUnRegister(p) \/ CloseChan(p)
      PROVE  TurnOK'
  <2>1. /\ name' = name /\ told \subseteq told' /\ told' \subseteq told \cup {p}
        /\ stage[p] # "closed"
        /\ stage'[p] \in {"notified", "unregistering", "deletingId", "closing", "closed"}
        /\ \A q \in Pids \ {p} : stage'[q] = stage[q]
    BY <1>3 DEF NotifyLinks, UnRegisterLoad, UnRegisterName, UnRegisterId, SkipUnRegister, CloseChan
  <2> QED
    BY <2>1
<1>4. ASSUME NEW p \in Pids,
             HandleRegName(p) \/ RegisterId(p) \/ \E n \in Names : RegisterName(n, p)
      PROVE  TurnOK'
  BY <1>4 DEF HandleRegName, RegisterName, RegisterId
<1>5. CASE UNCHANGED vars
  BY <1>5 DEF vars
<1> HIDE DEF TypeOK, TurnOK, Settled, Enter
<1> QED
  BY <1>1, <1>2, <1>3, <1>4, <1>5 DEF Next

\* A name that only its supervisor starts again has one living process:
\* exitFinal marks a process dead before it tells the links.
THEOREM OneAlive == ASSUME ~ Anybody PROVE Spec => []UniqueAlive
<1>1. Init => TurnOK
  BY DEF Init, TurnOK
<1>2. TypeOK /\ TurnOK /\ [Next]_vars => TurnOK'
  BY TurnStep
<1>3. TurnOK => UniqueAlive
  BY DEF TurnOK, Settled, UniqueAlive, IsAlive
<1> QED
  BY <1>1, <1>2, <1>3, TypeCorrect, PTL DEF Spec

\* A process that goes through registerNotExist or UnRegister has a name.
Registering == \A p \in Pids :
  stage[p] \in {"checking", "storing", "storingId", "unregistering", "deletingId"} => name[p] # None

\* Who is found, or was, has gone through its StoreName, or has none.
StoredOK == /\ \A n \in Names : nameMap[n] # None => Stored(nameMap[n])
            /\ \A p \in Pids : found[p] # None => Stored(found[p])

\* What an UnRegister has still to delete from id2Name is found only if a
\* Register came in between.
CrossedOK == \A p \in Pids : \A n \in Names : stage[p] = "deletingId" /\ nameMap[n] = found[p] =>
               adding[found[p]] # None \/ found[p] \in crossed

KnownInv == Registering /\ StoredOK /\ CrossedOK /\ NameKnown

LEMMA KnownStep ==
  (\A m, n \in Names : m = n) /\ TypeOK /\ KnownInv /\ [Next]_vars => KnownInv'
<1> SUFFICES ASSUME \A m, n \in Names : m = n, TypeOK, KnownInv, [Next]_vars
             PROVE  KnownInv'
  OBVIOUS
<1> USE NoneAssumption DEF TypeOK, KnownInv, Registering, StoredOK, CrossedOK, Stored, NameKnown,
                           Enter, registerVars
<1>1. ASSUME NEW p \in Pids, NEW n \in Names, Begin(p, n) PROVE KnownInv'
  BY <1>1 DEF Begin
<1>2. ASSUME NEW p \in Pids, NEW n \in Names, RegisterName(n, p) PROVE KnownInv'
  <2>1. Registering' /\ StoredOK'
    BY <1>2 DEF RegisterName, IsAlive
  <2>2. CrossedOK'
    BY <1>2 DEF RegisterName
  <2>3. NameKnown'
    BY <1>2 DEF RegisterName
  <2> QED
    BY <2>1, <2>2, <2>3
<1>3. ASSUME NEW p \in Pids,
             \/ BeginAnonymous(p) \/ CheckName(p) \/ InitReturns(p) \/ InitPanics(p)
             \/ Die(p) \/ NotifyLinks(p) \/ SkipUnRegister(p)
             \/ CloseChan(p) \/ HandleRegName(p)
      PROVE  KnownInv'
  <2>1. /\ UNCHANGED <<name, nameMap, id2Name, found, adding, crossed>>
        /\ \A q \in Pids \ {p} : stage'[q] = stage[q]
        /\ stage'[p] = "storing" => name[p] # None /\ ~Stored(p)
        /\ stage'[p] \notin {"none", "checking", "storingId", "unregistering", "deletingId"}
        /\ stage[p] \notin {"storingId", "deletingId"}
    BY <1>3 DEF BeginAnonymous, CheckName, InitReturns, InitPanics, Die, NotifyLinks,
                SkipUnRegister, CloseChan, HandleRegName, IsAlive
  <2> QED
    BY <2>1
<1>4. ASSUME NEW p \in Pids, StoreName(p) PROVE KnownInv'
  <2>1. name[p] \in Names /\ ~Stored(p) /\ stage'[p] = "storingId"
    BY <1>4 DEF StoreName
  <2>2. \A q \in Pids : found[q] # p
    BY <2>1
  <2>3. Registering' /\ StoredOK'
    BY <1>4, <2>1 DEF StoreName
  <2>4. CrossedOK'
    BY <1>4, <2>1, <2>2 DEF StoreName
  <2>5. NameKnown'
    BY <1>4, <2>1 DEF StoreName
  <2> QED
    BY <2>3, <2>4, <2>5
<1>5. ASSUME NEW p \in Pids, StoreId(p) PROVE KnownInv'
  BY <1>5 DEF StoreId
<1>6. ASSUME NEW p \in Pids, UnRegisterLoad(p) PROVE KnownInv'
  BY <1>6 DEF UnRegisterLoad
<1>7. ASSUME NEW p \in Pids, UnRegisterName(p) PROVE KnownInv'
  <2>1. name[p] \in Names
    BY <1>7 DEF UnRegisterName
  <2>2. Registering' /\ StoredOK' /\ NameKnown'
    BY <1>7, <2>1 DEF UnRegisterName
  <2>3. CrossedOK'
    BY <1>7, <2>1 DEF UnRegisterName
  <2> QED
    BY <2>2, <2>3
<1>8. ASSUME NEW p \in Pids, UnRegisterId(p) PROVE KnownInv'
  <2>1. found[p] \in Pids
    BY <1>8 DEF UnRegisterId
  <2>2. Registering' /\ StoredOK' /\ CrossedOK'
    BY <1>8 DEF UnRegisterId
  <2>3. NameKnown'
    BY <1>8, <2>1 DEF UnRegisterId
  <2> QED
    BY <2>2, <2>3
<1>9. ASSUME NEW p \in Pids, RegisterId(p) PROVE KnownInv'
  <2>1. Registering' /\ StoredOK'
    BY <1>9 DEF RegisterId
  <2>2. CrossedOK'
    BY <1>9 DEF RegisterId
  <2>3. NameKnown'
    BY <1>9 DEF RegisterId
  <2> QED
    BY <2>1, <2>2, <2>3
<1>10. CASE UNCHANGED vars
  BY <1>10 DEF vars
<1> HIDE DEF TypeOK, KnownInv, Registering, StoredOK, CrossedOK, Stored, NameKnown, Enter, registerVars
<1> QED
  BY <1>1, <1>2, <1>3, <1>4, <1>5, <1>6, <1>7, <1>8, <1>9, <1>10 DEF Next

\* What the supervisor of a name may rely on: if the processes it starts are
\* not registered under other names, at most one is alive and the maps agree,
\* whatever running processes are registered under the name meanwhile, store by
\* store, except while one is being stored and after it met an UnRegister.
THEOREM SupervisedName ==
  ASSUME ~ Anybody, ~ UseRegister \/ \A m, n \in Names : m = n
  PROVE  Spec => []Consistent
<1>1. Spec => []NameKnown
  <2>1. CASE ~ UseRegister
    <3>1. Spec => [](NameKnown /\ Quiet)
      BY <2>1, MapsAgree
    <3> QED
      BY <3>1, PTL
  <2>2. CASE \A m, n \in Names : m = n
    <3>1. Init => KnownInv
      BY NoneAssumption DEF Init, KnownInv, Registering, StoredOK, CrossedOK, NameKnown
    <3>2. TypeOK /\ KnownInv /\ [Next]_vars => KnownInv'
      BY <2>2, KnownStep
    <3>3. KnownInv => NameKnown
      BY DEF KnownInv
    <3> QED
      BY <3>1, <3>2, <3>3, TypeCorrect, PTL DEF Spec
  <2> QED
    BY <2>1, <2>2
<1>2. Spec => []UniqueAlive
  BY OneAlive
<1>3. TypeOK /\ NameKnown /\ UniqueAlive => Consistent
  BY DEF Consistent
<1> QED
  BY <1>1, <1>2, <1>3, TypeCorrect, PTL
=============================================================================
