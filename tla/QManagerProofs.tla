--------------------------- MODULE QManagerProofs ---------------------------
(***************************************************************************)
(* Proofs about QManager: for any number of queues, sessions, handles,     *)
(* messages and streams, and any size of the cache.                        *)
(*                                                                         *)
(* First the table of queues (Inv), for which it does not matter what the  *)
(* operations on files do to the cache and the directory, only that the    *)
(* purger keeps mtx through all of its own; then, on top of it, who works  *)
(* with which stream (StreamInv), and which file holds which record        *)
(* (RecordInv).                                                            *)
(***************************************************************************)
EXTENDS QManager, SequenceTheorems, FiniteSetTheorems, TLAPS

(* The open handles of a queue.                                            *)
Uses(p) == {u \in Sessions \X Handles : opened[u[1]][u[2]] = p}

Erasing(q) == manager.step = "erase" /\ manager.name = q

TableTypeOK ==
    /\ queues \in [Paths -> Stores \cup {None}]
    /\ live \subseteq Stores
    /\ utilization \in [Stores -> Int]
    /\ config \subseteq Paths
    /\ manager \in [by : Actors \cup {None}, name : Paths \cup {None},
                    step : {"free", "erase", "store", "purge"}]
    /\ manager.step = "erase" => manager.name \in Paths
    /\ opened \in [Sessions -> [Handles -> Stores \cup {None}]]
    /\ DOMAIN io = Actors

(* A queue has one name, and is allocated but while it is being erased.    *)
TableSound ==
    /\ \A q, r \in Paths : queues[q] # None /\ queues[q] = queues[r] => q = r
    /\ \A q \in Paths : queues[q] # None => (queues[q] \in live <=> ~Erasing(q))

(* The counts are exact, those of queues no longer allocated included.     *)
Counted == \A p \in Stores : utilization[p] = Cardinality(Uses(p))

PurgerHolds == io[Purger].step # "none" => manager.step = "purge"

Inv == /\ TableTypeOK /\ TableSound /\ Counted
       /\ OpenQueueLives /\ ConfigCurrent /\ PurgerHolds
-----------------------------------------------------------------------------
LEMMA UsesFinite == \A p : IsFiniteSet(Uses(p))
<1>1. IsFiniteSet(Handles)
  <2>1. 1 \in Int /\ MaxOpen \in Int BY ManagerAssumption
  <2> QED BY <2>1, FS_Interval DEF Handles
<1>2. IsFiniteSet(Sessions \X Handles)
    BY <1>1, ManagerAssumption, FS_Product
<1> QED BY <1>2, FS_Subset DEF Uses

(* A handle more, or less, is one use more or less of its queue, and none  *)
(* of any other.                                                           *)
LEMMA UseAdded ==
    ASSUME TableTypeOK, NEW s \in Sessions, NEW h \in Handles, NEW p \in Stores,
           opened[s][h] = None, opened' = [opened EXCEPT ![s][h] = p]
    PROVE  /\ Cardinality(Uses(p)') = Cardinality(Uses(p)) + 1
           /\ \A r \in Stores \ {p} : Uses(r)' = Uses(r)
<1> USE ManagerAssumption DEF TableTypeOK
<1>1. \A t \in Sessions, k \in Handles :
          opened'[t][k] = IF t = s /\ k = h THEN p ELSE opened[t][k]
    OBVIOUS
<1>2. Uses(p)' = Uses(p) \cup {<<s, h>>} /\ <<s, h>> \notin Uses(p)
    BY <1>1 DEF Uses
<1>3. \A r \in Stores \ {p} : Uses(r)' = Uses(r)
    BY <1>1 DEF Uses
<1>4. Cardinality(Uses(p) \cup {<<s, h>>}) = Cardinality(Uses(p)) + 1
    BY <1>2, UsesFinite, FS_AddElement
<1> QED BY <1>2, <1>3, <1>4

LEMMA UseRemoved ==
    ASSUME TableTypeOK, NEW s \in Sessions, NEW h \in Handles, NEW p \in Stores,
           opened[s][h] = p, opened' = [opened EXCEPT ![s][h] = None]
    PROVE  /\ Cardinality(Uses(p)') = Cardinality(Uses(p)) - 1
           /\ \A r \in Stores \ {p} : Uses(r)' = Uses(r)
<1> USE ManagerAssumption DEF TableTypeOK
<1>1. \A t \in Sessions, k \in Handles :
          opened'[t][k] = IF t = s /\ k = h THEN None ELSE opened[t][k]
    OBVIOUS
<1>2. Uses(p)' = Uses(p) \ {<<s, h>>} /\ <<s, h>> \in Uses(p)
    BY <1>1 DEF Uses
<1>3. \A r \in Stores \ {p} : Uses(r)' = Uses(r)
    BY <1>1 DEF Uses
<1>4. Cardinality(Uses(p) \ {<<s, h>>}) = Cardinality(Uses(p)) - 1
    BY <1>2, UsesFinite, FS_RemoveElement
<1> QED BY <1>2, <1>3, <1>4

LEMMA Unused0 ==
    ASSUME Counted, NEW p \in Stores, utilization[p] <= 0
    PROVE  Uses(p) = {}
<1>1. IsFiniteSet(Uses(p)) BY UsesFinite
<1>2. Cardinality(Uses(p)) \in Nat BY <1>1, FS_CardinalityType
<1> QED BY <1>1, <1>2, FS_EmptySet DEF Counted

(* What leaves the table of queues alone keeps it sound, if it also leaves *)
(* mtx with whom it is, or gives the purger's back.                        *)
LEMMA TableUnchanged ==
    ASSUME Inv,
           UNCHANGED <<queues, live, utilization, config, opened>>,
           DOMAIN io' = Actors,
           \/ manager' = manager
           \/ manager.step \in {"free", "purge"} /\ manager' = FreeManager
           \/ manager.step = "free"
              /\ manager' = [by |-> Purger, step |-> "purge", name |-> None],
           PurgerHolds'
    PROVE  Inv'
<1> USE DEF Inv, TableTypeOK
<1>1. TableTypeOK' BY DEF FreeManager, Actors
<1>2. TableSound' BY DEF TableSound, Erasing, FreeManager
<1>3. Counted' BY DEF Counted, Uses
<1>4. OpenQueueLives' BY DEF OpenQueueLives
<1>5. ConfigCurrent' BY DEF ConfigCurrent, Existing, FreeManager
<1> QED BY <1>1, <1>2, <1>3, <1>4, <1>5

LEMMA InitInv == QMInit => Inv
<1> SUFFICES ASSUME QMInit PROVE Inv OBVIOUS
<1> USE ManagerAssumption DEF QMInit
<1>1. TableTypeOK BY DEF TableTypeOK, FreeManager, NoHandles
<1>2. TableSound BY DEF TableSound
<1>3. \A p \in Stores : Uses(p) = {}
    BY DEF Uses, NoHandles
<1>4. Counted BY <1>3, FS_EmptySet DEF Counted
<1>5. OpenQueueLives BY DEF OpenQueueLives, NoHandles
<1>6. ConfigCurrent BY DEF ConfigCurrent, Existing
<1>7. PurgerHolds BY DEF PurgerHolds, NoIO, Actors
<1> QED BY <1>1, <1>2, <1>4, <1>5, <1>6, <1>7 DEF Inv
-----------------------------------------------------------------------------
(* The operations of the manager, one by one.                              *)

LEMMA CreateQueueInv ==
    ASSUME Inv, NEW s \in Sessions, NEW q \in Paths, NEW t \in BOOLEAN,
           CreateQueue(s, q, t)
    PROVE  Inv'
<1> USE ManagerAssumption DEF Inv, TableTypeOK, CreateQueue, IsFree
<1>1. PICK p \in Stores \ live : queues' = [queues EXCEPT ![q] = p]
                                 /\ live' = live \cup {p}
    OBVIOUS
<1>2. TableTypeOK' BY <1>1 DEF Actors
<1>3. \A r \in Paths : queues[r] # None => queues[r] \in live
    BY DEF TableSound, Erasing
<1>4. \A r \in Paths : queues'[r] = IF r = q THEN p ELSE queues[r]
    BY <1>1
<1>5. TableSound' BY <1>1, <1>3, <1>4 DEF TableSound, Erasing
<1>6. Counted' BY DEF Counted, Uses
<1>7. OpenQueueLives'
  <2> SUFFICES ASSUME NEW u \in Sessions, NEW h \in Handles, opened[u][h] # None
               PROVE  \E r \in Paths : queues'[r] = opened[u][h]
                                       /\ opened[u][h] \in live'
      BY DEF OpenQueueLives
  <2>1. PICK r \in Paths : queues[r] = opened[u][h] /\ opened[u][h] \in live
      BY DEF OpenQueueLives
  <2>2. r # q BY <2>1
  <2> QED BY <1>1, <1>4, <2>1, <2>2
<1>8. ConfigCurrent' /\ PurgerHolds'
    BY DEF ConfigCurrent, PurgerHolds
<1> QED BY <1>2, <1>5, <1>6, <1>7, <1>8

LEMMA GetQueueInv ==
    ASSUME Inv, NEW s \in Sessions, NEW q \in Paths, NEW h \in Handles,
           GetQueue(s, q, h)
    PROVE  Inv'
<1>1. PICK p \in Stores : p = queues[q] /\ p \in live
    BY DEF Inv, TableTypeOK, TableSound, Erasing, GetQueue, IsFree
<1>2. /\ Cardinality(Uses(p)') = Cardinality(Uses(p)) + 1
      /\ \A r \in Stores \ {p} : Uses(r)' = Uses(r)
    BY <1>1, UseAdded DEF Inv, GetQueue
<1> USE ManagerAssumption DEF Inv, TableTypeOK, GetQueue, IsFree, managerVars, storeVars
<1>3. TableTypeOK' BY <1>1
<1>4. TableSound' BY DEF TableSound, Erasing
<1>5. Counted'
  <2>1. \A r \in Stores : utilization'[r] = IF r = p THEN utilization[r] + 1
                                            ELSE utilization[r]
      BY <1>1
  <2> QED BY <1>1, <1>2, <2>1 DEF Counted
<1>6. OpenQueueLives'
    BY <1>1 DEF OpenQueueLives
<1>7. ConfigCurrent' /\ PurgerHolds'
    BY DEF ConfigCurrent, PurgerHolds, Existing
<1> QED BY <1>3, <1>4, <1>5, <1>6, <1>7

(* The freeing of a queue nobody uses.                                     *)
LEMMA RemoveInv ==
    ASSUME Inv, IsFree, NEW s \in Sessions, NEW q \in Paths, NEW p \in Stores,
           queues[q] = p, RemoveQueue(s, q), UNCHANGED <<queues, config, io>>,
           opened' \in [Sessions -> [Handles -> Stores \cup {None}]],
           utilization' \in [Stores -> Int],
           Counted', Uses(p)' = {},
           \A u \in Sessions, k \in Handles : opened'[u][k] \in {opened[u][k], None}
    PROVE  Inv'
<1> USE ManagerAssumption DEF Inv, TableTypeOK, RemoveQueue, IsFree
<1>1. TableTypeOK' BY DEF Actors
<1>2. TableSound' BY DEF TableSound, Erasing
<1>3. OpenQueueLives'
  <2> SUFFICES ASSUME NEW u \in Sessions, NEW k \in Handles, opened'[u][k] # None
               PROVE  \E r \in Paths : queues'[r] = opened'[u][k]
                                       /\ opened'[u][k] \in live'
      BY DEF OpenQueueLives
  <2>1. opened'[u][k] = opened[u][k] OBVIOUS
  <2>2. opened'[u][k] # p
    <3>1. <<u, k>> \notin Uses(p)' OBVIOUS
    <3>2. <<u, k>> \in Sessions \X Handles OBVIOUS
    <3> QED BY ONLY <3>1, <3>2 DEF Uses
  <2> QED BY <2>1, <2>2 DEF OpenQueueLives
<1>4. ConfigCurrent' /\ PurgerHolds'
    BY DEF ConfigCurrent, PurgerHolds
<1> QED BY <1>1, <1>2, <1>3, <1>4

LEMMA DeleteQueueInv ==
    ASSUME Inv, NEW s \in Sessions, NEW q \in Paths, DeleteQueue(s, q)
    PROVE  Inv'
<1> USE ManagerAssumption DEF DeleteQueue
<1>1. PICK p \in Stores : p = queues[q] BY DEF Inv, TableTypeOK
<1>2. Uses(p) = {} BY <1>1, Unused0 DEF Inv
<1>3. Uses(p)' = {} BY <1>2 DEF Uses
<1>4. Counted' BY DEF Inv, Counted, Uses
<1>5. /\ opened' \in [Sessions -> [Handles -> Stores \cup {None}]]
      /\ utilization' \in [Stores -> Int]
      /\ \A u \in Sessions, k \in Handles : opened'[u][k] \in {opened[u][k], None}
    BY DEF Inv, TableTypeOK
<1> QED BY <1>1, <1>3, <1>4, <1>5, RemoveInv

LEMMA ReleaseQueueInv ==
    ASSUME Inv, NEW s \in Sessions, NEW h \in Handles, ReleaseQueue(s, h)
    PROVE  Inv'
<1> USE ManagerAssumption DEF Inv, ReleaseQueue
<1>1. PICK p \in Stores : p = opened[s][h] /\ p # None BY DEF TableTypeOK
<1>2. PICK q \in Paths : queues[q] = p /\ p \in live BY <1>1 DEF OpenQueueLives
<1>3. {r \in Paths : queues[r] = p} = {q} BY <1>1, <1>2 DEF TableSound
<1>4. utilization' = [utilization EXCEPT ![p] = @ - 1] BY <1>1, <1>3
<1>5. opened' = [opened EXCEPT ![s][h] = None] OBVIOUS
<1>6. /\ Cardinality(Uses(p)') = Cardinality(Uses(p)) - 1
      /\ \A r \in Stores \ {p} : Uses(r)' = Uses(r)
    BY <1>1, <1>5, UseRemoved
<1>7. utilization' \in [Stores -> Int] BY <1>1, <1>4 DEF TableTypeOK
<1>8. opened' \in [Sessions -> [Handles -> Stores \cup {None}]]
    BY <1>5 DEF TableTypeOK
<1>9. Counted'
  <2>1. \A r \in Stores : utilization'[r] = IF r = p THEN utilization[r] - 1
                                            ELSE utilization[r]
      BY <1>1, <1>4 DEF TableTypeOK
  <2> QED BY <1>1, <1>6, <2>1 DEF Counted
<1>10. \A u \in Sessions, k \in Handles : opened'[u][k] \in {opened[u][k], None}
    BY <1>5 DEF TableTypeOK
<1>11. CASE UNCHANGED <<live, manager, index, cacheVars>>
  <2>1. TableTypeOK' BY <1>7, <1>8, <1>11 DEF TableTypeOK
  <2>2. TableSound' BY <1>11 DEF TableSound, Erasing
  <2>3. OpenQueueLives' BY <1>10, <1>11 DEF OpenQueueLives
  <2>4. ConfigCurrent' /\ PurgerHolds'
      BY <1>11 DEF ConfigCurrent, PurgerHolds, Existing
  <2> QED BY <1>9, <2>1, <2>2, <2>3, <2>4
<1>12. CASE utilization[p] = 1 /\ RemoveQueue(s, q)
  <2>1. utilization'[p] = 0 BY <1>1, <1>4, <1>12 DEF TableTypeOK
  <2>2. IsFiniteSet(Uses(p)') /\ Cardinality(Uses(p)') = 0
    <3>1. IsFiniteSet(Uses(p)) /\ Cardinality(Uses(p)) = 1
        BY <1>1, <1>12, UsesFinite DEF Counted
    <3>2. Uses(p)' \subseteq Uses(p) BY <1>1, <1>10 DEF Uses
    <3> QED BY <1>6, <3>1, <3>2, FS_Subset
  <2>3. Uses(p)' = {} BY <2>2, FS_EmptySet
  <2> QED BY <1>1, <1>2, <1>7, <1>8, <1>9, <1>10, <1>12, <2>3, RemoveInv
<1> QED BY <1>1, <1>3, <1>11, <1>12

LEMMA EraseInv == Inv /\ Erase => Inv'
<1> SUFFICES ASSUME Inv, Erase PROVE Inv' OBVIOUS
<1> USE ManagerAssumption DEF Inv, TableTypeOK, Erase, storeVars
<1>1. queues[manager.name] = None \/ queues[manager.name] \notin live
    BY DEF TableSound, Erasing
<1>2. \A r \in Paths : queues'[r] = IF r = manager.name THEN None ELSE queues[r]
    OBVIOUS
<1>3. TableTypeOK' OBVIOUS
<1>4. TableSound' BY <1>2 DEF TableSound, Erasing
<1>5. Counted' BY DEF Counted, Uses
<1>6. OpenQueueLives' BY <1>1, <1>2 DEF OpenQueueLives
<1>7. ConfigCurrent' /\ PurgerHolds' BY DEF ConfigCurrent, PurgerHolds
<1> QED BY <1>3, <1>4, <1>5, <1>6, <1>7

LEMMA StoreQueueConfigInv == Inv /\ StoreQueueConfig => Inv'
<1> SUFFICES ASSUME Inv, StoreQueueConfig PROVE Inv' OBVIOUS
<1> USE DEF Inv, TableTypeOK, StoreQueueConfig, storeVars
<1>1. TableTypeOK' BY DEF FreeManager, Existing
<1>2. TableSound' BY DEF TableSound, Erasing, FreeManager
<1>3. Counted' BY DEF Counted, Uses
<1>4. OpenQueueLives' BY DEF OpenQueueLives
<1>5. ConfigCurrent' BY DEF ConfigCurrent, Existing
<1>6. PurgerHolds' BY DEF PurgerHolds
<1> QED BY <1>1, <1>2, <1>3, <1>4, <1>5, <1>6

LEMMA RestartInv == Inv /\ Restart => Inv'
<1> SUFFICES ASSUME Inv, Restart PROVE Inv' OBVIOUS
<1> USE ManagerAssumption DEF Inv, TableTypeOK
<1>1. PICK at \in [config -> Stores] :
          /\ \A q, r \in config : at[q] = at[r] => q = r
          /\ queues' = [q \in Paths |-> IF q \in config THEN at[q] ELSE None]
          /\ live' = {at[q] : q \in config}
          /\ utilization' = [p \in Stores |-> 0]
          /\ manager' = FreeManager
          /\ opened' = [s \in Sessions |-> NoHandles]
          /\ io' = [a \in Actors |-> NoIO]
          /\ config' = config
    BY Zenon DEF Restart
<1>2. TableTypeOK' BY <1>1 DEF FreeManager, NoHandles
<1>3. TableSound' BY <1>1 DEF TableSound, Erasing, FreeManager
<1>4. \A p \in Stores : Uses(p)' = {} BY <1>1 DEF Uses, NoHandles
<1>5. Counted' BY <1>1, <1>4, FS_EmptySet DEF Counted
<1>6. OpenQueueLives' BY <1>1 DEF OpenQueueLives, NoHandles
<1>7. ConfigCurrent' BY <1>1 DEF ConfigCurrent, Existing
<1>8. PurgerHolds' BY <1>1 DEF PurgerHolds, NoIO, Actors
<1> QED BY <1>2, <1>3, <1>5, <1>6, <1>7, <1>8
-----------------------------------------------------------------------------
(* Operations on files.                                                    *)

LEMMA FileOperationInv ==
    ASSUME Inv, NEW s \in Sessions, NEW p, NEW m, FileOperation(s, p, m)
    PROVE  Inv'
<1>1. /\ \E kind : Start(s, p, kind, m)
      /\ UNCHANGED manager
    BY DEF FileOperation, Enqueue, Peek, Retrieve
<1>2. UNCHANGED <<queues, live, utilization, config, opened>>
    BY <1>1 DEF Start
<1>3. DOMAIN io' = Actors /\ io'[Purger] = io[Purger]
    BY <1>1, ManagerAssumption DEF Start, Inv, TableTypeOK, Actors
<1> QED BY <1>1, <1>2, <1>3, TableUnchanged DEF Inv, PurgerHolds

LEMMA TTLPurgeInv ==
    ASSUME Inv, NEW p, NEW m, TTLPurge(p, m)
    PROVE  Inv'
<1>1. UNCHANGED <<queues, live, utilization, config, opened>> /\ DOMAIN io' = Actors
    BY DEF TTLPurge, Start, Inv, TableTypeOK
<1>2. manager.step = "free"
      /\ manager' = [by |-> Purger, step |-> "purge", name |-> None]
    BY DEF TTLPurge, IsFree
<1>3. PurgerHolds' BY <1>2 DEF PurgerHolds
<1> QED BY <1>1, <1>2, <1>3, TableUnchanged

(* How an operation goes on or ends.                                       *)
LEMMA IOGoesOn ==
    ASSUME Inv, NEW a \in Actors, io[a].step # "none",
           UNCHANGED <<queues, live, utilization, config, opened>>,
           \/ \E v : io' = [io EXCEPT ![a] = v] /\ UNCHANGED manager
           \/ Done(a) \/ GiveUp(a)
    PROVE  Inv'
<1>1. DOMAIN io' = Actors
    BY DEF Inv, TableTypeOK, Done, GiveUp
<1>2. CASE a = Purger
  <2>1. manager.step = "purge" BY <1>2 DEF Inv, PurgerHolds
  <2>2. \/ manager' = manager
        \/ manager' = FreeManager /\ io' = [io EXCEPT ![a] = NoIO]
      BY <1>2 DEF Done, GiveUp
  <2>3. PurgerHolds'
      BY <1>2, <2>1, <2>2 DEF PurgerHolds, NoIO, Inv, TableTypeOK
  <2> QED BY <1>1, <2>1, <2>2, <2>3, TableUnchanged
<1>3. CASE a # Purger
  <2>1. manager' = manager /\ io'[Purger] = io[Purger]
      BY <1>3 DEF Done, GiveUp, Inv, TableTypeOK, Actors
  <2> QED BY <1>1, <2>1, TableUnchanged DEF Inv, PurgerHolds
<1> QED BY <1>2, <1>3

LEMMA IOInv ==
    ASSUME Inv, NEW a \in Actors, IONext(a)
    PROVE  Inv'
<1>1. CASE GetStream(a)
  <2>1. io[a].step # "none" /\ UNCHANGED managerVars
        /\ \E v : io' = [io EXCEPT ![a] = v]
      BY <1>1 DEF GetStream
  <2> QED BY <2>1, IOGoesOn DEF managerVars
<1>2. CASE UseAppend(a)
  <2>1. io[a].step # "none" /\ Done(a)
        /\ UNCHANGED <<queues, live, utilization, config, opened>>
      BY <1>2 DEF UseAppend
  <2> QED BY <2>1, IOGoesOn
<1>3. CASE UseRead(a)
  <2>1. io[a].step # "none" /\ (Done(a) \/ GiveUp(a))
        /\ UNCHANGED <<queues, live, utilization, config, opened>>
      BY <1>3 DEF UseRead
  <2> QED BY <2>1, IOGoesOn
<1>4. CASE UseMark(a)
  <2>1. io[a].step # "none"
        /\ UNCHANGED <<queues, live, utilization, config, opened>>
      BY <1>4 DEF UseMark
  <2>2. \/ (\E v : io' = [io EXCEPT ![a] = v]) /\ UNCHANGED manager
        \/ Done(a) \/ GiveUp(a)
      BY <1>4 DEF UseMark
  <2> QED BY <2>1, <2>2, IOGoesOn
<1>5. CASE Unlink(a)
  <2>1. io[a].step # "none" /\ Done(a)
        /\ UNCHANGED <<queues, live, utilization, config, opened>>
      BY <1>5 DEF Unlink
  <2> QED BY <2>1, IOGoesOn
<1> QED BY <1>1, <1>2, <1>3, <1>4, <1>5 DEF IONext
-----------------------------------------------------------------------------
LEMMA StepInv == Inv /\ [QMNext]_qmVars => Inv'
<1> SUFFICES ASSUME Inv, [QMNext]_qmVars PROVE Inv' OBVIOUS
<1>1. ASSUME NEW s \in Sessions, SessionNext(s) PROVE Inv'
    BY <1>1, CreateQueueInv, DeleteQueueInv, GetQueueInv, ReleaseQueueInv,
       FileOperationInv, Zenon DEF SessionNext
<1>2. ASSUME NEW p \in live, NEW m \in Msgs, TTLPurge(p, m) PROVE Inv'
    BY <1>2, TTLPurgeInv
<1>3. ASSUME NEW a \in Actors, IONext(a) PROVE Inv'
    BY <1>3, IOInv
<1>4. CASE UNCHANGED qmVars
  <2>1. UNCHANGED <<queues, live, utilization, config, opened, manager, io>>
      BY <1>4 DEF qmVars, managerVars, storeVars
  <2> QED BY <2>1, TableUnchanged DEF Inv, TableTypeOK, PurgerHolds
<1> QED BY <1>1, <1>2, <1>3, <1>4, EraseInv, StoreQueueConfigInv, RestartInv DEF QMNext

THEOREM Invariance == QMSpec => []Inv
    BY InitInv, StepInv, PTL DEF QMSpec

(* No session is ever left with a handle on a queue that was deleted, by   *)
(* DeleteQueue or by the last release of a temporary queue.                *)
THEOREM NoOpenQueueFreed == QMSpec => []OpenQueueLives
<1>1. Inv => OpenQueueLives BY DEF Inv
<1> QED BY <1>1, Invariance, PTL

(* QManager's utilization of a queue is the number of handles on it.       *)
THEOREM UseCountsExact == QMSpec => []UtilizationExact
<1>1. Inv => UtilizationExact
    BY DEF Inv, Counted, Uses, UtilizationExact, TableTypeOK
<1> QED BY <1>1, Invariance, PTL

(* queues.dat names the queues whenever no operation of the manager is     *)
(* under way.                                                              *)
THEOREM ConfigNamesQueues == QMSpec => []ConfigCurrent
<1>1. Inv => ConfigCurrent BY DEF Inv
<1> QED BY <1>1, Invariance, PTL
-----------------------------------------------------------------------------
(***************************************************************************)
(* Streams and files.                                                      *)
(***************************************************************************)

(* The cache has an entry for a name, and no stream in two entries; what   *)
(* is in it is not closed; the names are those that QStorage gives; an     *)
(* entry in use whose stream is open has somebody who uses it.             *)
EntriesSound ==
    /\ \A i, j \in DOMAIN entries : entries[i].name = entries[j].name => i = j
    /\ \A i, j \in DOMAIN entries : entries[i].stream = entries[j].stream => i = j
    /\ \A i \in DOMAIN entries :
           /\ entries[i].name.ended
           /\ stream[entries[i].stream] # "freed"
           /\ entries[i].inuse /\ IsOpen(entries[i].stream)
                  => \E a \in Actors : io[a].stream = entries[i].stream

(* What get() of a name has done when it answers with the stream s.        *)
Given(n, s) ==
    /\ \A i, j \in DOMAIN entries' : entries'[i].name = entries'[j].name => i = j
    /\ \A i, j \in DOMAIN entries' : entries'[i].stream = entries'[j].stream => i = j
    /\ \E k \in DOMAIN entries' :
           entries'[k].name = n /\ entries'[k].stream = s /\ entries'[k].inuse
    /\ \A j \in DOMAIN entries' :
           entries'[j].name # n => \E i \in DOMAIN entries : entries[i] = entries'[j]

(* A stream the cache may close or give to somebody else: that of the name *)
(* itself, or one that is not in use.                                      *)
Disposable(n, t) ==
    \E i \in DOMAIN entries : /\ entries[i].stream = t
                              /\ entries[i].name = n \/ ~entries[i].inuse

(* What get() has done to the streams, the cached ones and the others.     *)
Closed(n, s) ==
    /\ stream'[s] # "freed"
    /\ stream[s] = "freed" \/ Disposable(n, s)
    /\ \A t \in Streams \ {s} :
           \/ stream'[t] = stream[t]
           \/ /\ stream'[t] = "freed" /\ Disposable(n, t)
              /\ \A j \in DOMAIN entries' : entries'[j].stream # t
    /\ \A i \in DOMAIN entries :
           \/ \E j \in DOMAIN entries' : entries'[j] = entries[i]
           \/ entries[i].stream = s
           \/ stream'[entries[i].stream] = "freed"
           \/ entries[i].inuse /\ entries[i].name # n

(* What the stream s reaches, and what became of the directory.            *)
Reaches(n, s) ==
    \/ /\ UNCHANGED <<stream, file>>
       /\ \E i \in DOMAIN entries : entries[i].name = n /\ entries[i].stream = s
    \/ /\ UNCHANGED file
       /\ stream'[s] \in {file[n.path], "failed"}
    \/ /\ file[n.path] = None
       /\ stream'[s] \in Inodes \ Reachable
       /\ file' = [file EXCEPT ![n.path] = stream'[s]]

LEMMA PositionOf ==
    ASSUME CacheTypeOK, NEW n, Holds(n)
    PROVE  /\ Position(n) \in DOMAIN entries
           /\ entries[Position(n)].name = n
BY DEF Holds, Position

LEMMA EntryType ==
    ASSUME CacheTypeOK
    PROVE  /\ DOMAIN entries = 1 .. Len(entries)
           /\ Len(entries) \in Nat
           /\ \A i \in DOMAIN entries :
                  entries[i] \in [name : Names, stream : Streams, inuse : BOOLEAN, mode : Modes]
<1> DEFINE Entry == [name : Names, stream : Streams, inuse : BOOLEAN, mode : Modes]
<1>1. entries \in Seq(Entry) BY DEF CacheTypeOK
<1> HIDE DEF Entry
<1>2. DOMAIN entries = 1 .. Len(entries) /\ Len(entries) \in Nat
    BY <1>1
<1>3. \A i \in DOMAIN entries : entries[i] \in Entry
    BY <1>1
<1> QED BY <1>2, <1>3 DEF Entry

(* The entry of the name, changed, in the place before its own.            *)
LEMMA MovedGiven ==
    ASSUME CacheTypeOK, EntriesSound, NEW n \in Names, NEW s \in Streams,
           NEW i \in DOMAIN entries, entries[i].name = n,
           NEW b \in DOMAIN entries, NEW e,
           e.name = n, e.stream = s, e.inuse,
           s = entries[i].stream \/ stream[s] = "freed",
           DOMAIN entries' = DOMAIN entries,
           \A j \in DOMAIN entries :
               entries'[j] = IF j = b THEN e ELSE IF j = i THEN entries[b] ELSE entries[j]
    PROVE  /\ Given(n, s)
           /\ \A j \in DOMAIN entries : j # i => \E k \in DOMAIN entries' : entries'[k] = entries[j]
<1>1. \A j \in DOMAIN entries : entries[j].name = n => j = i
    BY DEF EntriesSound
<1>2. \A j \in DOMAIN entries : entries[j].stream = s => j = i
    BY DEF EntriesSound
<1> DEFINE Old(j) == IF j = i THEN b ELSE j
<1>3. \A j \in DOMAIN entries \ {b} :
          /\ Old(j) \in DOMAIN entries \ {i}
          /\ entries'[j] = entries[Old(j)]
    OBVIOUS
<1>4. \A j, k \in DOMAIN entries \ {b} : Old(j) = Old(k) => j = k
    OBVIOUS
<1> HIDE DEF Old
<1>5. \A j \in DOMAIN entries \ {b} :
          entries'[j].name # n /\ entries'[j].stream # s
    BY <1>1, <1>2, <1>3
<1>6. entries'[b] = e
    OBVIOUS
<1>7. \A j, k \in DOMAIN entries' : entries'[j].name = entries'[k].name => j = k
    BY <1>3, <1>4, <1>5, <1>6 DEF EntriesSound
<1>8. \A j, k \in DOMAIN entries' : entries'[j].stream = entries'[k].stream => j = k
    BY <1>3, <1>4, <1>5, <1>6 DEF EntriesSound
<1>9. \A j \in DOMAIN entries' :
          entries'[j].name # n => \E k \in DOMAIN entries : entries[k] = entries'[j]
    BY <1>3, <1>6
<1>10. \A j \in DOMAIN entries : j # i => \E k \in DOMAIN entries' : entries'[k] = entries[j]
  <2> TAKE j \in DOMAIN entries
  <2> HAVE j # i
  <2>1. CASE j = b
    BY <2>1
  <2>2. CASE j # b
    BY <2>2
  <2> QED BY <2>1, <2>2
<1> QED BY <1>6, <1>7, <1>8, <1>9, <1>10 DEF Given

LEMMA HitGiven ==
    ASSUME CacheTypeOK, EntriesSound, NEW n \in Names, NEW mode, NEW s \in Streams,
           GetHit(n, mode, s)
    PROVE  Given(n, s) /\ Closed(n, s) /\ Reaches(n, s)
<1> DEFINE i == Position(n)
           b == Before(i)
           e == [entries[i] EXCEPT !.inuse = TRUE]
<1>1. i \in DOMAIN entries /\ entries[i].name = n /\ Len(entries) \in Nat
      /\ DOMAIN entries = 1 .. Len(entries)
    BY PositionOf, EntryType DEF GetHit
<1>2. s = entries[i].stream /\ UNCHANGED <<stream, file>>
      /\ entries' = [Moved(i) EXCEPT ![b].inuse = TRUE]
    BY DEF GetHit
<1> HIDE DEF i
<1>3. b \in DOMAIN entries
    BY <1>1 DEF Before
<1>4. DOMAIN entries' = DOMAIN entries
    BY <1>1, <1>2 DEF Moved
<1>5. \A j \in DOMAIN entries :
          entries'[j] = IF j = b THEN e ELSE IF j = i THEN entries[b] ELSE entries[j]
  <2>1. CASE i = 1 BY <1>1, <1>2, <1>3, <2>1 DEF Moved, Before
  <2>2. CASE i # 1 BY <1>1, <1>2, <1>3, <2>2 DEF Moved, Before
  <2> QED BY <2>1, <2>2
<1>6. e.name = n /\ e.stream = s /\ e.inuse
    BY <1>1, <1>2, EntryType
<1> HIDE DEF b, e
<1>7. /\ Given(n, s)
      /\ \A j \in DOMAIN entries : j # i => \E k \in DOMAIN entries' : entries'[k] = entries[j]
  <2>1. entries[i].name = n /\ s = entries[i].stream BY <1>1, <1>2
  <2> QED BY <1>1, <1>3, <1>4, <1>5, <1>6, <2>1, MovedGiven
<1>8. Closed(n, s)
  <2>1. stream[s] # "freed" /\ Disposable(n, s)
      BY <1>1, <1>2 DEF EntriesSound, Disposable
  <2> QED BY <1>2, <1>7, <2>1 DEF Closed
<1>9. Reaches(n, s)
    BY <1>1, <1>2 DEF Reaches
<1> QED BY <1>7, <1>8, <1>9

LEMMA ReopenedGiven ==
    ASSUME CacheTypeOK, EntriesSound, NEW n \in Names, NEW mode \in Modes, NEW s \in Streams,
           GetReopened(n, mode, s)
    PROVE  Given(n, s) /\ Closed(n, s) /\ Reaches(n, s)
<1> DEFINE i == Position(n)
           b == Before(i)
           old == entries[i].stream
           e == [entries[i] EXCEPT !.inuse = TRUE, !.stream = s, !.mode = ReadWrite]
<1>1. i \in DOMAIN entries /\ entries[i].name = n /\ Len(entries) \in Nat
      /\ DOMAIN entries = 1 .. Len(entries)
    BY PositionOf, EntryType DEF GetReopened
<1>2. /\ s = old \/ stream[s] = "freed"
      /\ entries' = [Moved(i) EXCEPT ![b].inuse = TRUE, ![b].stream = s, ![b].mode = ReadWrite]
    BY DEF GetReopened
<1>3. PICK result \in Inodes \cup {"failed"} :
          /\ Open(n.path, mode \ {"app"}, result)
          /\ stream' = [stream EXCEPT ![old] = "freed", ![s] = result]
    BY DEF GetReopened
<1> HIDE DEF i
<1>4. b \in DOMAIN entries
    BY <1>1 DEF Before
<1>5. DOMAIN entries' = DOMAIN entries
    BY <1>1, <1>2 DEF Moved
<1>6. \A j \in DOMAIN entries :
          entries'[j] = IF j = b THEN e ELSE IF j = i THEN entries[b] ELSE entries[j]
  <2>1. CASE i = 1 BY <1>1, <1>2, <1>4, <2>1 DEF Moved, Before
  <2>2. CASE i # 1 BY <1>1, <1>2, <1>4, <2>2 DEF Moved, Before
  <2> QED BY <2>1, <2>2
<1>7. e.name = n /\ e.stream = s /\ e.inuse /\ old \in Streams
    BY <1>1, EntryType
<1> HIDE DEF b, e
<1>8. /\ Given(n, s)
      /\ \A j \in DOMAIN entries : j # i => \E k \in DOMAIN entries' : entries'[k] = entries[j]
    BY <1>1, <1>2, <1>4, <1>5, <1>6, <1>7, MovedGiven
<1>9. stream \in [Streams -> Inodes \cup {"freed", "failed"}]
    BY DEF CacheTypeOK
<1>10. /\ stream'[s] = result
       /\ \A t \in Streams \ {s} : stream'[t] = IF t = old THEN "freed" ELSE stream[t]
    BY <1>3, <1>7, <1>9
<1>11. Closed(n, s)
  <2>1. result # "freed" BY <1>3, CacheAssumption
  <2>2. Disposable(n, old) BY <1>1 DEF Disposable
  <2>3. old # s => \A j \in DOMAIN entries' : entries'[j].stream # old
    <3>1. \A j \in DOMAIN entries : entries[j].stream = old => j = i
        BY <1>1 DEF EntriesSound
    <3>2. \A j \in DOMAIN entries' : entries'[j].name # n => entries'[j].stream # old
        BY <1>1, <1>8, <3>1 DEF Given
    <3>3. \A j \in DOMAIN entries' : entries'[j].name = n => entries'[j].stream = s
        BY <1>8 DEF Given
    <3> QED BY <3>2, <3>3
  <2>4. \A t \in Streams \ {s} :
           \/ stream'[t] = stream[t]
           \/ /\ stream'[t] = "freed" /\ Disposable(n, t)
              /\ \A j \in DOMAIN entries' : entries'[j].stream # t
      BY <1>10, <2>2, <2>3
  <2>5. entries[i].stream = s \/ stream'[entries[i].stream] = "freed"
      BY <1>7, <1>10
  <2>6. \A j \in DOMAIN entries :
           \/ \E k \in DOMAIN entries' : entries'[k] = entries[j]
           \/ entries[j].stream = s
           \/ stream'[entries[j].stream] = "freed"
      BY <1>8, <2>5
  <2> QED BY <1>2, <1>10, <2>1, <2>2, <2>4, <2>6 DEF Closed
<1>12. Reaches(n, s)
    BY <1>3, <1>10 DEF Open, Reaches
<1> QED BY <1>8, <1>11, <1>12

(* A new entry, or one in the place of the last.                           *)
LEMMA MissedGiven ==
    ASSUME CacheTypeOK, EntriesSound, NEW n \in Names, NEW mode \in Modes, NEW s \in Streams,
           GetMissed(n, mode, s)
    PROVE  Given(n, s) /\ Closed(n, s) /\ Reaches(n, s)
<1> DEFINE full == Len(entries) = CacheSize
           last == entries[CacheSize]
           drop == full /\ ~last.inuse
           k == IF full THEN CacheSize ELSE Len(entries) + 1
           entry == [name |-> n, stream |-> s, inuse |-> TRUE, mode |-> mode]
<1>1. /\ DOMAIN entries = 1 .. Len(entries)
      /\ Len(entries) \in Nat
      /\ \A i \in DOMAIN entries :
             entries[i] \in [name : Names, stream : Streams, inuse : BOOLEAN, mode : Modes]
    BY EntryType
<1>2. PICK result \in Inodes \cup {"failed"} :
          /\ Open(n.path, mode, result)
          /\ stream' = IF drop THEN [stream EXCEPT ![last.stream] = "freed", ![s] = result]
                       ELSE [stream EXCEPT ![s] = result]
    BY DEF GetMissed
<1>3. /\ stream[s] = "freed" \/ (drop /\ s = last.stream)
      /\ entries' = IF full THEN [entries EXCEPT ![CacheSize] = entry]
                     ELSE Append(entries, entry)
      /\ \A i \in DOMAIN entries : entries[i].name # n
    BY DEF GetMissed, Holds
<1>4. full => CacheSize \in DOMAIN entries
    BY <1>1, CacheAssumption
<1>5. /\ k \in DOMAIN entries' /\ entries'[k] = entry
      /\ DOMAIN entries' = DOMAIN entries \cup {k}
      /\ \A j \in DOMAIN entries' \ {k} : j \in DOMAIN entries /\ entries'[j] = entries[j]
      /\ k \in DOMAIN entries => full
  <2>1. CASE full BY <1>1, <1>3, <1>4, <2>1
  <2>2. CASE ~full
    <3>1. entries \in Seq([name : Names, stream : Streams, inuse : BOOLEAN, mode : Modes])
        BY DEF CacheTypeOK
    <3>2. entries' = Append(entries, entry) BY <1>3, <2>2
    <3> HIDE DEF entry
    <3>3. /\ DOMAIN entries' = 1 .. Len(entries) + 1
          /\ entries'[Len(entries) + 1] = entry
          /\ \A j \in 1 .. Len(entries) : entries'[j] = entries[j]
        BY <3>1, <3>2
    <3> QED BY <1>1, <2>2, <3>3
  <2> QED BY <2>1, <2>2
<1>6. entry.name = n /\ entry.stream = s /\ entry.inuse
    OBVIOUS
<1>7. \A i \in DOMAIN entries \ {k} : entries[i].stream # s
  <2>1. CASE stream[s] = "freed" BY <2>1 DEF EntriesSound
  <2>2. CASE drop /\ s = last.stream BY <1>4, <2>2 DEF EntriesSound
  <2> QED BY <1>3, <2>1, <2>2
<1>8. stream \in [Streams -> Inodes \cup {"freed", "failed"}]
    BY DEF CacheTypeOK
<1>9. drop => CacheSize \in DOMAIN entries /\ k = CacheSize /\ last.stream \in Streams
    BY <1>1, <1>4
<1>10. /\ stream'[s] = result
       /\ \A t \in Streams \ {s} :
              stream'[t] = IF drop /\ t = last.stream THEN "freed" ELSE stream[t]
    BY <1>2, <1>8, <1>9
<1>11. full => k = CacheSize /\ last = entries[k]
    OBVIOUS
<1> HIDE DEF full, entry, k
<1>12. Given(n, s)
  <2>1. \A i, j \in DOMAIN entries' : entries'[i].name = entries'[j].name => i = j
      BY <1>3, <1>5, <1>6 DEF EntriesSound
  <2>2. \A i, j \in DOMAIN entries' : entries'[i].stream = entries'[j].stream => i = j
      BY <1>5, <1>6, <1>7 DEF EntriesSound
  <2> QED BY <1>5, <1>6, <2>1, <2>2 DEF Given
<1>13. Closed(n, s)
  <2>1. stream'[s] # "freed" BY <1>10, CacheAssumption
  <2>2. drop => Disposable(n, last.stream)
      BY <1>9 DEF Disposable
  <2>3. stream[s] = "freed" \/ Disposable(n, s)
      BY <1>3, <2>2
  <2>4. drop /\ last.stream # s => \A j \in DOMAIN entries' : entries'[j].stream # last.stream
      BY <1>5, <1>6, <1>9 DEF EntriesSound
  <2>5. \A t \in Streams \ {s} :
           \/ stream'[t] = stream[t]
           \/ /\ stream'[t] = "freed" /\ Disposable(n, t)
              /\ \A j \in DOMAIN entries' : entries'[j].stream # t
      BY <1>10, <2>2, <2>4
  <2>6. \A i \in DOMAIN entries :
           \/ \E j \in DOMAIN entries' : entries'[j] = entries[i]
           \/ entries[i].stream = s
           \/ stream'[entries[i].stream] = "freed"
           \/ entries[i].inuse /\ entries[i].name # n
    <3> TAKE i \in DOMAIN entries
    <3>1. CASE i # k BY <1>5, <3>1
    <3>2. CASE i = k
      <4>1. last = entries[i] /\ full BY <1>5, <1>11, <3>2
      <4>2. CASE drop BY <1>9, <1>10, <4>1, <4>2
      <4>3. CASE ~drop
        <5>1. entries[i].inuse BY <4>1, <4>3
        <5> QED BY <1>3, <5>1
      <4> QED BY <4>2, <4>3
    <3> QED BY <3>1, <3>2
  <2> HIDE DEF drop, last
  <2> QED BY <2>1, <2>3, <2>5, <2>6 DEF Closed
<1>14. Reaches(n, s)
    BY <1>2, <1>10 DEF Open, Reaches
<1> QED BY <1>12, <1>13, <1>14

LEMMA GetGiven ==
    ASSUME CacheTypeOK, EntriesSound, NEW n \in Names, NEW mode \in Modes, NEW s \in Streams,
           Get(n, mode, s)
    PROVE  Given(n, s) /\ Closed(n, s) /\ Reaches(n, s)
BY HitGiven, ReopenedGiven, MissedGiven DEF Get

(* What the cache and the operations keep, as sets of records.             *)
Entry == [name : Names, stream : Streams, inuse : BOOLEAN, mode : Modes]

LEMMA SeqOfEntries ==
    ASSUME NEW l \in Nat, NEW f \in [1 .. l -> Entry], l <= CacheSize
    PROVE  f \in Seq(Entry) /\ Len(f) = l
OBVIOUS

LEMMA EntriesType ==
    ASSUME CacheTypeOK
    PROVE  entries \in [1 .. Len(entries) -> Entry] /\ Len(entries) \in Nat
<1>1. entries \in Seq(Entry) BY DEF CacheTypeOK, Entry
<1> QED BY <1>1

LEMMA OpenType ==
    ASSUME CacheTypeOK, NEW path \in Paths, NEW mode, NEW result, Open(path, mode, result)
    PROVE  file' \in [Paths -> Inodes \cup {None}]
BY DEF CacheTypeOK, Open

LEMMA MovedType ==
    ASSUME CacheTypeOK, NEW i \in DOMAIN entries
    PROVE  /\ Moved(i) \in [1 .. Len(entries) -> Entry]
           /\ Before(i) \in 1 .. Len(entries)
BY EntriesType DEF Moved, Before

LEMMA GetType ==
    ASSUME CacheTypeOK, NEW n \in Names, NEW mode \in Modes, NEW s \in Streams,
           Get(n, mode, s)
    PROVE  CacheTypeOK'
<1>1. CASE GetHit(n, mode, s)
  <2> DEFINE i == Position(n)
             b == Before(i)
             M == Moved(i)
  <2>1. entries' = [M EXCEPT ![b].inuse = TRUE] /\ UNCHANGED <<stream, file>>
      BY <1>1 DEF GetHit
  <2>2. M \in [1 .. Len(entries) -> Entry] /\ b \in 1 .. Len(entries)
      BY <1>1, PositionOf, MovedType DEF GetHit
  <2> HIDE DEF M, b
  <2>3. entries' \in [1 .. Len(entries) -> Entry]
      BY <2>1, <2>2 DEF Entry
  <2>4. Len(entries) \in Nat /\ Len(entries) <= CacheSize
      BY EntriesType DEF CacheTypeOK
  <2>5. entries' \in Seq(Entry) /\ Len(entries') <= CacheSize
      BY <2>3, <2>4
  <2> QED BY <2>1, <2>5 DEF CacheTypeOK, Entry
<1>2. CASE GetReopened(n, mode, s)
  <2> DEFINE i == Position(n)
             b == Before(i)
             M == Moved(i)
  <2>1. entries' = [M EXCEPT ![b].inuse = TRUE, ![b].stream = s, ![b].mode = ReadWrite]
      BY <1>2 DEF GetReopened
  <2>2. M \in [1 .. Len(entries) -> Entry] /\ b \in 1 .. Len(entries)
      BY <1>2, PositionOf, MovedType DEF GetReopened
  <2>3. ReadWrite \in Modes BY DEF Modes
  <2> HIDE DEF M, b
  <2>4. entries' \in [1 .. Len(entries) -> Entry]
      BY <2>1, <2>2, <2>3 DEF Entry
  <2>5. Len(entries) \in Nat /\ Len(entries) <= CacheSize
      BY EntriesType DEF CacheTypeOK
  <2>6. entries' \in Seq(Entry) /\ Len(entries') <= CacheSize
      BY <2>4, <2>5
  <2>7. n.path \in Paths BY DEF Names
  <2>8. file' \in [Paths -> Inodes \cup {None}]
      BY <1>2, <2>7, OpenType DEF GetReopened
  <2>9. stream' \in [Streams -> Inodes \cup {"freed", "failed"}]
      BY <1>2 DEF GetReopened, CacheTypeOK
  <2> QED BY <2>6, <2>8, <2>9 DEF CacheTypeOK, Entry
<1>3. CASE GetMissed(n, mode, s)
  <2> DEFINE entry == [name |-> n, stream |-> s, inuse |-> TRUE, mode |-> mode]
  <2>1. entry \in Entry BY DEF Entry
  <2>2. entries' = IF Len(entries) = CacheSize THEN [entries EXCEPT ![CacheSize] = entry]
                   ELSE Append(entries, entry)
      BY <1>3 DEF GetMissed
  <2> HIDE DEF entry
  <2>3. Len(entries) \in Nat /\ Len(entries) <= CacheSize /\ entries \in Seq(Entry)
      BY EntriesType DEF CacheTypeOK, Entry
  <2>4. entries' \in Seq(Entry) /\ Len(entries') <= CacheSize
    <3>1. CASE Len(entries) = CacheSize
        BY <2>1, <2>2, <2>3, <3>1, CacheAssumption
    <3>2. CASE Len(entries) # CacheSize
        BY <2>1, <2>2, <2>3, <3>2, CacheAssumption
    <3> QED BY <3>1, <3>2
  <2>5. n.path \in Paths BY DEF Names
  <2>6. file' \in [Paths -> Inodes \cup {None}]
      BY <1>3, <2>5, OpenType DEF GetMissed
  <2>7. stream' \in [Streams -> Inodes \cup {"freed", "failed"}]
      BY <1>3 DEF GetMissed, CacheTypeOK
  <2> QED BY <2>4, <2>6, <2>7 DEF CacheTypeOK, Entry
<1> QED BY <1>1, <1>2, <1>3 DEF Get

(* What the end of an operation does with its stream.                      *)
LetGo(s) ==
    /\ DOMAIN entries' = DOMAIN entries
    /\ \A j \in DOMAIN entries :
           /\ entries'[j].name = entries[j].name
           /\ entries'[j].stream = entries[j].stream
           /\ entries'[j].inuse <=> entries[j].inuse /\ entries[j].stream # s
    /\ \A t \in Streams \ {s} : stream'[t] = stream[t]
    /\ IF s \in Cached THEN stream'[s] \in {stream[s], "failed"}
                       ELSE stream'[s] = "freed"
    /\ UNCHANGED file

LEMMA ReleaseLetsGo ==
    ASSUME CacheTypeOK, NEW s \in Streams, Release(s) \/ ReleaseFailed(s)
    PROVE  LetGo(s) /\ CacheTypeOK'
<1>1. \/ entries' = entries /\ s \notin Cached
      \/ entries' = [i \in DOMAIN entries |->
                              IF entries[i].stream = s
                              THEN [entries[i] EXCEPT !.inuse = FALSE] ELSE entries[i]]
    BY DEF Release, ReleaseFailed
<1>2. entries \in [1 .. Len(entries) -> Entry] /\ Len(entries) \in Nat
    BY EntriesType
<1>3. /\ entries' \in [1 .. Len(entries) -> Entry]
      /\ DOMAIN entries' = DOMAIN entries
      /\ \A j \in DOMAIN entries :
             /\ entries'[j].name = entries[j].name
             /\ entries'[j].stream = entries[j].stream
             /\ entries'[j].inuse <=> entries[j].inuse /\ entries[j].stream # s
  <2>1. CASE entries' = entries /\ s \notin Cached
      BY <1>2, <2>1 DEF Cached
  <2>2. CASE entries' = [i \in DOMAIN entries |->
                              IF entries[i].stream = s
                              THEN [entries[i] EXCEPT !.inuse = FALSE] ELSE entries[i]]
      BY <1>2, <2>2 DEF Entry
  <2> QED BY <1>1, <2>1, <2>2
<1>4. entries' \in Seq(Entry) /\ Len(entries') <= CacheSize
  <2>1. Len(entries) <= CacheSize BY DEF CacheTypeOK
  <2> QED BY <1>2, <1>3, <2>1, SeqOfEntries
<1>5. stream \in [Streams -> Inodes \cup {"freed", "failed"}]
    BY DEF CacheTypeOK
<1>6. /\ \A t \in Streams \ {s} : stream'[t] = stream[t]
      /\ IF s \in Cached THEN stream'[s] \in {stream[s], "failed"}
                         ELSE stream'[s] = "freed"
      /\ UNCHANGED file
      /\ stream' \in [Streams -> Inodes \cup {"freed", "failed"}]
    BY <1>5 DEF Release, ReleaseFailed
<1> QED BY <1>3, <1>4, <1>6 DEF LetGo, CacheTypeOK, Entry

(* What remove() does.                                                     *)
Removed(n) ==
    /\ \A i, j \in DOMAIN entries' : entries'[i].name = entries'[j].name => i = j
    /\ \A i, j \in DOMAIN entries' : entries'[i].stream = entries'[j].stream => i = j
    /\ \A j \in DOMAIN entries' :
           entries'[j].name # n /\ \E i \in DOMAIN entries : entries[i] = entries'[j]
    /\ \A i \in DOMAIN entries :
           \/ \E j \in DOMAIN entries' : entries'[j] = entries[i]
           \/ entries[i].name = n
              /\ (entries[i].inuse \/ stream'[entries[i].stream] = "freed")
    /\ \A t \in Streams :
           \/ stream'[t] = stream[t]
           \/ /\ stream'[t] = "freed"
              /\ \A j \in DOMAIN entries' : entries'[j].stream # t
              /\ \E i \in DOMAIN entries :
                     entries[i].name = n /\ entries[i].stream = t
    /\ file' = [file EXCEPT ![n.path] = None]

LEMMA RestOf ==
    ASSUME NEW S, NEW e \in Seq(S), NEW p \in 1 .. Len(e),
           NEW B, B = SubSeq(e, p + 1, Len(e))
    PROVE  /\ B \in Seq(S) /\ Len(B) = Len(e) - p
           /\ \A j \in 1 .. Len(e) - p : B[j] = e[j + p]
<1>1. /\ SubSeq(e, p + 1, Len(e)) \in Seq(S)
      /\ Len(SubSeq(e, p + 1, Len(e)))
            = IF p + 1 <= Len(e) THEN Len(e) - (p + 1) + 1 ELSE 0
      /\ \A j \in 1 .. Len(e) - (p + 1) + 1 :
             SubSeq(e, p + 1, Len(e))[j] = e[p + 1 + j - 1]
    BY SubSeqProperties
<1>2. /\ B \in Seq(S)
      /\ Len(B) = IF p + 1 <= Len(e) THEN Len(e) - (p + 1) + 1 ELSE 0
      /\ \A j \in 1 .. Len(e) - (p + 1) + 1 : B[j] = e[p + 1 + j - 1]
    BY ONLY <1>1, B = SubSeq(e, p + 1, Len(e)), Zenon
<1> DEFINE l == Len(B)
           n == Len(e)
<1>3. l = IF p + 1 <= n THEN n - (p + 1) + 1 ELSE 0
    BY <1>2
<1>4. n \in Nat /\ p \in 1 .. n
    OBVIOUS
<1>5. \A j \in 1 .. n - (p + 1) + 1 : B[j] = e[p + 1 + j - 1]
    BY <1>2
<1> HIDE DEF l, n
<1>6. l = n - p BY ONLY <1>3, <1>4
<1>7. \A j \in 1 .. n - p : j \in 1 .. n - (p + 1) + 1 /\ p + 1 + j - 1 = j + p
    BY ONLY <1>4
<1>8. \A j \in 1 .. n - p : B[j] = e[j + p]
    BY ONLY <1>5, <1>7, Zenon
<1> QED BY <1>2, <1>6, <1>8, Zenon DEF l, n

LEMMA RemoveRemoves ==
    ASSUME CacheTypeOK, EntriesSound, NEW n \in Names, Remove(n)
    PROVE  Removed(n) /\ CacheTypeOK'
<1>1. entries \in [1 .. Len(entries) -> Entry] /\ Len(entries) \in Nat
      /\ entries \in Seq(Entry) /\ Len(entries) <= CacheSize
    BY EntriesType DEF CacheTypeOK, Entry
<1>2. file' = [file EXCEPT ![n.path] = None] /\ n.path \in Paths
      /\ file \in [Paths -> Inodes \cup {None}]
      /\ stream \in [Streams -> Inodes \cup {"freed", "failed"}]
    BY DEF Remove, CacheTypeOK, Names
<1>3. CASE Holds(n)
  <2>0. PICK p \in DOMAIN entries : p = Position(n)
      BY <1>3, PositionOf
  <2>1. entries[p].name = n /\ entries[p].stream \in Streams
      BY <1>1, <1>3, <2>0, PositionOf DEF Entry
  <2>2. /\ stream' = IF entries[p].inuse THEN stream
                     ELSE [stream EXCEPT ![entries[p].stream] = "freed"]
        /\ entries' = SubSeq(entries, 1, p - 1) \o SubSeq(entries, p + 1, Len(entries))
      BY <1>3, <2>0 DEF Remove
  <2>3. /\ entries' \in Seq(Entry) /\ Len(entries') = Len(entries) - 1
        /\ DOMAIN entries' = 1 .. Len(entries) - 1
        /\ \A j \in 1 .. Len(entries) - 1 :
               entries'[j] = IF j < p THEN entries[j] ELSE entries[j + 1]
    <3>1. p \in 1 .. Len(entries) BY <1>1, <2>1
    <3>2. /\ SubSeq(entries, 1, p - 1) \in Seq(Entry)
          /\ Len(SubSeq(entries, 1, p - 1)) = p - 1
          /\ \A j \in 1 .. p - 1 : SubSeq(entries, 1, p - 1)[j] = entries[j]
        BY <1>1, <3>1
    <3> DEFINE A == SubSeq(entries, 1, p - 1)
    <3>0. PICK B : B = SubSeq(entries, p + 1, Len(entries)) OBVIOUS
    <3>3. /\ B \in Seq(Entry) /\ Len(B) = Len(entries) - p
          /\ \A j \in 1 .. Len(entries) - p : B[j] = entries[j + p]
      <4>1. entries \in Seq(Entry) BY <1>1
      <4> QED BY <3>0, <3>1, <4>1, RestOf, SMTT(30)
    <3> HIDE DEF A
    <3>4. /\ A \o B \in Seq(Entry) /\ Len(A \o B) = Len(A) + Len(B)
          /\ \A j \in 1 .. Len(A) + Len(B) :
                 (A \o B)[j] = IF j <= Len(A) THEN A[j] ELSE B[j - Len(A)]
        BY <3>2, <3>3, ConcatProperties DEF A
    <3>5. entries' = A \o B BY <2>2, <3>0 DEF A
    <3>6. Len(A) = p - 1 /\ Len(B) = Len(entries) - p
          /\ (\A j \in 1 .. p - 1 : A[j] = entries[j])
          /\ \A j \in 1 .. Len(entries) - p : B[j] = entries[j + p]
        BY <3>2, <3>3 DEF A
    <3>7. Len(entries') = Len(entries) - 1 /\ entries' \in Seq(Entry)
      <4>1. Len(A) + Len(B) = Len(entries) - 1 BY <1>1, <3>1, <3>6
      <4> QED BY <3>4, <3>5, <4>1
    <3>8. \A j \in 1 .. Len(entries) - 1 :
               entries'[j] = IF j < p THEN entries[j] ELSE entries[j + 1]
      <4> TAKE j \in 1 .. Len(entries) - 1
      <4>1. entries'[j] = IF j <= p - 1 THEN A[j] ELSE B[j - (p - 1)]
          BY <1>1, <3>1, <3>4, <3>5, <3>6
      <4>2. CASE j < p BY <1>1, <3>1, <3>6, <4>1, <4>2
      <4>3. CASE ~(j < p)
        <5>1. j - (p - 1) \in 1 .. Len(entries) - p /\ j - (p - 1) + p = j + 1
            BY <1>1, <3>1, <4>3
        <5> QED BY <1>1, <3>1, <3>6, <4>1, <4>3, <5>1
      <4> QED BY <4>2, <4>3
    <3> QED BY <1>1, <3>7, <3>8
  <2> DEFINE Old(j) == IF j < p THEN j ELSE j + 1
             New(i) == IF i < p THEN i ELSE i - 1
  <2>4. /\ \A j \in DOMAIN entries' :
               Old(j) \in DOMAIN entries \ {p} /\ entries'[j] = entries[Old(j)]
        /\ \A i, j \in DOMAIN entries' : Old(i) = Old(j) => i = j
    <3>1. DOMAIN entries = 1 .. Len(entries) /\ p \in 1 .. Len(entries)
        BY <1>1, <2>1
    <3>2. \A j \in 1 .. Len(entries) - 1 : Old(j) \in 1 .. Len(entries) /\ Old(j) # p
        BY <1>1, <3>1
    <3>3. \A j \in 1 .. Len(entries) - 1 : entries'[j] = entries[Old(j)]
        BY <2>3
    <3>4. \A i, j \in 1 .. Len(entries) - 1 : Old(i) = Old(j) => i = j
        BY <1>1, <3>1
    <3> HIDE DEF Old
    <3> QED BY <2>3, <3>1, <3>2, <3>3, <3>4
  <2>5. \A i \in DOMAIN entries \ {p} :
               New(i) \in DOMAIN entries' /\ entries'[New(i)] = entries[i]
      BY <1>1, <2>1, <2>3
  <2> HIDE DEF Old, New
  <2>6. \A i \in DOMAIN entries : entries[i].name = n => i = p
      BY <2>1 DEF EntriesSound
  <2>7. \A i, j \in DOMAIN entries' : entries'[i].name = entries'[j].name => i = j
      BY <2>4 DEF EntriesSound
  <2>8. \A i, j \in DOMAIN entries' : entries'[i].stream = entries'[j].stream => i = j
      BY <2>4 DEF EntriesSound
  <2>9. \A j \in DOMAIN entries' :
           entries'[j].name # n /\ \E i \in DOMAIN entries : entries[i] = entries'[j]
      BY <2>4, <2>6
  <2>10. \A i \in DOMAIN entries :
           \/ \E j \in DOMAIN entries' : entries'[j] = entries[i]
           \/ entries[i].name = n
              /\ (entries[i].inuse \/ stream'[entries[i].stream] = "freed")
      BY <1>2, <2>1, <2>2, <2>5
  <2>11. \A j \in DOMAIN entries' : entries'[j].stream # entries[p].stream
      BY <2>1, <2>4 DEF EntriesSound
  <2>12. \A t \in Streams :
           \/ stream'[t] = stream[t]
           \/ /\ stream'[t] = "freed"
              /\ \A j \in DOMAIN entries' : entries'[j].stream # t
              /\ \E i \in DOMAIN entries :
                     entries[i].name = n /\ entries[i].stream = t
      BY <1>2, <2>1, <2>2, <2>11
  <2>13. Removed(n)
      BY <1>2, <2>7, <2>8, <2>9, <2>10, <2>12 DEF Removed
  <2>14. /\ stream' \in [Streams -> Inodes \cup {"freed", "failed"}]
         /\ file' \in [Paths -> Inodes \cup {None}]
      BY <1>2, <2>2
  <2>15. entries' \in Seq(Entry) /\ Len(entries') <= CacheSize
      BY <1>1, <2>3, CacheAssumption
  <2> QED BY <2>13, <2>14, <2>15 DEF CacheTypeOK, Entry
<1>4. CASE ~Holds(n)
  <2>1. UNCHANGED <<entries, stream>> BY <1>4 DEF Remove
  <2>2. Removed(n) BY <1>2, <1>4, <2>1 DEF Removed, Holds, EntriesSound
  <2>3. file' \in [Paths -> Inodes \cup {None}] BY <1>2
  <2> QED BY <1>1, <1>2, <2>1, <2>2, <2>3 DEF CacheTypeOK, Entry
<1> QED BY <1>3, <1>4

-----------------------------------------------------------------------------
(* Operations on files: each is on a queue that has a name and stays, no   *)
(* two are on one queue, and a stream is what an operation has while it    *)
(* uses it.  The queue of a session's operation is one it has open.        *)
LiveNamed == \A p \in live : \E q \in Paths : queues[q] = p

IOSound ==
    /\ \A a \in Actors :
           \/ io[a] = NoIO
           \/ /\ io[a].step \in {"get", "use", "unlink"}
              /\ io[a].kind \in {"append", "read", "mark"}
              /\ io[a].store \in live /\ io[a].msg \in Msgs
              /\ io[a].step = "use" <=> io[a].stream # None
    /\ \A a, b \in Actors :
           io[a].step # "none" /\ io[a].store = io[b].store => a = b
    /\ \A s \in Sessions :
           io[s].step # "none" => \E h \in Handles : opened[s][h] = io[s].store

(* The stream of an operation is open or failed, and its own; if the cache *)
(* has it, then as in use, under the name of its queue.  An open stream is *)
(* in the cache or with an operation.                                      *)
StreamsSound ==
    /\ \A a \in Actors : io[a].step = "use" =>
           /\ stream[io[a].stream] # "freed"
           /\ \A b \in Actors : io[b].stream = io[a].stream => a = b
           /\ \A i \in DOMAIN entries : entries[i].stream = io[a].stream =>
                  entries[i].inuse /\ queues[entries[i].name.path] = io[a].store
    /\ \A s \in Streams :
           IsOpen(s) => s \in Cached \/ \E a \in Actors : io[a].stream = s

StreamInv == /\ ManagerTypeOK /\ LiveNamed
             /\ IOSound /\ EntriesSound /\ StreamsSound

(* What io says of an actor.                                               *)
IOType == [step : {"none", "get", "use", "unlink"},
           kind : {"append", "read", "mark", None},
           store : Stores \cup {None}, msg : Msgs \cup {None},
           stream : Streams \cup {None}]

LEMMA StreamInUseHolds == StreamInv => StreamInUse
<1> SUFFICES ASSUME StreamInv PROVE StreamInUse OBVIOUS
<1>1. \A a \in Actors : io[a].step = "use" => io[a].stream # None
    BY DEF StreamInv, IOSound, NoIO
<1> QED BY <1>1 DEF StreamInv, StreamsSound, EntriesSound, StreamInUse

LEMMA InitStreamInv == QMInit => StreamInv
<1> SUFFICES ASSUME QMInit PROVE StreamInv OBVIOUS
<1> USE ManagerAssumption, CacheAssumption DEF QMInit, CacheInit
<1>1. CacheTypeOK
  <2>1. entries \in Seq(Entry) /\ Len(entries) = 0 OBVIOUS
  <2> QED BY <2>1 DEF CacheTypeOK, Entry
<1>2. ManagerTypeOK BY <1>1 DEF ManagerTypeOK, FreeManager, NoHandles, NoIO
<1>3. LiveNamed BY DEF LiveNamed
<1>4. IOSound BY DEF IOSound, NoIO, Actors
<1>5. EntriesSound BY DEF EntriesSound
<1>6. StreamsSound BY DEF StreamsSound, IsOpen, NoIO
<1> QED BY <1>2, <1>3, <1>4, <1>5, <1>6 DEF StreamInv

(* What happens to the table of queues is nothing to operations on files   *)
(* whose queues stay where they are.                                       *)
LEMMA TablesChange ==
    ASSUME StreamInv, ManagerTypeOK', LiveNamed', UNCHANGED <<entries, stream, io>>,
           \A a \in Actors : io[a].step # "none" =>
               /\ io[a].store \in live'
               /\ \A q \in Paths : queues[q] = io[a].store => queues'[q] = io[a].store,
           \A s \in Sessions : io[s].step # "none" =>
               \A h \in Handles : opened[s][h] = io[s].store => opened'[s][h] = io[s].store
    PROVE  StreamInv'
<1>1. IOSound' BY DEF StreamInv, IOSound
<1>2. EntriesSound' BY DEF StreamInv, EntriesSound, IsOpen
<1>3. \A i \in DOMAIN entries : entries[i].name.path \in Paths
    BY EntriesType DEF StreamInv, ManagerTypeOK, Entry, Names
<1>4. StreamsSound' BY <1>3 DEF StreamInv, StreamsSound, IsOpen, Cached
<1> QED BY <1>1, <1>2, <1>4 DEF StreamInv

LEMMA CreateQueueStream ==
    ASSUME Inv, StreamInv, NEW s \in Sessions, NEW q \in Paths, NEW t \in BOOLEAN,
           CreateQueue(s, q, t)
    PROVE  StreamInv'
<1> USE ManagerAssumption DEF CreateQueue
<1>1. PICK p \in Stores \ live :
          /\ queues' = [queues EXCEPT ![q] = p]
          /\ live' = live \cup {p}
          /\ index' = [index EXCEPT ![p] = OnDisk(q)]
    OBVIOUS
<1>2. OnDisk(q) \subseteq Msgs
    BY DEF OnDisk, StreamInv, ManagerTypeOK, CacheTypeOK
<1>3. ManagerTypeOK'
    BY <1>1, <1>2 DEF StreamInv, ManagerTypeOK, CacheTypeOK, cacheVars, Actors
<1>4. \A r \in Paths : queues'[r] = IF r = q THEN p ELSE queues[r]
    BY <1>1 DEF StreamInv, ManagerTypeOK
<1>5. LiveNamed'
    BY <1>1, <1>4 DEF StreamInv, LiveNamed, ManagerTypeOK
<1>6. \A a \in Actors : io[a].step # "none" => io[a].store \in live /\ io[a].store # None
    BY DEF StreamInv, IOSound, NoIO, ManagerTypeOK
<1> QED BY <1>1, <1>3, <1>4, <1>5, <1>6, TablesChange DEF cacheVars

LEMMA GetQueueStream ==
    ASSUME StreamInv, NEW s \in Sessions, NEW q \in Paths, NEW h \in Handles,
           GetQueue(s, q, h)
    PROVE  StreamInv'
<1> USE ManagerAssumption DEF GetQueue, storeVars, cacheVars
<1>1. ManagerTypeOK'
    BY DEF StreamInv, ManagerTypeOK, CacheTypeOK
<1>2. LiveNamed' BY DEF StreamInv, LiveNamed
<1>3. \A a \in Actors : io[a].step # "none" => io[a].store \in live /\ io[a].store # None
    BY DEF StreamInv, IOSound, NoIO, ManagerTypeOK
<1>4. \A u \in Sessions, k \in Handles :
          opened[u][k] # None => opened'[u][k] = opened[u][k]
    BY DEF StreamInv, ManagerTypeOK
<1> QED BY <1>1, <1>2, <1>3, <1>4, TablesChange DEF Actors

(* The files go, but the streams stay: the cache does not know the name.   *)
LEMMA RemoveQueueStreams ==
    ASSUME StreamInv, NEW s \in Sessions, NEW q \in Paths, RemoveQueue(s, q)
    PROVE  /\ UNCHANGED <<entries, stream>>
           /\ file' = [file EXCEPT ![q] = None]
           /\ CacheTypeOK'
<1>1. ~Holds(Name(q, FALSE))
    BY DEF Holds, Name, StreamInv, EntriesSound
<1>2. UNCHANGED <<entries, stream>> /\ file' = [file EXCEPT ![q] = None]
  <2>1. CASE file[q] # None
      BY <1>1, <2>1 DEF RemoveQueue, Remove, Name
  <2>2. CASE file[q] = None
      BY <2>2 DEF RemoveQueue, cacheVars, StreamInv, ManagerTypeOK, CacheTypeOK
  <2> QED BY <2>1, <2>2
<1> QED BY <1>2 DEF StreamInv, ManagerTypeOK, CacheTypeOK

LEMMA RemoveQueueStream ==
    ASSUME Inv, StreamInv, NEW s \in Sessions, NEW q \in Paths, RemoveQueue(s, q),
           queues[q] # None,
           UNCHANGED <<queues, tempQueues, config, data, io>>,
           opened' \in [Sessions -> [Handles -> Stores \cup {None}]],
           utilization' \in [Stores -> Int],
           \A a \in Actors : io[a].step # "none" => io[a].store # queues[q],
           \A u \in Sessions \ {s}, k \in Handles : opened'[u][k] = opened[u][k],
           io[s].step = "none"
    PROVE  StreamInv'
<1>1. UNCHANGED <<entries, stream>> /\ CacheTypeOK'
    BY RemoveQueueStreams
<1>2. ManagerTypeOK'
    BY <1>1 DEF StreamInv, ManagerTypeOK, RemoveQueue, Actors
<1>3. LiveNamed' BY DEF StreamInv, LiveNamed, RemoveQueue
<1>4. \A a \in Actors : io[a].step # "none" => io[a].store \in live'
    BY DEF StreamInv, IOSound, NoIO, RemoveQueue
<1> QED BY <1>1, <1>2, <1>3, <1>4, TablesChange DEF Actors

LEMMA DeleteQueueStream ==
    ASSUME Inv, StreamInv, NEW s \in Sessions, NEW q \in Paths, DeleteQueue(s, q),
           io[s].step = "none"
    PROVE  StreamInv'
<1> USE DEF DeleteQueue
<1>1. PICK p \in Stores : p = queues[q] BY DEF Inv, TableTypeOK
<1>2. Uses(p) = {} BY <1>1, Unused0 DEF Inv
<1>3. \A a \in Actors : io[a].step # "none" => io[a].store # queues[q]
  <2> TAKE a \in Actors
  <2> HAVE io[a].step # "none"
  <2>1. a \in Sessions
      BY DEF Inv, PurgerHolds, IsFree, Actors
  <2>2. PICK h \in Handles : opened[a][h] = io[a].store
      BY <2>1 DEF StreamInv, IOSound
  <2>3. <<a, h>> \in Sessions \X Handles /\ <<a, h>> \notin Uses(p)
      BY <1>2, <2>1
  <2> QED BY <1>1, <2>2, <2>3 DEF Uses
<1>4. /\ opened' \in [Sessions -> [Handles -> Stores \cup {None}]]
      /\ utilization' \in [Stores -> Int]
    BY DEF StreamInv, ManagerTypeOK
<1> QED BY <1>3, <1>4, RemoveQueueStream

LEMMA ReleaseQueueStream ==
    ASSUME Inv, StreamInv, NEW s \in Sessions, NEW h \in Handles, ReleaseQueue(s, h),
           io[s].step = "none"
    PROVE  StreamInv'
<1> USE ManagerAssumption DEF ReleaseQueue
<1>1. PICK p \in Stores : p = opened[s][h] /\ p # None
    BY DEF StreamInv, ManagerTypeOK
<1>2. opened' = [opened EXCEPT ![s][h] = None] OBVIOUS
<1>3. /\ opened' \in [Sessions -> [Handles -> Stores \cup {None}]]
      /\ \A u \in Sessions \ {s}, k \in Handles : opened'[u][k] = opened[u][k]
    BY <1>2 DEF StreamInv, ManagerTypeOK
<1>4. utilization' \in [Stores -> Int]
    BY <1>1 DEF StreamInv, ManagerTypeOK
<1>5. CASE UNCHANGED <<live, manager, index, cacheVars>>
  <2>1. ManagerTypeOK'
      BY <1>3, <1>4, <1>5 DEF StreamInv, ManagerTypeOK, CacheTypeOK, cacheVars
  <2>2. LiveNamed' BY <1>5 DEF StreamInv, LiveNamed
  <2>3. \A a \in Actors : io[a].step # "none" => io[a].store \in live'
      BY <1>5 DEF StreamInv, IOSound, NoIO
  <2> QED BY <1>3, <1>5, <2>1, <2>2, <2>3, TablesChange DEF cacheVars
<1>6. CASE \E q \in {r \in Paths : queues[r] = p} :
               utilization[p] = 1 /\ RemoveQueue(s, q)
  <2>1. PICK q \in Paths : queues[q] = p /\ utilization[p] = 1 /\ RemoveQueue(s, q)
      BY <1>6
  <2>2. Cardinality(Uses(p)') = 0
    <3>1. Cardinality(Uses(p)') = Cardinality(Uses(p)) - 1
        BY <1>1, <1>2, UseRemoved DEF Inv
    <3>2. Cardinality(Uses(p)) = 1
        BY <1>1, <2>1 DEF Inv, Counted
    <3> QED BY <3>1, <3>2
  <2>3. Uses(p)' = {}
    <3>1. Uses(p)' \subseteq Uses(p)
        BY <1>1, <1>2 DEF Uses, StreamInv, ManagerTypeOK
    <3>2. IsFiniteSet(Uses(p)') BY <3>1, UsesFinite, FS_Subset
    <3> QED BY <2>2, <3>2, FS_EmptySet
  <2>4. \A a \in Actors : io[a].step # "none" => io[a].store # queues[q]
    <3> TAKE a \in Actors
    <3> HAVE io[a].step # "none"
    <3>1. a \in Sessions \ {s}
        BY DEF Inv, PurgerHolds, IsFree, Actors
    <3>2. PICK k \in Handles : opened[a][k] = io[a].store
        BY <3>1 DEF StreamInv, IOSound
    <3>3. <<a, k>> \in Sessions \X Handles /\ <<a, k>> \notin Uses(p)'
        BY <2>3, <3>1
    <3>4. opened'[a][k] = io[a].store BY <1>3, <3>1, <3>2
    <3> QED BY <2>1, <3>3, <3>4 DEF Uses
  <2> QED BY <1>1, <1>3, <1>4, <2>1, <2>4, RemoveQueueStream
<1> QED BY <1>1, <1>5, <1>6

LEMMA EraseStream == Inv /\ StreamInv /\ Erase => StreamInv'
<1> SUFFICES ASSUME Inv, StreamInv, Erase PROVE StreamInv' OBVIOUS
<1> USE DEF Erase, storeVars, cacheVars
<1>1. queues[manager.name] = None \/ queues[manager.name] \notin live
    BY DEF Inv, TableTypeOK, TableSound, Erasing
<1>2. \A r \in Paths : queues'[r] = IF r = manager.name THEN None ELSE queues[r]
    BY DEF StreamInv, ManagerTypeOK
<1>3. ManagerTypeOK' BY DEF StreamInv, ManagerTypeOK, CacheTypeOK
<1>4. None \notin live BY ManagerAssumption DEF StreamInv, ManagerTypeOK
<1>5. LiveNamed' BY <1>1, <1>2, <1>4 DEF StreamInv, LiveNamed
<1>6. \A a \in Actors : io[a].step # "none" => io[a].store \in live
    BY DEF StreamInv, IOSound, NoIO
<1> QED BY <1>1, <1>2, <1>3, <1>4, <1>5, <1>6, TablesChange

LEMMA StoreQueueConfigStream == StreamInv /\ StoreQueueConfig => StreamInv'
<1> SUFFICES ASSUME StreamInv, StoreQueueConfig PROVE StreamInv' OBVIOUS
<1> USE DEF StoreQueueConfig, storeVars, cacheVars
<1>1. ManagerTypeOK'
    BY DEF StreamInv, ManagerTypeOK, CacheTypeOK, FreeManager, Existing
<1>2. LiveNamed' BY DEF StreamInv, LiveNamed
<1>3. \A a \in Actors : io[a].step # "none" => io[a].store \in live
    BY DEF StreamInv, IOSound, NoIO
<1> QED BY <1>1, <1>2, <1>3, TablesChange

LEMMA RestartStream == StreamInv /\ Restart => StreamInv'
<1> SUFFICES ASSUME StreamInv, Restart PROVE StreamInv' OBVIOUS
<1> USE ManagerAssumption, CacheAssumption
<1>1. PICK at \in [config -> Stores] :
          /\ queues' = [q \in Paths |-> IF q \in config THEN at[q] ELSE None]
          /\ live' = {at[q] : q \in config}
          /\ utilization' = [p \in Stores |-> 0]
          /\ tempQueues' = {}
          /\ manager' = FreeManager
          /\ opened' = [s \in Sessions |-> NoHandles]
          /\ index' = [p \in Stores |-> UNION {OnDisk(q) : q \in {r \in config : at[r] = p}}]
          /\ io' = [a \in Actors |-> NoIO]
          /\ entries' = <<>>
          /\ stream' = [s \in Streams |-> "freed"]
          /\ UNCHANGED <<config, data, file>>
    BY Zenon DEF Restart
<1>2. CacheTypeOK'
  <2>1. entries' \in Seq(Entry) /\ Len(entries') = 0 BY <1>1
  <2> QED BY <1>1, <2>1 DEF CacheTypeOK, StreamInv, ManagerTypeOK, Entry
<1>3. index' \in [Stores -> SUBSET Msgs]
  <2>1. \A q \in Paths : OnDisk(q) \subseteq Msgs
      BY DEF OnDisk, StreamInv, ManagerTypeOK, CacheTypeOK
  <2>2. config \subseteq Paths BY DEF StreamInv, ManagerTypeOK
  <2> QED BY <1>1, <2>1, <2>2
<1>4. ManagerTypeOK'
  <2>1. io' \in [Actors -> IOType] BY <1>1 DEF NoIO, IOType
  <2>2. /\ queues' \in [Paths -> Stores \cup {None}]
        /\ live' \subseteq Stores
        /\ utilization' \in [Stores -> Int]
        /\ tempQueues' \subseteq Paths /\ config' \subseteq Paths
        /\ data' \in [Inodes -> SUBSET Msgs]
      BY <1>1 DEF StreamInv, ManagerTypeOK
  <2>3. /\ opened' \in [Sessions -> [Handles -> Stores \cup {None}]]
        /\ manager' \in [by : Actors \cup {None}, name : Paths \cup {None},
                    step : {"free", "erase", "store", "purge"}]
      BY <1>1 DEF NoHandles, FreeManager
  <2> QED BY <1>2, <1>3, <2>1, <2>2, <2>3 DEF ManagerTypeOK, IOType
<1>5. LiveNamed'
  <2>1. config \subseteq Paths BY DEF StreamInv, ManagerTypeOK
  <2> QED BY <1>1, <2>1 DEF LiveNamed
<1>6. \A a \in Actors : io'[a] = NoIO BY <1>1
<1>7. IOSound' BY <1>6 DEF IOSound, NoIO, Actors
<1>8. EntriesSound' BY <1>1 DEF EntriesSound
<1>9. StreamsSound' BY <1>1, <1>6 DEF StreamsSound, IsOpen, NoIO
<1> QED BY <1>4, <1>5, <1>7, <1>8, <1>9 DEF StreamInv
-----------------------------------------------------------------------------
LEMMA StartStream ==
    ASSUME StreamInv, NEW a \in Actors, NEW p \in live, NEW m \in Msgs,
           NEW kind \in {"append", "read", "mark"}, io[a].step = "none",
           Start(a, p, kind, m),
           a \in Sessions => \E h \in Handles : opened[a][h] = p,
           manager' \in [by : Actors \cup {None}, name : Paths \cup {None},
                    step : {"free", "erase", "store", "purge"}]
    PROVE  StreamInv'
<1> USE ManagerAssumption, CacheAssumption
<1>1. /\ UNCHANGED <<queues, live, utilization, tempQueues, config, opened,
                     index, data, entries, stream, file>>
      /\ io' = [io EXCEPT ![a] = [step |-> "get", kind |-> kind, store |-> p,
                                  msg |-> m, stream |-> None]]
      /\ \A b \in Actors : io[b].store # p
    BY DEF Start, cacheVars, Locked
<1>2. io \in [Actors -> IOType] /\ live \subseteq Stores
    BY DEF StreamInv, ManagerTypeOK, IOType
<1>3. io' \in [Actors -> IOType]
    BY <1>1, <1>2 DEF IOType
<1>4. /\ io'[a] = [step |-> "get", kind |-> kind, store |-> p,
                  msg |-> m, stream |-> None]
      /\ \A b \in Actors \ {a} : io'[b] = io[b]
    BY <1>1, <1>2
<1>5. ManagerTypeOK'
    BY <1>1, <1>3 DEF StreamInv, ManagerTypeOK, CacheTypeOK, IOType
<1>6. LiveNamed' BY <1>1 DEF StreamInv, LiveNamed
<1>7. io[a] = NoIO BY DEF StreamInv, IOSound
<1>8. IOSound'
  <2>1. \A b \in Actors :
           \/ io'[b] = NoIO
           \/ /\ io'[b].step \in {"get", "use", "unlink"}
              /\ io'[b].kind \in {"append", "read", "mark"}
              /\ io'[b].store \in live' /\ io'[b].msg \in Msgs
              /\ io'[b].step = "use" <=> io'[b].stream # None
      BY <1>1, <1>4 DEF StreamInv, IOSound
  <2>2. \A b, c \in Actors :
           io'[b].step # "none" /\ io'[b].store = io'[c].store => b = c
      BY <1>1, <1>4 DEF StreamInv, IOSound
  <2>3. \A s \in Sessions :
           io'[s].step # "none" => \E h \in Handles : opened'[s][h] = io'[s].store
      BY <1>1, <1>4 DEF StreamInv, IOSound, Actors
  <2> QED BY <2>1, <2>2, <2>3 DEF IOSound
<1>9. \A b \in Actors : io'[b].stream = io[b].stream
    BY <1>4, <1>7 DEF NoIO
<1>10. EntriesSound' BY <1>1, <1>9 DEF StreamInv, EntriesSound, IsOpen
<1>11. \A b \in Actors : io'[b].step = "use" => b # a
    BY <1>4
<1>12. StreamsSound'
    BY <1>1, <1>4, <1>9, <1>11 DEF StreamInv, StreamsSound, IsOpen, Cached
<1> QED BY <1>5, <1>6, <1>8, <1>10, <1>12 DEF StreamInv

LEMMA FileOperationStream ==
    ASSUME Inv, StreamInv, NEW s \in Sessions, NEW h \in Handles, NEW m \in Msgs,
           io[s].step = "none", opened[s][h] # None, FileOperation(s, opened[s][h], m)
    PROVE  StreamInv'
<1>1. PICK kind \in {"append", "read", "mark"} : Start(s, opened[s][h], kind, m)
    BY DEF FileOperation, Enqueue, Peek, Retrieve
<1>2. manager' = manager
    BY DEF FileOperation, Enqueue, Peek, Retrieve
<1>3. opened[s][h] \in live
    BY DEF Inv, OpenQueueLives
<1> QED BY <1>1, <1>2, <1>3, StartStream DEF StreamInv, ManagerTypeOK, Actors

LEMMA TTLPurgeStream ==
    ASSUME Inv, StreamInv, NEW p \in live, NEW m \in Msgs, TTLPurge(p, m)
    PROVE  StreamInv'
<1>1. io[Purger].step = "none" /\ Purger \notin Sessions
    BY ManagerAssumption DEF TTLPurge, Inv, PurgerHolds, IsFree
<1>2. Start(Purger, p, "read", m) /\ Purger \in Actors
    BY DEF TTLPurge, Actors
<1>3. manager' \in [by : Actors \cup {None}, name : Paths \cup {None},
                    step : {"free", "erase", "store", "purge"}]
    BY DEF TTLPurge, Actors
<1> QED BY <1>1, <1>2, <1>3, StartStream

-----------------------------------------------------------------------------
(* The file an operation is about.                                         *)
LEMMA NamedStore ==
    ASSUME StreamInv, NEW a \in Actors, io[a].step # "none"
    PROVE  /\ NameOf(io[a].store) \in Paths
           /\ queues[NameOf(io[a].store)] = io[a].store
           /\ io[a].store \in Stores
           /\ io[a].store # None
           /\ Name(NameOf(io[a].store), TRUE) \in Names
<1>1. io[a].store \in live BY DEF StreamInv, IOSound, NoIO
<1>2. \E q \in Paths : queues[q] = io[a].store BY <1>1 DEF StreamInv, LiveNamed
<1>3. NameOf(io[a].store) \in Paths /\ queues[NameOf(io[a].store)] = io[a].store
    BY <1>2 DEF NameOf
<1>4. io[a].store \in Stores /\ io[a].store # None
    BY <1>1, ManagerAssumption DEF StreamInv, ManagerTypeOK
<1> QED BY <1>3, <1>4 DEF Name, Names

(* How the operation of a goes on, or ends, having no stream.              *)
WithoutStream(a) ==
    /\ io' \in [Actors -> IOType]
    /\ \A b \in Actors \ {a} : io'[b] = io[b]
    /\ \/ io'[a] = NoIO
       \/ /\ io'[a].step \in {"get", "unlink"}
          /\ io'[a].kind \in {"append", "read", "mark"}
          /\ io'[a].kind \in {io[a].kind, "mark"}
          /\ io'[a].store = io[a].store /\ io'[a].msg = io[a].msg
          /\ io'[a].stream = None

LEMMA RecordChange ==
    ASSUME NEW r \in IOType
    PROVE  /\ [[r EXCEPT !.step = "unlink"] EXCEPT !.stream = None]
                 = [step |-> "unlink", kind |-> r.kind, store |-> r.store,
                    msg |-> r.msg, stream |-> None]
           /\ [[[r EXCEPT !.step = "get"] EXCEPT !.kind = "mark"] EXCEPT !.stream = None]
                 = [step |-> "get", kind |-> "mark", store |-> r.store,
                    msg |-> r.msg, stream |-> None]
<1>1. r = [step |-> r.step, kind |-> r.kind, store |-> r.store,
           msg |-> r.msg, stream |-> r.stream]
    BY DEF IOType
<1>2. PICK u : u = [r EXCEPT !.step = "unlink"] OBVIOUS
<1>3. u = [step |-> "unlink", kind |-> r.kind, store |-> r.store,
           msg |-> r.msg, stream |-> r.stream]
    BY <1>1, <1>2
<1>4. [u EXCEPT !.stream = None]
         = [step |-> "unlink", kind |-> r.kind, store |-> r.store,
            msg |-> r.msg, stream |-> None]
    BY <1>3
<1>5. PICK g : g = [r EXCEPT !.step = "get"] OBVIOUS
<1>6. g = [step |-> "get", kind |-> r.kind, store |-> r.store,
           msg |-> r.msg, stream |-> r.stream]
    BY <1>1, <1>5
<1>7. PICK k : k = [g EXCEPT !.kind = "mark"] OBVIOUS
<1>8. k = [step |-> "get", kind |-> "mark", store |-> r.store,
           msg |-> r.msg, stream |-> r.stream]
    BY <1>6, <1>7
<1>9. [k EXCEPT !.stream = None]
         = [step |-> "get", kind |-> "mark", store |-> r.store,
            msg |-> r.msg, stream |-> None]
    BY <1>8
<1> QED BY <1>2, <1>4, <1>5, <1>7, <1>9, Zenon

LEMMA DoneWithout ==
    ASSUME StreamInv, NEW a \in Actors, io[a].step # "none",
           \/ Done(a) \/ GiveUp(a)
           \/ io' = [io EXCEPT ![a].step = "unlink", ![a].stream = None] /\ UNCHANGED manager
    PROVE  /\ WithoutStream(a)
           /\ manager' \in [by : Actors \cup {None}, name : Paths \cup {None},
                            step : {"free", "erase", "store", "purge"}]
<1>1. io \in [Actors -> IOType]
    BY DEF StreamInv, ManagerTypeOK, IOType
<1>2. io[a].kind \in {"append", "read", "mark"}
    BY DEF StreamInv, IOSound, NoIO
<1>3. manager' \in [by : Actors \cup {None}, name : Paths \cup {None},
                    step : {"free", "erase", "store", "purge"}]
    BY DEF StreamInv, ManagerTypeOK, Done, GiveUp, FreeManager
<1>4. CASE io' = [io EXCEPT ![a] = NoIO]
    BY <1>1, <1>3, <1>4 DEF WithoutStream, NoIO, IOType
<1>5. CASE io' = [io EXCEPT ![a].step = "unlink", ![a].stream = None]
  <2>1. io' = [io EXCEPT ![a] = [io[a] EXCEPT !.step = "unlink", !.stream = None]]
      BY <1>1, <1>5
  <2>2. io'[a] = [step |-> "unlink", kind |-> io[a].kind, store |-> io[a].store,
                  msg |-> io[a].msg, stream |-> None]
    <3>1. io'[a] = [[io[a] EXCEPT !.step = "unlink"] EXCEPT !.stream = None]
        BY <1>1, <2>1
    <3>2. io[a] \in IOType BY <1>1
    <3> QED BY <3>1, <3>2, RecordChange, Zenon
  <2>3. io'[a] \in IOType BY <1>1, <2>2 DEF IOType
  <2>4. io' \in [Actors -> IOType] /\ \A b \in Actors \ {a} : io'[b] = io[b]
      BY <1>1, <2>1, <2>3
  <2> QED BY <1>2, <1>3, <2>2, <2>4 DEF WithoutStream
<1>6. CASE io' = [io EXCEPT ![a].step = "get", ![a].kind = "mark", ![a].stream = None]
  <2>1. io' = [io EXCEPT ![a] = [io[a] EXCEPT !.step = "get", !.kind = "mark", !.stream = None]]
      BY <1>1, <1>6
  <2>2. io'[a] = [step |-> "get", kind |-> "mark", store |-> io[a].store,
                  msg |-> io[a].msg, stream |-> None]
    <3>1. io'[a] = [[[io[a] EXCEPT !.step = "get"] EXCEPT !.kind = "mark"] EXCEPT !.stream = None]
        BY <1>1, <2>1
    <3>2. io[a] \in IOType BY <1>1
    <3> QED BY <3>1, <3>2, RecordChange, Zenon
  <2>3. io'[a] \in IOType BY <1>1, <2>2 DEF IOType
  <2>4. io' \in [Actors -> IOType] /\ \A b \in Actors \ {a} : io'[b] = io[b]
      BY <1>1, <2>1, <2>3
  <2> QED BY <1>3, <2>2, <2>4 DEF WithoutStream
<1> QED BY <1>4, <1>5, <1>6 DEF Done, GiveUp

LEMMA WithoutSound ==
    ASSUME StreamInv, NEW a \in Actors, io[a].step # "none", WithoutStream(a),
           UNCHANGED <<live, opened>>
    PROVE  IOSound'
<1>1. /\ io[a].store \in live /\ io[a].msg \in Msgs /\ None \notin live
    BY ManagerAssumption DEF StreamInv, IOSound, NoIO, ManagerTypeOK
<1>2. \A b \in Actors :
           \/ io'[b] = NoIO
           \/ /\ io'[b].step \in {"get", "use", "unlink"}
              /\ io'[b].kind \in {"append", "read", "mark"}
              /\ io'[b].store \in live' /\ io'[b].msg \in Msgs
              /\ io'[b].step = "use" <=> io'[b].stream # None
    BY <1>1 DEF WithoutStream, StreamInv, IOSound
<1>3. \A b \in Actors : io'[b].step # "none" =>
          io[b].step # "none" /\ io'[b].store = io[b].store
    BY DEF WithoutStream, NoIO
<1>4. \A b \in Actors : io'[b].store \in {None, io[b].store}
    BY DEF WithoutStream, NoIO
<1>5. \A b, c \in Actors :
           io'[b].step # "none" /\ io'[b].store = io'[c].store => b = c
  <2> SUFFICES ASSUME NEW b \in Actors, NEW c \in Actors, io'[b].step # "none",
                      io'[b].store = io'[c].store
               PROVE  b = c
      OBVIOUS
  <2>1. io[b].step # "none" /\ io[b].store = io'[c].store BY <1>3
  <2>2. io[b].store # None BY <2>1, NamedStore
  <2> QED BY <1>4, <2>1, <2>2 DEF StreamInv, IOSound
<1>6. \A s \in Sessions :
           io'[s].step # "none" => \E h \in Handles : opened'[s][h] = io'[s].store
    BY <1>3 DEF StreamInv, IOSound, Actors
<1> QED BY <1>2, <1>5, <1>6 DEF IOSound

(* An operation lets its stream go, or leaves it failed.                   *)
LEMMA LetGoStream ==
    ASSUME Inv, StreamInv, NEW a \in Actors, io[a].step = "use", ManagerTypeOK',
           UNCHANGED <<queues, live, opened>>, WithoutStream(a),
           LetGo(io[a].stream)
              \/ (UNCHANGED <<entries, stream>> /\ ~IsOpen(io[a].stream))
    PROVE  StreamInv'
<1> DEFINE s == io[a].stream
<1>1. LiveNamed' BY DEF StreamInv, LiveNamed
<1>2. IOSound' BY WithoutSound
<1>3. s \in Streams /\ s # None
    BY CacheAssumption DEF StreamInv, IOSound, NoIO, ManagerTypeOK
<1>4. io'[a].stream = None /\ io'[a].step # "use"
    BY DEF WithoutStream, NoIO
<1>5. \A b \in Actors : io'[b].step = "use" => b # a /\ io'[b] = io[b] /\ io[b].stream # s
    BY <1>4 DEF WithoutStream, StreamInv, StreamsSound
<1>6. \A i \in DOMAIN entries : entries[i].stream \in Streams
    BY EntryType DEF StreamInv, ManagerTypeOK
<1>7. \A b \in Actors : io[b].stream \in Streams => io[b].step = "use"
    BY CacheAssumption DEF StreamInv, IOSound, NoIO
<1>8. /\ DOMAIN entries' = DOMAIN entries
      /\ \A j \in DOMAIN entries :
             /\ entries'[j].name = entries[j].name
             /\ entries'[j].stream = entries[j].stream
             /\ entries[j].stream # s => (entries'[j].inuse <=> entries[j].inuse)
             /\ entries'[j].inuse /\ IsOpen(s) => entries[j].stream # s
      /\ \A t \in Streams \ {s} : stream'[t] = stream[t]
      /\ s \in Cached => stream'[s] \in {stream[s], "failed"}
      /\ s \notin Cached => stream'[s] \notin Inodes
    BY <1>3, CacheAssumption DEF LetGo, IsOpen
<1>9. stream'[s] \in Inodes => stream'[s] = stream[s] /\ s \in Cached
    BY <1>8, CacheAssumption
<1> HIDE DEF s
<1>10. EntriesSound'
  <2>1. \A i \in DOMAIN entries' : stream'[entries'[i].stream] # "freed"
    <3> TAKE i \in DOMAIN entries'
    <3>1. entries[i].stream = s => s \in Cached BY <1>8 DEF Cached
    <3>2. stream[entries[i].stream] # "freed" BY <1>8 DEF StreamInv, EntriesSound
    <3> QED BY <1>6, <1>8, <3>1, <3>2
  <2>2. \A i \in DOMAIN entries' :
            entries'[i].inuse /\ stream'[entries'[i].stream] \in Inodes
                  => \E b \in Actors : io'[b].stream = entries'[i].stream
    <3> SUFFICES ASSUME NEW i \in DOMAIN entries', entries'[i].inuse,
                        stream'[entries'[i].stream] \in Inodes
                 PROVE  \E b \in Actors : io'[b].stream = entries'[i].stream
        OBVIOUS
    <3>1. entries[i].stream # s
        BY <1>8, <1>9 DEF IsOpen
    <3>2. entries[i].inuse /\ IsOpen(entries[i].stream) /\ i \in DOMAIN entries
        BY <1>6, <1>8, <3>1 DEF IsOpen
    <3>3. PICK b \in Actors : io[b].stream = entries[i].stream
        BY <3>2 DEF StreamInv, EntriesSound
    <3>4. b # a BY <3>1, <3>3 DEF s
    <3> QED BY <1>8, <3>2, <3>3, <3>4 DEF WithoutStream
  <2>3. \A i, j \in DOMAIN entries' : entries'[i].name = entries'[j].name => i = j
      BY <1>8 DEF StreamInv, EntriesSound
  <2>4. \A i, j \in DOMAIN entries' : entries'[i].stream = entries'[j].stream => i = j
      BY <1>8 DEF StreamInv, EntriesSound
  <2>5. \A i \in DOMAIN entries' : entries'[i].name.ended
      BY <1>8 DEF StreamInv, EntriesSound
  <2> QED BY <2>1, <2>2, <2>3, <2>4, <2>5 DEF EntriesSound, IsOpen
<1>11. StreamsSound'
  <2>1. ASSUME NEW b \in Actors, io'[b].step = "use"
        PROVE  /\ stream'[io'[b].stream] # "freed"
               /\ \A c \in Actors : io'[c].stream = io'[b].stream => b = c
               /\ \A i \in DOMAIN entries' : entries'[i].stream = io'[b].stream =>
                     entries'[i].inuse /\ queues'[entries'[i].name.path] = io'[b].store
    <3>1. b # a /\ io'[b] = io[b] /\ io[b].stream # s /\ io[b].step = "use"
        BY <1>5, <2>1
    <3>2. io[b].stream \in Streams /\ io[b].stream # None
        BY <3>1, CacheAssumption DEF StreamInv, IOSound, NoIO, ManagerTypeOK
    <3>3. stream'[io'[b].stream] # "freed"
        BY <1>8, <3>1, <3>2 DEF StreamInv, StreamsSound
    <3>4. \A c \in Actors : io'[c].stream = io'[b].stream => b = c
        BY <1>4, <3>1, <3>2 DEF WithoutStream, StreamInv, StreamsSound
    <3>5. \A i \in DOMAIN entries' : entries'[i].stream = io'[b].stream =>
                     entries'[i].inuse /\ queues'[entries'[i].name.path] = io'[b].store
        BY <1>8, <3>1 DEF StreamInv, StreamsSound
    <3> QED BY <3>3, <3>4, <3>5
  <2>2. ASSUME NEW t \in Streams, stream'[t] \in Inodes
        PROVE  \/ \E i \in DOMAIN entries' : entries'[i].stream = t
               \/ \E b \in Actors : io'[b].stream = t
    <3>1. stream[t] \in Inodes BY <1>8, <1>9, <2>2
    <3>2. CASE \E i \in DOMAIN entries : entries[i].stream = t
        BY <1>8, <3>2
    <3>3. CASE t \notin Cached
      <4>1. t # s BY <1>8, <2>2, <3>3
      <4>2. PICK b \in Actors : io[b].stream = t
          BY <3>1, <3>3 DEF StreamInv, StreamsSound, IsOpen
      <4>3. b # a BY <4>1, <4>2 DEF s
      <4> QED BY <4>2, <4>3 DEF WithoutStream
    <3> QED BY <3>2, <3>3 DEF Cached
  <2> QED BY <2>1, <2>2 DEF StreamsSound, IsOpen, Cached
<1> QED BY <1>1, <1>2, <1>10, <1>11 DEF StreamInv

LEMMA StreamOfUse ==
    ASSUME StreamInv, NEW a \in Actors, io[a].step = "use"
    PROVE  io[a].stream \in Streams
BY DEF StreamInv, IOSound, NoIO, ManagerTypeOK

LEMMA UseStream ==
    ASSUME Inv, StreamInv, NEW a \in Actors,
           UseAppend(a) \/ UseRead(a) \/ UseMark(a)
    PROVE  StreamInv'
<1> DEFINE s == io[a].stream
<1>1. io[a].step = "use" /\ s \in Streams
    BY StreamOfUse DEF UseAppend, UseRead, UseMark
<1>2. \/ Release(s) \/ ReleaseFailed(s)
      \/ UNCHANGED cacheVars /\ ~IsOpen(s)
    BY DEF UseAppend, UseRead, UseMark
<1>3. /\ WithoutStream(a)
      /\ manager' \in [by : Actors \cup {None}, name : Paths \cup {None},
                       step : {"free", "erase", "store", "purge"}]
  <2>1. \/ Done(a) \/ GiveUp(a)
        \/ io' = [io EXCEPT ![a].step = "unlink", ![a].stream = None] /\ UNCHANGED manager
      BY DEF UseAppend, UseRead, UseMark
  <2> QED BY <1>1, <2>1, DoneWithout
<1>4. CacheTypeOK' /\ (LetGo(s) \/ (UNCHANGED <<entries, stream>> /\ ~IsOpen(s)))
  <2>1. CacheTypeOK BY DEF StreamInv, ManagerTypeOK
  <2>2. CASE Release(s) \/ ReleaseFailed(s)
      BY <1>1, <2>1, <2>2, ReleaseLetsGo
  <2>3. CASE UNCHANGED cacheVars /\ ~IsOpen(s)
      BY <2>1, <2>3 DEF cacheVars, CacheTypeOK
  <2> QED BY <1>2, <2>2, <2>3
<1>5. UNCHANGED <<queues, live, utilization, tempQueues, config, opened>>
    BY DEF UseAppend, UseRead, UseMark
<1>6. index' \in [Stores -> SUBSET Msgs] /\ data' \in [Inodes -> SUBSET Msgs]
  <2>1. io[a].msg \in Msgs
      BY <1>1 DEF StreamInv, IOSound, NoIO
  <2>2. index \in [Stores -> SUBSET Msgs] /\ data \in [Inodes -> SUBSET Msgs]
      BY DEF StreamInv, ManagerTypeOK
  <2>3. \/ UNCHANGED <<data, index>>
        \/ /\ data' = [data EXCEPT ![stream[s]] = @ \cup {io[a].msg}]
           /\ index' = [index EXCEPT ![io[a].store] = @ \cup {io[a].msg}]
        \/ /\ data' = [data EXCEPT ![stream[s]] = @ \ {io[a].msg}]
           /\ index' = [index EXCEPT ![io[a].store] = @ \ {io[a].msg}]
        \/ /\ UNCHANGED data
           /\ index' = [index EXCEPT ![io[a].store] = @ \ {io[a].msg}]
      BY DEF UseAppend, UseRead, UseMark
  <2> HIDE DEF s
  <2> QED BY <2>1, <2>2, <2>3
<1>7. ManagerTypeOK'
  <2>1. io' \in [Actors -> IOType] BY <1>3 DEF WithoutStream
  <2> QED BY <1>3, <1>4, <1>5, <1>6, <2>1 DEF StreamInv, ManagerTypeOK, IOType
<1> QED BY <1>1, <1>3, <1>4, <1>5, <1>7, LetGoStream

LEMMA UnlinkStream ==
    ASSUME Inv, StreamInv, NEW a \in Actors, Unlink(a)
    PROVE  StreamInv'
<1> DEFINE q == NameOf(io[a].store)
           n == Name(q, TRUE)
<1>1. io[a].step = "unlink" BY DEF Unlink
<1>2. /\ q \in Paths /\ queues[q] = io[a].store /\ n \in Names /\ n.path = q
      /\ io[a].store # None
    BY <1>1, NamedStore DEF Name
<1>3. Removed(n) /\ CacheTypeOK'
    BY <1>2, RemoveRemoves DEF StreamInv, ManagerTypeOK, Unlink
<1>4. /\ WithoutStream(a)
      /\ manager' \in [by : Actors \cup {None}, name : Paths \cup {None},
                       step : {"free", "erase", "store", "purge"}]
    BY <1>1, DoneWithout DEF Unlink
<1> HIDE DEF n, q
<1>5. UNCHANGED <<queues, live, utilization, tempQueues, config, opened, index, data>>
    BY DEF Unlink
<1>6. ManagerTypeOK'
  <2>1. io' \in [Actors -> IOType] BY <1>4 DEF WithoutStream
  <2> QED BY <1>3, <1>4, <1>5, <2>1 DEF StreamInv, ManagerTypeOK, IOType
<1>7. LiveNamed' BY <1>5 DEF StreamInv, LiveNamed
<1>8. IOSound' BY <1>1, <1>4, <1>5, WithoutSound
<1>9. io[a].stream = None /\ io'[a].stream = None /\ io'[a].step # "use"
    BY <1>1, <1>4 DEF StreamInv, IOSound, NoIO, WithoutStream
<1>10. \A b \in Actors : io'[b].stream = io[b].stream
                         /\ (io'[b].step = "use" => b # a /\ io[b].step = "use"
                                                    /\ io'[b] = io[b])
    BY <1>4, <1>9 DEF WithoutStream
<1>11. \A i \in DOMAIN entries : entries[i].stream \in Streams
    BY EntryType DEF StreamInv, ManagerTypeOK
<1>12. \A i \in DOMAIN entries' :
           /\ entries'[i].name # n
           /\ stream'[entries'[i].stream] = stream[entries'[i].stream]
           /\ \E j \in DOMAIN entries : entries[j] = entries'[i]
    BY <1>3, <1>11 DEF Removed
<1>13. EntriesSound'
  <2>1. \A i \in DOMAIN entries' :
           /\ entries'[i].name.ended
           /\ stream'[entries'[i].stream] # "freed"
           /\ entries'[i].inuse /\ stream'[entries'[i].stream] \in Inodes
                  => \E b \in Actors : io'[b].stream = entries'[i].stream
    <3> TAKE i \in DOMAIN entries'
    <3>1. PICK j \in DOMAIN entries : entries[j] = entries'[i] BY <1>12
    <3> QED BY <1>10, <1>12, <3>1 DEF StreamInv, EntriesSound, IsOpen
  <2> QED BY <1>3, <2>1 DEF EntriesSound, Removed, IsOpen
<1>14. StreamsSound'
  <2>1. ASSUME NEW b \in Actors, io'[b].step = "use"
        PROVE  /\ stream'[io'[b].stream] # "freed"
               /\ \A c \in Actors : io'[c].stream = io'[b].stream => b = c
               /\ \A i \in DOMAIN entries' : entries'[i].stream = io'[b].stream =>
                     entries'[i].inuse /\ queues'[entries'[i].name.path] = io'[b].store
    <3>1. b # a /\ io'[b] = io[b] /\ io[b].step = "use" /\ io[b].stream \in Streams
        BY <1>10, <2>1, StreamOfUse
    <3>2. \A i \in DOMAIN entries : entries[i].stream = io[b].stream =>
              entries[i].inuse /\ queues[entries[i].name.path] = io[b].store
        BY <3>1 DEF StreamInv, StreamsSound
    <3>3. io[b].store # io[a].store
        BY <1>1, <3>1 DEF StreamInv, IOSound
    <3>4. stream'[io[b].stream] = stream[io[b].stream]
      <4>1. \A i \in DOMAIN entries : entries[i].stream = io[b].stream => entries[i].name # n
          BY <1>2, <3>2, <3>3
      <4> QED BY <1>3, <3>1, <4>1 DEF Removed
    <3>5. stream'[io'[b].stream] # "freed"
        BY <3>1, <3>4 DEF StreamInv, StreamsSound
    <3>6. \A c \in Actors : io'[c].stream = io'[b].stream => b = c
        BY <1>10, <3>1 DEF StreamInv, StreamsSound
    <3>7. \A i \in DOMAIN entries' : entries'[i].stream = io'[b].stream =>
                     entries'[i].inuse /\ queues'[entries'[i].name.path] = io'[b].store
        BY <1>5, <1>12, <3>1, <3>2
    <3> QED BY <3>5, <3>6, <3>7
  <2>2. ASSUME NEW t \in Streams, stream'[t] \in Inodes
        PROVE  \/ \E i \in DOMAIN entries' : entries'[i].stream = t
               \/ \E b \in Actors : io'[b].stream = t
    <3>1. stream'[t] = stream[t] /\ stream[t] \in Inodes
        BY <1>3, <2>2, CacheAssumption DEF Removed
    <3>2. CASE \E b \in Actors : io[b].stream = t
        BY <1>10, <3>2
    <3>3. CASE \E i \in DOMAIN entries : entries[i].stream = t
      <4>1. PICK i \in DOMAIN entries : entries[i].stream = t BY <3>3
      <4>2. CASE \E j \in DOMAIN entries' : entries'[j] = entries[i]
          BY <4>1, <4>2
      <4>3. CASE entries[i].inuse
          BY <1>10, <3>1, <4>1, <4>3 DEF StreamInv, EntriesSound, IsOpen
      <4>4. stream'[entries[i].stream] # "freed"
          BY <2>2, <4>1, CacheAssumption
      <4> QED BY <1>3, <4>1, <4>2, <4>3, <4>4 DEF Removed
    <3> QED BY <3>1, <3>2, <3>3 DEF StreamInv, StreamsSound, IsOpen, Cached
  <2> QED BY <2>1, <2>2 DEF StreamsSound, IsOpen, Cached
<1> QED BY <1>6, <1>7, <1>8, <1>13, <1>14 DEF StreamInv

(* Nobody else works with what get() closes or gives to a.                 *)
LEMMA OthersKeepStreams ==
    ASSUME StreamInv, NEW a \in Actors, io[a].step = "get", NEW s \in Streams,
           Closed(Name(NameOf(io[a].store), TRUE), s)
    PROVE  \A b \in Actors : io[b].step = "use" =>
               /\ b # a /\ io[b].stream # s
               /\ stream'[io[b].stream] = stream[io[b].stream]
<1> DEFINE q == NameOf(io[a].store)
           n == Name(q, TRUE)
<1>1. queues[q] = io[a].store /\ n.path = q /\ n \in Names
    BY NamedStore DEF Name
<1> HIDE DEF n, q
<1> SUFFICES ASSUME NEW b \in Actors, io[b].step = "use"
             PROVE  /\ b # a /\ io[b].stream # s
                    /\ stream'[io[b].stream] = stream[io[b].stream]
    OBVIOUS
<1>2. b # a OBVIOUS
<1>3. io[b].stream \in Streams /\ stream[io[b].stream] # "freed"
    BY StreamOfUse DEF StreamInv, StreamsSound
<1>4. io[b].store # io[a].store
    BY <1>2 DEF StreamInv, IOSound
<1>5. ~Disposable(n, io[b].stream)
    BY <1>1, <1>4 DEF Disposable, StreamInv, StreamsSound
<1>6. io[b].stream # s /\ stream'[io[b].stream] = stream[io[b].stream]
    BY <1>3, <1>5 DEF Closed, n, q
<1> QED BY <1>2, <1>6

(* A stream for a: in the cache it is the only one that changed.           *)
GivenTo(a, s) ==
    LET q == NameOf(io[a].store)
        n == Name(q, TRUE) IN
    /\ Given(n, s) /\ Closed(n, s) /\ Reaches(n, s)
    /\ io'[a].step = "use" /\ io'[a].stream = s /\ io'[a].kind = io[a].kind
    /\ io'[a].store = io[a].store /\ io'[a].msg = io[a].msg
    /\ io' \in [Actors -> IOType]
    /\ \A b \in Actors \ {a} :
           /\ io'[b] = io[b] /\ io[b].stream # s
           /\ io[b].step = "use" => stream'[io[b].stream] = stream[io[b].stream]
    /\ \A i \in DOMAIN entries' :
           \/ entries'[i].name = n /\ entries'[i].stream = s /\ entries'[i].inuse
           \/ /\ entries'[i].stream # s /\ entries'[i].stream \in Streams
              /\ stream'[entries'[i].stream] = stream[entries'[i].stream]
              /\ \E j \in DOMAIN entries : entries[j] = entries'[i]
    /\ data' = [i \in Inodes |-> IF i \in Reachable THEN data[i] ELSE {}]

LEMMA GetStreamGives ==
    ASSUME StreamInv, NEW a \in Actors, GetStream(a)
    PROVE  CacheTypeOK' /\ \E s \in Streams : GivenTo(a, s)
<1> DEFINE q == NameOf(io[a].store)
           n == Name(q, TRUE)
<1>1. io[a].step = "get" BY DEF GetStream
<1>2. n \in Names
    BY <1>1, NamedStore
<1>3. PICK s \in Streams :
          /\ Get(n, Mode(io[a].kind), s)
          /\ io' = [io EXCEPT ![a].step = "use", ![a].stream = s]
          /\ data' = [i \in Inodes |-> IF i \in Reachable THEN data[i] ELSE {}]
    BY DEF GetStream
<1>4. Mode(io[a].kind) \in Modes BY DEF Mode, Modes
<1>5. CacheTypeOK' /\ Given(n, s) /\ Closed(n, s) /\ Reaches(n, s)
    BY <1>2, <1>3, <1>4, GetType, GetGiven DEF StreamInv, ManagerTypeOK
<1>6. \A b \in Actors : io[b].step = "use" =>
               /\ b # a /\ io[b].stream # s
               /\ stream'[io[b].stream] = stream[io[b].stream]
    BY <1>1, <1>5, OthersKeepStreams
<1> HIDE DEF n, q
<1>7. io \in [Actors -> IOType] BY DEF StreamInv, ManagerTypeOK, IOType
<1>8. /\ io'[a].step = "use" /\ io'[a].stream = s /\ io'[a].kind = io[a].kind
      /\ io'[a].store = io[a].store /\ io'[a].msg = io[a].msg
      /\ \A b \in Actors \ {a} : io'[b] = io[b]
      /\ io' \in [Actors -> IOType]
  <2>1. io' = [io EXCEPT ![a] = [[io[a] EXCEPT !.step = "use"] EXCEPT !.stream = s]]
      BY <1>3, <1>7
  <2>2. PICK u : u = [io[a] EXCEPT !.step = "use"] OBVIOUS
  <2>3. io[a] \in IOType BY <1>7
  <2>4. u \in IOType /\ u.kind = io[a].kind /\ u.store = io[a].store
        /\ u.msg = io[a].msg /\ u.step = "use"
      BY <2>2, <2>3 DEF IOType
  <2>5. PICK v : v = [u EXCEPT !.stream = s] OBVIOUS
  <2>6. v \in IOType /\ v.kind = io[a].kind /\ v.store = io[a].store
        /\ v.msg = io[a].msg /\ v.step = "use" /\ v.stream = s
      BY <2>4, <2>5 DEF IOType
  <2>7. io' = [io EXCEPT ![a] = v] BY <2>1, <2>2, <2>5
  <2> HIDE DEF IOType
  <2> QED BY <1>7, <2>6, <2>7
<1>9. s # None BY CacheAssumption
<1>10. \A b \in Actors : io[b].stream # s
    BY <1>6, <1>9 DEF StreamInv, IOSound, NoIO
<1>11. \A i \in DOMAIN entries' : entries'[i].stream \in Streams
  <2>1. entries' \in Seq(Entry) BY <1>5 DEF CacheTypeOK, Entry
  <2>2. \A i \in DOMAIN entries' : entries'[i] \in Entry BY <2>1
  <2> QED BY <2>2 DEF Entry
<1>12. \A i \in DOMAIN entries' :
           \/ entries'[i].name = n /\ entries'[i].stream = s /\ entries'[i].inuse
           \/ /\ entries'[i].stream # s /\ entries'[i].stream \in Streams
              /\ stream'[entries'[i].stream] = stream[entries'[i].stream]
              /\ \E j \in DOMAIN entries : entries[j] = entries'[i]
  <2> TAKE i \in DOMAIN entries'
  <2>1. PICK k \in DOMAIN entries' :
           entries'[k].name = n /\ entries'[k].stream = s /\ entries'[k].inuse
      BY <1>5 DEF Given
  <2>2. CASE i = k BY <2>1, <2>2
  <2>3. CASE i # k
    <3>1. entries'[i].stream # s /\ entries'[i].name # n
        BY <1>5, <2>1, <2>3 DEF Given
    <3>2. stream'[entries'[i].stream] = stream[entries'[i].stream]
        BY <1>5, <1>11, <3>1 DEF Closed
    <3> QED BY <1>5, <1>11, <3>1, <3>2 DEF Given
  <2> QED BY <2>2, <2>3
<1>13. \A b \in Actors \ {a} :
           /\ io'[b] = io[b] /\ io[b].stream # s
           /\ io[b].step = "use" => stream'[io[b].stream] = stream[io[b].stream]
    BY <1>6, <1>8, <1>10
<1>14. GivenTo(a, s)
    BY <1>3, <1>5, <1>8, <1>12, <1>13 DEF GivenTo, n, q
<1> QED BY <1>5, <1>14

LEMMA GetStreamStream ==
    ASSUME Inv, StreamInv, NEW a \in Actors, GetStream(a)
    PROVE  StreamInv'
<1> DEFINE q == NameOf(io[a].store)
           n == Name(q, TRUE)
<1>1. io[a].step = "get" BY DEF GetStream
<1>2. /\ q \in Paths /\ queues[q] = io[a].store /\ n \in Names /\ n.path = q /\ n.ended
      /\ io[a].store # None
    BY <1>1, NamedStore DEF Name
<1>3. PICK s \in Streams : GivenTo(a, s) BY GetStreamGives
<1>5. CacheTypeOK' /\ Given(n, s) /\ Closed(n, s)
    BY <1>3, GetStreamGives DEF GivenTo
<1>9. /\ io'[a].step = "use" /\ io'[a].stream = s /\ io'[a].kind = io[a].kind
      /\ io'[a].store = io[a].store /\ io'[a].msg = io[a].msg
      /\ \A b \in Actors \ {a} : io'[b] = io[b]
      /\ io' \in [Actors -> IOType]
    BY <1>3 DEF GivenTo
<1>6. \A b \in Actors \ {a} :
          /\ io[b].stream # s
          /\ io[b].step = "use" => stream'[io[b].stream] = stream[io[b].stream]
    BY <1>3 DEF GivenTo
<1>17. \A i \in DOMAIN entries' :
           \/ entries'[i].name = n /\ entries'[i].stream = s /\ entries'[i].inuse
           \/ /\ entries'[i].stream # s /\ entries'[i].stream \in Streams
              /\ stream'[entries'[i].stream] = stream[entries'[i].stream]
              /\ \E j \in DOMAIN entries : entries[j] = entries'[i]
    BY <1>3 DEF GivenTo
<1>8. data' = [i \in Inodes |-> IF i \in Reachable THEN data[i] ELSE {}]
    BY <1>3 DEF GivenTo
<1> HIDE DEF n, q
<1>7. UNCHANGED <<queues, live, utilization, tempQueues, config, opened, manager, index>>
    BY DEF GetStream, managerVars
<1>10. ManagerTypeOK'
  <2>1. data' \in [Inodes -> SUBSET Msgs]
      BY <1>8 DEF StreamInv, ManagerTypeOK
  <2> QED BY <1>5, <1>7, <1>9, <2>1 DEF StreamInv, ManagerTypeOK, IOType
<1>11. LiveNamed' BY <1>7 DEF StreamInv, LiveNamed
<1>12. s # None BY CacheAssumption
<1>13. IOSound'
  <2>1. /\ io[a].kind \in {"append", "read", "mark"}
        /\ io[a].store \in live /\ io[a].msg \in Msgs
      BY <1>1 DEF StreamInv, IOSound, NoIO
  <2>2. \A b \in Actors :
           \/ io'[b] = NoIO
           \/ /\ io'[b].step \in {"get", "use", "unlink"}
              /\ io'[b].kind \in {"append", "read", "mark"}
              /\ io'[b].store \in live' /\ io'[b].msg \in Msgs
              /\ io'[b].step = "use" <=> io'[b].stream # None
      BY <1>7, <1>9, <1>12, <2>1 DEF StreamInv, IOSound
  <2>3. \A b \in Actors : io'[b].store = io[b].store
                          /\ (io'[b].step # "none" => io[b].step # "none")
      BY <1>1, <1>9
  <2>4. \A b, c \in Actors :
           io'[b].step # "none" /\ io'[b].store = io'[c].store => b = c
      BY <2>3 DEF StreamInv, IOSound
  <2>5. \A u \in Sessions :
           io'[u].step # "none" => \E h \in Handles : opened'[u][h] = io'[u].store
      BY <1>7, <2>3 DEF StreamInv, IOSound, Actors
  <2> QED BY <2>2, <2>4, <2>5 DEF IOSound
<1>14. \A b \in Actors : io'[b].step = "use" =>
           \/ b = a
           \/ b # a /\ io[b].step = "use" /\ io'[b] = io[b]
    BY <1>9
<1>18. stream'[s] # "freed" BY <1>5 DEF Closed
<1>19. EntriesSound'
  <2>1. \A i \in DOMAIN entries' :
           /\ entries'[i].name.ended
           /\ stream'[entries'[i].stream] # "freed"
           /\ entries'[i].inuse /\ stream'[entries'[i].stream] \in Inodes
                  => \E b \in Actors : io'[b].stream = entries'[i].stream
    <3> TAKE i \in DOMAIN entries'
    <3>1. CASE entries'[i].name = n /\ entries'[i].stream = s
        BY <1>2, <1>9, <1>18, <3>1
    <3>2. CASE /\ entries'[i].stream # s
               /\ stream'[entries'[i].stream] = stream[entries'[i].stream]
               /\ \E j \in DOMAIN entries : entries[j] = entries'[i]
      <4>1. PICK j \in DOMAIN entries : entries[j] = entries'[i] BY <3>2
      <4>2. entries'[i].name.ended /\ stream'[entries'[i].stream] # "freed"
          BY <3>2, <4>1 DEF StreamInv, EntriesSound
      <4>3. entries'[i].inuse /\ stream'[entries'[i].stream] \in Inodes
                  => \E b \in Actors \ {a} : io[b].stream = entries'[i].stream
        <5>1. io[a].stream = None BY <1>1 DEF StreamInv, IOSound, NoIO
        <5>2. entries'[i].stream # None BY <1>12, <1>17, CacheAssumption
        <5> QED BY <3>2, <4>1, <5>1, <5>2 DEF StreamInv, EntriesSound, IsOpen
      <4> QED BY <1>9, <4>2, <4>3
    <3> QED BY <1>17, <3>1, <3>2
  <2> QED BY <1>5, <2>1 DEF EntriesSound, Given, IsOpen
<1>20. StreamsSound'
  <2>1. ASSUME NEW b \in Actors, io'[b].step = "use"
        PROVE  /\ stream'[io'[b].stream] # "freed"
               /\ \A c \in Actors : io'[c].stream = io'[b].stream => b = c
               /\ \A i \in DOMAIN entries' : entries'[i].stream = io'[b].stream =>
                     entries'[i].inuse /\ queues'[entries'[i].name.path] = io'[b].store
    <3>0. \A c \in Actors \ {a} : io'[c].stream = io[c].stream /\ io[c].stream # s
        BY <1>6, <1>9
    <3>1. CASE b = a
      <4>1. \A c \in Actors : io'[c].stream = io'[b].stream => b = c
          BY <1>9, <3>0, <3>1
      <4>2. \A i \in DOMAIN entries' : entries'[i].stream = io'[b].stream =>
                     entries'[i].inuse /\ queues'[entries'[i].name.path] = io'[b].store
          BY <1>2, <1>7, <1>9, <1>17, <3>1
      <4> QED BY <1>9, <1>18, <3>1, <4>1, <4>2
    <3>2. CASE b # a
      <4>1. io[b].step = "use" /\ io'[b] = io[b] BY <1>14, <2>1, <3>2
      <4>2. stream'[io'[b].stream] # "freed"
          BY <1>6, <3>2, <4>1 DEF StreamInv, StreamsSound
      <4>3. \A c \in Actors : io'[c].stream = io'[b].stream => b = c
        <5> TAKE c \in Actors
        <5>1. CASE c = a BY <1>9, <3>0, <3>2, <5>1
        <5>2. CASE c # a BY <3>0, <3>2, <4>1, <5>2 DEF StreamInv, StreamsSound
        <5> QED BY <5>1, <5>2
      <4>4. \A i \in DOMAIN entries' : entries'[i].stream = io'[b].stream =>
                     entries'[i].inuse /\ queues'[entries'[i].name.path] = io'[b].store
        <5> TAKE i \in DOMAIN entries'
        <5> HAVE entries'[i].stream = io'[b].stream
        <5>1. entries'[i].stream # s BY <1>6, <3>2, <4>1
        <5>2. PICK j \in DOMAIN entries : entries[j] = entries'[i] BY <1>17, <5>1
        <5> QED BY <1>7, <4>1, <5>2 DEF StreamInv, StreamsSound
      <4> QED BY <4>2, <4>3, <4>4
    <3> QED BY <3>1, <3>2
  <2>2. ASSUME NEW t \in Streams, stream'[t] \in Inodes
        PROVE  \/ \E i \in DOMAIN entries' : entries'[i].stream = t
               \/ \E b \in Actors : io'[b].stream = t
    <3>1. CASE t = s BY <1>9, <3>1
    <3>2. CASE t # s
      <4>1. stream[t] \in Inodes
        <5>1. stream'[t] # "freed" BY <2>2, CacheAssumption
        <5> QED BY <1>5, <2>2, <3>2, <5>1 DEF Closed
      <4>2. CASE \E b \in Actors : io[b].stream = t
        <5>1. PICK b \in Actors : io[b].stream = t BY <4>2
        <5>2. b # a
            BY <1>1, <5>1, CacheAssumption DEF StreamInv, IOSound, NoIO
        <5> QED BY <1>9, <5>1, <5>2
      <4>3. CASE \E i \in DOMAIN entries : entries[i].stream = t
        <5>1. PICK i \in DOMAIN entries : entries[i].stream = t BY <4>3
        <5>2. CASE \E j \in DOMAIN entries' : entries'[j] = entries[i] BY <5>1, <5>2
        <5>3. CASE entries[i].inuse
            BY <4>1, <4>2, <5>1, <5>3 DEF StreamInv, EntriesSound, IsOpen
        <5>4. stream'[entries[i].stream] # "freed" BY <2>2, <5>1, CacheAssumption
        <5> QED BY <1>5, <3>2, <5>1, <5>2, <5>3, <5>4 DEF Closed
      <4> QED BY <4>1, <4>2, <4>3 DEF StreamInv, StreamsSound, IsOpen, Cached
    <3> QED BY <3>1, <3>2
  <2> QED BY <2>1, <2>2 DEF StreamsSound, IsOpen, Cached
<1> QED BY <1>10, <1>11, <1>13, <1>19, <1>20 DEF StreamInv

LEMMA StepStreamInv == Inv /\ StreamInv /\ [QMNext]_qmVars => StreamInv'
<1> SUFFICES ASSUME Inv, StreamInv, [QMNext]_qmVars PROVE StreamInv' OBVIOUS
<1>1. ASSUME NEW s \in Sessions, SessionNext(s) PROVE StreamInv'
  <2>1. io[s].step = "none" BY <1>1 DEF SessionNext, Idle
  <2>2. ASSUME NEW q \in Paths, NEW t \in BOOLEAN, CreateQueue(s, q, t) PROVE StreamInv'
      BY <2>2, CreateQueueStream
  <2>3. ASSUME NEW q \in Paths, DeleteQueue(s, q) PROVE StreamInv'
      BY <2>1, <2>3, DeleteQueueStream
  <2>4. ASSUME NEW q \in Paths, NEW h \in Handles, GetQueue(s, q, h) PROVE StreamInv'
      BY <2>4, GetQueueStream
  <2>5. ASSUME NEW h \in Handles, ReleaseQueue(s, h) PROVE StreamInv'
      BY <2>1, <2>5, ReleaseQueueStream
  <2>6. ASSUME NEW h \in Handles, NEW m \in Msgs, opened[s][h] # None,
               FileOperation(s, opened[s][h], m)
        PROVE  StreamInv'
      BY <2>1, <2>6, FileOperationStream
  <2> QED BY <1>1, <2>2, <2>3, <2>4, <2>5, <2>6, Zenon DEF SessionNext
<1>2. ASSUME NEW p \in live, NEW m \in Msgs, TTLPurge(p, m) PROVE StreamInv'
    BY <1>2, TTLPurgeStream
<1>3. ASSUME NEW a \in Actors, IONext(a) PROVE StreamInv'
    BY <1>3, GetStreamStream, UseStream, UnlinkStream DEF IONext
<1>4. CASE UNCHANGED qmVars
  <2> USE <1>4 DEF qmVars, managerVars, storeVars, cacheVars
  <2>1. ManagerTypeOK' BY DEF StreamInv, ManagerTypeOK, CacheTypeOK
  <2>2. LiveNamed' BY DEF StreamInv, LiveNamed
  <2>3. \A a \in Actors : io[a].step # "none" => io[a].store \in live
      BY DEF StreamInv, IOSound, NoIO
  <2> QED BY <2>1, <2>2, <2>3, TablesChange
<1> QED BY <1>1, <1>2, <1>3, <1>4, EraseStream, StoreQueueConfigStream, RestartStream
        DEF QMNext

THEOREM StreamInvariance == QMSpec => []StreamInv
<1>1. QMInit => StreamInv BY InitStreamInv
<1>2. Inv /\ StreamInv /\ [QMNext]_qmVars => StreamInv' BY StepStreamInv
<1> QED BY <1>1, <1>2, Invariance, PTL DEF QMSpec

-----------------------------------------------------------------------------
(* The records of a file.  An inode belongs to the queue whose file it is, *)
(* or was when a stream was opened on it that the cache still has under    *)
(* the queue's name or an operation on the queue uses.                     *)
StreamOf(s, q) ==
    \/ \E i \in DOMAIN entries : entries[i].stream = s /\ entries[i].name.path = q
    \/ \E a \in Actors : io[a].stream = s /\ queues[q] = io[a].store

Belongs(i, q) == file[q] = i \/ \E s \in Streams : stream[s] = i /\ StreamOf(s, q)

(* An inode belongs to one queue; no record is in two of them; what is in  *)
(* the index of a queue is in nothing that belongs to another; what is     *)
(* being appended is nowhere yet.                                          *)
OneOwner == \A i \in Inodes, q, r \in Paths : Belongs(i, q) /\ Belongs(i, r) => q = r

RecordsOnce ==
    \A i, j \in Inodes \cap Reachable, m \in Msgs : m \in data[i] /\ m \in data[j] => i = j

IndexOwn ==
    \A q, r \in Paths, i \in Inodes, m \in Msgs :
        queues[r] # None /\ m \in index[queues[r]] /\ m \in data[i] /\ Belongs(i, q) => q = r

Appending(a) == io[a].step # "none" /\ io[a].kind = "append"

AppendNew ==
    \A a \in Actors : Appending(a) =>
        /\ \A p \in Stores : io[a].msg \notin index[p]
        /\ \A i \in Inodes \cap Reachable : io[a].msg \notin data[i]
        /\ \A b \in Actors : io[b].msg = io[a].msg => a = b

RecordInv == OneOwner /\ RecordsOnce /\ IndexOwn /\ AppendNew

LEMMA RecordInOwnFileHolds == StreamInv /\ RecordInv => RecordInOwnFile
<1> SUFFICES ASSUME StreamInv, RecordInv, NEW q \in Paths, NEW r \in Paths,
                    queues[q] # None, queues[r] # None, q # r,
                    NEW m, m \in OnDisk(q), m \in index[queues[r]]
             PROVE  FALSE
    BY DEF RecordInOwnFile, Existing
<1>1. file[q] \in Inodes /\ m \in data[file[q]]
    BY DEF OnDisk, StreamInv, ManagerTypeOK, CacheTypeOK
<1>2. m \in Msgs BY <1>1 DEF StreamInv, ManagerTypeOK
<1>3. Belongs(file[q], q) BY DEF Belongs
<1> QED BY <1>1, <1>2, <1>3 DEF RecordInv, IndexOwn

LEMMA ReachableBelongs ==
    ASSUME StreamInv, NEW i \in Inodes
    PROVE  i \in Reachable <=> \E q \in Paths : Belongs(i, q)
<1>1. ASSUME i \in Reachable PROVE \E q \in Paths : Belongs(i, q)
  <2>1. CASE \E q \in Paths : file[q] = i BY <2>1 DEF Belongs
  <2>2. CASE \E s \in Streams : stream[s] = i
    <3>1. PICK s \in Streams : stream[s] = i BY <2>2
    <3>2. s \in Cached \/ \E a \in Actors : io[a].stream = s
        BY <3>1 DEF StreamInv, StreamsSound, IsOpen
    <3>3. CASE s \in Cached
      <4>1. PICK k \in DOMAIN entries : entries[k].stream = s BY <3>3 DEF Cached
      <4>2. entries[k].name.path \in Paths
          BY EntryType DEF StreamInv, ManagerTypeOK, Names
      <4> QED BY <3>1, <4>1, <4>2 DEF Belongs, StreamOf
    <3>4. CASE \E a \in Actors : io[a].stream = s
      <4>1. PICK a \in Actors : io[a].stream = s BY <3>4
      <4>2. io[a].step # "none"
          BY <4>1, CacheAssumption DEF StreamInv, IOSound, NoIO
      <4>3. NameOf(io[a].store) \in Paths /\ queues[NameOf(io[a].store)] = io[a].store
          BY <4>2, NamedStore
      <4> QED BY <3>1, <4>1, <4>3 DEF Belongs, StreamOf
    <3> QED BY <3>2, <3>3, <3>4
  <2> QED BY <1>1, <2>1, <2>2 DEF Reachable
<1>2. ASSUME NEW q \in Paths, Belongs(i, q) PROVE i \in Reachable
    BY <1>2 DEF Belongs, Reachable
<1> QED BY <1>1, <1>2

LEMMA ReachableOwned ==
    StreamInv => \A i \in Inodes : i \in Reachable <=> \E q \in Paths : Belongs(i, q)
BY ReachableBelongs

LEMMA ReachableOwnedNext ==
    StreamInv' => (\A i \in Inodes : i \in Reachable <=> \E q \in Paths : Belongs(i, q))'
BY ReachableOwned, PTL

LEMMA ReachableKept ==
    ASSUME StreamInv, StreamInv', NEW i \in Inodes, i \in Reachable',
           \A q \in Paths : Belongs(i, q)' => Belongs(i, q)
    PROVE  i \in Reachable
<1>1. \E q \in Paths : Belongs(i, q)'
    BY ReachableOwnedNext
<1> QED BY <1>1, ReachableBelongs

(* What gives no inode to a queue, and no record to a file or an index.    *)
LEMMA NothingAdded ==
    ASSUME StreamInv, StreamInv', RecordInv,
           \A i \in Inodes, q \in Paths : Belongs(i, q)' => Belongs(i, q),
           \A i \in Inodes : data'[i] \subseteq data[i],
           \A p \in Stores : index'[p] \subseteq index[p],
           \A q \in Paths : queues'[q] \in {queues[q], None},
           \A a \in Actors : /\ Appending(a)' => Appending(a) /\ io'[a].msg = io[a].msg
                             /\ io'[a].msg \in {io[a].msg, None}
    PROVE  RecordInv'
<1>1. \A i \in Inodes : i \in Reachable' => i \in Reachable
    BY ReachableKept
<1>2. OneOwner' BY DEF RecordInv, OneOwner
<1>3. RecordsOnce' BY <1>1 DEF RecordInv, RecordsOnce
<1>4. IndexOwn'
  <2> SUFFICES ASSUME NEW q \in Paths, NEW r \in Paths, NEW i \in Inodes, NEW m \in Msgs,
                      queues'[r] # None, m \in index'[queues'[r]], m \in data'[i],
                      Belongs(i, q)'
               PROVE  q = r
      BY DEF IndexOwn
  <2>1. queues'[r] = queues[r] /\ queues[r] # None OBVIOUS
  <2>2. queues[r] \in Stores BY <2>1 DEF StreamInv, ManagerTypeOK
  <2> QED BY <2>1, <2>2 DEF RecordInv, IndexOwn
<1>5. AppendNew'
  <2> SUFFICES ASSUME NEW a \in Actors, Appending(a)'
               PROVE  /\ \A p \in Stores : io'[a].msg \notin index'[p]
                      /\ \A i \in Inodes : i \in Reachable' => io'[a].msg \notin data'[i]
                      /\ \A b \in Actors : io'[b].msg = io'[a].msg => a = b
      BY DEF AppendNew
  <2>1. Appending(a) /\ io'[a].msg = io[a].msg OBVIOUS
  <2>2. io[a].msg # None
      BY <2>1, ManagerAssumption DEF Appending, StreamInv, IOSound, NoIO
  <2> QED BY <1>1, <2>1, <2>2 DEF RecordInv, AppendNew
<1> QED BY <1>2, <1>3, <1>4, <1>5 DEF RecordInv

(* Tables and directory lose names at most, streams stay what they are.    *)
LEMMA OwnersOfTables ==
    ASSUME StreamInv, UNCHANGED <<entries, stream, io>>,
           \A q \in Paths : /\ file'[q] \in {file[q], None}
                            /\ queues'[q] \in {queues[q], None}
    PROVE  \A i \in Inodes, q \in Paths : Belongs(i, q)' => Belongs(i, q)
<1> SUFFICES ASSUME NEW i \in Inodes, NEW q \in Paths, Belongs(i, q)'
             PROVE  Belongs(i, q)
    OBVIOUS
<1>1. CASE file'[q] = i BY <1>1, CacheAssumption DEF Belongs
<1>2. CASE \E s \in Streams : stream'[s] = i /\ StreamOf(s, q)'
  <2>1. PICK s \in Streams : stream'[s] = i /\ StreamOf(s, q)' BY <1>2
  <2>2. ASSUME NEW a \in Actors, io[a].stream = s, queues'[q] = io[a].store
        PROVE  queues[q] = io[a].store
    <3>1. io[a].step # "none" BY <2>2, CacheAssumption DEF StreamInv, IOSound, NoIO
    <3> QED BY <2>2, <3>1, NamedStore
  <2>3. StreamOf(s, q) BY <2>1, <2>2 DEF StreamOf
  <2> QED BY <2>1, <2>3 DEF Belongs
<1> QED BY <1>1, <1>2 DEF Belongs

LEMMA TablesRecords ==
    ASSUME StreamInv, StreamInv', RecordInv, UNCHANGED <<entries, stream, io, data>>,
           \A q \in Paths : /\ file'[q] \in {file[q], None}
                            /\ queues'[q] \in {queues[q], None},
           \A p \in Stores : index'[p] \subseteq index[p]
    PROVE  RecordInv'
<1>1. \A i \in Inodes, q \in Paths : Belongs(i, q)' => Belongs(i, q)
    BY OwnersOfTables
<1>2. \A a \in Actors : /\ Appending(a)' => Appending(a) /\ io'[a].msg = io[a].msg
                        /\ io'[a].msg \in {io[a].msg, None}
    BY DEF Appending
<1>3. \A i \in Inodes : data'[i] \subseteq data[i] OBVIOUS
<1> HIDE DEF Appending
<1> QED BY <1>1, <1>2, <1>3, NothingAdded

LEMMA RemoveQueueRecords ==
    ASSUME StreamInv, StreamInv', RecordInv, NEW s \in Sessions, NEW q \in Paths,
           RemoveQueue(s, q), UNCHANGED <<queues, data, io>>
    PROVE  RecordInv'
<1>1. UNCHANGED <<entries, stream>> /\ file' = [file EXCEPT ![q] = None]
    BY RemoveQueueStreams
<1>2. \A r \in Paths : file'[r] \in {file[r], None}
    BY <1>1 DEF StreamInv, ManagerTypeOK, CacheTypeOK
<1>3. \A p \in Stores : index'[p] \subseteq index[p]
    BY DEF RemoveQueue, StreamInv, ManagerTypeOK
<1> QED BY <1>1, <1>2, <1>3, TablesRecords

LEMMA CreateQueueRecords ==
    ASSUME Inv, StreamInv, StreamInv', RecordInv,
           NEW s \in Sessions, NEW q \in Paths, NEW t \in BOOLEAN, CreateQueue(s, q, t)
    PROVE  RecordInv'
<1> USE ManagerAssumption DEF CreateQueue
<1>1. PICK p \in Stores \ live :
          /\ queues' = [queues EXCEPT ![q] = p]
          /\ live' = live \cup {p}
          /\ index' = [index EXCEPT ![p] = OnDisk(q)]
    OBVIOUS
<1>2. /\ UNCHANGED <<entries, stream, file, data, io>>
      /\ \A r \in Paths : queues'[r] = IF r = q THEN p ELSE queues[r]
      /\ \A r \in Stores : index'[r] = IF r = p THEN OnDisk(q) ELSE index[r]
    BY <1>1 DEF cacheVars, StreamInv, ManagerTypeOK
<1>3. \A a \in Actors : io[a].step # "none" => io[a].store # p
    BY <1>1 DEF StreamInv, IOSound, NoIO
<1>4. \A i \in Inodes, r \in Paths : Belongs(i, r)' => Belongs(i, r)
  <2> SUFFICES ASSUME NEW i \in Inodes, NEW r \in Paths, Belongs(i, r)'
               PROVE  Belongs(i, r)
      OBVIOUS
  <2>1. \A u \in Streams, a \in Actors : io[a].stream = u => io[a].step # "none"
      BY CacheAssumption DEF StreamInv, IOSound, NoIO
  <2>2. \A u \in Streams : StreamOf(u, r)' => StreamOf(u, r)
      BY <1>2, <1>3, <2>1 DEF StreamOf
  <2> QED BY <1>2, <2>2 DEF Belongs
<1>5. \A r \in Paths : queues[r] # p
    BY <1>1 DEF Inv, TableSound, Erasing, IsFree
<1>6. Reachable' = Reachable BY <1>2 DEF Reachable
<1>7. OnDisk(q) # {} => file[q] \in Inodes \cap Reachable /\ OnDisk(q) = data[file[q]]
                        /\ Belongs(file[q], q)
    BY DEF OnDisk, StreamInv, ManagerTypeOK, CacheTypeOK, Belongs, Reachable
<1>8. OneOwner' BY <1>4 DEF RecordInv, OneOwner
<1>9. RecordsOnce' BY <1>2, <1>6 DEF RecordInv, RecordsOnce
<1>10. IndexOwn'
  <2> SUFFICES ASSUME NEW x \in Paths, NEW r \in Paths, NEW i \in Inodes, NEW m \in Msgs,
                      queues'[r] # None, m \in index'[queues'[r]], m \in data'[i],
                      Belongs(i, x)'
               PROVE  x = r
      BY DEF IndexOwn
  <2>1. Belongs(i, x) /\ m \in data[i] /\ i \in Reachable
      BY <1>2, <1>4, ReachableBelongs
  <2>2. CASE r = q
    <3>1. m \in OnDisk(q) BY <1>2, <2>2
    <3>2. i = file[q] BY <1>7, <2>1, <3>1 DEF RecordInv, RecordsOnce
    <3> QED BY <1>7, <2>1, <2>2, <3>1, <3>2 DEF RecordInv, OneOwner
  <2>3. CASE r # q
    <3>1. queues'[r] = queues[r] /\ queues[r] # None /\ queues[r] # p
        BY <1>2, <1>5, <2>3
    <3>2. queues[r] \in Stores BY <3>1 DEF StreamInv, ManagerTypeOK
    <3>3. m \in index[queues[r]] BY <1>2, <3>1, <3>2
    <3> QED BY <2>1, <3>1, <3>3 DEF RecordInv, IndexOwn
  <2> QED BY <2>2, <2>3
<1>11. AppendNew'
  <2> SUFFICES ASSUME NEW a \in Actors, Appending(a)
               PROVE  /\ \A r \in Stores : io[a].msg \notin index'[r]
                      /\ \A i \in Inodes \cap Reachable : io[a].msg \notin data[i]
                      /\ \A b \in Actors : io[b].msg = io[a].msg => a = b
      BY <1>2, <1>6 DEF AppendNew, Appending
  <2>1. io[a].msg \notin OnDisk(q)
      BY <1>7 DEF RecordInv, AppendNew
  <2> QED BY <1>2, <2>1 DEF RecordInv, AppendNew
<1> QED BY <1>8, <1>9, <1>10, <1>11 DEF RecordInv

LEMMA RestartRecords ==
    ASSUME StreamInv, RecordInv, Restart
    PROVE  RecordInv'
<1> USE ManagerAssumption, CacheAssumption
<1>1. PICK at \in [config -> Stores] :
          /\ \A q, r \in config : at[q] = at[r] => q = r
          /\ queues' = [q \in Paths |-> IF q \in config THEN at[q] ELSE None]
          /\ index' = [p \in Stores |-> UNION {OnDisk(q) : q \in {r \in config : at[r] = p}}]
          /\ io' = [a \in Actors |-> NoIO]
          /\ entries' = <<>>
          /\ stream' = [s \in Streams |-> "freed"]
          /\ UNCHANGED <<config, data, file>>
    BY Zenon DEF Restart
<1>2. \A a \in Actors : io'[a] = NoIO BY <1>1
<1>3. \A i \in Inodes, q \in Paths : Belongs(i, q)' => file[q] = i /\ Belongs(i, q)
    BY <1>1 DEF Belongs
<1>4. \A i \in Inodes : i \in Reachable' => i \in Reachable
    BY <1>1 DEF Reachable
<1>5. OneOwner' BY <1>3 DEF RecordInv, OneOwner
<1>6. RecordsOnce' BY <1>1, <1>4 DEF RecordInv, RecordsOnce
<1>7. AppendNew' BY <1>2 DEF AppendNew, Appending, NoIO
<1>8. IndexOwn'
  <2> SUFFICES ASSUME NEW x \in Paths, NEW r \in Paths, NEW i \in Inodes, NEW m \in Msgs,
                      queues'[r] # None, m \in index'[queues'[r]], m \in data'[i],
                      Belongs(i, x)'
               PROVE  x = r
      BY DEF IndexOwn
  <2>1. r \in config /\ queues'[r] = at[r] /\ at[r] \in Stores BY <1>1
  <2>2. PICK y \in config : at[y] = at[r] /\ m \in OnDisk(y) BY <1>1, <2>1
  <2>3. y = r BY <1>1, <2>1, <2>2
  <2>4. file[r] \in Inodes /\ m \in data[file[r]] /\ Belongs(file[r], r)
      BY <2>2, <2>3 DEF OnDisk, StreamInv, ManagerTypeOK, CacheTypeOK, Belongs
  <2>5. i \in Reachable /\ file[r] \in Reachable /\ m \in data[i] /\ Belongs(i, x)
      BY <1>1, <1>3 DEF Reachable
  <2>6. i = file[r] BY <2>4, <2>5 DEF RecordInv, RecordsOnce
  <2> QED BY <2>4, <2>5, <2>6 DEF RecordInv, OneOwner
<1> QED BY <1>5, <1>6, <1>7, <1>8 DEF RecordInv

(* An operation starts: with a message that is nowhere, or with one of the *)
(* queue's index.                                                          *)
LEMMA StartRecords ==
    ASSUME StreamInv, StreamInv', RecordInv,
           NEW a \in Actors, NEW p \in live, NEW m \in Msgs, NEW kind,
           io[a].step = "none", Start(a, p, kind, m),
           Unused(m) \/ (kind # "append" /\ m \in index[p])
    PROVE  RecordInv'
<1>1. /\ UNCHANGED <<queues, index, data, entries, stream, file>>
      /\ io' = [io EXCEPT ![a] = [step |-> "get", kind |-> kind, store |-> p,
                                  msg |-> m, stream |-> None]]
    BY DEF Start, cacheVars
<1>2. io \in [Actors -> IOType] BY DEF StreamInv, ManagerTypeOK, IOType
<1>3. /\ io'[a] = [step |-> "get", kind |-> kind, store |-> p,
                   msg |-> m, stream |-> None]
      /\ \A b \in Actors \ {a} : io'[b] = io[b]
    BY <1>1, <1>2
<1>4. io[a] = NoIO BY DEF StreamInv, IOSound
<1>5. \A i \in Inodes, q \in Paths : Belongs(i, q)' => Belongs(i, q)
  <2>1. \A b \in Actors, s \in Streams : io'[b].stream = s => b # a /\ io'[b] = io[b]
      BY <1>3, CacheAssumption
  <2>2. \A s \in Streams, q \in Paths : StreamOf(s, q)' => StreamOf(s, q)
      BY <1>1, <2>1 DEF StreamOf
  <2> QED BY <1>1, <2>2 DEF Belongs
<1>6. Reachable' = Reachable BY <1>1 DEF Reachable
<1>7. OneOwner' BY <1>5 DEF RecordInv, OneOwner
<1>8. RecordsOnce' BY <1>1, <1>6 DEF RecordInv, RecordsOnce
<1>9. IndexOwn' BY <1>1, <1>5 DEF RecordInv, IndexOwn
<1>10. AppendNew'
  <2>1. CASE Unused(m)
    <3>1. /\ \A r \in Stores : m \notin index[r]
          /\ \A i \in Inodes \cap Reachable : m \notin data[i]
          /\ \A b \in Actors : io[b].msg # m
        BY <2>1 DEF Unused
    <3> SUFFICES ASSUME NEW b \in Actors, Appending(b)'
                 PROVE  /\ \A r \in Stores : io'[b].msg \notin index[r]
                        /\ \A i \in Inodes \cap Reachable : io'[b].msg \notin data[i]
                        /\ \A c \in Actors : io'[c].msg = io'[b].msg => b = c
        BY <1>1, <1>6 DEF AppendNew
    <3>2. CASE b = a BY <1>3, <3>1, <3>2
    <3>3. CASE b # a
      <4>1. Appending(b) /\ io'[b] = io[b] BY <1>3, <3>3 DEF Appending
      <4>2. \A c \in Actors : io'[c].msg = io'[b].msg => b = c
          BY <1>3, <3>1, <4>1 DEF RecordInv, AppendNew
      <4> QED BY <4>1, <4>2 DEF RecordInv, AppendNew
    <3> QED BY <3>2, <3>3
  <2>2. CASE kind # "append" /\ m \in index[p]
    <3> SUFFICES ASSUME NEW b \in Actors, Appending(b)'
                 PROVE  /\ \A r \in Stores : io'[b].msg \notin index[r]
                        /\ \A i \in Inodes \cap Reachable : io'[b].msg \notin data[i]
                        /\ \A c \in Actors : io'[c].msg = io'[b].msg => b = c
        BY <1>1, <1>6 DEF AppendNew
    <3>1. b # a /\ io'[b] = io[b] /\ Appending(b)
        BY <1>3, <2>2 DEF Appending
    <3>2. p \in Stores BY DEF StreamInv, ManagerTypeOK
    <3>3. io[b].msg # m BY <2>2, <3>1, <3>2 DEF RecordInv, AppendNew
    <3>4. \A c \in Actors : io'[c].msg = io'[b].msg => b = c
        BY <1>3, <3>1, <3>3 DEF RecordInv, AppendNew
    <3> QED BY <3>1, <3>4 DEF RecordInv, AppendNew
  <2> QED BY <2>1, <2>2
<1> QED BY <1>7, <1>8, <1>9, <1>10 DEF RecordInv

(* An operation that lets its stream go leaves no inode a new owner.       *)
LEMMA OwnersAfterUse ==
    ASSUME StreamInv, NEW a \in Actors, io[a].step = "use", WithoutStream(a),
           UNCHANGED <<queues, file>>,
           LetGo(io[a].stream) \/ UNCHANGED <<entries, stream>>
    PROVE  \A i \in Inodes, q \in Paths : Belongs(i, q)' => Belongs(i, q)
<1> SUFFICES ASSUME NEW i \in Inodes, NEW q \in Paths, Belongs(i, q)'
             PROVE  Belongs(i, q)
    OBVIOUS
<1>1. io[a].stream \in Streams BY StreamOfUse
<1>2. \A s \in Streams : stream'[s] = i => stream[s] = i
    BY <1>1, CacheAssumption DEF LetGo
<1>3. \A k \in DOMAIN entries' : /\ k \in DOMAIN entries
                                 /\ entries'[k].stream = entries[k].stream
                                 /\ entries'[k].name = entries[k].name
    BY DEF LetGo
<1>4. \A b \in Actors, s \in Streams : io'[b].stream = s => b # a /\ io'[b] = io[b]
    BY CacheAssumption DEF WithoutStream, NoIO
<1>5. \A s \in Streams : StreamOf(s, q)' => StreamOf(s, q)
    BY <1>3, <1>4 DEF StreamOf
<1> QED BY <1>2, <1>5 DEF Belongs

LEMMA WithoutAppends ==
    ASSUME StreamInv, NEW a \in Actors, WithoutStream(a), io[a].step # "none"
    PROVE  \A b \in Actors :
               /\ Appending(b)' => Appending(b) /\ io'[b].msg = io[b].msg
               /\ io'[b].msg \in {io[b].msg, None}
BY DEF WithoutStream, Appending, NoIO

LEMMA UseRecords ==
    ASSUME Inv, StreamInv, StreamInv', RecordInv, NEW a \in Actors,
           UseAppend(a) \/ UseRead(a) \/ UseMark(a)
    PROVE  RecordInv'
<1> DEFINE s == io[a].stream
           p == io[a].store
           m == io[a].msg
<1>1. io[a].step = "use" /\ s \in Streams /\ p \in Stores /\ m \in Msgs
  <2>1. io[a].step = "use" BY DEF UseAppend, UseRead, UseMark
  <2>2. p \in Stores BY <2>1, NamedStore
  <2>3. m \in Msgs BY <2>1 DEF StreamInv, IOSound, NoIO
  <2> QED BY <2>1, <2>2, <2>3, StreamOfUse
<1>2. \/ Done(a) \/ GiveUp(a)
      \/ io' = [io EXCEPT ![a].step = "unlink", ![a].stream = None] /\ UNCHANGED manager
    BY DEF UseAppend, UseRead, UseMark
<1>3. WithoutStream(a) BY <1>1, <1>2, DoneWithout
<1>4. UNCHANGED <<queues, file>> /\ (LetGo(s) \/ UNCHANGED <<entries, stream>>)
  <2>1. CacheTypeOK BY DEF StreamInv, ManagerTypeOK
  <2>2. \/ Release(s) \/ ReleaseFailed(s)
        \/ UNCHANGED cacheVars
      BY DEF UseAppend, UseRead, UseMark
  <2>3. UNCHANGED queues BY DEF UseAppend, UseRead, UseMark
  <2>4. CASE Release(s) \/ ReleaseFailed(s)
      BY <1>1, <2>1, <2>3, <2>4, ReleaseLetsGo DEF LetGo
  <2>5. CASE UNCHANGED cacheVars BY <2>3, <2>5 DEF cacheVars
  <2> QED BY <2>2, <2>4, <2>5
<1>5. \A i \in Inodes, q \in Paths : Belongs(i, q)' => Belongs(i, q)
    BY <1>1, <1>3, <1>4, OwnersAfterUse
<1>6. \A b \in Actors :
          /\ Appending(b)' => Appending(b) /\ io'[b].msg = io[b].msg
          /\ io'[b].msg \in {io[b].msg, None}
    BY <1>1, <1>3, WithoutAppends
<1>7. /\ index \in [Stores -> SUBSET Msgs] /\ data \in [Inodes -> SUBSET Msgs]
      /\ queues \in [Paths -> Stores \cup {None}]
    BY DEF StreamInv, ManagerTypeOK
<1>8. CASE /\ \A i \in Inodes : data'[i] \subseteq data[i]
           /\ \A r \in Stores : index'[r] \subseteq index[r]
    BY <1>4, <1>5, <1>6, <1>8, NothingAdded
<1>9. CASE /\ UseAppend(a) /\ IsOpen(s)
           /\ data' = [data EXCEPT ![stream[s]] = @ \cup {m}]
           /\ index' = [index EXCEPT ![p] = @ \cup {m}]
  <2> DEFINE f == stream[s]
             q == NameOf(p)
  <2>1. f \in Inodes /\ f \in Reachable BY <1>1, <1>9 DEF IsOpen, Reachable
  <2>2. q \in Paths /\ queues[q] = p BY <1>1, NamedStore
  <2>3. Belongs(f, q) BY <1>1, <2>2 DEF Belongs, StreamOf
  <2>4. Appending(a) BY <1>9 DEF Appending, UseAppend
  <2>5. /\ \A r \in Stores : m \notin index[r]
        /\ \A i \in Inodes \cap Reachable : m \notin data[i]
        /\ \A b \in Actors : io[b].msg = m => a = b
      BY <2>4 DEF RecordInv, AppendNew
  <2>6. /\ \A i \in Inodes : data'[i] = IF i = f THEN data[i] \cup {m} ELSE data[i]
        /\ \A r \in Stores : index'[r] = IF r = p THEN index[r] \cup {m} ELSE index[r]
      BY <1>1, <1>7, <1>9, <2>1
  <2>7. io'[a] = NoIO
    <3>1. io[a].kind = "append" BY <1>9 DEF UseAppend
    <3>2. io' = [io EXCEPT ![a] = NoIO]
        BY <1>9, <3>1 DEF UseAppend, Done
    <3> QED BY <3>2 DEF StreamInv, ManagerTypeOK
  <2> HIDE DEF f, q, m, p, s
  <2>8. \A i \in Inodes : i \in Reachable' => i \in Reachable
      BY <1>5, ReachableKept
  <2>9. OneOwner' BY <1>5 DEF RecordInv, OneOwner
  <2>10. RecordsOnce'
    <3> SUFFICES ASSUME NEW i \in Inodes, NEW j \in Inodes, NEW k \in Msgs,
                        i \in Reachable, j \in Reachable,
                        k \in data'[i], k \in data'[j]
                 PROVE  i = j
        BY <2>8 DEF RecordsOnce
    <3>1. CASE k = m
      <4>1. i = f /\ j = f BY <2>5, <2>6, <3>1
      <4> QED BY <4>1
    <3>2. CASE k # m
      <4>1. k \in data[i] /\ k \in data[j] BY <2>6, <3>2
      <4> QED BY <4>1 DEF RecordInv, RecordsOnce
    <3> QED BY <3>1, <3>2
  <2>11. IndexOwn'
    <3> SUFFICES ASSUME NEW x \in Paths, NEW r \in Paths, NEW i \in Inodes, NEW k \in Msgs,
                        queues[r] # None, k \in index'[queues[r]], k \in data'[i],
                        Belongs(i, x)
                 PROVE  x = r
        BY <1>4, <1>5 DEF IndexOwn
    <3>0. queues[r] \in Stores BY <1>7
    <3>1. CASE k = m
      <4>1. i \in Reachable BY ReachableBelongs
      <4>2. i = f /\ queues[r] = p BY <2>5, <2>6, <3>0, <3>1, <4>1
      <4>3. r = q BY <2>2, <4>2 DEF Inv, TableSound
      <4> QED BY <2>1, <2>2, <2>3, <4>2, <4>3 DEF RecordInv, OneOwner
    <3>2. CASE k # m
      <4>1. k \in index[queues[r]] /\ k \in data[i] BY <2>6, <3>0, <3>2
      <4> QED BY <4>1 DEF RecordInv, IndexOwn
    <3> QED BY <3>1, <3>2
  <2>12. AppendNew'
    <3> SUFFICES ASSUME NEW b \in Actors, Appending(b)'
                 PROVE  /\ \A r \in Stores : io'[b].msg \notin index'[r]
                        /\ \A i \in Inodes : i \in Reachable' => io'[b].msg \notin data'[i]
                        /\ \A c \in Actors : io'[c].msg = io'[b].msg => b = c
        BY DEF AppendNew
    <3>1. b # a BY <2>7 DEF Appending, NoIO
    <3>2. Appending(b) /\ io'[b].msg = io[b].msg BY <1>6
    <3>3. io[b].msg # m BY <2>5, <3>1
    <3>4. io[b].msg # None
        BY <3>2, ManagerAssumption DEF Appending, StreamInv, IOSound, NoIO
    <3>5. /\ \A r \in Stores : io[b].msg \notin index[r]
          /\ \A i \in Inodes \cap Reachable : io[b].msg \notin data[i]
          /\ \A c \in Actors : io[c].msg = io[b].msg => b = c
        BY <3>2 DEF RecordInv, AppendNew
    <3>6. \A r \in Stores : io'[b].msg \notin index'[r]
        BY <2>6, <3>2, <3>3, <3>5
    <3>7. \A i \in Inodes : i \in Reachable' => io'[b].msg \notin data'[i]
        BY <2>6, <2>8, <3>2, <3>3, <3>5
    <3>8. \A c \in Actors : io'[c].msg = io'[b].msg => b = c
        BY <1>6, <3>2, <3>4, <3>5
    <3> QED BY <3>6, <3>7, <3>8
  <2> QED BY <2>9, <2>10, <2>11, <2>12 DEF RecordInv
<1>10. \/ /\ \A i \in Inodes : data'[i] \subseteq data[i]
          /\ \A r \in Stores : index'[r] \subseteq index[r]
       \/ /\ UseAppend(a) /\ IsOpen(s)
          /\ data' = [data EXCEPT ![stream[s]] = @ \cup {m}]
          /\ index' = [index EXCEPT ![p] = @ \cup {m}]
  <2>1. CASE UseAppend(a) /\ IsOpen(s) BY <2>1 DEF UseAppend
  <2>2. CASE UNCHANGED <<data, index>> BY <2>2
  <2>3. CASE /\ data' = [data EXCEPT ![stream[s]] = @ \ {m}]
             /\ index' = [index EXCEPT ![p] = @ \ {m}]
    <3> HIDE DEF s, p, m
    <3> QED BY <1>7, <2>3
  <2>4. UseAppend(a) /\ ~IsOpen(s) => UNCHANGED <<data, index>> BY DEF UseAppend
  <2>5. UseRead(a) => UNCHANGED <<data, index>> BY DEF UseRead
  <2>6. UseMark(a) => \/ UNCHANGED <<data, index>>
                      \/ /\ data' = [data EXCEPT ![stream[s]] = @ \ {m}]
                         /\ index' = [index EXCEPT ![p] = @ \ {m}]
                      \/ UNCHANGED data /\ index' = [index EXCEPT ![p] = @ \ {m}]
      BY DEF UseMark
  <2>7. CASE UNCHANGED data /\ index' = [index EXCEPT ![p] = @ \ {m}]
    <3> HIDE DEF s, p, m
    <3> QED BY <1>7, <2>7
  <2> HIDE DEF s, p, m
  <2> QED BY <2>1, <2>2, <2>3, <2>4, <2>5, <2>6, <2>7
<1> QED BY <1>8, <1>9, <1>10

LEMMA UnlinkRecords ==
    ASSUME StreamInv, StreamInv', RecordInv, NEW a \in Actors, Unlink(a)
    PROVE  RecordInv'
<1> DEFINE n == Name(NameOf(io[a].store), TRUE)
<1>1. io[a].step = "unlink" BY DEF Unlink
<1>2. n \in Names /\ n.path \in Paths BY <1>1, NamedStore DEF Name
<1>3. Removed(n)
    BY <1>2, RemoveRemoves DEF StreamInv, ManagerTypeOK, Unlink
<1>4. WithoutStream(a) BY <1>1, DoneWithout DEF Unlink
<1> HIDE DEF n
<1>5. UNCHANGED <<queues, index, data>> BY DEF Unlink
<1>6. \A i \in Inodes, q \in Paths : Belongs(i, q)' => Belongs(i, q)
  <2> SUFFICES ASSUME NEW i \in Inodes, NEW q \in Paths, Belongs(i, q)'
               PROVE  Belongs(i, q)
      OBVIOUS
  <2>1. file'[q] = i => file[q] = i
      BY <1>3, CacheAssumption DEF Removed, StreamInv, ManagerTypeOK, CacheTypeOK
  <2>2. \A t \in Streams : stream'[t] = i => stream[t] = i
      BY <1>3, CacheAssumption DEF Removed
  <2>3. \A b \in Actors, t \in Streams : io'[b].stream = t => b # a /\ io'[b] = io[b]
      BY <1>4, CacheAssumption DEF WithoutStream, NoIO
  <2>4. \A t \in Streams : StreamOf(t, q)' => StreamOf(t, q)
      BY <1>3, <1>5, <2>3 DEF StreamOf, Removed
  <2> QED BY <2>1, <2>2, <2>4 DEF Belongs
<1>7. \A b \in Actors :
          /\ Appending(b)' => Appending(b) /\ io'[b].msg = io[b].msg
          /\ io'[b].msg \in {io[b].msg, None}
    BY <1>1, <1>4, WithoutAppends
<1>8. /\ \A i \in Inodes : data'[i] \subseteq data[i]
      /\ \A p \in Stores : index'[p] \subseteq index[p]
      /\ \A q \in Paths : queues'[q] \in {queues[q], None}
    BY <1>5
<1> QED BY <1>6, <1>7, <1>8, NothingAdded

(* A stream for a: no inode gets an owner but one that had none and has    *)
(* no records.                                                             *)
LEMMA GetStreamOwners ==
    ASSUME Inv, StreamInv, NEW a \in Actors, GetStream(a), NEW s \in Streams, GivenTo(a, s),
           NEW i \in Inodes, NEW x \in Paths, Belongs(i, x)'
    PROVE  Belongs(i, x) \/ (i \notin Reachable /\ x = NameOf(io[a].store))
<1> DEFINE q == NameOf(io[a].store)
           n == Name(q, TRUE)
<1>1. /\ q \in Paths /\ queues[q] = io[a].store /\ n.path = q /\ io[a].store # None
    BY NamedStore DEF Name, GetStream
<1>2. UNCHANGED queues BY DEF GetStream, managerVars
<1>3. /\ Reaches(n, s)
      /\ io'[a].stream = s /\ io'[a].store = io[a].store
      /\ \A b \in Actors \ {a} :
             /\ io'[b] = io[b] /\ io[b].stream # s
             /\ io[b].step = "use" => stream'[io[b].stream] = stream[io[b].stream]
      /\ \A j \in DOMAIN entries' :
             \/ entries'[j].name = n /\ entries'[j].stream = s
             \/ /\ entries'[j].stream # s
                /\ stream'[entries'[j].stream] = stream[entries'[j].stream]
                /\ \E k \in DOMAIN entries : entries[k] = entries'[j]
    BY DEF GivenTo
<1> HIDE DEF n, q
<1>4. stream'[s] = i => Belongs(i, q) \/ i \notin Reachable
    BY <1>1, <1>3, CacheAssumption DEF Reaches, Belongs, StreamOf
<1>5. CASE file'[x] = i
  <2>1. CASE file' = file BY <1>5, <2>1 DEF Belongs
  <2>2. CASE stream'[s] \notin Reachable /\ file' = [file EXCEPT ![n.path] = stream'[s]]
      BY <1>1, <1>5, <2>2 DEF Belongs, StreamInv, ManagerTypeOK, CacheTypeOK, q
  <2> QED BY <1>3, <2>1, <2>2 DEF Reaches
<1>6. CASE \E t \in Streams : stream'[t] = i /\ StreamOf(t, x)'
  <2>1. PICK t \in Streams : stream'[t] = i /\ StreamOf(t, x)' BY <1>6
  <2>2. ASSUME NEW j \in DOMAIN entries', entries'[j].stream = t, entries'[j].name.path = x
        PROVE  Belongs(i, x) \/ (i \notin Reachable /\ x = q)
    <3>1. CASE entries'[j].name = n /\ entries'[j].stream = s
        BY <1>1, <1>4, <2>1, <2>2, <3>1
    <3>2. CASE /\ stream'[entries'[j].stream] = stream[entries'[j].stream]
               /\ \E k \in DOMAIN entries : entries[k] = entries'[j]
        BY <2>1, <2>2, <3>2 DEF Belongs, StreamOf
    <3> QED BY <1>3, <3>1, <3>2
  <2>3. ASSUME NEW b \in Actors, io'[b].stream = t, queues'[x] = io'[b].store
        PROVE  Belongs(i, x) \/ (i \notin Reachable /\ x = q)
    <3>1. CASE b = a
      <4>1. t = s /\ queues[x] = queues[q] BY <1>1, <1>2, <1>3, <2>3, <3>1
      <4>2. x = q BY <1>1, <4>1 DEF Inv, TableSound
      <4> QED BY <1>4, <2>1, <4>1, <4>2
    <3>2. CASE b # a
      <4>1. io[b].stream = t /\ queues[x] = io[b].store BY <1>2, <1>3, <2>3, <3>2
      <4>2. io[b].step = "use"
          BY <4>1, CacheAssumption DEF StreamInv, IOSound, NoIO
      <4>3. stream[t] = i BY <1>3, <2>1, <3>2, <4>1, <4>2
      <4> QED BY <4>1, <4>3 DEF Belongs, StreamOf
    <3> QED BY <3>1, <3>2
  <2> QED BY <2>1, <2>2, <2>3 DEF StreamOf, q
<1> QED BY <1>5, <1>6 DEF Belongs

LEMMA GetStreamRecords ==
    ASSUME Inv, StreamInv, StreamInv', RecordInv, NEW a \in Actors, GetStream(a)
    PROVE  RecordInv'
<1>1. PICK s \in Streams : GivenTo(a, s) BY GetStreamGives
<1>2. \A i \in Inodes, x \in Paths : Belongs(i, x)' =>
          Belongs(i, x) \/ (i \notin Reachable /\ x = NameOf(io[a].store))
    BY <1>1, GetStreamOwners
<1>3. \A i \in Inodes : data'[i] = IF i \in Reachable THEN data[i] ELSE {}
    BY <1>1 DEF GivenTo
<1>4. UNCHANGED <<queues, index>> BY DEF GetStream, managerVars
<1>5. \A i \in Inodes, x \in Paths : Belongs(i, x) => i \in Reachable
    BY ReachableBelongs
<1>6. OneOwner' BY <1>2, <1>5 DEF RecordInv, OneOwner
<1>7. RecordsOnce' BY <1>3 DEF RecordInv, RecordsOnce
<1>8. IndexOwn'
  <2> SUFFICES ASSUME NEW x \in Paths, NEW r \in Paths, NEW i \in Inodes, NEW m \in Msgs,
                      queues[r] # None, m \in index[queues[r]], m \in data'[i], Belongs(i, x)'
               PROVE  x = r
      BY <1>4 DEF IndexOwn
  <2>1. i \in Reachable /\ m \in data[i] BY <1>3
  <2> QED BY <1>2, <2>1 DEF RecordInv, IndexOwn
<1>9. \A b \in Actors : io'[b].msg = io[b].msg /\ (Appending(b)' => Appending(b))
    BY <1>1 DEF GivenTo, Appending, GetStream
<1>10. AppendNew'
  <2> SUFFICES ASSUME NEW b \in Actors, Appending(b)
               PROVE  /\ \A r \in Stores : io[b].msg \notin index[r]
                      /\ \A i \in Inodes : io[b].msg \notin data'[i]
                      /\ \A c \in Actors : io[c].msg = io[b].msg => b = c
      BY <1>4, <1>9 DEF AppendNew
  <2>1. \A i \in Inodes : io[b].msg \notin data'[i]
      BY <1>3 DEF RecordInv, AppendNew
  <2> QED BY <2>1 DEF RecordInv, AppendNew
<1> QED BY <1>6, <1>7, <1>8, <1>10 DEF RecordInv

LEMMA InitRecordInv == QMInit => RecordInv
<1> SUFFICES ASSUME QMInit PROVE RecordInv OBVIOUS
<1> USE CacheAssumption DEF QMInit, CacheInit
<1>1. \A i \in Inodes, q \in Paths : ~Belongs(i, q) BY DEF Belongs
<1>2. OneOwner BY <1>1 DEF OneOwner
<1>3. RecordsOnce BY DEF RecordsOnce
<1>4. IndexOwn BY <1>1 DEF IndexOwn
<1>5. AppendNew BY DEF AppendNew, Appending, NoIO
<1> QED BY <1>2, <1>3, <1>4, <1>5 DEF RecordInv

LEMMA StepRecordInv ==
    Inv /\ StreamInv /\ StreamInv' /\ RecordInv /\ [QMNext]_qmVars => RecordInv'
<1> SUFFICES ASSUME Inv, StreamInv, StreamInv', RecordInv, [QMNext]_qmVars
             PROVE  RecordInv'
    OBVIOUS
<1>1. ASSUME NEW s \in Sessions, SessionNext(s) PROVE RecordInv'
  <2>1. io[s].step = "none" BY <1>1 DEF SessionNext, Idle
  <2>2. ASSUME NEW q \in Paths, NEW t \in BOOLEAN, CreateQueue(s, q, t) PROVE RecordInv'
      BY <2>2, CreateQueueRecords
  <2>3. ASSUME NEW q \in Paths, DeleteQueue(s, q) PROVE RecordInv'
      BY <2>3, RemoveQueueRecords DEF DeleteQueue
  <2>4. ASSUME NEW q \in Paths, NEW h \in Handles, GetQueue(s, q, h) PROVE RecordInv'
      BY <2>4, TablesRecords DEF GetQueue, storeVars, cacheVars
  <2>5. ASSUME NEW h \in Handles, ReleaseQueue(s, h) PROVE RecordInv'
    <3>1. UNCHANGED <<queues, data, io>> BY <2>5 DEF ReleaseQueue
    <3>2. CASE UNCHANGED <<live, manager, index, cacheVars>>
        BY <3>1, <3>2, TablesRecords DEF cacheVars
    <3>3. CASE \E q \in Paths : RemoveQueue(s, q)
        BY <3>1, <3>3, RemoveQueueRecords
    <3> QED BY <2>5, <3>2, <3>3 DEF ReleaseQueue
  <2>6. ASSUME NEW h \in Handles, NEW m \in Msgs, opened[s][h] # None,
               FileOperation(s, opened[s][h], m)
        PROVE  RecordInv'
    <3>1. opened[s][h] \in live BY <2>6 DEF Inv, OpenQueueLives
    <3>2. PICK kind \in {"append", "read", "mark"} :
              /\ Start(s, opened[s][h], kind, m)
              /\ Unused(m) \/ (kind # "append" /\ m \in index[opened[s][h]])
        BY <2>6 DEF FileOperation, Enqueue, Peek, Retrieve
    <3> QED BY <2>1, <3>1, <3>2, StartRecords DEF Actors
  <2> QED BY <1>1, <2>2, <2>3, <2>4, <2>5, <2>6, Zenon DEF SessionNext
<1>2. ASSUME NEW p \in live, NEW m \in Msgs, TTLPurge(p, m) PROVE RecordInv'
  <2>1. io[Purger].step = "none" BY <1>2 DEF TTLPurge, Inv, PurgerHolds, IsFree
  <2>2. Start(Purger, p, "read", m) /\ m \in index[p] /\ Purger \in Actors
      BY <1>2 DEF TTLPurge, Actors
  <2> QED BY <2>1, <2>2, StartRecords
<1>3. ASSUME NEW a \in Actors, IONext(a) PROVE RecordInv'
    BY <1>3, GetStreamRecords, UseRecords, UnlinkRecords DEF IONext
<1>4. CASE Erase
  <2>1. UNCHANGED <<entries, stream, io, data, index, file>>
        /\ \A q \in Paths : queues'[q] \in {queues[q], None}
      BY <1>4 DEF Erase, storeVars, cacheVars, StreamInv, ManagerTypeOK
  <2> QED BY <2>1, TablesRecords
<1>5. CASE StoreQueueConfig
    BY <1>5, TablesRecords DEF StoreQueueConfig, storeVars, cacheVars
<1>6. CASE UNCHANGED qmVars
    BY <1>6, TablesRecords DEF qmVars, managerVars, storeVars, cacheVars
<1> QED BY <1>1, <1>2, <1>3, <1>4, <1>5, <1>6, RestartRecords DEF QMNext

THEOREM RecordInvariance == QMSpec => []RecordInv
<1>1. QMInit => RecordInv BY InitRecordInv
<1>2. Inv /\ StreamInv /\ StreamInv' /\ RecordInv /\ [QMNext]_qmVars => RecordInv'
    BY StepRecordInv
<1> QED BY <1>1, <1>2, Invariance, StreamInvariance, PTL DEF QMSpec

(* A stream an operation works with is not closed under it and is nobody   *)
(* else's, whatever the cache evicts, and no open stream is lost.          *)
THEOREM StreamsUnshared == QMSpec => []StreamInUse
    BY StreamInvariance, StreamInUseHolds, PTL

(* No record of a queue is ever in the file of another, however queues are *)
(* deleted, made again and their streams kept in the cache.                *)
THEOREM FilesUnmixed == QMSpec => []RecordInOwnFile
    BY StreamInvariance, RecordInvariance, RecordInOwnFileHolds, PTL
=============================================================================
