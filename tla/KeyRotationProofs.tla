------------------------- MODULE KeyRotationProofs -------------------------
(***************************************************************************)
(* Proofs about KeyRotation, for any number of nodes, any clock bound and  *)
(* any lifetimes that satisfy RotationAssumption: one active key, and no   *)
(* token that outlives its key.                                            *)
(***************************************************************************)
EXTENDS KeyRotation, TLAPS

\* The constants' types, one fact each.
LEMMA Constants ==
    /\ Lifetime \in Nat /\ RotateBefore \in Nat /\ RetireAfter \in Nat
    /\ RotateTimeout \in Nat /\ MaxStale \in Nat /\ TokenTTL \in Nat
    /\ MaxTime \in Nat /\ MaxForced \in Nat /\ MaxFaults \in Nat
    /\ Never \in Int /\ -1 \in Kid /\ Kid \subseteq Int
  BY RotationAssumption DEF Never, Kid

\* findActiveKey returns the active row whenever there is one.
LEMMA ActiveKidIsActive ==
    ASSUME OneActiveKey
    PROVE  ActiveKid \in Kid /\ keys[ActiveKid].status = "active"
  BY Zenon DEF OneActiveKey, ActiveKid

\* What LoadKeyManagerFromRepository returns is a key set.
LEMMA LoadType ==
    ASSUME TypeOK, OneActiveKey
    PROVE  LoadKeySet \in KeySet
<1>1. ActiveKid \in Kid
  BY ActiveKidIsActive, Zenon
<1>2. \A k \in Kid : keys[k].maker \in Makers \cup {None} /\ file[k] \in Makers \cup {None}
  BY Zenon DEF TypeOK, Key
<1>3. [k \in Kid |-> IF ~Current(k) THEN None
                     ELSE IF file[k] # None THEN file[k] ELSE keys[k].maker]
        \in [Kid -> Makers \cup {None}]
  BY <1>2, Zenon
<1>4. now \in 0..MaxTime
  BY Zenon DEF TypeOK
<1> QED
  BY <1>1, <1>3, <1>4, Zenon DEF LoadKeySet, KeySet

\* The placeholder of a task without a loaded key set is one too.
LEMMA EmptyType == Empty \in KeySet
  BY Constants DEF Empty, KeySet

-----------------------------------------------------------------------------

\* A freshly read key set is as KeyInv wants it.
LEMMA LoadedIsGood ==
    ASSUME TypeOK, OneActiveKey
    PROVE  SetInv(LoadKeySet)
<1>1. LoadKeySet.active = ActiveKid /\ LoadKeySet.at = now
  BY Zenon DEF LoadKeySet
<1> QED
  BY <1>1, ActiveKidIsActive DEF SetInv, TypeOK

\* The seeded table and the key sets loaded from it satisfy the invariant.
LEMMA KeyInit == Init => KeyInv
<1> SUFFICES ASSUME Init PROVE KeyInv
  BY Zenon
<1> USE Constants, RotationAssumption
<1>1. OneActiveKey
  BY Zenon DEF Init, OneActiveKey, NoKey
<1>2. now \in 0..MaxTime
  BY DEF Init
<1>3. keys \in [Kid -> Key]
  <2>1. [status |-> "active", rotates |-> SeedRotates, until |-> Never, maker |-> Seed] \in Key
    BY Zenon DEF Key, Makers
  <2>2. NoKey \in Key
    BY Zenon DEF NoKey, Key
  <2> QED
    BY <2>1, <2>2, Zenon DEF Init
<1>4. file \in [Kid -> Makers \cup {None}]
  BY Zenon DEF Init, Makers
<1>5. LoadKeySet \in KeySet
  <2>1. ActiveKid \in Kid
    BY <1>1, ActiveKidIsActive, Zenon
  <2>2. \A k \in Kid : keys[k].maker \in Makers \cup {None} /\ file[k] \in Makers \cup {None}
    BY <1>3, <1>4, Zenon DEF Key
  <2>3. [k \in Kid |-> IF ~Current(k) THEN None
                       ELSE IF file[k] # None THEN file[k] ELSE keys[k].maker]
          \in [Kid -> Makers \cup {None}]
    BY <2>2, Zenon
  <2> QED
    BY <2>1, <2>3, <1>2, Zenon DEF LoadKeySet, KeySet
<1>6. TypeOK
  <2>1. view \in [Nodes -> KeySet]
    BY <1>5, Zenon DEF Init
  <2>2. loaded \in [Tasks -> KeySet]
    BY EmptyType, Zenon DEF Init
  <2> QED
    BY <1>2, <1>3, <1>4, <2>1, <2>2 DEF Init, TypeOK
<1>7. \A n \in Nodes : SetInv(view[n])
  <2>1. \A n \in Nodes : view[n] = LoadKeySet
    BY Zenon DEF Init
  <2> QED
    BY <2>1, <1>1, <1>6, LoadedIsGood, Zenon
<1>8. \A k \in Kid : keys[k].status = "active" => keys[k].until = Never
  BY Zenon DEF Init, NoKey
<1> QED
  BY <1>1, <1>6, <1>7, <1>8 DEF Init, KeyInv

\* A key set stays good while the clock moves on and the table stays.
LEMMA SetStays ==
    ASSUME NEW S \in KeySet, SetInv(S), TypeOK,
           now' \in Int, now' >= now, keys' = keys
    PROVE  SetInv(S)'
  BY DEF SetInv, KeySet, TypeOK

-----------------------------------------------------------------------------

\* What CreateActiveKey's transaction leaves in the table: the new row active,
\* the row that was active retired RetireAfter after the decision to rotate,
\* the others as they were.
LEMMA TableAfterRotation ==
    ASSUME KeyInv, NEW g \in Tasks, keys' = UpdateAndInsert(g),
           keys[since[g]].status = "none"
    PROVE  /\ keys' \in [Kid -> Key]
           /\ OneActiveKey'
           /\ \A k \in Kid : keys'[k].status = "active" => keys'[k].until = Never
           /\ \A k \in Kid : keys[k].status = "retired" => keys'[k] = keys[k]
           /\ \A k \in Kid : keys[k].status = "active" =>
                 keys'[k].status = "retired" /\ keys'[k].until = since[g] + RetireAfter
<1> USE Constants
<1>1. since[g] \in Kid /\ since[g] \in 0..MaxTime /\ g[1] \in Makers
  BY DEF KeyInv, TypeOK, Tasks, Makers, Kid
<1>2. \A k \in Kid : keys[k] \in Key
  BY Zenon DEF KeyInv, TypeOK
<1> DEFINE row == [status |-> "active", rotates |-> since[g] + Lifetime,
                   until |-> Never, maker |-> g[1]]
<1>3. row \in Key /\ row.status = "active" /\ row.until = Never
  BY <1>1 DEF Key
<1>4. keys'[since[g]] = row
  BY <1>1, Zenon DEF UpdateAndInsert
<1>5. ASSUME NEW k \in Kid, k # since[g], keys[k].status = "active"
      PROVE  /\ keys'[k] \in Key /\ keys'[k].status = "retired"
             /\ keys'[k].until = since[g] + RetireAfter
  <2>1. keys'[k] = Retire(keys[k], since[g])
    BY <1>5, Zenon DEF UpdateAndInsert
  <2>2. keys[k].until = Never
    BY <1>5, Zenon DEF KeyInv
  <2>3. Never > since[g] + RetireAfter
    BY <1>1 DEF Never
  <2>4. Retire(keys[k], since[g]) = [keys[k] EXCEPT !.status = "retired",
                                                   !.until = since[g] + RetireAfter]
    BY <2>2, <2>3, Zenon DEF Retire
  <2>5. keys[k] \in Key /\ since[g] + RetireAfter \in Int
    BY <1>1, <1>2
  <2> QED
    BY <2>1, <2>4, <2>5, Zenon DEF Key
<1>6. \A k \in Kid : k # since[g] /\ keys[k].status # "active" => keys'[k] = keys[k]
  BY Zenon DEF UpdateAndInsert
<1>7. keys' \in [Kid -> Key]
  <2>1. \A k \in Kid : keys'[k] \in Key
    BY <1>2, <1>3, <1>4, <1>5, <1>6, Zenon
  <2>2. keys' = [k \in Kid |-> keys'[k]]
    BY Zenon DEF UpdateAndInsert
  <2> QED
    BY <2>1, <2>2, Zenon
<1>8. \A j \in Kid : keys'[j].status = "active" <=> j = since[g]
  BY <1>3, <1>4, <1>5, <1>6, Zenon
<1>9. OneActiveKey'
  BY <1>1, <1>8, Zenon DEF OneActiveKey, Kid
<1> QED
  BY <1>3, <1>4, <1>5, <1>6, <1>7, <1>8, <1>9, Zenon

\* A key set stays good across a rotation that commits in time.
LEMMA SetSurvivesRotation ==
    ASSUME KeyInv, NEW g \in Tasks, keys' = UpdateAndInsert(g),
           keys[since[g]].status = "none", now' = now,
           now <= since[g] + RotateTimeout,
           NEW S \in KeySet, SetInv(S)
    PROVE  SetInv(S)'
<1> USE Constants
<1>1. S.active \in Kid /\ S.at \in Int /\ now \in Int /\ since[g] \in Int
  BY DEF KeySet, KeyInv, TypeOK
<1>2. S.at <= now
  BY Zenon DEF SetInv
<1>3. CASE keys[S.active].status = "active"
  <2>1. /\ keys'[S.active].status = "retired"
        /\ keys'[S.active].until = since[g] + RetireAfter
    BY <1>1, <1>3, TableAfterRotation, Zenon
  <2>2. since[g] + RetireAfter >= S.at - RotateTimeout + RetireAfter
    BY <1>1, <1>2
  <2> QED
    BY <1>2, <2>1, <2>2, Zenon DEF SetInv
<1>4. CASE keys[S.active].status = "retired"
  <2>1. keys'[S.active] = keys[S.active]
    BY <1>1, <1>4, TableAfterRotation, Zenon
  <2> QED
    BY <1>4, <2>1, Zenon DEF SetInv
<1> QED
  BY <1>3, <1>4, Zenon DEF SetInv

-----------------------------------------------------------------------------

\* A step that leaves the table alone keeps the invariant if it keeps the
\* types, moves no clock back, decides to rotate no later than now, and
\* installs only key sets that are good.
LEMMA TableUntouched ==
    ASSUME KeyInv, TypeOK', keys' = keys, now' >= now,
           \A g \in Tasks : since'[g] <= now',
           \A n \in Nodes : SetInv(view'[n]),
           \A g \in Tasks : pc'[g] = "replace" => SetInv(loaded'[g])
    PROVE  KeyInv'
<1>1. now' \in Int /\ TypeOK
  BY Constants DEF TypeOK, KeyInv
<1>2. \A S \in KeySet : SetInv(S) => S.at <= now' /\ SetInv(S)'
  BY <1>1, SetStays, Zenon DEF SetInv
<1>3. \A n \in Nodes : view'[n] \in KeySet
  BY Zenon DEF TypeOK
<1>4. \A g \in Tasks : loaded'[g] \in KeySet
  BY Zenon DEF TypeOK
<1>5. \A n \in Nodes : SetInv(view[n])'
  BY <1>1, <1>2, <1>3, Zenon DEF SetInv, KeySet, TypeOK
<1>6. \A g \in Tasks : pc'[g] = "replace" => SetInv(loaded[g])'
  BY <1>1, <1>2, <1>4, Zenon DEF SetInv, KeySet, TypeOK
<1>7. OneActiveKey'
  BY Zenon DEF KeyInv, OneActiveKey
<1> QED
  BY <1>5, <1>6, <1>7, Never' = Never DEF KeyInv

\* The tasks of a node are tasks.
LEMMA NodeTasks ==
    ASSUME NEW n \in Nodes, NEW kind \in {"loop", "sub", "admin"}
    PROVE  <<n, kind>> \in Tasks
  BY Zenon DEF Tasks

\* The end of a round keeps the types of the task's state.
LEMMA RestKeeps ==
    ASSUME KeyInv, NEW g \in Tasks, Rest(g)
    PROVE  /\ pc' \in [Tasks -> {"idle", "write", "commit", "load", "replace", "publish"}]
           /\ since' \in [Tasks -> 0..MaxTime]
           /\ rotated' \in [Tasks -> BOOLEAN]
           /\ loaded' \in [Tasks -> KeySet]
           /\ \A h \in Tasks : since'[h] <= now
           /\ \A h \in Tasks : pc'[h] = "replace" => pc[h] = "replace" /\ loaded'[h] = loaded[h]
<1>1. TypeOK /\ now \in Int /\ 0 <= now /\ 0 \in 0..MaxTime
  BY Constants DEF KeyInv, TypeOK
<1>2. \A h \in Tasks : since[h] <= now
  BY Zenon DEF KeyInv
<1> QED
  BY <1>1, <1>2, EmptyType, Zenon DEF Rest, Goto, TypeOK

\* Every step of a task keeps the invariant.
LEMMA TaskStepKeeps ==
    ASSUME KeyInv, NEW g \in Tasks, TaskStep(g)
    PROVE  KeyInv'
<1> USE Constants
<1>1. TypeOK /\ OneActiveKey /\ now \in Int
  BY DEF KeyInv, TypeOK
<1>2. /\ \A h \in Tasks : since[h] <= now
      /\ \A n \in Nodes : SetInv(view[n])
      /\ \A h \in Tasks : pc[h] = "replace" => SetInv(loaded[h])
  BY Zenon DEF KeyInv
<1>3. g[1] \in Nodes
  BY Zenon DEF Tasks
<1>4. CASE WritePrivateKey(g)
  <2>1. TypeOK'
    BY <1>1, <1>3, <1>4, Zenon DEF TypeOK, WritePrivateKey, Goto, Makers
  <2>2. \A h \in Tasks : pc'[h] = "replace" => pc[h] = "replace"
    BY <1>1, <1>4, Zenon DEF TypeOK, WritePrivateKey, Goto
  <2>3. /\ keys' = keys /\ now' = now /\ since' = since
        /\ view' = view /\ loaded' = loaded
    BY <1>4, Zenon DEF WritePrivateKey
  <2> QED
    BY <1>1, <1>2, <2>1, <2>2, <2>3, TableUntouched
<1>5. CASE CreateActiveKey(g) /\ keys[since[g]].status = "none"
  <2>1. /\ keys' = UpdateAndInsert(g) /\ now' = now
        /\ now <= since[g] + RotateTimeout
        /\ view' = view /\ loaded' = loaded
        /\ since' = [since EXCEPT ![g] = 0]
        /\ pc' = [pc EXCEPT ![g] = "load"]
        /\ rotated' = [rotated EXCEPT ![g] = TRUE]
        /\ UNCHANGED <<file, notified, forced, faults>>
    BY <1>5, Zenon DEF CreateActiveKey, Goto
  <2>2. /\ keys' \in [Kid -> Key] /\ OneActiveKey'
        /\ \A k \in Kid : keys'[k].status = "active" => keys'[k].until = Never
    BY <1>5, <2>1, TableAfterRotation, Zenon
  <2>3. TypeOK'
    <3>1. /\ pc' \in [Tasks -> {"idle", "write", "commit", "load", "replace", "publish"}]
          /\ since' \in [Tasks -> 0..MaxTime]
      BY <1>1, <2>1 DEF TypeOK
    <3>2. rotated' \in [Tasks -> BOOLEAN]
      BY <1>1, <2>1, Zenon DEF TypeOK
    <3> QED
      BY <1>1, <2>1, <2>2, <3>1, <3>2, Zenon DEF TypeOK
  <2>4. \A S \in KeySet : SetInv(S) => SetInv(S)'
    BY <1>5, <2>1, SetSurvivesRotation, Zenon
  <2>5. /\ \A n \in Nodes : view[n] \in KeySet
        /\ \A h \in Tasks : loaded[h] \in KeySet
    BY <1>1, Zenon DEF TypeOK
  <2>6. \A n \in Nodes : SetInv(view[n])'
    BY <1>2, <2>1, <2>4, <2>5, Zenon DEF SetInv
  <2>7. \A h \in Tasks : pc'[h] = "replace" => SetInv(loaded[h])'
    <3>1. \A h \in Tasks : pc'[h] = "replace" => pc[h] = "replace"
      BY <1>1, <2>1, Zenon DEF TypeOK
    <3> QED
      BY <1>2, <2>1, <2>4, <2>5, <3>1, Zenon DEF SetInv
  <2>8. \A h \in Tasks : since'[h] <= now'
    BY <1>1, <1>2, <2>1 DEF TypeOK
  <2> QED
    BY <2>2, <2>3, <2>6, <2>7, <2>8, Zenon DEF KeyInv
<1>6. CASE CreateActiveKey(g) /\ keys[since[g]].status # "none"
  <2>1. Rest(g) /\ UNCHANGED <<keys, now, file, view, notified, forced, faults>>
    BY <1>6, Zenon DEF CreateActiveKey
  <2>2. TypeOK'
    BY <1>1, <2>1, RestKeeps, Zenon DEF TypeOK
  <2> QED
    BY <1>1, <1>2, <2>1, <2>2, RestKeeps, TableUntouched
<1>7. CASE Load(g)
  <2>1. /\ keys' = keys /\ now' = now /\ since' = since /\ view' = view
        /\ loaded' = [loaded EXCEPT ![g] = LoadKeySet]
        /\ pc' = [pc EXCEPT ![g] = "replace"]
    BY <1>7, Zenon DEF Load, Goto
  <2>2. LoadKeySet \in KeySet /\ SetInv(LoadKeySet)
    BY <1>1, LoadType, LoadedIsGood, Zenon
  <2>3. TypeOK'
    BY <1>1, <1>7, <2>1, <2>2, Zenon DEF TypeOK, Load
  <2>4. \A h \in Tasks : pc'[h] = "replace" => SetInv(loaded'[h])
    <3>1. loaded'[g] = LoadKeySet
      BY <1>1, <2>1, Zenon DEF TypeOK
    <3>2. \A h \in Tasks : h # g => loaded'[h] = loaded[h] /\ pc'[h] = pc[h]
      BY <1>1, <2>1, Zenon DEF TypeOK
    <3> QED
      BY <1>2, <2>2, <3>1, <3>2, Zenon
  <2> QED
    BY <1>1, <1>2, <2>1, <2>3, <2>4, TableUntouched
<1>8. CASE ReplaceWith(g)
  <2>1. /\ keys' = keys /\ now' = now /\ pc[g] = "replace"
        /\ view' = [view EXCEPT ![g[1]] = loaded[g]]
        /\ UNCHANGED <<file, notified, forced, faults>>
    BY <1>8, Zenon DEF ReplaceWith
  <2>2. view' \in [Nodes -> KeySet]
    BY <1>1, <1>3, <2>1, Zenon DEF TypeOK
  <2>3. \A n \in Nodes : SetInv(view'[n])
    <3>1. view'[g[1]] = loaded[g] /\ \A n \in Nodes : n # g[1] => view'[n] = view[n]
      BY <1>1, <1>3, <2>1, Zenon DEF TypeOK
    <3> QED
      BY <1>2, <2>1, <3>1, Zenon
  <2>4. CASE Rest(g)
    <3>1. TypeOK'
      BY <1>1, <2>1, <2>2, <2>4, RestKeeps, Zenon DEF TypeOK
    <3> QED
      BY <1>1, <1>2, <2>1, <2>3, <2>4, <3>1, RestKeeps, TableUntouched
  <2>5. CASE ~Rest(g)
    <3>1. /\ pc' = [pc EXCEPT ![g] = "publish"]
          /\ loaded' = [loaded EXCEPT ![g] = Empty]
          /\ since' = since /\ rotated' = rotated
      BY <1>8, <2>5, Zenon DEF ReplaceWith, Goto
    <3>2. TypeOK'
      BY <1>1, <2>1, <2>2, <3>1, EmptyType, Zenon DEF TypeOK
    <3>3. \A h \in Tasks : pc'[h] = "replace" => pc[h] = "replace" /\ loaded'[h] = loaded[h]
      BY <1>1, <3>1, Zenon DEF TypeOK
    <3> QED
      BY <1>1, <1>2, <2>1, <2>3, <3>1, <3>2, <3>3, TableUntouched
  <2> QED
    BY <2>4, <2>5, Zenon
<1>9. CASE Publish(g)
  <2>1. Rest(g) /\ UNCHANGED <<keys, now, file, view, forced, faults>>
    BY <1>9, Zenon DEF Publish
  <2>2. notified' \subseteq Nodes
    BY <1>1, <1>9, Zenon DEF Publish, TypeOK
  <2>3. TypeOK'
    BY <1>1, <2>1, <2>2, RestKeeps, Zenon DEF TypeOK
  <2> QED
    BY <1>1, <1>2, <2>1, <2>3, RestKeeps, TableUntouched
<1>10. CASE RoundFails(g)
  <2>1. Rest(g) /\ UNCHANGED <<keys, now, file, view, notified, forced>>
    BY <1>10, Zenon DEF RoundFails
  <2>2. faults' \in 0..MaxFaults
    BY <1>1, <1>10 DEF RoundFails, TypeOK
  <2>3. TypeOK'
    BY <1>1, <2>1, <2>2, RestKeeps, Zenon DEF TypeOK
  <2> QED
    BY <1>1, <1>2, <2>1, <2>3, RestKeeps, TableUntouched
<1> QED
  BY <1>4, <1>5, <1>6, <1>7, <1>8, <1>9, <1>10, Zenon DEF TaskStep

\* KeyInv is inductive.
LEMMA KeyNext == KeyInv /\ [Next]_vars => KeyInv'
<1> SUFFICES ASSUME KeyInv, [Next]_vars PROVE KeyInv'
  BY Zenon
<1> USE Constants
<1>1. TypeOK /\ OneActiveKey /\ now \in Int
  BY DEF KeyInv, TypeOK
<1>2. /\ \A h \in Tasks : since[h] <= now
      /\ \A n \in Nodes : SetInv(view[n])
      /\ \A h \in Tasks : pc[h] = "replace" => SetInv(loaded[h])
  BY Zenon DEF KeyInv
<1>3. CASE Tick
  <2>1. now' = now + 1 /\ UNCHANGED <<keys, file, view, notified, task, forced, faults>>
    BY <1>3, Zenon DEF Tick
  <2>2. TypeOK'
    BY <1>1, <1>3 DEF TypeOK, Tick, task
  <2>3. \A h \in Tasks : since'[h] <= now'
    BY <1>1, <1>2, <2>1 DEF TypeOK, task
  <2>4. now' >= now
    BY <1>1, <2>1
  <2>5. UNCHANGED <<keys, view, pc, loaded>>
    BY <2>1, Zenon DEF task
  <2> QED
    BY <1>2, <2>2, <2>3, <2>4, <2>5, TableUntouched, Zenon
<1>4. ASSUME NEW n \in Nodes, EnsureRotation(n) PROVE KeyInv'
  <2> DEFINE g == <<n, "loop">>
  <2>1. g \in Tasks
    BY NodeTasks, Zenon
  <2> HIDE DEF g
  <2>2. /\ \/ pc' = [pc EXCEPT ![g] = "write"] /\ since' = [since EXCEPT ![g] = now]
           \/ pc' = [pc EXCEPT ![g] = "load"] /\ since' = since
        /\ UNCHANGED <<now, keys, file, view, notified, rotated, loaded, forced, faults>>
    BY <1>4, Zenon DEF EnsureRotation, Goto, g
  <2>3. TypeOK'
    BY <1>1, <2>1, <2>2, Zenon DEF TypeOK
  <2>4. \A h \in Tasks : since'[h] <= now' /\ (pc'[h] = "replace" => pc[h] = "replace")
    BY <1>1, <1>2, <2>1, <2>2 DEF TypeOK
  <2> QED
    BY <1>1, <1>2, <2>2, <2>3, <2>4, TableUntouched
<1>5. ASSUME NEW n \in Nodes, RotateSigningKeyNow(n) PROVE KeyInv'
  <2> DEFINE g == <<n, "admin">>
  <2>1. g \in Tasks
    BY NodeTasks, Zenon
  <2> HIDE DEF g
  <2>2. /\ pc' = [pc EXCEPT ![g] = "write"] /\ since' = [since EXCEPT ![g] = now]
        /\ forced < MaxForced /\ forced' = forced + 1
        /\ UNCHANGED <<now, keys, file, view, notified, rotated, loaded, faults>>
    BY <1>5, Zenon DEF RotateSigningKeyNow, Goto, g
  <2>3. TypeOK'
    BY <1>1, <2>1, <2>2 DEF TypeOK
  <2>4. \A h \in Tasks : since'[h] <= now' /\ (pc'[h] = "replace" => pc[h] = "replace")
    BY <1>1, <1>2, <2>1, <2>2 DEF TypeOK
  <2> QED
    BY <1>1, <1>2, <2>2, <2>3, <2>4, TableUntouched
<1>6. ASSUME NEW n \in Nodes, ReloadOnBroadcast(n) PROVE KeyInv'
  <2> DEFINE g == <<n, "sub">>
  <2>1. g \in Tasks
    BY NodeTasks, Zenon
  <2> HIDE DEF g
  <2>2. /\ pc' = [pc EXCEPT ![g] = "load"] /\ notified' = notified \ {n}
        /\ UNCHANGED <<now, keys, file, view, since, rotated, loaded, forced, faults>>
    BY <1>6, Zenon DEF ReloadOnBroadcast, Goto, g
  <2>3. TypeOK'
    BY <1>1, <2>1, <2>2, Zenon DEF TypeOK
  <2>4. \A h \in Tasks : pc'[h] = "replace" => pc[h] = "replace"
    BY <1>1, <2>1, <2>2, Zenon DEF TypeOK
  <2> QED
    BY <1>1, <1>2, <2>2, <2>3, <2>4, TableUntouched
<1>7. CASE UNCHANGED vars
  <2>1. UNCHANGED <<now, keys, file, view, notified, pc, since, rotated, loaded, forced, faults>>
    BY <1>7, Zenon DEF vars, task
  <2>2. TypeOK'
    BY <1>1, <2>1, Zenon DEF TypeOK
  <2> QED
    BY <1>1, <1>2, <2>1, <2>2, TableUntouched
<1> QED
  BY <1>3, <1>4, <1>5, <1>6, <1>7, NodeTasks, TaskStepKeeps, Zenon DEF Next, NodeStep

-----------------------------------------------------------------------------

\* Every reachable state satisfies the inductive invariant.
THEOREM KeyInvariant == Spec => []KeyInv
  BY KeyInit, KeyNext, PTL DEF Spec

\* For any number of nodes the table always has exactly one active key, as
\* findActiveKey relies on, whatever rotations overlap.
THEOREM ActiveKeyIsUnique == Spec => []OneActiveKey
<1>1. KeyInv => OneActiveKey
  BY Zenon DEF KeyInv
<1> QED
  BY <1>1, KeyInvariant, PTL

\* When RetireAfter covers the age of the key set, the time a rotation takes
\* and the token's lifetime, a token that a node signs never outlives its key.
THEOREM NoTokenOutlivesItsKey == Spec => []TokensOutliveRotation
<1>1. KeyInv => TokensOutliveRotation
  <2> SUFFICES ASSUME KeyInv, NEW n \in Nodes, now <= view[n].at + MaxStale
               PROVE  \/ keys[view[n].active].status = "active"
                      \/ /\ keys[view[n].active].status = "retired"
                         /\ keys[view[n].active].until >= now + TokenTTL
    BY Zenon DEF TokensOutliveRotation
  <2>1. /\ view[n].at \in Int /\ view[n].active \in Kid
        /\ now \in Int /\ keys[view[n].active].until \in Int
    <3>1. view[n] \in KeySet /\ now \in 0..MaxTime /\ keys \in [Kid -> Key]
      BY Zenon DEF KeyInv, TypeOK
    <3>2. view[n].at \in 0..MaxTime /\ view[n].active \in Kid
      BY <3>1, Zenon DEF KeySet
    <3>3. keys[view[n].active] \in Key
      BY <3>1, <3>2, Zenon
    <3> QED
      BY <3>1, <3>2, <3>3, Constants DEF Key
  <2>2. SetInv(view[n])
    BY Zenon DEF KeyInv
  <2> QED
    BY <2>1, <2>2, Constants, RotationAssumption DEF SetInv
<1> QED
  BY <1>1, KeyInvariant, PTL
=============================================================================
