------------------------- MODULE SessionStoreProofs -------------------------
(***************************************************************************)
(* What holds of SessionStore for every set of threads, ids, stores and    *)
(* handles and every limit.  The proofs go up in layers, each inductive    *)
(* relative to the ones below it:                                          *)
(*   Typed     (SessionStoreTyping) types, where a session is filed, and   *)
(*             what each step of a request knows about itself;             *)
(*   Counted   the in-use counter against the marks actually held;         *)
(*   Visiting  between its passes the cleanup holds nothing, in them it is *)
(*             on a store;                                                 *)
(*   Apart     what is about to be closed is out of the pool, and nobody   *)
(*             but the closer has a mark on it;                            *)
(*   Locked    who drives a browser holds its session's lock.              *)
(* Two stand beside them:                                                  *)
(*   Used      the order of the memory of exits, on the types alone;       *)
(*   Finite    what the cap counts can be counted.                         *)
(* Two more hold where no request names a lifetime, or nothing but a       *)
(* lifetime takes sessions out of the pool by id:                          *)
(*   Located   a running browser is pooled or somebody is about to close   *)
(*             it;                                                         *)
(*   Strays    a solve that outlives its request is on a browser nobody    *)
(*             else drives.                                                *)
(***************************************************************************)
EXTENDS SessionStoreTyping

USE DEF tableVars, browserVars, memoryVars, localVars, allButPc, Goto

-----------------------------------------------------------------------------
(* Pool and marks *)

\* The step only takes sessions out of the pool.
PoolShrinks ==
  \A st \in Store, sid \in Sid : pool'[st][sid] # None => pool'[st][sid] = pool[st][sid]

LEMMA ShrinkKeeps ==
  ASSUME PoolShrinks, NEW h \in Handle, Pooled(h)'
  PROVE  Pooled(h)
  BY ConstantsAssumption DEF PoolShrinks, Pooled

LEMMA WithoutShrinks ==
  ASSUME Typed, NEW H, pool' = Without(H)
  PROVE  PoolShrinks
  BY DEF PoolShrinks, Without, Typed, TypeOK

LEMMA SlotCleared ==
  ASSUME Typed, NEW st \in Store, NEW sid \in Sid, pool' = [pool EXCEPT ![st][sid] = None]
  PROVE  PoolShrinks
  BY DEF PoolShrinks, Typed, TypeOK

\* A pooled session is in one slot only: its own.
LEMMA OneSlot ==
  ASSUME Typed, NEW h \in Handle, NEW st \in Store, NEW sid \in Sid,
         sess[h] \in Session, sess[h].store = st, sess[h].sid = sid
  PROVE  Pooled(h) <=> pool[st][sid] = h
  BY ConstantsAssumption DEF Typed, Named, Pooled

\* How the marks on each session change when one thread's claim does.
LEMMA Marking ==
  ASSUME Typed, NEW t \in Thread, NEW k \in Handle \cup {None},
         claim' = [claim EXCEPT ![t] = k], NEW h \in Handle
  PROVE  /\ h = k => Holders(h)' = Holders(h) \cup {t}
         /\ h # k => Holders(h)' = Holders(h) \ {t}
         /\ IsFiniteSet(Holders(h)) /\ Cardinality(Holders(h)) \in Nat
         /\ h = k /\ h # claim[t] => Cardinality(Holders(h)') = Cardinality(Holders(h)) + 1
         /\ (h = k <=> h = claim[t]) => Holders(h)' = Holders(h)
<1>1. /\ h = k => Holders(h)' = Holders(h) \cup {t}
      /\ h # k => Holders(h)' = Holders(h) \ {t}
      /\ t \in Holders(h) <=> h = claim[t]
  BY DEF Holders, Typed, TypeOK
<1>2. IsFiniteSet(Holders(h)) /\ Cardinality(Holders(h)) \in Nat
  BY ConstantsAssumption, FS_Subset, FS_CardinalityType DEF Holders
<1>3. ASSUME h = k, h # claim[t]
      PROVE  Cardinality(Holders(h)') = Cardinality(Holders(h)) + 1
  BY <1>1, <1>2, <1>3, FS_AddElement
<1>4. ASSUME h = k <=> h = claim[t]
      PROVE  Holders(h)' = Holders(h)
  BY <1>1, <1>4
<1> QED BY <1>1, <1>2, <1>3, <1>4

\* A thread that moves its mark elsewhere takes one away.
LEMMA Unmarking ==
  ASSUME Typed, NEW t \in Thread, NEW k \in Handle \cup {None},
         claim' = [claim EXCEPT ![t] = k], NEW h \in Handle, h # k, claim[t] = h
  PROVE  /\ Cardinality(Holders(h)') = Cardinality(Holders(h)) - 1
         /\ Cardinality(Holders(h)) \in Nat /\ Cardinality(Holders(h)') \in Nat
<1>1. Holders(h)' = Holders(h) \ {t} /\ t \in Holders(h)
  BY DEF Holders, Typed, TypeOK
<1>2. IsFiniteSet(Holders(h))
  BY ConstantsAssumption, FS_Subset DEF Holders
<1> QED BY <1>1, <1>2, FS_RemoveElement, FS_CardinalityType

-----------------------------------------------------------------------------
(* Counted *)

\* The steps at which a mark can be dropped without giving it back: its session
\* is out of the pool for good.
Loose == {"lookup", "build", "closeExpired"}

\* The counter is never below the number of marks, and exact while in the pool.
Counted ==
  /\ \A h \in Handle : Cardinality(Holders(h)) <= inUse[h]
  /\ \A h \in Handle : Pooled(h) => inUse[h] = Cardinality(Holders(h))
  /\ \A t \in Thread, h \in Handle : pc[t] \in Loose /\ claim[t] = h => ~Pooled(h)

LEMMA CountedInit == Init => Counted
<1> SUFFICES ASSUME Init PROVE Counted
  OBVIOUS
<1>1. \A h \in Handle : Holders(h) = {} /\ ~Pooled(h)
  BY ConstantsAssumption DEF Init, Holders, Pooled
<1>2. \A h \in Handle : inUse[h] = 0 /\ Cardinality(Holders(h)) = 0
  BY <1>1, FS_EmptySet DEF Init
<1>3. \A t \in Thread : pc[t] \notin Loose
  BY DEF Init, Loose
<1> QED BY <1>1, <1>2, <1>3 DEF Counted

\* Steps that leave the marks alone and take nothing but sessions from the pool.
LEMMA SameMarks ==
  ASSUME Typed, Counted, PoolShrinks, claim' = claim, inUse' = inUse,
         \A t \in Thread : pc'[t] \in Loose /\ claim[t] # None => pc[t] \in Loose
  PROVE  Counted'
<1>1. \A h \in Handle : Holders(h)' = Holders(h)
  BY DEF Holders
<1>2. \A h \in Handle : Pooled(h)' => Pooled(h)
  BY ShrinkKeeps
<1> QED BY <1>1, <1>2, ConstantsAssumption DEF Counted

\* Steps that drop the mark of a thread that has none, or one on a session that
\* is out of the pool for good, and are done with the request.
LEMMA FinishCounted ==
  ASSUME Typed, Counted, PoolShrinks, NEW t \in Thread, Finish(t), inUse' = inUse,
         claim[t] # None => pc[t] \in Loose
  PROVE  Counted'
<1>1. claim' = [claim EXCEPT ![t] = None] /\ pc' = [pc EXCEPT ![t] = "idle"]
  BY DEF Finish
<1>2. \A f \in Handle : claim[t] = f => ~Pooled(f)
  BY ConstantsAssumption DEF Counted
<1>3. \A h \in Handle : inUse[h] \in Nat
  BY DEF Typed, TypeOK
<1>4. ASSUME NEW h \in Handle
      PROVE  /\ Cardinality(Holders(h)') <= inUse'[h]
             /\ Pooled(h)' => inUse'[h] = Cardinality(Holders(h)')
  <2>1. h # None
    BY ConstantsAssumption
  <2>2. CASE h = claim[t]
    <3>1. /\ Cardinality(Holders(h)') = Cardinality(Holders(h)) - 1
          /\ Cardinality(Holders(h)) \in Nat
      BY <1>1, <2>1, <2>2, Unmarking
    <3>2. ~Pooled(h)'
      BY <1>2, <2>2, ShrinkKeeps
    <3> QED BY <1>3, <3>1, <3>2 DEF Counted
  <2>3. CASE h # claim[t]
    <3>1. Holders(h)' = Holders(h)
      BY <1>1, <2>1, <2>3, Marking
    <3> QED BY <3>1, ShrinkKeeps DEF Counted
  <2> QED BY <2>2, <2>3
<1>5. ASSUME NEW u \in Thread, NEW f \in Handle, pc'[u] \in Loose, claim'[u] = f
      PROVE  ~Pooled(f)'
  <2>1. u # t
    BY <1>1, <1>5 DEF Typed, TypeOK, Loose
  <2>2. pc[u] \in Loose /\ claim[u] = f
    BY <1>1, <1>5, <2>1 DEF Typed, TypeOK
  <2> QED BY <2>2, ShrinkKeeps DEF Counted
<1> QED BY <1>4, <1>5 DEF Counted

LEMMA LookupFindsCounted ==
  ASSUME Typed, Counted, NEW t \in Thread, LookupFinds(t)
  PROVE  Counted'
<1> DEFINE h == At(req[t].store, req[t].sid)
<1>1. /\ pc[t] = "lookup" /\ h \in Handle /\ Pooled(h)
      /\ UNCHANGED <<pool, sess, age, browserVars, memoryVars, reaper>>
  BY Fields DEF LookupFinds, At, Pooled
<1>2. PoolShrinks /\ \A g \in Handle : Pooled(g)' <=> Pooled(g)
  BY <1>1 DEF PoolShrinks, Pooled
<1> HIDE DEF h
<1>3. CASE Claim(t, h) /\ Goto(t, "expire")
  <2>1. /\ claim' = [claim EXCEPT ![t] = h] /\ inUse' = [inUse EXCEPT ![h] = @ + 1]
        /\ pc' = [pc EXCEPT ![t] = "expire"]
    BY <1>3 DEF Claim
  <2>2. \A f \in Handle : claim[t] = f => ~Pooled(f)
    BY <1>1 DEF Counted, Loose
  <2>3. ASSUME NEW g \in Handle
        PROVE  /\ Cardinality(Holders(g)') <= inUse'[g]
               /\ Pooled(g)' => inUse'[g] = Cardinality(Holders(g)')
    <3>1. inUse[g] \in Nat /\ g # None
      BY ConstantsAssumption DEF Typed, TypeOK
    <3>2. CASE g = h
      <4>1. inUse'[g] = inUse[g] + 1
        BY <1>1, <2>1, <3>2 DEF Typed, TypeOK
      <4>2. Cardinality(Holders(g)') = Cardinality(Holders(g)) + 1
        BY <1>1, <2>1, <2>2, <3>1, <3>2, Marking
      <4> QED BY <1>1, <2>1, <3>1, <3>2, <4>1, <4>2, Marking DEF Counted
    <3>3. CASE g # h
      <4>1. inUse'[g] = inUse[g]
        BY <1>1, <2>1, <3>3 DEF Typed, TypeOK
      <4>2. CASE g = claim[t]
        <5>1. /\ Cardinality(Holders(g)') = Cardinality(Holders(g)) - 1
              /\ Cardinality(Holders(g)) \in Nat
          BY <1>1, <2>1, <3>3, <4>2, Unmarking
        <5> QED BY <1>2, <2>2, <3>1, <4>1, <4>2, <5>1 DEF Counted
      <4>3. CASE g # claim[t]
        <5>1. Holders(g)' = Holders(g)
          BY <1>1, <2>1, <3>3, <4>3, Marking
        <5> QED BY <1>2, <4>1, <5>1 DEF Counted
      <4> QED BY <4>2, <4>3
    <3> QED BY <3>2, <3>3
  <2>4. ASSUME NEW u \in Thread, NEW f \in Handle, pc'[u] \in Loose, claim'[u] = f
        PROVE  ~Pooled(f)'
    <3>1. u # t
      BY <2>1, <2>4 DEF Typed, TypeOK, Loose
    <3>2. pc[u] \in Loose /\ claim[u] = f
      BY <2>1, <2>4, <3>1 DEF Typed, TypeOK
    <3> QED BY <1>2, <3>2 DEF Counted
  <2> QED BY <2>3, <2>4 DEF Counted
<1>4. CASE Finish(t) /\ UNCHANGED <<inUse, idle>>
  BY <1>1, <1>2, <1>4, FinishCounted DEF Loose
<1> QED BY <1>3, <1>4 DEF LookupFinds, h

LEMMA PublishCounted ==
  ASSUME Typed, Counted, NEW t \in Thread, Publish(t)
  PROVE  Counted'
<1> DEFINE race == At(req[t].store, req[t].sid)
<1>1. PICK built \in Handle : PublishAs(t, built)
  BY DEF Publish
<1> DEFINE h == Stored(race, built)
<1>2. /\ req[t].store \in Store /\ req[t].sid \in Sid /\ race \in Handle \cup {None}
      /\ pc[t] = "build" /\ Collected(built)
  BY <1>1, Fields DEF PublishAs
<1>3. /\ h \in Handle /\ (race = None => h = built) /\ (race # None => h = race)
      /\ built # None /\ ~Pooled(built) /\ race # built
      /\ \A u \in Thread : claim[u] # built
  BY <1>2, ConstantsAssumption DEF Stored, Collected, At, Pooled
<1>4. Marks(t) \in {0, 1} /\ (Marks(t) = 0 => claim[t] = None)
  BY <1>2 DEF Marks, Typed, Roles, Role
<1>5. /\ inUse' = [inUse EXCEPT ![built] = 0, ![h] = @ + Marks(t)]
      /\ pool' = [pool EXCEPT ![req[t].store][req[t].sid] = h]
      /\ claim' = [claim EXCEPT ![t] = IF Marks(t) = 1 THEN h ELSE @]
      /\ pc' = [pc EXCEPT ![t] = IF race = None THEN "remember" ELSE "closeExtra"]
  BY <1>1 DEF PublishAs
<1>6. race # None => Pooled(race)
  BY <1>2 DEF At, Pooled
<1>7. \A g \in Handle : Pooled(g)' => Pooled(g) \/ g = h
  BY <1>2, <1>3, <1>5 DEF Pooled, Typed, TypeOK
<1>8. \A f \in Handle : claim[t] = f => ~Pooled(f)
  BY <1>2 DEF Counted, Loose
<1>9. Holders(built) = {} /\ Cardinality(Holders(built)) = 0
  BY <1>3, FS_EmptySet DEF Holders
<1> HIDE DEF race, h
<1>10. ASSUME NEW g \in Handle
       PROVE  /\ Cardinality(Holders(g)') <= inUse'[g]
              /\ Pooled(g)' => inUse'[g] = Cardinality(Holders(g)')
  <2>1. inUse[g] \in Nat /\ g # None
    BY ConstantsAssumption DEF Typed, TypeOK
  <2>2. CASE Marks(t) = 0
    <3>1. \A f \in Handle : Holders(f)' = Holders(f)
      BY <1>5, <2>2 DEF Holders, Typed, TypeOK
    <3>2. inUse'[g] = IF g = built THEN 0 ELSE inUse[g]
      BY <1>3, <1>5, <2>1, <2>2 DEF Typed, TypeOK
    <3> QED BY <1>3, <1>6, <1>7, <1>9, <3>1, <3>2 DEF Counted
  <2>3. CASE Marks(t) = 1
    <3>1. claim' = [claim EXCEPT ![t] = h] /\ h # claim[t]
      BY <1>3, <1>5, <1>6, <1>8, <2>3
    <3>2. CASE g = h
      <4>1. Cardinality(Holders(g)') = Cardinality(Holders(g)) + 1 /\ Cardinality(Holders(g)) \in Nat
        BY <1>3, <3>1, <3>2, Marking
      <4>2. inUse'[g] = IF g = built THEN 1 ELSE inUse[g] + 1
        BY <1>3, <1>5, <2>1, <2>3, <3>2 DEF Typed, TypeOK
      <4> QED BY <1>3, <1>6, <1>9, <2>1, <3>2, <4>1, <4>2 DEF Counted
    <3>3. CASE g # h
      <4>1. inUse'[g] = IF g = built THEN 0 ELSE inUse[g]
        BY <1>3, <1>5, <2>1, <3>3 DEF Typed, TypeOK
      <4>2. CASE g = claim[t]
        <5>1. g # built /\ ~Pooled(g)'
          BY <1>3, <1>7, <1>8, <3>3, <4>2
        <5>2. /\ Cardinality(Holders(g)') = Cardinality(Holders(g)) - 1
              /\ Cardinality(Holders(g)) \in Nat
          BY <1>3, <3>1, <3>3, <4>2, Unmarking
        <5> QED BY <2>1, <4>1, <5>1, <5>2 DEF Counted
      <4>3. CASE g # claim[t]
        <5>1. Holders(g)' = Holders(g)
          BY <1>3, <3>1, <3>3, <4>3, Marking
        <5> QED BY <1>7, <1>9, <3>3, <4>1, <5>1 DEF Counted
      <4> QED BY <4>2, <4>3
    <3> QED BY <3>2, <3>3
  <2> QED BY <1>4, <2>2, <2>3
<1>11. ASSUME NEW u \in Thread, NEW f \in Handle, pc'[u] \in Loose, claim'[u] = f
       PROVE  ~Pooled(f)'
  <2>1. u # t
    BY <1>5, <1>11 DEF Typed, TypeOK, Loose
  <2>2. pc[u] \in Loose /\ claim[u] = f
    BY <1>5, <1>11, <2>1 DEF Typed, TypeOK
  <2>3. ~Pooled(f) /\ f # built
    BY <1>3, <2>2 DEF Counted
  <2>4. f # h
    BY <1>3, <1>6, <2>3
  <2> QED BY <1>7, <2>2, <2>3, <2>4
<1> QED BY <1>10, <1>11 DEF Counted

LEMMA EndUseCounted ==
  ASSUME Typed, Counted, NEW t \in Thread, EndUse(t)
  PROVE  Counted'
<1> DEFINE h == claim[t]
<1>1. /\ pc[t] = "endUse" /\ h \in Handle /\ h # None
      /\ inUse' = [inUse EXCEPT ![h] = Released(@)]
      /\ claim' = [claim EXCEPT ![t] = None] /\ pc' = [pc EXCEPT ![t] = "idle"]
      /\ pool' = pool
  BY ConstantsAssumption DEF EndUse, Finish, Typed, Roles, Role, Using
<1>2. \A g \in Handle : Pooled(g)' <=> Pooled(g)
  BY <1>1 DEF Pooled
<1>3. ASSUME NEW g \in Handle
      PROVE  /\ Cardinality(Holders(g)') <= inUse'[g]
             /\ Pooled(g)' => inUse'[g] = Cardinality(Holders(g)')
  <2>1. inUse[g] \in Nat /\ g # None
    BY ConstantsAssumption DEF Typed, TypeOK
  <2>2. CASE g = h
    <3>1. /\ Cardinality(Holders(g)') = Cardinality(Holders(g)) - 1
          /\ Cardinality(Holders(g)) \in Nat /\ Cardinality(Holders(g)') \in Nat
      BY <1>1, <2>1, <2>2, Unmarking
    <3>2. inUse'[g] = IF inUse[g] = 0 THEN 0 ELSE inUse[g] - 1
      BY <1>1, <2>2 DEF Released, Typed, TypeOK
    <3> QED BY <1>2, <2>1, <3>1, <3>2 DEF Counted
  <2>3. CASE g # h
    <3>1. Holders(g)' = Holders(g)
      BY <1>1, <2>1, <2>3, Marking
    <3>2. inUse'[g] = inUse[g]
      BY <1>1, <2>3 DEF Typed, TypeOK
    <3> QED BY <1>2, <3>1, <3>2 DEF Counted
  <2> QED BY <2>2, <2>3
<1>4. ASSUME NEW u \in Thread, NEW f \in Handle, pc'[u] \in Loose, claim'[u] = f
      PROVE  ~Pooled(f)'
  <2>1. u # t
    BY <1>1, <1>4 DEF Typed, TypeOK, Loose
  <2>2. pc[u] \in Loose /\ claim[u] = f
    BY <1>1, <1>4, <2>1 DEF Typed, TypeOK
  <2> QED BY <1>2, <2>2 DEF Counted
<1> QED BY <1>3, <1>4 DEF Counted

LEMMA ExpireCounted ==
  ASSUME Typed, Counted, NEW t \in Thread, Expire(t)
  PROVE  Counted'
<1>1. /\ pc[t] = "expire" /\ claim[t] \in Handle /\ claim' = claim /\ inUse' = inUse
      /\ req[t].store \in Store /\ req[t].sid \in Sid
      /\ pool' = [pool EXCEPT ![req[t].store][req[t].sid] = None]
      /\ pc' = [pc EXCEPT ![t] = "closeExpired"]
      /\ sess[claim[t]] \in Session /\ sess[claim[t]].store = req[t].store
      /\ sess[claim[t]].sid = req[t].sid
  BY ConstantsAssumption, Fields DEF Expire, Typed, Roles, Role, Using, Named
<1>2. PoolShrinks
  BY <1>1, SlotCleared
<1>3. \A g \in Handle : Holders(g)' = Holders(g)
  BY <1>1 DEF Holders
<1>4. ASSUME NEW f \in Handle, claim[t] = f PROVE ~Pooled(f)'
  <2>1. \A st \in Store, sid \in Sid : pool[st][sid] = f => st = req[t].store /\ sid = req[t].sid
    BY <1>1, <1>4, ConstantsAssumption DEF Typed, Named
  <2>2. pool'[req[t].store][req[t].sid] = None /\ f # None
    BY <1>1, <1>4, ConstantsAssumption DEF Typed, TypeOK
  <2> QED BY <1>2, <2>1, <2>2 DEF Pooled, PoolShrinks
<1>5. ASSUME NEW u \in Thread, NEW f \in Handle, pc'[u] \in Loose, claim'[u] = f
      PROVE  ~Pooled(f)'
  <2>1. CASE u = t
    BY <1>1, <1>4, <1>5, <2>1
  <2>2. CASE u # t
    BY <1>1, <1>2, <1>5, <2>2, ShrinkKeeps DEF Counted, Typed, TypeOK
  <2> QED BY <2>1, <2>2
<1> QED BY <1>1, <1>2, <1>3, <1>5, ShrinkKeeps DEF Counted

\* The steps of a request that only move on, and those that close a browser.
LEMMA CountedNext ==
  ASSUME Typed, Counted, [Next]_vars
  PROVE  Counted'
<1> USE ConstantsAssumption
<1>1. CASE UNCHANGED vars
  BY <1>1, SameMarks DEF vars, PoolShrinks
<1>2. ASSUME NEW t \in Thread, Arrive(t) PROVE Counted'
  <2>1. /\ pc[t] = "idle" /\ claim[t] = None /\ UNCHANGED <<pool, inUse, claim>>
        /\ \A u \in Thread : u # t => pc'[u] = pc[u]
    BY <1>2 DEF Arrive, BeginSolve, BeginCreate, BeginDestroy, Typed, TypeOK, Roles, Role
  <2> QED BY <2>1, SameMarks DEF PoolShrinks
<1>3. ASSUME NEW t \in Thread, Remember(t) \/ CloseExtra(t) \/ Discard(t) \/ ClosePopped(t),
             req[t].op # "solve"
      PROVE  Counted'
  <2>1. claim[t] = None /\ inUse' = inUse
    BY <1>3 DEF Remember, CloseExtra, Discard, ClosePopped, Typed, Roles, Role
  <2>2. PoolShrinks
    <3>1. CASE Discard(t)
      BY <3>1, Fields, SlotCleared DEF Discard
    <3> QED BY <1>3, <3>1 DEF Remember, CloseExtra, ClosePopped, PoolShrinks
  <2>3. Finish(t) \/ (pc[t] = "discard" /\ claim' = claim /\ Goto(t, "closePopped"))
    BY <1>3 DEF Remember, CloseExtra, Discard, ClosePopped
  <2>4. CASE pc[t] = "discard" /\ claim' = claim /\ Goto(t, "closePopped")
    BY <2>1, <2>2, <2>4, SameMarks DEF Loose, Typed, TypeOK
  <2> QED BY <2>1, <2>2, <2>3, <2>4, FinishCounted
<1>4. ASSUME NEW t \in Thread, Remember(t) \/ CloseExtra(t) \/ Discard(t) \/ ClosePopped(t),
             req[t].op = "solve"
      PROVE  Counted'
  <2>1. claim' = claim /\ inUse' = inUse
    BY <1>4 DEF Remember, CloseExtra, Discard, ClosePopped
  <2>2. PoolShrinks
    <3>1. CASE Discard(t)
      BY <3>1, Fields, SlotCleared DEF Discard
    <3> QED BY <1>4, <3>1 DEF Remember, CloseExtra, ClosePopped, PoolShrinks
  <2>3. \E step \in Step \ Loose : Goto(t, step)
    BY <1>4 DEF Remember, CloseExtra, Discard, ClosePopped, Step, Loose
  <2> QED BY <2>1, <2>2, <2>3, SameMarks DEF Typed, TypeOK
<1>5. ASSUME NEW t \in Thread,
             \/ LookupMisses(t) \/ StillFresh(t) \/ CloseExpired(t)
             \/ Acquire(t) \/ AcquireTimesOut(t) \/ Enter(t) \/ EnterTimesOut(t)
             \/ SolveEnds(t) \/ SolveTimesOut(t) \/ Release(t)
      PROVE  Counted'
  <2>1. UNCHANGED <<pool, inUse, claim>>
    BY <1>5 DEF LookupMisses, StillFresh, CloseExpired, Acquire, AcquireTimesOut, Enter,
                EnterTimesOut, SolveEnds, SolveTimesOut, Release
  <2>2. /\ \A u \in Thread : u # t => pc'[u] = pc[u]
        /\ pc'[t] \in Loose => pc[t] \in Loose
    BY <1>5 DEF LookupMisses, StillFresh, CloseExpired, Acquire, AcquireTimesOut, Enter,
                EnterTimesOut, SolveEnds, SolveTimesOut, AfterTimeout, IsChrome, Release,
                Loose, Typed, TypeOK
  <2> QED BY <2>1, <2>2, SameMarks DEF PoolShrinks
<1>6. ASSUME NEW t \in Thread, BuildFails(t) PROVE Counted'
  BY <1>6, FinishCounted DEF BuildFails, PoolShrinks, Loose
<1>7. ASSUME Clean PROVE Counted'
  <2>1. UNCHANGED <<inUse, claim, pc>> /\ (pool' = pool \/ \E H : pool' = Without(H))
    BY <1>7 DEF Clean, ReapIdle, EnforceCap, ReaperCloses, ReaperMovesOn
  <2> QED BY <2>1, WithoutShrinks, SameMarks DEF PoolShrinks
<1>8. ASSUME Tick \/ \E h \in Handle : StrayStops(h) PROVE Counted'
  BY <1>8, SameMarks DEF Tick, StrayStops, PoolShrinks
<1> QED
  BY <1>1, <1>2, <1>3, <1>4, <1>5, <1>6, <1>7, <1>8, LookupFindsCounted, PublishCounted,
     EndUseCounted, ExpireCounted DEF Next, Serve

\* The in-use counter of a session a lookup can find is exactly the number of
\* requests whose mark is on it (_claim and end_use).
THEOREM InUseIsExact == Spec => []ClaimsCounted
<1>1. Init => Typed /\ Counted
  BY TypedInit, CountedInit
<1>2. Typed /\ Counted /\ [Next]_vars => (Typed /\ Counted)'
  BY TypedNext, CountedNext
<1>3. Counted => ClaimsCounted
  BY DEF Counted, ClaimsCounted
<1> QED BY <1>1, <1>2, <1>3, PTL DEF Spec

-----------------------------------------------------------------------------
(* Visiting *)

\* The cleanup thread works on one store at a time, and closes all it popped
\* before it pops again.
Visiting ==
  /\ reaper.step # "wait" => reaper.store \in Store
  /\ reaper.step \in {"wait", "enforceCap"} => reaper.popped = {}

LEMMA VisitingNext ==
  ASSUME Typed, Visiting, [Next]_vars
  PROVE  Visiting'
<1>1. ASSUME Clean PROVE Visiting'
  <2>1. ASSUME NEW st \in Store, ReapIdle(st) PROVE Visiting'
    BY <2>1 DEF ReapIdle, Visiting
  <2>2. ASSUME EnforceCap PROVE Visiting'
    BY <2>2 DEF EnforceCap, Visiting, Typed, TypeOK
  <2>3. ASSUME NEW h \in Handle, ReaperCloses(h) PROVE Visiting'
    BY <2>3 DEF ReaperCloses, Visiting, Typed, TypeOK
  <2>4. ASSUME ReaperMovesOn PROVE Visiting'
    BY <2>4 DEF ReaperMovesOn, Visiting, Typed, TypeOK
  <2> QED BY <1>1, <2>1, <2>2, <2>3, <2>4 DEF Clean
<1>2. ASSUME UNCHANGED reaper PROVE Visiting'
  BY <1>2 DEF Visiting
<1>3. ASSUME NEW t \in Thread, Arrive(t) \/ Serve(t) PROVE UNCHANGED reaper
  <2>1. CASE Publish(t)
    BY <2>1 DEF Publish, PublishAs
  <2> QED BY <1>3, <2>1 DEF Arrive, BeginSolve, BeginCreate, BeginDestroy, Serve, LookupFinds,
      LookupMisses, BuildFails, Remember, CloseExtra, Expire, StillFresh, CloseExpired,
      Acquire, AcquireTimesOut, Enter, EnterTimesOut, SolveEnds, SolveTimesOut, Discard,
      ClosePopped, Release, EndUse
<1>4. ASSUME Tick \/ (\E h \in Handle : StrayStops(h)) \/ UNCHANGED vars PROVE UNCHANGED reaper
  BY <1>4 DEF Tick, StrayStops, vars
<1> QED BY <1>1, <1>2, <1>3, <1>4 DEF Next

-----------------------------------------------------------------------------
(* Apart *)

\* Closers that have no mark on what they close, and the one that has.
Taken(h) == h \in reaper.popped \/ \E t \in Thread : pc[t] = "closeExtra" /\ mine[t] = h
PoppedBy(t, h) == pc[t] = "closePopped" /\ mine[t] = h
ExpiredBy(t, h) == pc[t] = "closeExpired" /\ claim[t] = h

\* A pooled session runs and nobody is about to close it; a taken one has no mark on
\* it, and an expired one only its closer's.
Apart ==
  /\ \A h \in Handle : Pooled(h) => live[h] /\ ~Condemned(h)
  /\ \A h \in Handle : Taken(h) => Holders(h) = {}
  /\ \A t \in Thread, h \in Handle : ExpiredBy(t, h) => Holders(h) \subseteq {t}

LEMMA CondemnedBy ==
  ASSUME NEW h \in Handle
  PROVE  Condemned(h) <=> \/ Taken(h)
                          \/ \E t \in Thread : PoppedBy(t, h) \/ ExpiredBy(t, h)
  BY DEF Condemned, Taken, PoppedBy, ExpiredBy

LEMMA ApartInit == Init => Apart
<1> SUFFICES ASSUME Init PROVE Apart
  OBVIOUS
<1>1. \A h \in Handle : Holders(h) = {} /\ ~Pooled(h)
  BY ConstantsAssumption DEF Init, Holders, Pooled
<1> QED BY <1>1 DEF Init, Apart, Taken, ExpiredBy

\* No new session in the pool, no new mark, and only condemned ones are closed.
LEMMA StaysApart ==
  ASSUME Apart,
         \A h \in Handle : Pooled(h)' => Pooled(h),
         \A h \in Handle : live[h] /\ ~live'[h] => Condemned(h),
         \A h \in Handle : Holders(h)' \subseteq Holders(h),
         \A h \in Handle : Condemned(h)' => Condemned(h) \/ ~Pooled(h)',
         \A h \in Handle : Taken(h)' => Taken(h) \/ Holders(h) = {},
         \A t \in Thread, h \in Handle :
           ExpiredBy(t, h)' => ExpiredBy(t, h) \/ Holders(h) \subseteq {t}
  PROVE  Apart'
<1>1. ASSUME NEW h \in Handle, Pooled(h)' PROVE live'[h] /\ ~Condemned(h)'
  BY <1>1 DEF Apart
<1>2. ASSUME NEW h \in Handle, Taken(h)' PROVE Holders(h)' = {}
  BY <1>2 DEF Apart
<1>3. ASSUME NEW t \in Thread, NEW h \in Handle, ExpiredBy(t, h)'
      PROVE  Holders(h)' \subseteq {t}
  BY <1>3 DEF Apart
<1> QED BY <1>1, <1>2, <1>3 DEF Apart

\* A thread that moves on to a step that closes nothing, keeps its mark or drops it,
\* and has closed at most what it was about to close.
LEMMA MovesOnApart ==
  ASSUME Typed, Apart, PoolShrinks, reaper' = reaper, NEW t \in Thread,
         \A u \in Thread \ {t} : pc'[u] = pc[u] /\ claim'[u] = claim[u] /\ mine'[u] = mine[u],
         pc'[t] \notin {"closeExtra", "closePopped", "closeExpired"},
         claim'[t] \in {claim[t], None},
         \A h \in Handle : live[h] /\ ~live'[h] => Condemned(h)
  PROVE  Apart'
<1>1. \A h \in Handle : Pooled(h)' => Pooled(h)
  BY ShrinkKeeps
<1>2. \A h \in Handle : Holders(h)' \subseteq Holders(h)
  BY ConstantsAssumption DEF Holders
<1>3. \A h \in Handle : Taken(h)' => Taken(h)
  BY DEF Taken
<1>4. \A u \in Thread, h \in Handle : ExpiredBy(u, h)' => ExpiredBy(u, h)
  BY DEF ExpiredBy
<1>5. \A h \in Handle : Condemned(h)' => Condemned(h)
  BY DEF Condemned
<1> QED BY <1>1, <1>2, <1>3, <1>4, <1>5, StaysApart

\* A step of the cleanup that pops sessions nobody has a mark on.
LEMMA PopsApart ==
  ASSUME Typed, Counted, Apart, NEW H \in SUBSET Handle, pool' = Without(H),
         \A h \in H : Pooled(h) /\ inUse[h] = 0,
         reaper'.popped = H, UNCHANGED <<live, pc, claim, mine>>
  PROVE  Apart'
<1>1. \A h \in Handle : Pooled(h)' => Pooled(h)
  BY WithoutShrinks, ShrinkKeeps
<1>2. \A h \in H : ~Pooled(h)'
  BY ConstantsAssumption DEF Pooled, Without, Typed, TypeOK
<1>3. ASSUME NEW h \in H PROVE Holders(h) = {}
  <2>1. IsFiniteSet(Holders(h))
    BY ConstantsAssumption, FS_Subset DEF Holders
  <2>2. Cardinality(Holders(h)) = 0
    BY DEF Counted
  <2> QED BY <2>1, <2>2, FS_EmptySet
<1>4. \A h \in Handle : Holders(h)' = Holders(h)
  BY DEF Holders
<1>5. \A h \in Handle : Taken(h)' => Taken(h) \/ h \in H
  BY DEF Taken
<1>6. \A h \in Handle : Condemned(h)' => Condemned(h) \/ h \in H
  BY DEF Condemned
<1>7. \A t \in Thread, h \in Handle : ExpiredBy(t, h)' => ExpiredBy(t, h)
  BY DEF ExpiredBy
<1> QED BY <1>1, <1>2, <1>3, <1>4, <1>5, <1>6, <1>7, StaysApart

\* A request is handed the session it found: pooled, so in nobody else's hands.
LEMMA ClaimApart ==
  ASSUME Typed, Apart, NEW t \in Thread, NEW h \in Handle, Pooled(h),
         pc[t] = "lookup", Claim(t, h), Goto(t, "expire"),
         UNCHANGED <<pool, live, mine, reaper>>
  PROVE  Apart'
<1>1. /\ claim' = [claim EXCEPT ![t] = h] /\ pc' = [pc EXCEPT ![t] = "expire"]
      /\ \A f \in Handle : Pooled(f)' <=> Pooled(f)
  BY DEF Claim, Pooled
<1>2. \A f \in Handle : Taken(f)' <=> Taken(f)
  BY <1>1 DEF Taken, Typed, TypeOK
<1>3. \A u \in Thread, f \in Handle : ExpiredBy(u, f)' <=> ExpiredBy(u, f)
  BY <1>1 DEF ExpiredBy, Typed, TypeOK
<1>4. \A f \in Handle : Condemned(f)' => Condemned(f)
  BY <1>1 DEF Condemned, Typed, TypeOK
<1>5. \A f \in Handle : f # h => Holders(f)' \subseteq Holders(f)
  BY <1>1 DEF Holders, Typed, TypeOK
<1>6. ~Condemned(h)
  BY DEF Apart
<1>7. ~Taken(h) /\ \A u \in Thread : ~ExpiredBy(u, h)
  BY <1>6, CondemnedBy
<1>8. ASSUME NEW f \in Handle, Taken(f)' PROVE Holders(f)' = {}
  BY <1>2, <1>5, <1>7, <1>8 DEF Apart
<1>9. ASSUME NEW u \in Thread, NEW f \in Handle, ExpiredBy(u, f)'
      PROVE  Holders(f)' \subseteq {u}
  BY <1>3, <1>5, <1>7, <1>9 DEF Apart
<1>10. ASSUME NEW f \in Handle, Pooled(f)' PROVE live'[f] /\ ~Condemned(f)'
  BY <1>1, <1>4, <1>10 DEF Apart
<1> QED BY <1>8, <1>9, <1>10 DEF Apart

\* Storing a browser that nothing referred to, or setting it aside for its builder
\* to close.
LEMMA PublishApart ==
  ASSUME Typed, Counted, Apart, NEW t \in Thread, Publish(t)
  PROVE  Apart'
<1> DEFINE race == At(req[t].store, req[t].sid)
<1>1. PICK built \in Handle : PublishAs(t, built)
  BY DEF Publish
<1> DEFINE h == Stored(race, built)
<1>2. /\ req[t].store \in Store /\ req[t].sid \in Sid /\ race \in Handle \cup {None}
      /\ pc[t] = "build" /\ Collected(built)
  BY <1>1, Fields DEF PublishAs
<1>3. /\ h \in Handle /\ (race = None => h = built) /\ (race # None => h = race)
      /\ built # None /\ ~Pooled(built) /\ race # built
      /\ \A u \in Thread : claim[u] # built /\ mine[u] # built
      /\ built \notin reaper.popped
  BY <1>2, ConstantsAssumption DEF Stored, Collected, At, Pooled
<1>4. /\ pool' = [pool EXCEPT ![req[t].store][req[t].sid] = h]
      /\ claim' = [claim EXCEPT ![t] = IF Marks(t) = 1 THEN h ELSE @]
      /\ mine' = [mine EXCEPT ![t] = IF race = None THEN None ELSE built]
      /\ pc' = [pc EXCEPT ![t] = IF race = None THEN "remember" ELSE "closeExtra"]
      /\ live' = [live EXCEPT ![built] = TRUE] /\ reaper' = reaper
  BY <1>1 DEF PublishAs
<1>5. race # None => Pooled(race)
  BY <1>2 DEF At, Pooled
<1>6. \A f \in Handle : Pooled(f)' => f = h \/ Pooled(f)
  BY <1>2, <1>3, <1>4 DEF Pooled, Typed, TypeOK
<1> HIDE DEF race, h
<1>7. \A f \in Handle : Taken(f)' => Taken(f) \/ (f = built /\ race # None)
  BY <1>2, <1>3, <1>4, ConstantsAssumption DEF Taken, Typed, TypeOK
<1>8. \A u \in Thread, f \in Handle : ExpiredBy(u, f)' => ExpiredBy(u, f)
  BY <1>2, <1>4 DEF ExpiredBy, Typed, TypeOK
<1>9. \A f \in Handle : Condemned(f)' => Condemned(f) \/ (f = built /\ race # None)
  BY <1>2, <1>3, <1>4, ConstantsAssumption DEF Condemned, Typed, TypeOK
<1>10. \A f \in Handle : f # h => Holders(f)' \subseteq Holders(f)
  BY <1>4 DEF Holders, Typed, TypeOK
<1>11. Holders(built) = {} /\ ~Condemned(built)
  BY <1>2, <1>3 DEF Holders, Condemned
<1>12. ~Condemned(h)
  BY <1>3, <1>5, <1>11 DEF Apart
<1>13. ~Taken(h) /\ \A u \in Thread : ~ExpiredBy(u, h)
  BY <1>3, <1>12, CondemnedBy
<1>14. ASSUME NEW f \in Handle, Taken(f)' PROVE Holders(f)' = {}
  BY <1>3, <1>7, <1>10, <1>11, <1>13, <1>14 DEF Apart
<1>15. ASSUME NEW u \in Thread, NEW f \in Handle, ExpiredBy(u, f)'
       PROVE  Holders(f)' \subseteq {u}
  BY <1>3, <1>8, <1>10, <1>13, <1>15 DEF Apart
<1>16. ASSUME NEW f \in Handle, Pooled(f)' PROVE live'[f] /\ ~Condemned(f)'
  <2>1. live'[f] = IF f = built THEN TRUE ELSE live[f]
    BY <1>4 DEF Typed, TypeOK
  <2> QED BY <1>3, <1>5, <1>6, <1>9, <1>12, <1>16, <2>1 DEF Apart
<1> QED BY <1>14, <1>15, <1>16 DEF Apart

\* The one mark on an expiring session is its closer's.
LEMMA ExpireApart ==
  ASSUME Typed, Counted, Apart, NEW t \in Thread, Expire(t), Counted'
  PROVE  Apart'
<1>1. /\ pc[t] = "expire" /\ claim[t] \in Handle /\ inUse[claim[t]] = 1
      /\ req[t].store \in Store /\ req[t].sid \in Sid
      /\ pool' = [pool EXCEPT ![req[t].store][req[t].sid] = None]
      /\ pc' = [pc EXCEPT ![t] = "closeExpired"]
      /\ UNCHANGED <<claim, mine, live, reaper>>
  BY Fields DEF Expire, Expired, Typed, Roles, Role, Using
<1>2. \A h \in Handle : Pooled(h)' => Pooled(h)
  BY <1>1, SlotCleared, ShrinkKeeps
<1>3. ASSUME NEW h \in Handle, claim[t] = h PROVE Holders(h) \subseteq {t} /\ ~Pooled(h)'
  <2>1. t \in Holders(h) /\ IsFiniteSet(Holders(h)) /\ Cardinality(Holders(h)) <= 1
    BY <1>1, <1>3, ConstantsAssumption, FS_Subset DEF Holders, Counted
  <2>2. Cardinality(Holders(h) \ {t}) = Cardinality(Holders(h)) - 1
        /\ IsFiniteSet(Holders(h) \ {t})
    BY <2>1, FS_RemoveElement
  <2>3. Cardinality(Holders(h) \ {t}) = 0
    BY <2>1, <2>2, FS_CardinalityType
  <2>4. Holders(h) \ {t} = {}
    BY <2>2, <2>3, FS_EmptySet
  <2>5. ~Pooled(h)'
    BY <1>1, <1>3 DEF Counted, Loose, Typed, TypeOK
  <2> QED BY <2>4, <2>5
<1>4. \A h \in Handle : Holders(h)' = Holders(h)
  BY <1>1 DEF Holders
<1>5. \A h \in Handle : Taken(h)' => Taken(h)
  BY <1>1 DEF Taken, Typed, TypeOK
<1>6. \A u \in Thread, h \in Handle : ExpiredBy(u, h)' => ExpiredBy(u, h) \/ (u = t /\ claim[t] = h)
  BY <1>1 DEF ExpiredBy, Typed, TypeOK
<1>7. \A h \in Handle : Condemned(h)' => Condemned(h) \/ claim[t] = h
  BY <1>1 DEF Condemned, Typed, TypeOK
<1> QED BY <1>1, <1>2, <1>3, <1>4, <1>5, <1>6, <1>7, StaysApart

LEMMA DiscardApart ==
  ASSUME Typed, Apart, NEW t \in Thread, Discard(t)
  PROVE  Apart'
<1> DEFINE h == At(req[t].store, req[t].sid)
<1>1. /\ pc[t] = "discard" /\ h \in Handle \cup {None}
      /\ req[t].store \in Store /\ req[t].sid \in Sid
      /\ pool' = [pool EXCEPT ![req[t].store][req[t].sid] = None]
      /\ live' = live /\ reaper' = reaper
  BY Fields DEF Discard
<1>2. PoolShrinks
  BY <1>1, SlotCleared
<1>3. CASE h # None /\ mine' = [mine EXCEPT ![t] = h] /\ Goto(t, "closePopped")
             /\ UNCHANGED <<req, claim>>
  <2> PICK k \in Handle : k = h
    BY <1>1, <1>3
  <2>1. ~Pooled(k)'
    <3>1. \A st \in Store, sid \in Sid : pool[st][sid] = k => st = req[t].store /\ sid = req[t].sid
      <4>1. pool[req[t].store][req[t].sid] = k /\ k # None
        BY ConstantsAssumption DEF At
      <4> HIDE DEF h
      <4> QED BY <1>1, <4>1 DEF Typed, Named
    <3>2. pool'[req[t].store][req[t].sid] # k
      BY <1>1, ConstantsAssumption DEF Typed, TypeOK
    <3> HIDE DEF h
    <3> QED BY <1>2, <3>1, <3>2, ConstantsAssumption DEF Pooled, PoolShrinks
  <2> HIDE DEF h
  <2>2. \A f \in Handle : Pooled(f)' => Pooled(f)
    BY <1>2, ShrinkKeeps
  <2>3. \A f \in Handle : Holders(f)' = Holders(f)
    BY <1>3 DEF Holders
  <2>4. \A f \in Handle : Taken(f)' => Taken(f)
    BY <1>1, <1>3 DEF Taken, Typed, TypeOK
  <2>5. \A u \in Thread, f \in Handle : ExpiredBy(u, f)' => ExpiredBy(u, f)
    BY <1>1, <1>3 DEF ExpiredBy, Typed, TypeOK
  <2>6. \A f \in Handle : Condemned(f)' => Condemned(f) \/ f = k
    BY <1>1, <1>3 DEF Condemned, Typed, TypeOK
  <2> QED BY <1>1, <2>1, <2>2, <2>3, <2>4, <2>5, <2>6, StaysApart
<1>4. CASE (Goto(t, "release") /\ UNCHANGED <<localVars>>) \/ Finish(t)
  BY <1>1, <1>2, <1>4, MovesOnApart DEF Finish, Typed, TypeOK
<1> QED BY <1>3, <1>4 DEF Discard

\* Only what was condemned is ever closed.
LEMMA ClosesCondemned ==
  ASSUME Typed, [Next]_vars, NEW h \in Handle, live[h], ~live'[h]
  PROVE  \/ \E t \in Thread : CloseExtra(t) /\ pc[t] = "closeExtra" /\ mine[t] = h
         \/ \E t \in Thread : ClosePopped(t) /\ PoppedBy(t, h)
         \/ \E t \in Thread : CloseExpired(t) /\ ExpiredBy(t, h)
         \/ ReaperCloses(h)
<1> USE ConstantsAssumption
<1>1. live' # live
  OBVIOUS
<1>2. ASSUME NEW t \in Thread, Publish(t) PROVE FALSE
  BY <1>2 DEF Publish, PublishAs, Typed, TypeOK
<1>3. ASSUME NEW t \in Thread, CloseExtra(t) PROVE pc[t] = "closeExtra" /\ mine[t] = h
  BY <1>3 DEF CloseExtra, Close, Extra, Typed, TypeOK
<1>4. ASSUME NEW t \in Thread, ClosePopped(t) PROVE PoppedBy(t, h)
  BY <1>4 DEF ClosePopped, Close, PoppedBy, Typed, TypeOK
<1>5. ASSUME NEW t \in Thread, CloseExpired(t) PROVE ExpiredBy(t, h)
  BY <1>5 DEF CloseExpired, Close, ExpiredBy, Typed, TypeOK
<1>6. ASSUME NEW g \in Handle, ReaperCloses(g) PROVE g = h
  BY <1>6 DEF ReaperCloses, Close, Typed, TypeOK
<1>7. ASSUME NEW t \in Thread,
             \/ LookupFinds(t) \/ LookupMisses(t) \/ BuildFails(t) \/ Remember(t)
             \/ Expire(t) \/ StillFresh(t) \/ Acquire(t) \/ AcquireTimesOut(t) \/ Enter(t)
             \/ EnterTimesOut(t) \/ SolveEnds(t) \/ SolveTimesOut(t) \/ Discard(t)
             \/ Release(t) \/ EndUse(t) \/ Arrive(t)
      PROVE  live' = live
  BY <1>7 DEF LookupFinds, LookupMisses, BuildFails, Remember, Expire, StillFresh, Acquire,
    AcquireTimesOut, Enter, EnterTimesOut, SolveEnds, SolveTimesOut, Discard, Release, EndUse,
    Arrive, BeginSolve, BeginCreate, BeginDestroy
<1>8. ASSUME Tick \/ ReaperMovesOn \/ EnforceCap \/ (\E st \in Store : ReapIdle(st))
             \/ (\E g \in Handle : StrayStops(g)) \/ UNCHANGED vars
      PROVE  live' = live
  BY <1>8 DEF Tick, ReaperMovesOn, EnforceCap, ReapIdle, StrayStops, vars
<1> QED
  BY <1>1, <1>2, <1>3, <1>4, <1>5, <1>6, <1>7, <1>8 DEF Next, Serve, Clean

LEMMA ApartNext ==
  ASSUME Typed, Counted, Visiting, Apart, [Next]_vars, Counted'
  PROVE  Apart'
<1> USE ConstantsAssumption
<1>1. \A h \in Handle : live[h] /\ ~live'[h] => Condemned(h)
  BY ClosesCondemned DEF Condemned, PoppedBy, ExpiredBy, ReaperCloses
<1>2. ASSUME UNCHANGED <<pool, live, pc, claim, mine>>, reaper'.popped \subseteq reaper.popped
             \/ reaper' = reaper
      PROVE  Apart'
  BY <1>2 DEF Apart, Pooled, Condemned, Taken, ExpiredBy, Holders
<1>3. CASE Clean
  <2>1. ASSUME NEW st \in Store, ReapIdle(st) PROVE Apart'
    <3>1. \A h \in IdleIn(st) : h \in Handle /\ Pooled(h) /\ inUse[h] = 0
      BY DEF IdleIn, PooledIn, Pooled
    <3> QED BY <2>1, <3>1, PopsApart DEF ReapIdle
  <2>2. ASSUME EnforceCap PROVE Apart'
    <3>1. PICK E \in Evictable(reaper.store) :
            /\ pool' = Without(E)
            /\ reaper' = [reaper EXCEPT !.step = "closeOver", !.popped = E]
            /\ UNCHANGED <<live, pc, claim, mine>>
      BY <2>2 DEF EnforceCap
    <3>2. reaper'.popped = E
      BY <3>1 DEF Typed, TypeOK
    <3>3. CASE E = {}
      BY <3>1, <3>2, <3>3, PopsApart
    <3>4. CASE E # {}
      <4>1. reaper.store \in Store /\ \A h \in E : h \in PooledIn(reaper.store) /\ inUse[h] = 0
        BY <2>2, <3>1, <3>4 DEF EnforceCap, Visiting, Evictable
      <4>2. \A h \in E : h \in Handle /\ Pooled(h) /\ inUse[h] = 0
        BY <4>1 DEF PooledIn, Pooled
      <4> QED BY <3>1, <3>2, <4>2, PopsApart
    <3> QED BY <3>3, <3>4
  <2>3. ASSUME NEW h \in Handle, ReaperCloses(h) PROVE Apart'
    <3>1. /\ UNCHANGED <<pool, pc, claim, mine>> /\ reaper'.popped \subseteq reaper.popped
      BY <2>3 DEF ReaperCloses, Typed, TypeOK
    <3>2. \A f \in Handle : (Pooled(f)' <=> Pooled(f)) /\ Holders(f)' = Holders(f)
      BY <3>1 DEF Pooled, Holders
    <3>3. \A f \in Handle : (Taken(f)' => Taken(f)) /\ (Condemned(f)' => Condemned(f))
      BY <3>1 DEF Taken, Condemned
    <3>4. \A u \in Thread, f \in Handle : ExpiredBy(u, f)' => ExpiredBy(u, f)
      BY <3>1 DEF ExpiredBy
    <3> QED BY <1>1, <3>2, <3>3, <3>4, StaysApart
  <2>4. ASSUME ReaperMovesOn PROVE Apart'
    <3>1. UNCHANGED <<pool, live, pc, claim, mine>>
      BY <2>4 DEF ReaperMovesOn
    <3>2. reaper'.popped = reaper.popped
      BY <2>4 DEF ReaperMovesOn, Typed, TypeOK
    <3> QED BY <1>2, <3>1, <3>2
  <2> QED BY <1>3, <2>1, <2>2, <2>3, <2>4 DEF Clean
<1>4. CASE Tick \/ (\E h \in Handle : StrayStops(h)) \/ UNCHANGED vars
  BY <1>2, <1>4 DEF Tick, StrayStops, vars
<1>5. ASSUME NEW t \in Thread, LookupFinds(t) PROVE Apart'
  <2> DEFINE h == At(req[t].store, req[t].sid)
  <2>1. pc[t] = "lookup" /\ h \in Handle /\ Pooled(h) /\ UNCHANGED <<pool, live, reaper>>
    BY <1>5, Fields DEF LookupFinds, At, Pooled
  <2> HIDE DEF h
  <2>2. CASE Claim(t, h) /\ Goto(t, "expire") /\ UNCHANGED <<req, mine>>
    BY <2>1, <2>2, ClaimApart
  <2>3. CASE Finish(t)
    BY <1>1, <2>1, <2>3, MovesOnApart DEF Finish, PoolShrinks, Typed, TypeOK
  <2> QED BY <1>5, <2>2, <2>3 DEF LookupFinds, h
<1>6. ASSUME NEW t \in Thread,
             \/ Arrive(t) \/ LookupMisses(t) \/ BuildFails(t) \/ Remember(t) \/ CloseExtra(t)
             \/ StillFresh(t) \/ CloseExpired(t) \/ Acquire(t) \/ AcquireTimesOut(t)
             \/ Enter(t) \/ EnterTimesOut(t) \/ SolveEnds(t) \/ SolveTimesOut(t)
             \/ ClosePopped(t) \/ Release(t) \/ EndUse(t)
      PROVE  Apart'
  <2>1. pool' = pool /\ reaper' = reaper
    BY <1>6 DEF Arrive, BeginSolve, BeginCreate, BeginDestroy, LookupMisses, BuildFails,
      Remember, CloseExtra, StillFresh, CloseExpired, Acquire, AcquireTimesOut, Enter,
      EnterTimesOut, SolveEnds, SolveTimesOut, ClosePopped, Release, EndUse
  <2>2. \E step \in Step \ {"closeExtra", "closePopped", "closeExpired"} : Goto(t, step)
    BY <1>6 DEF Arrive, BeginSolve, BeginCreate, BeginDestroy, LookupMisses, BuildFails,
      Remember, CloseExtra, StillFresh, CloseExpired, Acquire, AcquireTimesOut, Enter,
      EnterTimesOut, SolveEnds, SolveTimesOut, AfterTimeout, ClosePopped, Release, EndUse,
      Finish, Step
  <2>3. (claim' = claim \/ claim' = [claim EXCEPT ![t] = None])
        /\ (mine' = mine \/ mine' = [mine EXCEPT ![t] = None])
    BY <1>6 DEF Arrive, BeginSolve, BeginCreate, BeginDestroy, LookupMisses, BuildFails,
      Remember, CloseExtra, StillFresh, CloseExpired, Acquire, AcquireTimesOut, Enter,
      EnterTimesOut, SolveEnds, SolveTimesOut, ClosePopped, Release, EndUse, Finish
  <2> QED BY <1>1, <2>1, <2>2, <2>3, MovesOnApart DEF PoolShrinks, Typed, TypeOK
<1> QED
  BY <1>3, <1>4, <1>5, <1>6, PublishApart, ExpireApart, DiscardApart DEF Next, Serve

\* The layers so far, as one inductive invariant.
Layers == Typed /\ Counted /\ Visiting /\ Apart

LEMMA LayersHold == Spec => []Layers
<1>1. Init => Layers
  BY TypedInit, CountedInit, ApartInit DEF Layers, Visiting, Init
<1>2. Layers /\ [Next]_vars => Layers'
  BY TypedNext, CountedNext, VisitingNext, ApartNext DEF Layers
<1> QED BY <1>1, <1>2, PTL DEF Spec

\* A session that a lookup can find always has a running browser.
THEOREM PooledRuns == Spec => []PoolServesLive
<1>1. Layers => PoolServesLive
  BY DEF Layers, Apart, PoolServesLive
<1> QED BY <1>1, LayersHold, PTL

\* Neither the cleanup, the cap nor an expired lifetime closes a browser that a
\* request other than the closer has marked in use.
THEOREM InUseIsSpared == Spec => SparesSessionsInUse
<1> DEFINE Spared == \A h \in Handle : live[h] /\ ~live'[h] =>
       \/ \E t \in Thread : pc[t] = "closePopped" /\ mine[t] = h
       \/ \A u \in Thread : claim[u] = h => pc[u] = "closeExpired" /\ pc'[u] = "lookup"
<1>1. Layers /\ [Next]_vars => [Spared]_vars
  <2> SUFFICES ASSUME Typed, Apart, [Next]_vars, NEW h \in Handle, live[h], ~live'[h],
                      \A t \in Thread : ~PoppedBy(t, h)
               PROVE  \A u \in Thread : claim[u] = h => pc[u] = "closeExpired" /\ pc'[u] = "lookup"
    BY DEF Layers, PoppedBy
  <2>1. CASE Taken(h)
    BY <2>1 DEF Apart, Holders
  <2>2. CASE \E t \in Thread : CloseExpired(t) /\ ExpiredBy(t, h)
    <3>1. PICK t \in Thread : CloseExpired(t) /\ ExpiredBy(t, h)
      BY <2>2
    <3>2. pc[t] = "closeExpired" /\ pc'[t] = "lookup" /\ Holders(h) \subseteq {t}
      BY <3>1 DEF CloseExpired, Apart, Typed, TypeOK
    <3> QED BY <3>2 DEF Holders
  <2> QED BY <2>1, <2>2, ClosesCondemned DEF Taken, ReaperCloses
<1> QED BY <1>1, LayersHold, PTL DEF Spec, SparesSessionsInUse

-----------------------------------------------------------------------------
(* Locked *)

\* From taking its session's lock to letting it go.
Driving(t) == \/ pc[t] \in {"enter", "solve", "release"}
              \/ pc[t] \in {"discard", "closePopped"} /\ req[t].op = "solve"

Locked == \A t \in Thread, h \in Handle : Driving(t) /\ claim[t] = h => lock[h] = t

\* What a thread's step leaves of every other thread.
Alone(t) == \A u \in Thread \ {t} :
  pc'[u] = pc[u] /\ claim'[u] = claim[u] /\ req'[u] = req[u] /\ mine'[u] = mine[u]

LEMMA ThreadAlone ==
  ASSUME Typed, NEW t \in Thread, Arrive(t) \/ Serve(t)
  PROVE  Alone(t)
<1>1. CASE Arrive(t)
  BY <1>1 DEF Arrive, BeginSolve, BeginCreate, BeginDestroy, Alone, Typed, TypeOK
<1>2. CASE LookupFinds(t) \/ BuildFails(t) \/ Remember(t) \/ CloseExtra(t) \/ Discard(t)
           \/ ClosePopped(t) \/ EndUse(t)
  BY <1>2 DEF LookupFinds, Claim, BuildFails, Remember, CloseExtra, Discard, ClosePopped,
    EndUse, Finish, Alone, Typed, TypeOK
<1>3. CASE Publish(t)
  BY <1>3 DEF Publish, PublishAs, Alone, Typed, TypeOK
<1>4. CASE Expire(t)
  BY <1>4 DEF Expire, Alone, Typed, TypeOK
<1>5. CASE \/ LookupMisses(t) \/ StillFresh(t) \/ CloseExpired(t) \/ Acquire(t)
           \/ AcquireTimesOut(t) \/ Enter(t) \/ EnterTimesOut(t) \/ SolveEnds(t)
           \/ SolveTimesOut(t) \/ Release(t)
  BY <1>5 DEF LookupMisses, StillFresh, CloseExpired, Acquire, AcquireTimesOut, Enter,
    EnterTimesOut, SolveEnds, SolveTimesOut, Release, Alone, Typed, TypeOK
<1> QED BY <1>1, <1>2, <1>3, <1>4, <1>5 DEF Serve

\* A step that keeps the locks and, for the thread that takes it, lets it drive only
\* if it drove before, on the same claim.
LEMMA SameLocks ==
  ASSUME Locked, lock' = lock, NEW t \in Thread, Alone(t),
         Driving(t)' => Driving(t) /\ claim'[t] = claim[t]
  PROVE  Locked'
<1> SUFFICES ASSUME NEW u \in Thread, NEW h \in Handle, Driving(u)', claim'[u] = h
             PROVE  lock'[h] = u
  BY DEF Locked
<1>1. Driving(u) /\ claim[u] = h
  BY DEF Driving, Alone
<1> QED BY <1>1 DEF Locked

LEMMA LockedNext ==
  ASSUME Typed, Locked, [Next]_vars
  PROVE  Locked'
<1> USE ConstantsAssumption
<1>1. ASSUME UNCHANGED <<lock, pc, claim, req>> PROVE Locked'
  BY <1>1 DEF Locked, Driving
<1>2. ASSUME Clean \/ Tick \/ (\E h \in Handle : StrayStops(h)) \/ UNCHANGED vars
      PROVE  UNCHANGED <<lock, pc, claim, req>>
  BY <1>2 DEF Clean, ReapIdle, EnforceCap, ReaperCloses, ReaperMovesOn, Tick, StrayStops, vars
<1>3. ASSUME NEW t \in Thread,
             \/ Arrive(t) \/ LookupFinds(t) \/ LookupMisses(t) \/ BuildFails(t) \/ Remember(t)
             \/ CloseExtra(t) \/ StillFresh(t) \/ CloseExpired(t) \/ AcquireTimesOut(t)
             \/ EndUse(t) \/ Publish(t) \/ Expire(t)
      PROVE  Locked'
  <2>1. lock' = lock
    <3>1. CASE Publish(t)
      BY <3>1 DEF Publish, PublishAs
    <3> QED BY <1>3, <3>1 DEF Arrive, BeginSolve, BeginCreate, BeginDestroy, LookupFinds,
        LookupMisses, BuildFails, Remember, CloseExtra, StillFresh, CloseExpired,
        AcquireTimesOut, EndUse, Expire
  <2>2. ~Driving(t)'
    <3>1. CASE Publish(t)
      BY <3>1 DEF Publish, PublishAs, Driving, Typed, TypeOK
    <3>2. CASE BeginDestroy(t)
      <4>1. req'[t].op = "destroy" /\ pc'[t] = "discard"
        BY <3>2 DEF BeginDestroy, Typed, TypeOK
      <4> QED BY <4>1 DEF Driving
    <3>3. CASE \/ BeginSolve(t) \/ BeginCreate(t) \/ LookupFinds(t) \/ LookupMisses(t)
               \/ BuildFails(t) \/ Remember(t) \/ CloseExtra(t) \/ StillFresh(t)
               \/ CloseExpired(t) \/ AcquireTimesOut(t) \/ EndUse(t) \/ Expire(t)
      <4>1. \E step \in {"idle", "lookup", "build", "expire", "closeExpired", "acquire",
                         "endUse"} : Goto(t, step)
        BY <3>3 DEF BeginSolve, BeginCreate, LookupFinds, LookupMisses, BuildFails, Remember,
          CloseExtra, StillFresh, CloseExpired, AcquireTimesOut, EndUse, Expire, Finish
      <4> QED BY <4>1 DEF Driving, Typed, TypeOK
    <3> QED BY <1>3, <3>1, <3>2, <3>3 DEF Arrive
  <2> QED BY <1>3, <2>1, <2>2, ThreadAlone, SameLocks DEF Serve
<1>4. ASSUME NEW t \in Thread, Enter(t) \/ EnterTimesOut(t) \/ SolveEnds(t) \/ SolveTimesOut(t)
      PROVE  Locked'
  <2>1. lock' = lock /\ claim' = claim /\ Driving(t)
    BY <1>4 DEF Enter, EnterTimesOut, SolveEnds, SolveTimesOut, Driving
  <2> QED BY <1>4, <2>1, ThreadAlone, SameLocks DEF Serve
<1>5. ASSUME NEW t \in Thread, Discard(t) \/ ClosePopped(t) PROVE Locked'
  <2>1. lock' = lock
    BY <1>5 DEF Discard, ClosePopped
  <2>2. Driving(t)' => Driving(t) /\ claim'[t] = claim[t]
    BY <1>5 DEF Discard, ClosePopped, Finish, Driving, Typed, TypeOK, Roles, Role
  <2> QED BY <1>5, <2>1, <2>2, ThreadAlone, SameLocks DEF Serve
<1>6. ASSUME NEW t \in Thread, Acquire(t) PROVE Locked'
  <2>1. /\ lock[claim[t]] = None /\ claim[t] \in Handle /\ claim' = claim /\ req' = req
        /\ lock' = [lock EXCEPT ![claim[t]] = t]
    BY <1>6 DEF Acquire, Typed, Roles, Role, Using
  <2>2. ASSUME NEW u \in Thread, NEW h \in Handle, Driving(u)', claim'[u] = h
        PROVE  lock'[h] = u
    <3>1. CASE u = t
      BY <2>1, <2>2, <3>1 DEF Typed, TypeOK
    <3>2. CASE u # t
      <4>1. lock[h] = u /\ u # None
        BY <1>6, <2>1, <2>2, <3>2 DEF Acquire, Locked, Driving, Typed, TypeOK
      <4> QED BY <2>1, <4>1 DEF Typed, TypeOK
    <3> QED BY <3>1, <3>2
  <2> QED BY <2>2 DEF Locked
<1>7. ASSUME NEW t \in Thread, Release(t) PROVE Locked'
  <2>1. /\ claim[t] \in Handle /\ claim' = claim /\ req' = req /\ Driving(t)
        /\ lock' = [lock EXCEPT ![claim[t]] = None] /\ pc' = [pc EXCEPT ![t] = "endUse"]
    BY <1>7 DEF Release, Driving, Typed, Roles, Role, Using
  <2>2. ASSUME NEW u \in Thread, NEW h \in Handle, Driving(u)', claim'[u] = h
        PROVE  lock'[h] = u
    <3>1. u # t
      BY <2>1, <2>2 DEF Driving, Typed, TypeOK
    <3>2. lock[h] = u /\ lock[claim[t]] = t
      BY <2>1, <2>2, <3>1 DEF Locked, Driving, Typed, TypeOK
    <3> QED BY <2>1, <3>1, <3>2 DEF Typed, TypeOK
  <2> QED BY <2>2 DEF Locked
<1> QED
  BY <1>1, <1>2, <1>3, <1>4, <1>5, <1>6, <1>7 DEF Next, Serve

-----------------------------------------------------------------------------
(* Located: what a lifetime takes out of the pool *)

\* Where a running browser is: in its slot of the pool, or about to be closed.
Slotted(h) == pool[sess[h].store][sess[h].sid] = h
Located ==
  \A h \in Handle : live[h] => sess[h] \in Session /\ (Slotted(h) \/ Condemned(h))

\* A lifetime takes its session out by id, and has to find that session under it.
OwnSlot ==
  \A t \in Thread : pc[t] = "expire" /\ req[t].ttl => Slotted(claim[t])

\* A request without session_ttl_minutes never expires a session.
NoLifetime ==
  \A t \in Thread : pc[t] # "closeExpired" /\ (pc[t] # "idle" => req[t].ttl = FALSE)

LEMMA NoLifetimeNext ==
  ASSUME TRUE \notin WithTtl, Typed, NoLifetime, [Next]_vars
  PROVE  NoLifetime'
<1> USE ConstantsAssumption
<1>1. ASSUME UNCHANGED <<pc, req>> PROVE NoLifetime'
  BY <1>1 DEF NoLifetime
<1>2. ASSUME Clean \/ Tick \/ (\E h \in Handle : StrayStops(h)) \/ UNCHANGED vars
      PROVE  UNCHANGED <<pc, req>>
  BY <1>2 DEF Clean, ReapIdle, EnforceCap, ReaperCloses, ReaperMovesOn, Tick, StrayStops, vars
<1>3. ASSUME NEW t \in Thread, Arrive(t) \/ Serve(t),
             pc'[t] # "closeExpired", pc'[t] # "idle" => req'[t].ttl = FALSE
      PROVE  NoLifetime'
  BY <1>3, ThreadAlone DEF NoLifetime, Alone
<1>4. ASSUME NEW t \in Thread, Arrive(t) PROVE NoLifetime'
  <2>1. \A b \in WithTtl : b = FALSE
    OBVIOUS
  <2>2. BeginSolve(t) => pc'[t] # "closeExpired" /\ req'[t].ttl = FALSE
    BY <2>1 DEF BeginSolve, Typed, TypeOK
  <2>3. BeginCreate(t) \/ BeginDestroy(t) => pc'[t] # "closeExpired" /\ req'[t].ttl = FALSE
    BY DEF BeginCreate, BeginDestroy, Typed, TypeOK
  <2>4. pc'[t] # "closeExpired" /\ req'[t].ttl = FALSE
    BY <1>4, <2>2, <2>3 DEF Arrive
  <2> QED BY <1>3, <1>4, <2>4
<1>5. ASSUME NEW t \in Thread, Serve(t) PROVE NoLifetime'
  <2>1. ~Expire(t)
    BY DEF Expire, Expired, NoLifetime
  <2>2. pc[t] # "idle"
    <3>1. CASE Publish(t)
      BY <3>1 DEF Publish, PublishAs
    <3> QED BY <1>5, <3>1 DEF Serve, LookupFinds, LookupMisses, BuildFails, Remember, CloseExtra,
      Expire, StillFresh, CloseExpired, Acquire, AcquireTimesOut, Enter, EnterTimesOut,
      SolveEnds, SolveTimesOut, Discard, ClosePopped, Release, EndUse
  <2>3. pc'[t] = "idle" \/ (pc'[t] # "closeExpired" /\ req' = req)
    <3>1. CASE Publish(t)
      BY <3>1 DEF Publish, PublishAs, Typed, TypeOK
    <3>2. CASE LookupFinds(t) \/ BuildFails(t) \/ Remember(t) \/ CloseExtra(t) \/ Discard(t)
               \/ ClosePopped(t) \/ EndUse(t)
      BY <3>2 DEF LookupFinds, BuildFails, Remember, CloseExtra, Discard, ClosePopped, EndUse,
        Finish, Typed, TypeOK
    <3>3. CASE \/ LookupMisses(t) \/ StillFresh(t) \/ CloseExpired(t) \/ Acquire(t)
               \/ AcquireTimesOut(t) \/ Enter(t) \/ EnterTimesOut(t) \/ SolveEnds(t)
               \/ SolveTimesOut(t) \/ Release(t)
      BY <3>3 DEF LookupMisses, StillFresh, CloseExpired, Acquire, AcquireTimesOut, Enter,
        EnterTimesOut, SolveEnds, SolveTimesOut, AfterTimeout, IsChrome, Release, Typed, TypeOK
    <3> QED BY <1>5, <2>1, <3>1, <3>2, <3>3 DEF Serve
  <2> QED BY <1>3, <1>5, <2>2, <2>3 DEF NoLifetime
<1> QED BY <1>1, <1>2, <1>4, <1>5 DEF Next

\* Where nobody takes a session out of the pool by id while others are on it, one that
\* a request has found or lost a race to is still in its slot when its lifetime is read.
Holding(t) == pc[t] \in {"expire", "closeExtra"} /\ claim[t] # None
Undisturbed ==
  \A t \in Thread :
    pc[t] \notin {"discard", "closePopped"} /\ (Holding(t) => Slotted(claim[t]))

LEMMA UndisturbedNext ==
  ASSUME "destroy" \notin Commands, ChromeStore = {}, Typed, Counted, Undisturbed, [Next]_vars
  PROVE  Undisturbed'
<1> USE ConstantsAssumption
<1>1. ASSUME NEW u \in Thread, Holding(u)
      PROVE  /\ claim[u] \in Handle /\ claim[u] # None /\ Slotted(claim[u])
             /\ sess[claim[u]].store \in Store /\ sess[claim[u]].sid \in Sid
             /\ sess[claim[u]].store = req[u].store /\ sess[claim[u]].sid = req[u].sid
             /\ inUse[claim[u]] = Cardinality(Holders(claim[u]))
             /\ IsFiniteSet(Holders(claim[u])) /\ u \in Holders(claim[u])
  <2>1. claim[u] \in Handle /\ claim[u] # None /\ Slotted(claim[u])
    BY <1>1 DEF Holding, Undisturbed, Typed, TypeOK
  <2>2. /\ sess[claim[u]] \in Session
        /\ sess[claim[u]].store = req[u].store /\ sess[claim[u]].sid = req[u].sid
    BY <1>1 DEF Holding, Typed, Named
  <2>3. sess[claim[u]].store \in Store /\ sess[claim[u]].sid \in Sid
    BY <2>2 DEF Session
  <2>4. Pooled(claim[u])
    BY <2>1, <2>3 DEF Slotted, Pooled
  <2>5. inUse[claim[u]] = Cardinality(Holders(claim[u]))
    BY <2>1, <2>4 DEF Counted
  <2>6. IsFiniteSet(Holders(claim[u])) /\ u \in Holders(claim[u])
    BY FS_Subset DEF Holders
  <2> QED BY <2>1, <2>2, <2>3, <2>5, <2>6
<1>2. ASSUME UNCHANGED <<pool, sess>>, NEW t \in Thread, Alone(t),
             pc'[t] \notin {"discard", "closePopped"},
             Holding(t)' => Slotted(claim'[t])
      PROVE  Undisturbed'
  BY <1>2 DEF Undisturbed, Holding, Slotted, Alone
<1>3. ASSUME NEW t \in Thread, Arrive(t) PROVE Undisturbed'
  <2>1. pc' = [pc EXCEPT ![t] = "lookup"] /\ UNCHANGED <<pool, sess>>
    BY <1>3 DEF Arrive, BeginSolve, BeginCreate, BeginDestroy
  <2> QED BY <1>2, <1>3, <2>1, ThreadAlone DEF Holding, Typed, TypeOK
<1>4. ASSUME NEW t \in Thread,
             \/ LookupMisses(t) \/ BuildFails(t) \/ Remember(t) \/ StillFresh(t)
             \/ CloseExpired(t) \/ Acquire(t) \/ AcquireTimesOut(t) \/ Enter(t)
             \/ EnterTimesOut(t) \/ SolveEnds(t) \/ SolveTimesOut(t) \/ Release(t) \/ EndUse(t)
      PROVE  Undisturbed'
  <2>1. UNCHANGED <<pool, sess>>
    BY <1>4 DEF LookupMisses, BuildFails, Remember, StillFresh, CloseExpired, Acquire,
      AcquireTimesOut, Enter, EnterTimesOut, SolveEnds, SolveTimesOut, Release, EndUse
  <2>2. \E step \in Step \ {"expire", "closeExtra", "discard", "closePopped"} : Goto(t, step)
    BY <1>4 DEF LookupMisses, BuildFails, Remember, StillFresh, CloseExpired, Acquire,
      AcquireTimesOut, Enter, EnterTimesOut, SolveEnds, SolveTimesOut, Release, EndUse,
      AfterTimeout, IsChrome, Finish, Step
  <2> QED BY <1>2, <1>4, <2>1, <2>2, ThreadAlone DEF Holding, Serve, Typed, TypeOK
<1>5. ASSUME NEW t \in Thread, LookupFinds(t) \/ CloseExtra(t) PROVE Undisturbed'
  <2>1. UNCHANGED <<pool, sess>> /\ pc[t] \in {"lookup", "closeExtra"}
    BY <1>5 DEF LookupFinds, CloseExtra
  <2>2. pc'[t] \in {"expire", "idle"}
    BY <1>5 DEF LookupFinds, CloseExtra, Finish, Typed, TypeOK
  <2>3. ASSUME Holding(t)' PROVE Slotted(claim'[t])
    <3>1. CASE CloseExtra(t)
      <4>1. claim'[t] = claim[t] /\ Holding(t)
        BY <2>3, <3>1 DEF CloseExtra, Finish, Holding, Typed, TypeOK
      <4> QED BY <4>1 DEF Undisturbed
    <3>2. CASE LookupFinds(t)
      <4>1. claim'[t] = At(req[t].store, req[t].sid) /\ claim'[t] # None
        BY <2>3, <3>2 DEF LookupFinds, Claim, Finish, Holding, Typed, TypeOK
      <4>2. req[t].store \in Store /\ req[t].sid \in Sid
        BY <2>1, Fields
      <4>3. /\ sess[claim'[t]].store = req[t].store /\ sess[claim'[t]].sid = req[t].sid
            /\ pool[req[t].store][req[t].sid] = claim'[t]
        BY <4>1, <4>2 DEF At, Typed, Named
      <4> QED BY <4>3 DEF Slotted
    <3> QED BY <1>5, <3>1, <3>2
  <2> QED BY <1>2, <1>5, <2>1, <2>2, <2>3, ThreadAlone DEF Serve
<1>6. ASSUME NEW t \in Thread, Publish(t) PROVE Undisturbed'
  <2>1. PICK built \in Handle : PublishAs(t, built)
    BY <1>6 DEF Publish
  <2> DEFINE race == At(req[t].store, req[t].sid)
  <2>2. /\ Alone(t) /\ pc[t] = "build" /\ req[t].store \in Store /\ req[t].sid \in Sid
        /\ race \in Handle \cup {None}
    BY <1>6, <2>1, ThreadAlone, Fields DEF PublishAs, Serve
  <2>3. /\ pc'[t] = IF race = None THEN "remember" ELSE "closeExtra"
        /\ pool' = [pool EXCEPT ![req[t].store][req[t].sid] = Stored(race, built)]
        /\ \A h \in Handle : h # built => sess'[h] = sess[h]
        /\ claim'[t] = IF Marks(t) = 1 THEN Stored(race, built) ELSE claim[t]
    BY <2>1 DEF PublishAs, Typed, TypeOK
  <2>4. ~Pooled(built) /\ \A u \in Thread : claim[u] # built
    BY <2>1 DEF PublishAs, Collected
  <2>5. ASSUME NEW u \in Thread, u # t, Holding(u) PROVE Slotted(claim[u])'
    <3>1. claim'[u] = claim[u] /\ sess'[claim[u]] = sess[claim[u]]
      BY <1>1, <2>2, <2>3, <2>4, <2>5 DEF Alone
    <3>2. race # None => Stored(race, built) = race
      BY DEF Stored
    <3>3. pool'[sess[claim[u]].store][sess[claim[u]].sid] = claim[u]
      BY <1>1, <2>2, <2>3, <2>5, <3>2 DEF At, Slotted, Typed, TypeOK
    <3> QED BY <3>1, <3>3 DEF Slotted
  <2>6. ASSUME Holding(t)' PROVE Slotted(claim[t])'
    <3>1. race # None /\ race \in Handle /\ Stored(race, built) = race
      BY <2>2, <2>3, <2>6 DEF Holding, Stored
    <3>2. claim'[t] = race
      <4>1. Marks(t) = 1 \/ claim[t] = None
        BY <2>2 DEF Marks, Typed, Roles, Role
      <4> QED BY <2>3, <2>6, <3>1, <4>1 DEF Holding
    <3>3. race # built /\ sess'[race] = sess[race]
      BY <2>2, <2>3, <2>4, <3>1 DEF At, Pooled
    <3>4. sess[race].store = req[t].store /\ sess[race].sid = req[t].sid
      BY <2>2, <3>1 DEF At, Typed, Named
    <3>5. pool'[req[t].store][req[t].sid] = race
      BY <2>2, <2>3, <3>1 DEF Typed, TypeOK
    <3> QED BY <3>2, <3>3, <3>4, <3>5 DEF Slotted
  <2>7. pc'[t] \notin {"discard", "closePopped"}
    BY <2>3
  <2> HIDE DEF race
  <2> QED BY <2>2, <2>5, <2>6, <2>7 DEF Undisturbed, Holding, Alone
<1>7. ASSUME NEW t \in Thread, Expire(t) PROVE Undisturbed'
  <2>1. /\ pc[t] = "expire" /\ inUse[claim[t]] = 1 /\ pc'[t] = "closeExpired"
        /\ pool' = [pool EXCEPT ![req[t].store][req[t].sid] = None]
        /\ UNCHANGED <<sess, claim>> /\ req[t].store \in Store /\ req[t].sid \in Sid
    BY <1>7, Fields DEF Expire, Expired, Typed, TypeOK
  <2>2. Holding(t)
    BY <2>1 DEF Holding, Typed, Roles, Role, Using
  <2>3. ASSUME NEW u \in Thread, u # t, Holding(u) PROVE Slotted(claim[u])'
    <3>1. claim[u] # claim[t]
      <4>1. ASSUME claim[u] = claim[t] PROVE FALSE
        <5>1. /\ {t, u} \in SUBSET Holders(claim[t]) /\ IsFiniteSet(Holders(claim[t]))
              /\ Cardinality(Holders(claim[t])) = 1
          BY <1>1, <2>1, <2>2, <2>3, <4>1
        <5>2. \E x : Holders(claim[t]) = {x}
          BY <5>1, FS_Singleton
        <5> QED BY <2>3, <5>1, <5>2
      <4> QED BY <4>1
    <3>2. ~(sess[claim[u]].store = req[t].store /\ sess[claim[u]].sid = req[t].sid)
      BY <1>1, <2>2, <2>3, <3>1 DEF Slotted
    <3> QED BY <1>1, <2>1, <2>3, <3>2 DEF Slotted, Typed, TypeOK
  <2> QED BY <1>7, <2>1, <2>3, ThreadAlone DEF Undisturbed, Holding, Alone, Serve
<1>8. ASSUME Clean PROVE Undisturbed'
  <2>1. UNCHANGED <<sess, pc, claim>>
    BY <1>8 DEF Clean, ReapIdle, EnforceCap, ReaperCloses, ReaperMovesOn
  <2>2. ASSUME NEW H, \A h \in H : inUse[h] = 0, pool' = Without(H) PROVE Undisturbed'
    <3>1. ASSUME NEW u \in Thread, Holding(u) PROVE Slotted(claim[u])'
      <4>1. claim[u] \notin H
        BY <1>1, <2>2, <3>1, FS_EmptySet
      <4> QED BY <1>1, <2>1, <2>2, <3>1, <4>1 DEF Slotted, Without
    <3> QED BY <2>1, <3>1 DEF Undisturbed, Holding
  <2>3. CASE pool' = pool
    BY <2>1, <2>3 DEF Undisturbed, Holding, Slotted
  <2>4. pool' = pool \/ \E H : (\A h \in H : inUse[h] = 0) /\ pool' = Without(H)
    <3>1. ASSUME NEW st \in Store, ReapIdle(st)
          PROVE  \E H : (\A h \in H : inUse[h] = 0) /\ pool' = Without(H)
      BY <3>1 DEF ReapIdle, IdleIn
    <3>2. ASSUME EnforceCap
          PROVE  \E H : (\A h \in H : inUse[h] = 0) /\ pool' = Without(H)
      BY <3>2 DEF EnforceCap, Evictable
    <3> QED BY <1>8, <3>1, <3>2 DEF Clean, ReaperCloses, ReaperMovesOn
  <2> QED BY <2>2, <2>3, <2>4
<1>9. ASSUME Tick \/ (\E h \in Handle : StrayStops(h)) \/ UNCHANGED vars PROVE Undisturbed'
  BY <1>9 DEF Tick, StrayStops, vars, Undisturbed, Holding, Slotted
<1>10. ASSUME NEW t \in Thread, Discard(t) \/ ClosePopped(t) PROVE FALSE
  BY <1>10 DEF Discard, ClosePopped, Undisturbed
<1> QED BY <1>3, <1>4, <1>5, <1>6, <1>7, <1>8, <1>9, <1>10 DEF Next, Serve

\* What a thread's step does to a session that runs before and after it: condemned,
\* it stays so; in its slot, it stays there or becomes condemned.
LEMMA ThreadLocates ==
  ASSUME Typed, Visiting, OwnSlot, Located, NEW t \in Thread, Arrive(t) \/ Serve(t),
         NEW h \in Handle, live[h], live'[h]
  PROVE  /\ sess'[h] \in Session /\ sess'[h] = sess[h]
         /\ Condemned(h) => Condemned(h)'
         /\ Slotted(h) => Slotted(h)' \/ Condemned(h)'
<1> USE ConstantsAssumption
<1>1. Alone(t)
  BY ThreadAlone
<1>2. sess[h] \in Session
  BY DEF Located
<1>3. ASSUME UNCHANGED <<sess, pool, reaper>>,
             pc[t] \notin {"closeExtra", "closePopped", "closeExpired"}
      PROVE  /\ sess'[h] \in Session /\ sess'[h] = sess[h]
             /\ Condemned(h) => Condemned(h)'
             /\ Slotted(h) => Slotted(h)' \/ Condemned(h)'
  BY <1>1, <1>2, <1>3 DEF Condemned, Slotted, Alone
<1>4. CASE Arrive(t) \/ LookupFinds(t) \/ LookupMisses(t) \/ BuildFails(t) \/ Remember(t)
           \/ StillFresh(t) \/ Acquire(t) \/ AcquireTimesOut(t) \/ Enter(t)
           \/ EnterTimesOut(t) \/ SolveEnds(t) \/ SolveTimesOut(t) \/ Release(t) \/ EndUse(t)
  <2>1. /\ UNCHANGED <<sess, pool, reaper>>
        /\ pc[t] \notin {"closeExtra", "closePopped", "closeExpired"}
    BY <1>4 DEF Arrive, BeginSolve, BeginCreate, BeginDestroy, LookupFinds, LookupMisses,
      BuildFails, Remember, StillFresh, Acquire, AcquireTimesOut, Enter, EnterTimesOut,
      SolveEnds, SolveTimesOut, Release, EndUse
  <2> QED BY <1>3, <2>1
<1>5. CASE CloseExtra(t) \/ ClosePopped(t) \/ CloseExpired(t)
  <2>1. /\ UNCHANGED <<sess, pool, reaper>>
        /\ pc[t] \in {"closeExtra", "closePopped"} => mine[t] # h
        /\ pc[t] = "closeExpired" => claim[t] # h
    BY <1>5 DEF CloseExtra, ClosePopped, CloseExpired, Close, Extra, Typed, TypeOK
  <2> QED BY <1>1, <1>2, <2>1 DEF Condemned, Slotted, Alone
<1>6. CASE Discard(t)
  <2>1. /\ req[t].store \in Store /\ req[t].sid \in Sid /\ pc[t] = "discard"
        /\ pool' = [pool EXCEPT ![req[t].store][req[t].sid] = None]
        /\ UNCHANGED <<sess, reaper>>
    BY <1>6, Fields DEF Discard
  <2>2. Condemned(h) => Condemned(h)'
    BY <1>1, <2>1 DEF Condemned, Alone
  <2>3. CASE sess[h].store = req[t].store /\ sess[h].sid = req[t].sid /\ Slotted(h)
    <3>1. At(req[t].store, req[t].sid) = h /\ h # None
      BY <2>3 DEF Slotted, At
    <3>2. pc'[t] = "closePopped" /\ mine'[t] = h
      BY <1>6, <3>1 DEF Discard, Typed, TypeOK
    <3> QED BY <1>2, <2>1, <3>2 DEF Condemned
  <2>4. CASE ~(sess[h].store = req[t].store /\ sess[h].sid = req[t].sid)
    <3>1. sess[h].store \in Store /\ sess[h].sid \in Sid
      BY <1>2 DEF Session
    <3> QED BY <1>2, <2>1, <2>2, <2>4, <3>1 DEF Slotted, Typed, TypeOK
  <2> QED BY <1>2, <2>1, <2>2, <2>3, <2>4
<1>7. CASE Publish(t)
  <2>1. PICK built \in Handle : PublishAs(t, built)
    BY <1>7 DEF Publish
  <2>2. h # built /\ sess'[h] = sess[h] /\ reaper' = reaper /\ pc[t] = "build"
    BY <2>1 DEF PublishAs, Collected, Typed, TypeOK
  <2>3. /\ req[t].store \in Store /\ req[t].sid \in Sid
        /\ sess[h].store \in Store /\ sess[h].sid \in Sid
    BY <1>2, <2>2, Fields DEF Session
  <2>4. Slotted(h) => pool'[sess[h].store][sess[h].sid] = h
    BY <2>1, <2>3 DEF PublishAs, Stored, At, Slotted, Typed, TypeOK
  <2>5. Condemned(h) => Condemned(h)'
    BY <1>1, <2>2 DEF Condemned, Alone
  <2> QED BY <1>2, <2>2, <2>4, <2>5 DEF Slotted
<1>8. CASE Expire(t)
  <2>1. /\ req[t].store \in Store /\ req[t].sid \in Sid /\ pc[t] = "expire" /\ req[t].ttl
        /\ pool' = [pool EXCEPT ![req[t].store][req[t].sid] = None]
        /\ pc' = [pc EXCEPT ![t] = "closeExpired"]
        /\ UNCHANGED <<sess, claim, mine, reaper>>
    BY <1>8, Fields DEF Expire, Expired
  <2>2. Condemned(h) => Condemned(h)'
    BY <1>1, <2>1 DEF Condemned, Alone
  <2>3. /\ claim[t] \in Handle /\ sess[claim[t]].store = req[t].store
        /\ sess[claim[t]].sid = req[t].sid /\ Slotted(claim[t])
    BY <2>1 DEF Typed, Roles, Role, Using, Named, OwnSlot
  <2>4. ASSUME h = claim[t] PROVE Condemned(h)'
    BY <2>1, <2>4 DEF Condemned, Typed, TypeOK
  <2>5. ASSUME h # claim[t], Slotted(h) PROVE Slotted(h)'
    <3>1. sess[h].store \in Store /\ sess[h].sid \in Sid
      BY <1>2 DEF Session
    <3>2. ~(sess[h].store = req[t].store /\ sess[h].sid = req[t].sid)
      BY <2>3, <2>5 DEF Slotted
    <3> QED BY <2>1, <2>5, <3>1, <3>2 DEF Slotted, Typed, TypeOK
  <2> QED BY <1>2, <2>1, <2>2, <2>4, <2>5
<1> QED BY <1>4, <1>5, <1>6, <1>7, <1>8 DEF Serve

\* The same of a step of the cleanup.
LEMMA CleanLocates ==
  ASSUME Typed, Visiting, Located, Clean, NEW h \in Handle, live[h], live'[h]
  PROVE  /\ sess'[h] \in Session /\ sess'[h] = sess[h]
         /\ Condemned(h) => Condemned(h)'
         /\ Slotted(h) => Slotted(h)' \/ Condemned(h)'
<1> USE ConstantsAssumption
<1>1. sess' = sess /\ pc' = pc /\ mine' = mine /\ claim' = claim
  BY DEF Clean, ReapIdle, EnforceCap, ReaperCloses, ReaperMovesOn
<1>2. sess[h] \in Session /\ sess[h].store \in Store /\ sess[h].sid \in Sid
  BY DEF Located, Session
<1>3. ASSUME NEW H \in SUBSET Handle, reaper.popped = {}, reaper'.popped = H, pool' = Without(H)
      PROVE  /\ sess'[h] \in Session /\ sess'[h] = sess[h]
             /\ Condemned(h) => Condemned(h)'
             /\ Slotted(h) => Slotted(h)' \/ Condemned(h)'
  <2>1. Condemned(h) => Condemned(h)'
    BY <1>1, <1>3 DEF Condemned
  <2>2. ASSUME Slotted(h), h \notin H PROVE Slotted(h)'
    BY <1>1, <1>2, <1>3, <2>2 DEF Slotted, Without
  <2>3. h \in H => Condemned(h)'
    BY <1>3 DEF Condemned
  <2> QED BY <1>1, <1>2, <2>1, <2>2, <2>3
<1>4. CASE \E st \in Store : ReapIdle(st)
  <2>1. PICK st \in Store : ReapIdle(st)
    BY <1>4
  <2>2. IdleIn(st) \in SUBSET Handle
    BY DEF IdleIn, PooledIn
  <2> QED BY <1>3, <2>1, <2>2 DEF ReapIdle, Visiting
<1>5. CASE EnforceCap
  <2>1. PICK E \in Evictable(reaper.store) :
          /\ pool' = Without(E)
          /\ reaper' = [reaper EXCEPT !.step = "closeOver", !.popped = E]
    BY <1>5 DEF EnforceCap
  <2>2. E \in SUBSET Handle /\ reaper'.popped = E
    BY <2>1 DEF Evictable, PooledIn, Typed, TypeOK
  <2> QED BY <1>3, <1>5, <2>1, <2>2 DEF EnforceCap, Visiting
<1>6. CASE \E g \in Handle : ReaperCloses(g)
  <2>1. PICK g \in Handle : ReaperCloses(g)
    BY <1>6
  <2>2. g # h /\ pool' = pool /\ reaper'.popped = reaper.popped \ {g}
    BY <2>1 DEF ReaperCloses, Close, Typed, TypeOK
  <2> QED BY <1>1, <1>2, <2>2 DEF Condemned, Slotted
<1>7. CASE ReaperMovesOn
  <2>1. pool' = pool
    BY <1>7 DEF ReaperMovesOn
  <2>2. reaper'.popped = reaper.popped
    BY <1>7 DEF ReaperMovesOn, Typed, TypeOK
  <2> QED BY <1>1, <1>2, <2>1, <2>2 DEF Condemned, Slotted
<1> QED BY <1>4, <1>5, <1>6, <1>7 DEF Clean

\* A browser starts to run only as the one a request has just launched.
LEMMA StartsWhenPublished ==
  ASSUME Typed, [Next]_vars, NEW h \in Handle, ~live[h], live'[h]
  PROVE  \E t \in Thread : PublishAs(t, h)
<1>1. ASSUME NEW t \in Thread, NEW built \in Handle, PublishAs(t, built)
      PROVE  built = h
  BY <1>1 DEF PublishAs, Typed, TypeOK
<1>2. ASSUME NEW t \in Thread, Arrive(t) \/ Serve(t), ~Publish(t) PROVE FALSE
  BY <1>2 DEF Arrive, BeginSolve, BeginCreate, BeginDestroy, Serve, LookupFinds,
    LookupMisses, BuildFails, Remember, CloseExtra, Expire, StillFresh, CloseExpired,
    Close, Acquire, AcquireTimesOut, Enter, EnterTimesOut, SolveEnds, SolveTimesOut,
    Discard, ClosePopped, Release, EndUse, Typed, TypeOK
<1>3. ~(Clean \/ Tick \/ (\E g \in Handle : StrayStops(g)) \/ UNCHANGED vars)
  BY DEF Clean, ReapIdle, EnforceCap, ReaperCloses, ReaperMovesOn, Close, Tick,
    StrayStops, vars, Typed, TypeOK
<1> QED BY <1>1, <1>2, <1>3 DEF Next, Publish

LEMMA LocatedNext ==
  ASSUME Typed, Visiting, OwnSlot, Located, [Next]_vars
  PROVE  Located'
<1> USE ConstantsAssumption
<1> SUFFICES ASSUME NEW h \in Handle, live'[h]
             PROVE  sess'[h] \in Session /\ (Slotted(h)' \/ Condemned(h)')
  BY DEF Located
<1>1. CASE live[h]
  <2>1. ASSUME NEW t \in Thread, Arrive(t) \/ Serve(t)
        PROVE  sess'[h] \in Session /\ (Slotted(h)' \/ Condemned(h)')
    BY <1>1, <2>1, ThreadLocates DEF Located
  <2>2. CASE Clean
    BY <1>1, <2>2, CleanLocates DEF Located
  <2>3. CASE Tick \/ (\E g \in Handle : StrayStops(g)) \/ UNCHANGED vars
    BY <1>1, <2>3 DEF Tick, StrayStops, vars, Located, Slotted, Condemned
  <2> QED BY <2>1, <2>2, <2>3 DEF Next
<1>2. CASE ~live[h]
  <2>1. PICK t \in Thread : PublishAs(t, h)
    BY <1>2, StartsWhenPublished
  <2>2. req[t].store \in Store /\ req[t].sid \in Sid /\ req[t].proxy \in Proxy
    BY <2>1, Fields DEF PublishAs, Typed, Roles, Role
  <2>3. sess'[h] = [sid |-> req[t].sid, store |-> req[t].store, proxy |-> req[t].proxy]
    BY <2>1 DEF PublishAs, Typed, TypeOK
  <2>4. CASE At(req[t].store, req[t].sid) = None
    BY <2>1, <2>2, <2>3, <2>4 DEF PublishAs, Stored, Slotted, Session, Typed, TypeOK
  <2>5. CASE At(req[t].store, req[t].sid) # None
    <3>1. pc'[t] = "closeExtra" /\ mine'[t] = h
      BY <2>1, <2>5 DEF PublishAs, Typed, TypeOK
    <3> QED BY <2>2, <2>3, <3>1 DEF Condemned, Session
  <2> QED BY <2>4, <2>5
<1> QED BY <1>1, <1>2 DEF Typed, TypeOK

-----------------------------------------------------------------------------
(* Strays *)

\* A browser with a stray command is one its engine shares on purpose, or is closed,
\* or is about to leave the pool.
Settled(h) ==
  \/ ~live[h] \/ Condemned(h)
  \/ sess[h].store \notin ChromeStore
  \/ \E t \in Thread : pc[t] = "discard" /\ req[t].op = "solve" /\ claim[t] = h

Strays ==
  /\ \A h \in stray : Settled(h)
  /\ \A t \in Thread : pc[t] = "solve" /\ ~IsChrome(t) => claim[t] \notin stray

LEMMA StraysNext ==
  ASSUME Typed, Visiting, OwnSlot, Located, Locked, Strays, [Next]_vars
  PROVE  Strays'
<1> USE ConstantsAssumption
<1>1. ASSUME NEW t \in Thread, Arrive(t) \/ Serve(t), ~SolveTimesOut(t)
      PROVE  stray' = stray
  <2>1. CASE Publish(t)
    BY <2>1 DEF Publish, PublishAs
  <2> QED BY <1>1, <2>1 DEF Arrive, BeginSolve, BeginCreate, BeginDestroy, Serve, LookupFinds,
    LookupMisses, BuildFails, Remember, CloseExtra, Expire, StillFresh, CloseExpired, Acquire,
    AcquireTimesOut, Enter, EnterTimesOut, SolveEnds, Discard, ClosePopped, Release, EndUse
<1>2. ASSUME NEW t \in Thread, Arrive(t) \/ Serve(t), ~SolveTimesOut(t) PROVE Strays'
  <2>1. ASSUME NEW h \in Handle, h \in stray PROVE Settled(h)'
    <3>1. CASE ~live[h]
      <4>1. CASE live'[h]
        <5>1. \E u \in Thread : PublishAs(u, h)
          BY <3>1, <4>1, StartsWhenPublished
        <5> QED BY <2>1, <5>1 DEF PublishAs, Collected
      <4> QED BY <4>1 DEF Settled
    <3>2. CASE live[h] /\ live'[h]
      <4>1. /\ sess'[h] = sess[h] /\ (Condemned(h) => Condemned(h)')
            /\ Slotted(h) => Slotted(h)' \/ Condemned(h)'
        BY <1>2, <3>2, ThreadLocates
      <4>2. ASSUME NEW u \in Thread, pc[u] = "discard", req[u].op = "solve", claim[u] = h
            PROVE  Settled(h)'
        <5>1. CASE u # t
          BY <1>2, <4>2, <5>1, ThreadAlone DEF Alone, Settled
        <5>2. CASE u = t
          <6>1. Discard(t)
            BY <1>2, <4>2, <5>2 DEF Arrive, BeginSolve, BeginCreate, BeginDestroy, Serve, LookupFinds,
              LookupMisses, BuildFails, Publish, PublishAs, Remember, CloseExtra, Expire,
              StillFresh, CloseExpired, Acquire, AcquireTimesOut, Enter, EnterTimesOut,
              SolveEnds, ClosePopped, Release, EndUse
          <6>2. /\ sess[h].store = req[t].store /\ sess[h].sid = req[t].sid
                /\ req[t].store \in Store /\ req[t].sid \in Sid
            BY <4>2, <5>2, Fields DEF Typed, Named
          <6>3. ~Slotted(h)'
            BY <4>1, <6>1, <6>2 DEF Discard, Slotted, Typed, TypeOK
          <6> QED BY <3>2, <4>1, <6>3 DEF Located, Settled
        <5> QED BY <5>1, <5>2
      <4> QED BY <2>1, <3>2, <4>1, <4>2 DEF Strays, Settled
    <3> QED BY <3>1, <3>2 DEF Settled, Typed, TypeOK
  <2>2. ASSUME NEW u \in Thread, pc'[u] = "solve", ~IsChrome(u)'
        PROVE  claim'[u] \notin stray
    <3>1. CASE u # t
      BY <1>2, <2>2, <3>1, ThreadAlone DEF Alone, Strays, IsChrome
    <3>2. CASE u = t
      <4>1. Enter(t) \/ Acquire(t)
        <5>1. CASE Publish(t)
          BY <2>2, <3>2, <5>1 DEF Publish, PublishAs, Typed, TypeOK
        <5>2. CASE \/ Arrive(t) \/ LookupFinds(t) \/ LookupMisses(t) \/ BuildFails(t)
                   \/ Remember(t) \/ CloseExtra(t) \/ Expire(t) \/ StillFresh(t)
                   \/ CloseExpired(t) \/ AcquireTimesOut(t) \/ EnterTimesOut(t)
                   \/ SolveEnds(t) \/ Discard(t) \/ ClosePopped(t) \/ Release(t) \/ EndUse(t)
          <6>1. \E step \in Step \ {"solve"} : Goto(t, step)
            BY <5>2 DEF Arrive, BeginSolve, BeginCreate, BeginDestroy, LookupFinds,
              LookupMisses, BuildFails, Remember, CloseExtra, Expire, StillFresh,
              CloseExpired, AcquireTimesOut, EnterTimesOut, SolveEnds, Discard, ClosePopped,
              Release, EndUse, Finish, Step
          <6> QED BY <2>2, <3>2, <6>1 DEF Typed, TypeOK
        <5> QED BY <1>2, <5>1, <5>2 DEF Serve
      <4>2. Enter(t)
        BY <2>2, <3>2, <4>1 DEF Acquire, IsChrome, Typed, TypeOK
      <4> QED BY <3>2, <4>2 DEF Enter, ContextFree
    <3> QED BY <3>1, <3>2
  <2>3. stray' = stray /\ stray \subseteq Handle
    BY <1>1, <1>2 DEF Typed, TypeOK
  <2> QED BY <2>1, <2>2, <2>3 DEF Strays
<1>3. ASSUME NEW t \in Thread, SolveTimesOut(t) PROVE Strays'
  <2>1. /\ pc[t] = "solve" /\ claim[t] \in Handle /\ req[t].op = "solve"
        /\ stray' = stray \/ stray' = stray \cup {claim[t]}
        /\ pc' = [pc EXCEPT ![t] = IF IsChrome(t) THEN "discard" ELSE "release"]
        /\ UNCHANGED <<pool, sess, live, claim, mine, req, reaper>>
    BY <1>3 DEF SolveTimesOut, AfterTimeout, Typed, Roles, Role, Using
  <2>2. sess[claim[t]].store = req[t].store
    BY <2>1 DEF Typed, Named
  <2>3. Settled(claim[t])'
    BY <2>1, <2>2 DEF Settled, IsChrome, Typed, TypeOK
  <2>4. ASSUME NEW h \in Handle, Settled(h) PROVE Settled(h)'
    <3>1. Condemned(h) => Condemned(h)'
      BY <2>1 DEF Condemned, Typed, TypeOK
    <3> QED BY <2>1, <2>4, <3>1 DEF Settled, Typed, TypeOK
  <2>5. ASSUME NEW h \in stray' PROVE Settled(h)'
    BY <2>1, <2>3, <2>4 DEF Strays, Typed, TypeOK
  <2>6. ASSUME NEW u \in Thread, pc'[u] = "solve", ~IsChrome(u)'
        PROVE  claim'[u] \notin stray'
    <3>1. u # t /\ pc[u] = "solve" /\ ~IsChrome(u)
      BY <2>1, <2>6 DEF IsChrome, Typed, TypeOK
    <3>2. claim[u] # claim[t]
      BY <2>1, <3>1 DEF Locked, Driving
    <3> QED BY <2>1, <3>1, <3>2 DEF Strays
  <2> QED BY <2>5, <2>6 DEF Strays
<1>4. CASE Clean
  <2>1. /\ UNCHANGED <<stray, pc, req, claim>> /\ \A h \in Handle : live'[h] => live[h]
    BY <1>4 DEF Clean, ReapIdle, EnforceCap, ReaperCloses, ReaperMovesOn, Close, Typed, TypeOK
  <2>2. ASSUME NEW h \in Handle, Settled(h) PROVE Settled(h)'
    <3>1. CASE live'[h]
      BY <1>4, <2>1, <2>2, <3>1, CleanLocates DEF Settled
    <3> QED BY <3>1 DEF Settled
  <2> QED BY <2>1, <2>2 DEF Strays, IsChrome, Typed, TypeOK
<1>5. CASE Tick \/ (\E g \in Handle : StrayStops(g)) \/ UNCHANGED vars
  <2>1. /\ UNCHANGED <<pool, sess, live, pc, req, claim, mine, reaper>> /\ stray' \subseteq stray
    BY <1>5 DEF Tick, StrayStops, vars
  <2>2. \A h \in Handle : Settled(h) => Settled(h)'
    BY <2>1 DEF Settled, Condemned
  <2> QED BY <2>1, <2>2 DEF Strays, IsChrome, Typed, TypeOK
<1> QED BY <1>2, <1>3, <1>4, <1>5 DEF Next, Serve

-----------------------------------------------------------------------------
(* What follows from the last three layers *)

LEMMA LockedHolds == Spec => [](Layers /\ Locked)
<1>1. Init => Locked
  BY DEF Init, Locked, Driving
<1>2. Layers /\ Locked /\ [Next]_vars => Locked'
  BY LockedNext DEF Layers
<1> QED BY <1>1, <1>2, LayersHold, PTL DEF Spec

\* Whatever clients send, two requests never drive one session's browser at a time
\* (Session.lock).
OneDriver ==
  \A t, u \in Thread : pc[t] = "solve" /\ pc[u] = "solve" /\ claim[t] = claim[u] => t = u

THEOREM OneDriverAtATime == Spec => []OneDriver
<1>1. Layers /\ Locked => OneDriver
  BY DEF Layers, Locked, OneDriver, Driving, Typed, Roles, Role, Using
<1> QED BY <1>1, LockedHolds, PTL

\* What keeps a lifetime from taking out the wrong session: no request names one, or
\* nothing else takes sessions out by id (no destroys, and an engine that keeps the
\* session of a solve it cut off).
LifetimesAreSafe ==
  TRUE \notin WithTtl \/ ("destroy" \notin Commands /\ ChromeStore = {})

LEMMA OwnSlotHolds ==
  ASSUME LifetimesAreSafe
  PROVE  Spec => []OwnSlot
<1>1. CASE TRUE \notin WithTtl
  <2>1. Init => NoLifetime
    BY DEF Init, NoLifetime
  <2>2. Layers /\ NoLifetime /\ [Next]_vars => NoLifetime'
    BY <1>1, NoLifetimeNext DEF Layers
  <2>3. NoLifetime => OwnSlot
    BY DEF NoLifetime, OwnSlot
  <2> QED BY <2>1, <2>2, <2>3, LayersHold, PTL DEF Spec
<1>2. CASE "destroy" \notin Commands /\ ChromeStore = {}
  <2>1. Init => Undisturbed
    BY DEF Init, Undisturbed, Holding
  <2>2. Layers /\ Undisturbed /\ [Next]_vars => Undisturbed'
    BY <1>2, UndisturbedNext DEF Layers
  <2>3. Layers /\ Undisturbed => OwnSlot
    BY ConstantsAssumption DEF Layers, Undisturbed, Holding, OwnSlot, Typed, Roles, Role, Using
  <2> QED BY <2>1, <2>2, <2>3, LayersHold, PTL DEF Spec
<1> QED BY <1>1, <1>2 DEF LifetimesAreSafe

LEMMA KeptHolds ==
  ASSUME LifetimesAreSafe
  PROVE  Spec => [](Layers /\ Locked /\ Located /\ Strays)
<1>1. Init => Located /\ Strays
  BY DEF Init, Located, Strays
<1>2. Layers /\ Locked /\ OwnSlot /\ Located /\ Strays /\ [Next]_vars => (Located /\ Strays)'
  BY LocatedNext, StraysNext DEF Layers
<1>3. Spec => []OwnSlot
  BY OwnSlotHolds
<1> QED BY <1>1, <1>2, <1>3, LockedHolds, PTL DEF Spec

\* As long as no request names a lifetime, or nothing but a lifetime takes sessions
\* out by id, no browser is lost: each one running is in its slot of the pool or
\* about to be closed.
THEOREM NoBrowserIsLost ==
  ASSUME LifetimesAreSafe
  PROVE  Spec => []NoLostBrowser
<1>1. Located => NoLostBrowser
  BY DEF Located, Slotted, NoLostBrowser
<1> QED BY <1>1, KeptHolds, PTL

\* Under the same conditions a session's browser has one driver, and none while a
\* command of a timed-out request may still run on it.
THEOREM OnlyOneDrives ==
  ASSUME LifetimesAreSafe
  PROVE  Spec => []SoleDriver
<1>1. Layers /\ Locked /\ Strays => SoleDriver
  <2> SUFFICES ASSUME Layers, Locked, Strays, NEW t \in Thread, pc[t] = "solve"
               PROVE  /\ \A u \in Thread : pc[u] = "solve" /\ claim[u] = claim[t] => u = t
                      /\ claim[t] \in stray => ~live[claim[t]] \/ Condemned(claim[t])
    BY DEF SoleDriver
  <2>1. claim[t] \in Handle /\ sess[claim[t]].store = req[t].store
    BY ConstantsAssumption DEF Layers, Typed, Roles, Role, Using, Named
  <2>2. \A u \in Thread : Driving(u) /\ claim[u] = claim[t] => u = t
    BY <2>1 DEF Locked, Driving
  <2>3. claim[t] \in stray => ~live[claim[t]] \/ Condemned(claim[t])
    BY <2>1, <2>2 DEF Strays, Settled, IsChrome, Driving
  <2> QED BY <2>2, <2>3 DEF Driving
<1> QED BY <1>1, KeptHolds, PTL

-----------------------------------------------------------------------------
(* Used: the memory of exits *)

\* There is a time of last use that the order of the memory follows, and it is another
\* one for each id.
LastUsed(known, order) ==
  \E at \in [Sid -> Nat], now \in Nat :
    /\ \A a \in known : at[a] < now
    /\ \A a, b \in known : <<a, b>> \in order <=> at[a] < at[b]
    /\ \A a, b \in known : at[a] = at[b] => a = b

\* What the memory is like between two of its uses.
InOrder(known, order) ==
  /\ known \subseteq Sid /\ IsFiniteSet(known)
  /\ order \subseteq known \X known
  /\ LastUsed(known, order)

Used == InOrder(Remembered, older) /\ Cardinality(Remembered) <= ProxyMemory

\* A set of numbers that is not empty has a least one.
LEMMA LeastNumber ==
  ASSUME NEW T \in SUBSET Nat, T # {}
  PROVE  \E x \in T : \A y \in T : ~(y < x)
<1>1. \E x \in T : \A y \in T : ~(<<y, x>> \in OpToRel(<, Nat))
  BY NatLessThanWellFounded, WFMin, Zenon
<1>2. \A x, y \in T : <<y, x>> \in OpToRel(<, Nat) <=> y < x
  BY Zenon DEF OpToRel
<1> QED BY <1>1, <1>2, Zenon

\* What was used may be left out.
LEMMA LeavesInOrder ==
  ASSUME NEW known, NEW order, InOrder(known, order), NEW less \in SUBSET known,
         NEW rest \in SUBSET (less \X less),
         \A a, b \in less : <<a, b>> \in rest <=> <<a, b>> \in order
  PROVE  InOrder(less, rest)
<1>1. less \subseteq Sid /\ IsFiniteSet(less)
  BY FS_Subset DEF InOrder
<1>2. LastUsed(less, rest)
  <2>1. PICK at \in [Sid -> Nat], now \in Nat :
          /\ \A a \in known : at[a] < now
          /\ \A a, b \in known : <<a, b>> \in order <=> at[a] < at[b]
          /\ \A a, b \in known : at[a] = at[b] => a = b
    BY DEF InOrder, LastUsed
  <2> QED BY <2>1 DEF LastUsed
<1> QED BY <1>1, <1>2 DEF InOrder

\* An id may be used now, whether it was known or not.
LEMMA UseInOrder ==
  ASSUME NEW sid \in Sid, InOrder(Remembered, older)
  PROVE  InOrder(Remembered \cup {sid}, MovedToEnd(Remembered \cup {sid}, sid))
<1> DEFINE known == Remembered
           more  == known \cup {sid}
           order == MovedToEnd(more, sid)
<1>1. more \subseteq Sid /\ IsFiniteSet(more)
  BY FS_AddElement DEF InOrder
<1>2. order \subseteq more \X more
  BY DEF MovedToEnd, InOrder
<1>3. ASSUME NEW a \in more, NEW b \in more
      PROVE  <<a, b>> \in order <=> a # sid /\ (b = sid \/ <<a, b>> \in older)
  <2>1. CASE b = sid
    BY <1>3, <2>1 DEF MovedToEnd
  <2>2. CASE b # sid
    BY <1>3, <2>2 DEF MovedToEnd
  <2> QED BY <2>1, <2>2
<1>4. LastUsed(more, order)
  <2>1. PICK at \in [Sid -> Nat], now \in Nat :
          /\ \A a \in known : at[a] < now
          /\ \A a, b \in known : <<a, b>> \in older <=> at[a] < at[b]
          /\ \A a, b \in known : at[a] = at[b] => a = b
    BY DEF InOrder, LastUsed
  <2> DEFINE new == [at EXCEPT ![sid] = now]
  <2>2. /\ new \in [Sid -> Nat] /\ new[sid] = now
        /\ \A a \in known : a # sid => new[a] = at[a] /\ at[a] < now /\ at[a] \in Nat
    BY <2>1 DEF InOrder
  <2>3. now + 1 \in Nat /\ \A a \in more : new[a] < now + 1
    BY <2>2
  <2> HIDE DEF new, known, order
  <2>4. ASSUME NEW a \in more, NEW b \in more
        PROVE  <<a, b>> \in order <=> new[a] < new[b]
    <3>1. CASE a = sid
      BY <1>3, <2>2, <3>1
    <3>2. CASE a # sid /\ b = sid
      BY <1>3, <2>2, <3>2
    <3>3. CASE a # sid /\ b # sid
      BY <1>3, <2>1, <2>2, <3>3
    <3> QED BY <3>1, <3>2, <3>3
  <2>5. \A a, b \in more : new[a] = new[b] => a = b
    BY <2>1, <2>2
  <2> HIDE DEF more
  <2> QED BY <2>2, <2>3, <2>4, <2>5 DEF LastUsed
<1> HIDE DEF known, more, order
<1>5. InOrder(more, order)
  BY <1>1, <1>2, <1>4 DEF InOrder
<1> QED BY <1>5 DEF known, more, order

\* Of more ids than fit exactly one goes, and it was used before every other.
LEMMA DropsTheOldest ==
  ASSUME NEW known, NEW order, InOrder(known, order), Cardinality(known) = ProxyMemory + 1
  PROVE  \E old \in known :
           /\ Dropped(known, order) = {old}
           /\ \A s \in known \ {old} : <<old, s>> \in order
<1> USE ConstantsAssumption
<1>1. PICK at \in [Sid -> Nat], now \in Nat :
        /\ \A a \in known : at[a] < now
        /\ \A a, b \in known : <<a, b>> \in order <=> at[a] < at[b]
        /\ \A a, b \in known : at[a] = at[b] => a = b
  BY DEF InOrder, LastUsed
<1> DEFINE times == {at[s] : s \in known}
<1>2. times \in SUBSET Nat /\ times # {}
  BY FS_EmptySet DEF InOrder
<1>3. PICK first \in times : \A y \in times : ~(y < first)
  BY <1>2, LeastNumber
<1>4. PICK old \in known : at[old] = first
  BY <1>3
<1>5. \A s \in known : at[s] \in Nat /\ ~(at[s] < at[old])
  BY <1>3, <1>4 DEF InOrder
<1>6. Dropped(known, order) = {s \in known : \A r \in known : <<r, s>> \notin order}
  BY DEF Dropped
<1>7. \A s \in known \ {old} : <<old, s>> \in order
  BY <1>1, <1>5
<1>8. \A r \in known : <<r, old>> \notin order
  BY <1>1, <1>5
<1>9. Dropped(known, order) = {old}
  BY <1>6, <1>7, <1>8
<1> QED BY <1>7, <1>9

LEMMA RemembersUsed ==
  ASSUME Typed, Used, NEW sid \in Sid, NEW proxy \in Proxy, RememberProxy(sid, proxy)
  PROVE  Used'
<1> USE ConstantsAssumption
<1> DEFINE known == Remembered \cup {sid}
           order == MovedToEnd(known, sid)
           gone  == Dropped(known, order)
<1>1. InOrder(known, order)
  BY UseInOrder DEF Used
<1>2. /\ Cardinality(known) \in Nat /\ Cardinality(known) <= ProxyMemory + 1
      /\ IsFiniteSet(known)
  <2>1. IsFiniteSet(Remembered) /\ Cardinality(Remembered) \in Nat
    BY FS_CardinalityType DEF Used, InOrder
  <2>2. /\ IsFiniteSet(known)
        /\ Cardinality(known) = IF sid \in Remembered THEN Cardinality(Remembered)
                                                      ELSE Cardinality(Remembered) + 1
    BY <2>1, FS_AddElement
  <2> HIDE DEF known
  <2> QED BY <2>1, <2>2 DEF Used
<1>3. Remembered' = known \ gone
  BY DEF RememberProxy, Remembered, Typed, TypeOK
<1>4. older' = {p \in order : p[1] \notin gone /\ p[2] \notin gone}
  BY DEF RememberProxy
<1>5. InOrder(Remembered', older')
  <2> HIDE DEF known, order, gone
  <2>1. Remembered' \in SUBSET known /\ older' \in SUBSET (Remembered' \X Remembered')
    BY <1>1, <1>3, <1>4 DEF InOrder
  <2>2. \A a, b \in Remembered' : <<a, b>> \in older' <=> <<a, b>> \in order
    BY <1>3, <1>4
  <2> QED BY <1>1, <2>1, <2>2, LeavesInOrder
<1>6. Cardinality(Remembered') <= ProxyMemory
  <2>1. CASE Cardinality(known) <= ProxyMemory
    <3>1. known \ gone \in SUBSET known
      OBVIOUS
    <3>2. Cardinality(known \ gone) <= Cardinality(known) /\ IsFiniteSet(known \ gone)
      BY <1>2, <3>1, FS_Subset
    <3>3. Cardinality(known \ gone) \in Nat
      BY <3>2, FS_CardinalityType
    <3> QED BY <1>2, <1>3, <2>1, <3>2, <3>3
  <2>2. CASE Cardinality(known) = ProxyMemory + 1
    <3>1. PICK old \in known : gone = {old}
      BY <1>1, <2>2, DropsTheOldest
    <3> HIDE DEF known, gone
    <3>2. Cardinality(known \ {old}) = Cardinality(known) - 1
      BY <1>2, FS_RemoveElement
    <3> QED BY <1>3, <2>2, <3>1, <3>2
  <2> QED BY <1>2, <2>1, <2>2
<1> HIDE DEF known, order, gone
<1> QED BY <1>5, <1>6 DEF Used

LEMMA RecallsUsed ==
  ASSUME Typed, Used, NEW sid \in Sid, RecallProxy(sid)
  PROVE  Used'
<1>1. Remembered' = Remembered
  BY DEF RecallProxy, Remembered
<1>2. CASE sid \in Remembered
  <2>1. Remembered \cup {sid} = Remembered
    BY <1>2
  <2>2. older' = MovedToEnd(Remembered, sid)
    BY <1>2 DEF RecallProxy
  <2> QED BY <1>1, <2>1, <2>2, UseInOrder DEF Used
<1>3. CASE sid \notin Remembered
  BY <1>1, <1>3 DEF RecallProxy, Used
<1> QED BY <1>2, <1>3

LEMMA ForgetsUsed ==
  ASSUME Typed, Used, NEW sid \in Sid, ForgetProxy(sid)
  PROVE  Used'
<1> USE ConstantsAssumption
<1> DEFINE gone == {sid}
<1>1. Remembered' = Remembered \ gone
  BY DEF ForgetProxy, Remembered, Typed, TypeOK
<1>2. older' = {p \in older : p[1] \notin gone /\ p[2] \notin gone}
  BY DEF ForgetProxy
<1>3. InOrder(Remembered', older')
  <2>1. /\ Remembered' \in SUBSET Remembered
        /\ older' \in SUBSET (Remembered' \X Remembered')
    BY <1>1, <1>2 DEF Used, InOrder
  <2>2. \A a, b \in Remembered' : <<a, b>> \in older' <=> <<a, b>> \in older
    BY <1>1, <1>2
  <2> QED BY <2>1, <2>2, LeavesInOrder DEF Used
<1>4. /\ Cardinality(Remembered) \in Nat /\ Cardinality(Remembered') \in Nat
      /\ Cardinality(Remembered') <= Cardinality(Remembered)
  BY <1>1, FS_Subset, FS_CardinalityType DEF Used, InOrder
<1> QED BY <1>3, <1>4 DEF Used

LEMMA UsedInit == Init => Used
<1> SUFFICES ASSUME Init PROVE Used
  OBVIOUS
<1> USE ConstantsAssumption
<1>1. Remembered = {} /\ older = {}
  BY DEF Init, Remembered
<1>2. LastUsed({}, {})
  <2>1. [s \in Sid |-> 0] \in [Sid -> Nat] /\ 0 \in Nat
    OBVIOUS
  <2> QED BY <2>1 DEF LastUsed
<1> QED BY <1>1, <1>2, FS_EmptySet DEF Used, InOrder

\* Only these touch the memory: a solve and a destroy when they arrive, and Remember.
LEMMA OthersLeaveMemory ==
  ASSUME NEW t \in Thread, BeginCreate(t) \/ (Serve(t) /\ ~Remember(t))
  PROVE  UNCHANGED memoryVars
<1>1. CASE Publish(t)
  BY <1>1 DEF Publish, PublishAs
<1> QED BY <1>1 DEF Serve, BeginCreate, LookupFinds, LookupMisses, BuildFails, CloseExtra,
    Expire, StillFresh, CloseExpired, Acquire, AcquireTimesOut, Enter, EnterTimesOut,
    SolveEnds, SolveTimesOut, Discard, ClosePopped, Release, EndUse

LEMMA CleanLeavesMemory ==
  ASSUME Clean \/ Tick \/ (\E h \in Handle : StrayStops(h)) \/ UNCHANGED vars
  PROVE  UNCHANGED memoryVars
  BY DEF Clean, ReapIdle, EnforceCap, ReaperCloses, ReaperMovesOn, Tick, StrayStops, vars

LEMMA UsedNext ==
  ASSUME Typed, Used, [Next]_vars
  PROVE  Used'
<1>1. ASSUME UNCHANGED memoryVars PROVE Used'
  BY <1>1 DEF Used, Remembered
<1>2. ASSUME NEW t \in Thread, Arrive(t) PROVE Used'
  <2>1. CASE BeginSolve(t)
    <3>1. PICK sid \in Sid : RecallProxy(sid)
      BY <2>1 DEF BeginSolve
    <3> QED BY <3>1, RecallsUsed
  <2>2. CASE BeginCreate(t)
    BY <1>1, <2>2 DEF BeginCreate
  <2>3. CASE BeginDestroy(t)
    <3>1. PICK sid \in Sid : ForgetProxy(sid)
      BY <2>3 DEF BeginDestroy
    <3> QED BY <3>1, ForgetsUsed
  <2> QED BY <1>2, <2>1, <2>2, <2>3 DEF Arrive
<1>3. ASSUME NEW t \in Thread, Remember(t) PROVE Used'
  <2>1. req[t].sid \in Sid /\ req[t].proxy \in Proxy
    BY <1>3, Fields DEF Remember, Typed, Roles, Role
  <2> QED BY <1>3, <2>1, RemembersUsed DEF Remember
<1>4. ASSUME NEW t \in Thread, Serve(t), ~Remember(t) PROVE UNCHANGED memoryVars
  BY <1>4, OthersLeaveMemory
<1>5. ASSUME Clean \/ Tick \/ (\E h \in Handle : StrayStops(h)) \/ UNCHANGED vars
      PROVE  UNCHANGED memoryVars
  BY <1>5, CleanLeavesMemory
<1> QED BY <1>1, <1>2, <1>3, <1>4, <1>5 DEF Next

-----------------------------------------------------------------------------
(* Recorded: the order of the memory is the order of the uses *)

\* Of two remembered ids, one stands before the other exactly when the other was used
\* since it last was.  The order is kept by the memory, the record by the requests.
Recorded == \A a, b \in Remembered : <<a, b>> \in older <=> b \in since[a]

\* What a use does to the order, and to the record.
LEMMA MovedOnUse ==
  ASSUME Typed, Used, NEW sid \in Sid, Use(sid), NEW a \in Remembered \cup {sid},
         NEW b \in Remembered \cup {sid}
  PROVE  /\ <<a, b>> \in MovedToEnd(Remembered \cup {sid}, sid)
              <=> a # sid /\ (b = sid \/ <<a, b>> \in older)
         /\ b \in since'[a] <=> a # sid /\ (b = sid \/ b \in since[a])
<1>1. a \in Sid /\ b \in Sid
  BY DEF Remembered
<1>2. b \in since'[a] <=> a # sid /\ (b = sid \/ b \in since[a])
  BY <1>1 DEF Use, Typed, TypeOK
<1>3. older \subseteq Remembered \X Remembered
  BY DEF Used, InOrder
<1>4. CASE b = sid
  BY <1>2, <1>4 DEF MovedToEnd
<1>5. CASE b # sid
  BY <1>2, <1>3, <1>5 DEF MovedToEnd
<1> QED BY <1>4, <1>5

\* What is left of the memory after something was stored, and in which order.
LEMMA Stores ==
  ASSUME Typed, NEW sid \in Sid, NEW proxy \in Proxy, RememberProxy(sid, proxy)
  PROVE  LET known == Remembered \cup {sid}
             order == MovedToEnd(known, sid)
             gone  == Dropped(known, order)
         IN  /\ Remembered' = known \ gone
             /\ older' = {p \in order : p[1] \notin gone /\ p[2] \notin gone}
             /\ sid \notin gone => memory'[sid] = proxy
  BY ConstantsAssumption DEF RememberProxy, Remembered, Typed, TypeOK

LEMMA RecordedNext ==
  ASSUME Typed, Used, Recorded, [Next]_vars
  PROVE  Recorded'
<1>1. ASSUME UNCHANGED memoryVars PROVE Recorded'
  BY <1>1 DEF Recorded, Remembered
<1>2. ASSUME NEW t \in Thread, BeginSolve(t) PROVE Recorded'
  <2>1. PICK sid \in Sid : RecallProxy(sid) /\ Use(sid)
    BY <1>2 DEF BeginSolve
  <2>2. Remembered' = Remembered
    BY <2>1 DEF RecallProxy, Remembered
  <2> SUFFICES ASSUME NEW a \in Remembered, NEW b \in Remembered
               PROVE  <<a, b>> \in older' <=> b \in since'[a]
    BY <2>2 DEF Recorded
  <2>3. /\ <<a, b>> \in MovedToEnd(Remembered \cup {sid}, sid)
             <=> a # sid /\ (b = sid \/ <<a, b>> \in older)
        /\ b \in since'[a] <=> a # sid /\ (b = sid \/ b \in since[a])
    BY <2>1, MovedOnUse
  <2>4. <<a, b>> \in older <=> b \in since[a]
    BY DEF Recorded
  <2>5. CASE sid \in Remembered
    <3>1. Remembered \cup {sid} = Remembered
      BY <2>5
    <3>2. older' = MovedToEnd(Remembered, sid)
      BY <2>1, <2>5 DEF RecallProxy
    <3> QED BY <2>3, <2>4, <3>1, <3>2
  <2>6. CASE sid \notin Remembered
    BY <2>1, <2>3, <2>4, <2>6 DEF RecallProxy
  <2> QED BY <2>5, <2>6
<1>3. ASSUME NEW t \in Thread, BeginDestroy(t) PROVE Recorded'
  <2>1. PICK sid \in Sid : ForgetProxy(sid) /\ since' = since
    BY <1>3 DEF BeginDestroy
  <2>2. Remembered' = Remembered \ {sid}
    BY <2>1, ConstantsAssumption DEF ForgetProxy, Remembered, Typed, TypeOK
  <2> QED BY <2>1, <2>2 DEF Recorded, ForgetProxy
<1>4. ASSUME NEW t \in Thread, Remember(t) PROVE Recorded'
  <2> DEFINE sid   == req[t].sid
             known == Remembered \cup {sid}
             order == MovedToEnd(known, sid)
             gone  == Dropped(known, order)
  <2>1. sid \in Sid /\ req[t].proxy \in Proxy /\ RememberProxy(sid, req[t].proxy) /\ Use(sid)
    BY <1>4, Fields DEF Remember, Typed, Roles, Role
  <2>2. /\ Remembered' = known \ gone
        /\ older' = {p \in order : p[1] \notin gone /\ p[2] \notin gone}
    BY <2>1, Stores
  <2> SUFFICES ASSUME NEW a \in known \ gone, NEW b \in known \ gone
               PROVE  <<a, b>> \in older' <=> b \in since'[a]
    BY <2>2 DEF Recorded
  <2>3. /\ <<a, b>> \in order <=> a # sid /\ (b = sid \/ <<a, b>> \in older)
        /\ b \in since'[a] <=> a # sid /\ (b = sid \/ b \in since[a])
    BY <2>1, MovedOnUse
  <2>4. a # sid /\ b # sid => (<<a, b>> \in older <=> b \in since[a])
    BY DEF Recorded
  <2>5. <<a, b>> \in older' <=> <<a, b>> \in order
    BY <2>2
  <2> HIDE DEF known, order, gone, sid
  <2> QED BY <2>3, <2>4, <2>5
<1>5. ASSUME NEW t \in Thread, BeginCreate(t) \/ (Serve(t) /\ ~Remember(t))
      PROVE  UNCHANGED memoryVars
  BY <1>5, OthersLeaveMemory
<1>6. ASSUME Clean \/ Tick \/ (\E h \in Handle : StrayStops(h)) \/ UNCHANGED vars
      PROVE  UNCHANGED memoryVars
  BY <1>6, CleanLeavesMemory
<1> QED BY <1>1, <1>2, <1>3, <1>4, <1>5, <1>6 DEF Next, Arrive

\* The memory of exits drops nothing but what was used least recently, and only when it
\* is full (_remember_proxy, _recall_proxy): for any number of clients, ids and entries.
THEOREM MemoryIsLru == Spec => ProxyMemoryIsLru
<1> DEFINE Lru ==
      /\ \A t \in Thread : pc[t] = "remember" /\ pc'[t] # "remember" =>
           memory'[req[t].sid] = req[t].proxy
      /\ Cardinality(Remembered') <= ProxyMemory
      /\ \A a \in Remembered \ Remembered' :
           \/ \E t \in Thread : pc[t] = "idle" /\ pc'[t] = "discard" /\ req'[t].sid = a
           \/ /\ Cardinality(Remembered') = ProxyMemory
              /\ Remembered' \subseteq since'[a]
<1>1. Init => Typed /\ Used /\ Recorded
  <2>1. Init => Recorded
    BY DEF Init, Recorded, Remembered
  <2> QED BY <2>1, TypedInit, UsedInit
<1>2. Typed /\ Used /\ Recorded /\ [Next]_vars => (Typed /\ Used /\ Recorded)'
  BY TypedNext, UsedNext, RecordedNext
<1>3. Typed /\ Used /\ Recorded /\ [Next]_vars => [Lru]_vars
  <2> SUFFICES ASSUME Typed, Used, Recorded, Next PROVE Lru
    OBVIOUS
  <2>1. Cardinality(Remembered') <= ProxyMemory
    BY UsedNext DEF Used
  <2>2. ASSUME NEW t \in Thread, Remember(t) PROVE Lru
    <3> DEFINE sid   == req[t].sid
               known == Remembered \cup {sid}
               order == MovedToEnd(known, sid)
               gone  == Dropped(known, order)
    <3>1. sid \in Sid /\ req[t].proxy \in Proxy /\ RememberProxy(sid, req[t].proxy) /\ Use(sid)
      BY <2>2, Fields DEF Remember, Typed, Roles, Role
    <3>2. /\ Remembered' = known \ gone
          /\ older' = {p \in order : p[1] \notin gone /\ p[2] \notin gone}
          /\ sid \notin gone => memory'[sid] = req[t].proxy
      BY <3>1, Stores
    <3>3. \A u \in Thread : u # t => pc'[u] = pc[u]
      BY <2>2 DEF Remember, Finish, Typed, TypeOK
    <3>4. /\ IsFiniteSet(known) /\ Cardinality(known) \in Nat
          /\ Cardinality(known) <= ProxyMemory + 1
      <4>1. IsFiniteSet(Remembered) /\ Cardinality(Remembered) \in Nat
        BY FS_CardinalityType DEF Used, InOrder
      <4>2. /\ IsFiniteSet(known)
            /\ Cardinality(known) = IF sid \in Remembered THEN Cardinality(Remembered)
                                                          ELSE Cardinality(Remembered) + 1
        BY <4>1, FS_AddElement
      <4> HIDE DEF known
      <4> QED BY <4>1, <4>2, ConstantsAssumption DEF Used
    <3>5. InOrder(known, order)
      BY <3>1, UseInOrder DEF Used
    <3>6. \A a, b \in known :
            /\ <<a, b>> \in order <=> a # sid /\ (b = sid \/ <<a, b>> \in older)
            /\ b \in since'[a] <=> a # sid /\ (b = sid \/ b \in since[a])
      BY <3>1, MovedOnUse
    <3>7. CASE Cardinality(known) <= ProxyMemory
      <4>1. gone = {}
        BY <3>4, <3>7, ConstantsAssumption DEF Dropped
      <4>2. Remembered \subseteq Remembered' /\ memory'[sid] = req[t].proxy
        BY <3>2, <4>1
      <4> HIDE DEF known, order, gone
      <4> QED BY <2>1, <3>3, <4>2
    <3>8. CASE Cardinality(known) = ProxyMemory + 1
      <4>1. PICK old \in known : gone = {old} /\ \A s \in known \ {old} : <<old, s>> \in order
        BY <3>5, <3>8, DropsTheOldest
      <4>2. Cardinality(known \ {old}) = ProxyMemory
        <5> HIDE DEF known
        <5>1. Cardinality(known \ {old}) = Cardinality(known) - 1
          BY <3>4, FS_RemoveElement
        <5> QED BY <3>8, <5>1, ConstantsAssumption
      <4>3. known \ {old} # {}
        BY <4>2, FS_EmptySet, ConstantsAssumption
      <4> HIDE DEF known, order, gone
      <4>4. old # sid
        BY <3>6, <4>1, <4>3
      <4>5. \A s \in known \ {old} : s \in since'[old]
        <5> SUFFICES ASSUME NEW s \in known \ {old} PROVE s \in since'[old]
          OBVIOUS
        <5>1. s = sid \/ <<old, s>> \in older
          BY <3>6, <4>1
        <5>2. s # sid => old \in Remembered /\ s \in Remembered
          BY <4>4 DEF known
        <5> QED BY <3>6, <4>4, <5>1, <5>2 DEF Recorded
      <4>6. Remembered \ Remembered' \subseteq {old} /\ Remembered' = known \ {old}
        BY <3>2, <4>1 DEF known
      <4>7. memory'[sid] = req[t].proxy
        BY <3>2, <4>1, <4>4
      <4> QED BY <2>1, <3>3, <4>2, <4>5, <4>6, <4>7 DEF sid
    <3> QED BY <3>4, <3>7, <3>8, ConstantsAssumption
  <2>3. ASSUME NEW t \in Thread, BeginSolve(t) \/ BeginDestroy(t) PROVE Lru
    <3>1. /\ pc[t] = "idle" /\ \A u \in Thread : u # t => pc'[u] = pc[u]
          /\ pc'[t] = IF BeginSolve(t) THEN "lookup" ELSE "discard"
      BY <2>3 DEF BeginSolve, BeginDestroy, Typed, TypeOK
    <3>2. CASE BeginSolve(t)
      <4>1. Remembered' = Remembered
        BY <3>2 DEF BeginSolve, RecallProxy, Remembered
      <4> QED BY <2>1, <3>1, <4>1
    <3>3. CASE BeginDestroy(t)
      <4>1. PICK st \in Store, sid \in Sid :
              /\ ForgetProxy(sid)
              /\ req' = [req EXCEPT ![t] =
                   [op |-> "destroy", store |-> st, sid |-> sid, ttl |-> FALSE, proxy |-> None]]
        BY <3>3 DEF BeginDestroy
      <4>2. Remembered \ Remembered' \subseteq {sid}
        BY <4>1 DEF ForgetProxy, Remembered, Typed, TypeOK
      <4>3. req'[t].sid = sid
        BY <4>1 DEF Typed, TypeOK
      <4>4. pc'[t] = "discard"
        BY <3>3 DEF BeginDestroy, Typed, TypeOK
      <4> QED BY <2>1, <3>1, <4>2, <4>3, <4>4
    <3> QED BY <2>3, <3>2, <3>3
  <2>4. ASSUME NEW t \in Thread, BeginCreate(t) \/ (Serve(t) /\ ~Remember(t))
        PROVE  Remembered' = Remembered /\ \A u \in Thread : pc[u] = "remember" => pc'[u] = pc[u]
    <3>1. UNCHANGED memoryVars
      BY <2>4, OthersLeaveMemory
    <3>2. pc[t] # "remember" /\ \A u \in Thread : u # t => pc'[u] = pc[u]
      <4>1. CASE Publish(t)
        BY <4>1 DEF Publish, PublishAs, Typed, TypeOK
      <4> QED BY <2>4, <4>1 DEF Serve, BeginCreate, LookupFinds, LookupMisses, BuildFails,
          CloseExtra, Expire, StillFresh, CloseExpired, Acquire, AcquireTimesOut, Enter,
          EnterTimesOut, SolveEnds, SolveTimesOut, Discard, ClosePopped, Release, EndUse,
          Finish, Typed, TypeOK
    <3> QED BY <3>1, <3>2 DEF Remembered
  <2>5. ASSUME Clean \/ Tick \/ (\E h \in Handle : StrayStops(h))
        PROVE  Remembered' = Remembered /\ pc' = pc
    <3>1. UNCHANGED memoryVars
      BY <2>5, CleanLeavesMemory
    <3> QED BY <2>5, <3>1
        DEF Clean, ReapIdle, EnforceCap, ReaperCloses, ReaperMovesOn, Tick, StrayStops, Remembered
  <2> QED BY <2>1, <2>2, <2>3, <2>4, <2>5 DEF Next, Arrive
<1> QED BY <1>1, <1>2, <1>3, PTL DEF Spec, ProxyMemoryIsLru

-----------------------------------------------------------------------------
(* Finite: a pass of the cap *)

\* Every pool holds finitely many sessions.
Finite == \A st \in Store : IsFiniteSet(PooledIn(st))

\* A pool the step puts no more than one session in stays finite.
LEMMA StaysFinite ==
  ASSUME Finite, NEW h, \A st \in Store : PooledIn(st)' \subseteq PooledIn(st) \cup {h}
  PROVE  Finite'
<1>1. ASSUME NEW st \in Store PROVE IsFiniteSet(PooledIn(st)')
  <2>1. IsFiniteSet(PooledIn(st) \cup {h})
    BY FS_AddElement DEF Finite
  <2> QED BY <2>1, FS_Subset
<1> QED BY <1>1 DEF Finite

LEMMA FiniteInit == Init => Finite
<1> SUFFICES ASSUME Init, NEW st \in Store PROVE IsFiniteSet(PooledIn(st))
  BY DEF Finite
<1>1. PooledIn(st) = {}
  BY ConstantsAssumption DEF Init, PooledIn
<1> QED BY <1>1, FS_EmptySet

LEMMA FiniteNext ==
  ASSUME Typed, Finite, [Next]_vars
  PROVE  Finite'
<1>1. ASSUME PoolShrinks PROVE Finite'
  <2>1. ASSUME NEW st \in Store PROVE PooledIn(st)' \subseteq PooledIn(st)
    BY <1>1, ConstantsAssumption DEF PoolShrinks, PooledIn
  <2> QED BY <2>1, StaysFinite
<1>2. ASSUME NEW t \in Thread, Publish(t) PROVE Finite'
  <2>1. PICK built \in Handle : PublishAs(t, built)
    BY <1>2 DEF Publish
  <2> DEFINE h == Stored(At(req[t].store, req[t].sid), built)
  <2>2. pool' = [pool EXCEPT ![req[t].store][req[t].sid] = h]
    BY <2>1 DEF PublishAs
  <2>3. req[t].store \in Store /\ req[t].sid \in Sid
    BY <2>1, Fields DEF PublishAs
  <2> HIDE DEF h
  <2>4. \A st \in Store : PooledIn(st)' \subseteq PooledIn(st) \cup {h}
    BY <2>2, <2>3 DEF PooledIn, Typed, TypeOK
  <2> QED BY <2>4, StaysFinite
<1>3. ASSUME NEW t \in Thread, Arrive(t) \/ Serve(t), ~Publish(t) PROVE PoolShrinks
  <2>1. CASE Expire(t) \/ Discard(t)
    <3>1. /\ req[t].store \in Store /\ req[t].sid \in Sid
          /\ pool' = [pool EXCEPT ![req[t].store][req[t].sid] = None]
      BY <2>1, Fields DEF Expire, Discard
    <3> QED BY <3>1, SlotCleared
  <2>2. CASE ~(Expire(t) \/ Discard(t))
    <3>1. pool' = pool
      BY <1>3, <2>2 DEF Arrive, BeginSolve, BeginCreate, BeginDestroy, Serve, LookupFinds,
        LookupMisses, BuildFails, Remember, CloseExtra, StillFresh, CloseExpired, Acquire,
        AcquireTimesOut, Enter, EnterTimesOut, SolveEnds, SolveTimesOut, ClosePopped, Release,
        EndUse
    <3> QED BY <3>1 DEF PoolShrinks
  <2> QED BY <2>1, <2>2
<1>4. ASSUME Clean PROVE PoolShrinks
  <2>1. pool' = pool \/ \E H : pool' = Without(H)
    BY <1>4 DEF Clean, ReapIdle, EnforceCap, ReaperCloses, ReaperMovesOn
  <2> QED BY <2>1, WithoutShrinks DEF PoolShrinks
<1>5. ASSUME Tick \/ (\E h \in Handle : StrayStops(h)) \/ UNCHANGED vars PROVE PoolShrinks
  BY <1>5 DEF Tick, StrayStops, vars, PoolShrinks
<1> QED BY <1>1, <1>2, <1>3, <1>4, <1>5 DEF Next

\* What the cap leaves of a finite pool.
LEMMA CapLeaves ==
  ASSUME Typed, Counted, NEW st \in Store, IsFiniteSet(PooledIn(st)), MaxSessions > 0,
         NEW E \in Evictable(st)
  PROVE  \/ Cardinality(PooledIn(st) \ E) <= MaxSessions
         \/ \A h \in PooledIn(st) \ E : Holders(h) # {}
<1> USE ConstantsAssumption
<1> DEFINE all  == PooledIn(st)
           free == {h \in all : inUse[h] = 0}
<1>1. /\ Cardinality(all) \in Nat /\ IsFiniteSet(free) /\ Cardinality(free) \in Nat
  BY FS_Subset, FS_CardinalityType
<1>2. CASE Cardinality(all) <= MaxSessions
  <2>1. E = {}
    BY <1>2 DEF Evictable
  <2>2. all \ E = all
    BY <2>1
  <2> HIDE DEF all
  <2> QED BY <1>2, <2>2 DEF all
<1>3. CASE Cardinality(all) > MaxSessions
  <2>1. ~(MaxSessions = 0 \/ Cardinality(PooledIn(st)) <= MaxSessions)
    BY <1>1, <1>3
  <2>2. /\ E \in SUBSET free
        /\ Cardinality(E) = IF Cardinality(free) < Over(st) THEN Cardinality(free) ELSE Over(st)
    BY <2>1 DEF Evictable
  <2>3. IsFiniteSet(E) /\ E \in SUBSET all
    BY <1>1, <2>2, FS_Subset
  <2>4. CASE Cardinality(free) < Over(st)
    <3>1. E = free
      BY <1>1, <2>2, <2>4, FS_Subset
    <3>2. ASSUME NEW h \in all \ E PROVE Holders(h) # {}
      <4>1. h \in Handle /\ Pooled(h) /\ inUse[h] # 0
        BY <3>1, <3>2 DEF PooledIn, Pooled
      <4>2. Cardinality(Holders(h)) # 0
        BY <4>1 DEF Counted
      <4> QED BY <4>2, FS_EmptySet
    <3> QED BY <3>2
  <2>5. CASE ~(Cardinality(free) < Over(st))
    <3>1. Cardinality(E) = Cardinality(all) - MaxSessions
      BY <2>2, <2>5 DEF Over
    <3>2. all \cap E = E
      BY <2>3
    <3>3. Cardinality(all \ E) = Cardinality(all) - Cardinality(E)
      BY <3>2, FS_Difference
    <3> HIDE DEF all
    <3> QED BY <1>1, <3>1, <3>3 DEF all
  <2> QED BY <2>4, <2>5
<1> QED BY <1>1, <1>2, <1>3

\* A pass of the cap (SessionStore.enforce_cap) never leaves a store over its limit
\* while it holds a session no request is on, whatever the limit and however many
\* sessions came since the last pass.
THEOREM CapRestores == Spec => CapIsRestored
<1> DEFINE Restored ==
      reaper.step = "enforceCap" /\ reaper'.step = "closeOver" /\ MaxSessions > 0 =>
        LET left == PooledIn(reaper.store)'
        IN  Cardinality(left) <= MaxSessions \/ \A h \in left : Holders(h) # {}
<1>1. Init => Finite
  BY FiniteInit
<1>2. Layers /\ Finite /\ [Next]_vars => Finite'
  BY FiniteNext DEF Layers
<1>3. Layers /\ Finite /\ [Next]_vars => [Restored]_vars
  <2> SUFFICES ASSUME Layers, Finite, [Next]_vars, MaxSessions > 0,
                      reaper.step = "enforceCap", reaper'.step = "closeOver"
               PROVE  LET left == PooledIn(reaper.store)'
                      IN  Cardinality(left) <= MaxSessions \/ \A h \in left : Holders(h) # {}
    OBVIOUS
  <2>1. EnforceCap
    <3>1. ASSUME NEW t \in Thread, Arrive(t) \/ Serve(t) PROVE reaper' = reaper
      <4>1. CASE Publish(t)
        BY <4>1 DEF Publish, PublishAs
      <4> QED BY <3>1, <4>1 DEF Arrive, BeginSolve, BeginCreate, BeginDestroy, Serve, LookupFinds,
          LookupMisses, BuildFails, Remember, CloseExtra, Expire, StillFresh, CloseExpired,
          Acquire, AcquireTimesOut, Enter, EnterTimesOut, SolveEnds, SolveTimesOut, Discard,
          ClosePopped, Release, EndUse
    <3>2. ASSUME Tick \/ (\E h \in Handle : StrayStops(h)) \/ UNCHANGED vars PROVE reaper' = reaper
      BY <3>2 DEF Tick, StrayStops, vars
    <3>3. ASSUME NEW h \in Handle, ReaperCloses(h) PROVE reaper'.step = reaper.step
      BY <3>3 DEF ReaperCloses, Layers, Typed, TypeOK
    <3> QED BY <3>1, <3>2, <3>3 DEF Next, Clean, ReapIdle, ReaperMovesOn
  <2>2. PICK E \in Evictable(reaper.store) : pool' = Without(E)
    BY <2>1 DEF EnforceCap
  <2>3. reaper.store \in Store
    BY DEF Layers, Visiting
  <2>4. reaper'.store = reaper.store
    BY <2>1, <2>2 DEF EnforceCap, Layers, Typed, TypeOK
  <2>5. ASSUME NEW st \in Store PROVE PooledIn(st)' = PooledIn(st) \ E
    BY <2>2, ConstantsAssumption DEF PooledIn, Without, Layers, Typed, TypeOK
  <2>6. PooledIn(reaper.store)' = PooledIn(reaper.store) \ E
    BY <2>3, <2>4, <2>5
  <2>7. IsFiniteSet(PooledIn(reaper.store))
    BY <2>3 DEF Finite
  <2> QED BY <2>2, <2>3, <2>6, <2>7, CapLeaves DEF Layers
<1> QED BY <1>1, <1>2, <1>3, LayersHold, PTL DEF Spec, CapIsRestored
=============================================================================
