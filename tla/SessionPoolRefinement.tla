------------------------ MODULE SessionPoolRefinement ------------------------
(***************************************************************************)
(* SessionStore implements SessionPool, for every value of the constants:  *)
(* each step of a request, of the cleanup or of time is one step of the    *)
(* abstract pool, or leaves it as it is.  The invariants of                *)
(* SessionStoreProofs say why: what the cleanup takes out has no mark on   *)
(* it (Counted), what is closed is not in the pool (Apart), and who drives *)
(* holds the lock (Locked).                                                *)
(***************************************************************************)
EXTENDS SessionStoreProofs

USE DEF tableVars, browserVars, memoryVars, localVars, allButPc, Goto

Drivers == {t \in Thread : pc[t] = "solve"}

\* The step is one of the abstract pool, or none.
Simulated == Pool!Next \/ UNCHANGED <<pool, live, claim, Drivers>>

\* A step of t that neither begins nor ends a solve.
Quiet(t) == Alone(t) /\ pc[t] # "solve" /\ pc'[t] # "solve"

LEMMA QuietDrivers ==
  ASSUME NEW t \in Thread, Quiet(t)
  PROVE  Drivers' = Drivers
  BY DEF Drivers, Quiet, Alone

LEMMA Rests ==
  ASSUME NEW t \in Thread, Quiet(t), UNCHANGED <<pool, live, claim>>
  PROVE  Simulated
  BY QuietDrivers DEF Simulated

LEMMA Leaves ==
  ASSUME NEW t \in Thread, Quiet(t), UNCHANGED <<pool, live>>,
         claim' = [claim EXCEPT ![t] = None]
  PROVE  Simulated
<1>1. t \notin Drivers /\ Drivers' = Drivers
  BY QuietDrivers DEF Drivers, Quiet
<1>2. Pool!Leave(t)
  BY <1>1 DEF Pool!Leave, Pool!Turns, Drivers
<1> QED BY <1>2 DEF Simulated, Pool!Next

LEMMA Drops ==
  ASSUME NEW t \in Thread, Quiet(t), UNCHANGED <<live, claim>>,
         NEW st \in Store, NEW sid \in Sid, pool' = [pool EXCEPT ![st][sid] = None]
  PROVE  Simulated
<1>1. Pool!Drop(st, sid)
  BY QuietDrivers DEF Pool!Drop, Drivers
<1> QED BY <1>1 DEF Simulated, Pool!Next

LEMMA Closes ==
  ASSUME NEW h \in Handle, ~Pooled(h), Close(h), UNCHANGED <<pool, claim, Drivers>>
  PROVE  Simulated
<1>1. Pool!Close(h)
  BY DEF Pool!Close, Pool!Pooled, Pooled, Close, Drivers
<1> QED BY <1>1 DEF Simulated, Pool!Next

LEMMA Evicts ==
  ASSUME Typed, Counted, NEW H \in SUBSET Handle, pool' = Without(H),
         \A h \in H : Pooled(h) /\ inUse[h] = 0, UNCHANGED <<live, claim, pc>>
  PROVE  Simulated
<1>1. \A h \in H : Holders(h) = {}
  <2> SUFFICES ASSUME NEW h \in H PROVE Holders(h) = {}
    OBVIOUS
  <2>1. IsFiniteSet(Holders(h))
    BY ConstantsAssumption, FS_Subset DEF Holders
  <2>2. Cardinality(Holders(h)) = 0
    BY DEF Counted
  <2> QED BY <2>1, <2>2, FS_EmptySet
<1>2. Pool!Evict(H)
  BY <1>1 DEF Pool!Evict, Without, Holders
<1> QED BY <1>2 DEF Simulated, Pool!Next

-----------------------------------------------------------------------------
(* The steps of a request *)

\* Those that touch neither the pool, a browser nor a mark, and do not drive.
LEMMA RestingSteps ==
  ASSUME Typed, NEW t \in Thread, Alone(t),
         \/ Arrive(t) \/ LookupMisses(t) \/ StillFresh(t) \/ AcquireTimesOut(t)
         \/ EnterTimesOut(t) \/ Release(t)
  PROVE  Simulated
<1>1. CASE Arrive(t)
  BY <1>1, Rests DEF Arrive, BeginSolve, BeginCreate, BeginDestroy, Quiet, Typed, TypeOK
<1>2. CASE LookupMisses(t) \/ StillFresh(t) \/ AcquireTimesOut(t) \/ EnterTimesOut(t) \/ Release(t)
  BY <1>2, Rests DEF LookupMisses, StillFresh, AcquireTimesOut, EnterTimesOut, Release, Quiet,
    Typed, TypeOK
<1> QED BY <1>1, <1>2

LEMMA LookupFindsSimulated ==
  ASSUME Typed, NEW t \in Thread, Alone(t), LookupFinds(t)
  PROVE  Simulated
<1> DEFINE h == At(req[t].store, req[t].sid)
<1>1. /\ pc[t] = "lookup" /\ h \in Handle /\ Pooled(h)
      /\ UNCHANGED <<pool, live>>
  BY Fields DEF LookupFinds, At, Pooled
<1>2. CASE Claim(t, h) /\ Goto(t, "expire")
  <2>1. Quiet(t)
    BY <1>1, <1>2 DEF Quiet, Typed, TypeOK
  <2>2. Pool!Use(t, h)
    BY <1>1, <1>2, <2>1, QuietDrivers
    DEF Pool!Use, Pool!Turns, Pool!Pooled, Pooled, Claim, Drivers
  <2> HIDE DEF h
  <2> QED BY <1>1, <2>2 DEF Simulated, Pool!Next
<1>3. CASE Finish(t)
  BY <1>1, <1>3, Leaves DEF Finish, Quiet, Typed, TypeOK
<1> QED BY <1>2, <1>3 DEF LookupFinds

LEMMA PublishSimulated ==
  ASSUME Typed, NEW t \in Thread, Alone(t), Publish(t)
  PROVE  Simulated
<1> DEFINE st == req[t].store
           sid == req[t].sid
           race == At(st, sid)
<1>1. PICK built \in Handle : PublishAs(t, built)
  BY DEF Publish
<1> DEFINE h == Stored(race, built)
<1>2. /\ pc[t] = "build" /\ st \in Store /\ sid \in Sid /\ race \in Handle \cup {None}
      /\ Quiet(t)
  BY <1>1, Fields DEF PublishAs, Quiet, Typed, TypeOK
<1>3. /\ live' = [live EXCEPT ![built] = TRUE]
      /\ pool' = [pool EXCEPT ![st][sid] = h]
      /\ claim' = claim \/ claim' = [claim EXCEPT ![t] = h]
      /\ Collected(built)
  BY <1>1 DEF PublishAs, Typed, TypeOK
<1>4. Pool!Free(built)
  BY <1>3 DEF Pool!Free, Pool!Pooled, Pooled, Collected
<1>5. t \notin Drivers /\ Drivers' = Drivers
  BY <1>2, QuietDrivers DEF Drivers, Quiet
<1>6. Pool!MayTurnTo(h)
  BY <1>3, <1>5 DEF Pool!MayTurnTo, Pool!Turns, Drivers
<1>7. CASE race = None
  <2>1. h = built
    BY <1>7 DEF Stored
  <2>2. pool[st][sid] = None
    BY <1>7 DEF At
  <2> HIDE DEF h, st, sid, race
  <2>3. Pool!Open(st, sid, built)
    BY <1>3, <1>4, <1>5, <1>6, <2>1, <2>2 DEF Pool!Open, Drivers
  <2> QED BY <1>2, <2>3 DEF Simulated, Pool!Next
<1>8. CASE race # None
  <2>1. h = race /\ race \in Handle /\ pool[st][sid] = race
    BY <1>2, <1>8 DEF Stored, At
  <2> HIDE DEF h, st, sid, race
  <2>2. pool' = pool
    BY <1>2, <1>3, <2>1 DEF Typed, TypeOK
  <2>3. \E winner \in Handle : Pool!Pooled(winner) /\ Pool!MayTurnTo(winner)
    BY <1>2, <1>6, <2>1 DEF Pool!Pooled
  <2>4. Pool!LoseRace(built)
    BY <1>3, <1>4, <1>5, <2>2, <2>3 DEF Pool!LoseRace, Drivers
  <2> QED BY <2>4 DEF Simulated, Pool!Next
<1> QED BY <1>7, <1>8

\* A browser is closed by the thread that took its session out of the pool.
LEMMA ClosingSteps ==
  ASSUME Typed, Apart, NEW t \in Thread, Alone(t),
         CloseExtra(t) \/ ClosePopped(t) \/ CloseExpired(t)
  PROVE  Simulated
<1>1. CASE CloseExtra(t) \/ ClosePopped(t)
  <2>1. /\ mine[t] \in Handle /\ Condemned(mine[t]) /\ Close(mine[t]) /\ pool' = pool
    BY <1>1 DEF CloseExtra, ClosePopped, Extra, Condemned, Typed, TypeOK, Roles, Role
  <2>2. claim' = claim
    BY <1>1 DEF CloseExtra, ClosePopped, Finish, Typed, TypeOK, Roles, Role
  <2>3. Quiet(t)
    BY <1>1 DEF CloseExtra, ClosePopped, Finish, Quiet, Typed, TypeOK
  <2> QED BY <2>1, <2>2, <2>3, QuietDrivers, Closes DEF Apart
<1>2. CASE CloseExpired(t)
  <2>1. /\ claim[t] \in Handle /\ Condemned(claim[t]) /\ Close(claim[t])
        /\ UNCHANGED <<pool, claim>> /\ Quiet(t)
    BY <1>2 DEF CloseExpired, Condemned, Quiet, Typed, TypeOK, Roles, Role, Using
  <2> QED BY <2>1, QuietDrivers, Closes DEF Apart
<1> QED BY <1>1, <1>2

LEMMA DroppingSteps ==
  ASSUME Typed, NEW t \in Thread, Alone(t), Expire(t) \/ Discard(t)
  PROVE  Simulated
<1>1. req[t].store \in Store /\ req[t].sid \in Sid
  BY Fields DEF Expire, Discard
<1>2. pool' = [pool EXCEPT ![req[t].store][req[t].sid] = None] /\ live' = live
  BY DEF Expire, Discard
<1>3. claim' = claim
  BY DEF Expire, Discard, Finish, Typed, TypeOK, Roles, Role
<1>4. Quiet(t)
  BY DEF Expire, Discard, Finish, Quiet, Typed, TypeOK
<1> QED BY <1>1, <1>2, <1>3, <1>4, Drops

\* A mark is given back.
LEMMA LeavingSteps ==
  ASSUME Typed, NEW t \in Thread, Alone(t), BuildFails(t) \/ Remember(t) \/ EndUse(t)
  PROVE  Simulated
<1>1. Quiet(t) /\ UNCHANGED <<pool, live>>
  BY DEF BuildFails, Remember, EndUse, Finish, Quiet, Typed, TypeOK
<1>2. claim' = claim \/ claim' = [claim EXCEPT ![t] = None]
  BY DEF BuildFails, Remember, EndUse, Finish
<1> QED BY <1>1, <1>2, Rests, Leaves

\* No request drives while another one drives the same session.
LEMMA DrivingSteps ==
  ASSUME Typed, Locked, NEW t \in Thread, Alone(t),
         Acquire(t) \/ Enter(t) \/ SolveEnds(t) \/ SolveTimesOut(t)
  PROVE  Simulated
<1> USE ConstantsAssumption
<1>1. UNCHANGED <<pool, live, claim>>
  BY DEF Acquire, Enter, SolveEnds, SolveTimesOut
<1>2. CASE Acquire(t) \/ Enter(t)
  <2>1. pc[t] \in {"acquire", "enter"} /\ claim[t] \in Handle
    BY <1>2 DEF Acquire, Enter, Typed, Roles, Role, Using
  <2>2. \A u \in Drivers : claim[u] # claim[t]
    <3> SUFFICES ASSUME NEW u \in Drivers, claim[u] = claim[t] PROVE FALSE
      OBVIOUS
    <3>1. lock[claim[t]] = u /\ u # t
      BY <2>1 DEF Drivers, Locked, Driving
    <3>2. pc[t] = "enter" => lock[claim[t]] = t
      BY <2>1 DEF Locked, Driving
    <3>3. u \in Thread
      BY DEF Drivers
    <3> QED BY <1>2, <2>1, <3>1, <3>2, <3>3 DEF Acquire, Enter
  <2>3. CASE pc'[t] = "solve"
    <3>1. Drivers' = Drivers \cup {t}
      BY <2>3 DEF Drivers, Alone
    <3>2. Pool!Drive(t)
      BY <1>1, <2>1, <2>2, <3>1 DEF Pool!Drive, Drivers
    <3> QED BY <3>2 DEF Simulated, Pool!Next
  <2>4. CASE pc'[t] # "solve"
    BY <1>1, <2>1, <2>4, Rests DEF Quiet
  <2> QED BY <2>3, <2>4
<1>3. CASE SolveEnds(t) \/ SolveTimesOut(t)
  <2>1. pc'[t] # "solve"
    BY <1>3 DEF SolveEnds, SolveTimesOut, AfterTimeout, Typed, TypeOK
  <2>2. Drivers' = Drivers \ {t}
    BY <2>1 DEF Drivers, Alone
  <2>3. Pool!Stop(t)
    BY <1>1, <2>2 DEF Pool!Stop, Drivers
  <2> QED BY <2>3 DEF Simulated, Pool!Next
<1> QED BY <1>2, <1>3

-----------------------------------------------------------------------------
LEMMA CleaningSteps ==
  ASSUME Typed, Counted, Visiting, Apart, Clean
  PROVE  Simulated
<1>1. ASSUME NEW st \in Store, ReapIdle(st) PROVE Simulated
  <2>1. \A h \in IdleIn(st) : Pooled(h) /\ inUse[h] = 0
    BY DEF IdleIn, PooledIn, Pooled
  <2>2. IdleIn(st) \in SUBSET Handle
    BY DEF IdleIn, PooledIn
  <2> QED BY <1>1, <2>1, <2>2, Evicts DEF ReapIdle
<1>2. ASSUME EnforceCap PROVE Simulated
  <2>1. PICK E \in Evictable(reaper.store) : pool' = Without(E)
    BY <1>2 DEF EnforceCap
  <2>2. E \in SUBSET Handle /\ \A h \in E : inUse[h] = 0 /\ h \in PooledIn(reaper.store)
    BY DEF Evictable, PooledIn
  <2>3. reaper.store \in Store
    BY <1>2 DEF EnforceCap, Visiting
  <2>4. \A h \in E : Pooled(h)
    BY <2>2, <2>3 DEF PooledIn, Pooled
  <2> QED BY <1>2, <2>1, <2>2, <2>4, Evicts DEF EnforceCap
<1>3. ASSUME NEW h \in Handle, ReaperCloses(h) PROVE Simulated
  <2>1. Condemned(h) /\ Close(h) /\ UNCHANGED <<pool, claim, Drivers>>
    BY <1>3 DEF ReaperCloses, Condemned, Drivers
  <2> QED BY <2>1, Closes DEF Apart
<1>4. ASSUME ReaperMovesOn PROVE Simulated
  BY <1>4 DEF ReaperMovesOn, Simulated, Drivers
<1> QED BY <1>1, <1>2, <1>3, <1>4 DEF Clean

LEMMA StepSimulated ==
  ASSUME Layers, Locked, [Next]_vars
  PROVE  [Pool!Next]_(Pool!vars)
<1> USE DEF Layers
<1>1. ASSUME NEW t \in Thread, Arrive(t) \/ Serve(t) PROVE Simulated
  <2>1. Alone(t)
    BY <1>1, ThreadAlone
  <2> QED BY <1>1, <2>1, RestingSteps, LookupFindsSimulated, PublishSimulated, ClosingSteps,
       DroppingSteps, LeavingSteps, DrivingSteps DEF Serve
<1>2. ASSUME Tick \/ (\E h \in Handle : StrayStops(h)) \/ UNCHANGED vars PROVE Simulated
  BY <1>2 DEF Tick, StrayStops, vars, Simulated, Drivers
<1>3. Simulated
  BY <1>1, <1>2, CleaningSteps DEF Next
<1> QED BY <1>3 DEF Simulated, Pool!vars, Drivers

\* The registry keeps the promise of SessionPool to every number of requests and sessions.
THEOREM PoolIsImplemented == Spec => ImplementsPool
<1>1. Init => Pool!Init
  BY DEF Init, Pool!Init
<1>2. Layers /\ Locked /\ [Next]_vars => [Pool!Next]_(Pool!vars)
  BY StepSimulated
<1> QED BY <1>1, <1>2, LockedHolds, PTL DEF Spec, Pool!Spec, ImplementsPool
=============================================================================
