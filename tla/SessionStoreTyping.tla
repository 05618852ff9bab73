------------------------- MODULE SessionStoreTyping -------------------------
(***************************************************************************)
(* The first layer of the proofs about SessionStore: types, the id a       *)
(* session is filed under, and what each step of a request knows about     *)
(* itself.  The other layers, in SessionStoreProofs, rest on it.           *)
(***************************************************************************)
EXTENDS SessionStore, FiniteSetTheorems, TLAPS

\* The steps of a request that has marked a session in use and drives it.
Using == {"expire", "closeExpired", "acquire", "enter", "solve", "release", "endUse"}

\* A session is filed under its own store and id, and so is a request's mark.
Named ==
  /\ \A st \in Store, sid \in Sid : pool[st][sid] # None =>
       /\ sess[pool[st][sid]] \in Session
       /\ sess[pool[st][sid]].store = st
       /\ sess[pool[st][sid]].sid = sid
  /\ \A t \in Thread : claim[t] # None =>
       /\ sess[claim[t]] \in Session
       /\ sess[claim[t]].store = req[t].store
       /\ sess[claim[t]].sid = req[t].sid

\* What the thread at each step knows of its request, its mark and its session.
Role(t) ==
  /\ pc[t] = "idle" => claim[t] = None
  /\ pc[t] # "idle" => req[t] \in Request
  /\ pc[t] \in Using => req[t].op = "solve" /\ claim[t] \in Handle
  /\ pc[t] \in {"lookup", "build", "remember", "closeExtra"} =>
       req[t].op \in {"solve", "create"}
  /\ pc[t] # "idle" /\ req[t].op # "destroy" => req[t].proxy \in Proxy
  /\ pc[t] \in {"discard", "closePopped"} => req[t].op \in {"solve", "destroy"}
  /\ pc[t] \in {"remember", "closeExtra", "discard", "closePopped"} =>
       (req[t].op = "solve" => claim[t] \in Handle)
  /\ pc[t] # "idle" /\ req[t].op # "solve" => claim[t] = None
  /\ pc[t] \in {"closeExtra", "closePopped"} <=> mine[t] # None

Roles == \A t \in Thread : Role(t)

Typed == TypeOK /\ Named /\ Roles

USE DEF tableVars, browserVars, memoryVars, localVars, allButPc, Goto

LEMMA TypedInit == Init => Typed
  BY ConstantsAssumption
  DEF Init, Typed, TypeOK, Named, Roles, Role, Step, ReaperStep, Using

\* The fields of the request a busy thread serves.
LEMMA Fields ==
  ASSUME Typed, NEW t \in Thread, pc[t] # "idle"
  PROVE  /\ req[t] \in Request
         /\ req[t].store \in Store /\ req[t].sid \in Sid /\ req[t].op \in AllCommands
         /\ req[t].proxy \in Proxy \cup {None} /\ req[t].ttl \in BOOLEAN
         /\ At(req[t].store, req[t].sid) \in Handle \cup {None}
  BY DEF Typed, TypeOK, Roles, Role, Request, At

\* Taking sessions out of the pool, whichever they are, keeps the rest in place.
LEMMA ShrunkPool ==
  ASSUME Typed, NEW H \in SUBSET Handle, pool' = Without(H),
         UNCHANGED <<sess, inUse, age, idle, browserVars, memoryVars, pc, localVars>>,
         reaper' \in [step : ReaperStep, store : Store \cup {None}, popped : SUBSET Handle]
  PROVE  Typed'
<1>1. pool' \in [Store -> [Sid -> Handle \cup {None}]]
        /\ \A st \in Store, sid \in Sid : pool'[st][sid] # None => pool'[st][sid] = pool[st][sid]
  BY DEF Typed, TypeOK, Without
<1>2. TypeOK'
  BY <1>1 DEF Typed, TypeOK
<1>3. Named'
  BY <1>1 DEF Typed, TypeOK, Named
<1>4. Roles'
  BY DEF Typed, Roles, Role
<1> QED BY <1>2, <1>3, <1>4 DEF Typed

LEMMA TypedNext == Typed /\ [Next]_vars => Typed'
<1> SUFFICES ASSUME Typed, Next PROVE Typed'
  BY DEF vars, Typed, TypeOK, Named, Roles, Role
<1> USE ConstantsAssumption DEF Typed
<1>1. ASSUME NEW t \in Thread, BeginSolve(t) PROVE Typed'
  <2>1. PICK r \in Request : r.op = "solve" /\ r.proxy \in Proxy /\ req' = [req EXCEPT ![t] = r]
    BY <1>1 DEF BeginSolve, Exit, TypeOK, Request, AllCommands
  <2>2. memory' \in [Sid -> Proxy \cup {Unknown}] /\ older' \in SUBSET (Sid \X Sid)
        /\ since' \in [Sid -> SUBSET Sid]
    BY <1>1 DEF BeginSolve, RecallProxy, Use, MovedToEnd, Remembered, TypeOK
  <2>3. /\ pc[t] = "idle" /\ pc' = [pc EXCEPT ![t] = "lookup"]
        /\ UNCHANGED <<tableVars, browserVars, claim, mine, reaper>>
    BY <1>1 DEF BeginSolve
  <2>4. claim[t] = None /\ mine[t] = None
    BY <2>3 DEF Roles, Role
  <2>5. TypeOK' BY <2>1, <2>2, <2>3 DEF TypeOK, Step
  <2>6. Named' BY <2>1, <2>3, <2>4 DEF TypeOK, Named
  <2>7. Roles' BY <2>1, <2>3, <2>4 DEF TypeOK, Roles, Role, Using
  <2> QED BY <2>5, <2>6, <2>7
<1>2. ASSUME NEW t \in Thread, BeginCreate(t) PROVE Typed'
  <2>1. PICK r \in Request : r.op = "create" /\ r.proxy \in Proxy /\ req' = [req EXCEPT ![t] = r]
    BY <1>2 DEF BeginCreate, TypeOK, Request, AllCommands
  <2>2. memory' \in [Sid -> Proxy \cup {Unknown}] /\ older' \in SUBSET (Sid \X Sid)
        /\ since' \in [Sid -> SUBSET Sid]
    BY <1>2 DEF BeginCreate, TypeOK
  <2>3. /\ pc[t] = "idle" /\ pc' = [pc EXCEPT ![t] = "lookup"]
        /\ UNCHANGED <<tableVars, browserVars, claim, mine, reaper>>
    BY <1>2 DEF BeginCreate
  <2>4. claim[t] = None /\ mine[t] = None
    BY <2>3 DEF Roles, Role
  <2>5. TypeOK' BY <2>1, <2>2, <2>3 DEF TypeOK, Step
  <2>6. Named' BY <2>1, <2>3, <2>4 DEF TypeOK, Named
  <2>7. Roles' BY <2>1, <2>3, <2>4 DEF TypeOK, Roles, Role, Using
  <2> QED BY <2>5, <2>6, <2>7
<1>3. ASSUME NEW t \in Thread, BeginDestroy(t) PROVE Typed'
  <2>1. PICK r \in Request : r.op = "destroy" /\ req' = [req EXCEPT ![t] = r]
    BY <1>3 DEF BeginDestroy, TypeOK, Request, AllCommands
  <2>2. memory' \in [Sid -> Proxy \cup {Unknown}] /\ older' \in SUBSET (Sid \X Sid)
        /\ since' \in [Sid -> SUBSET Sid]
    BY <1>3 DEF BeginDestroy, ForgetProxy, TypeOK
  <2>3. /\ pc[t] = "idle" /\ pc' = [pc EXCEPT ![t] = "discard"]
        /\ UNCHANGED <<tableVars, browserVars, claim, mine, reaper>>
    BY <1>3 DEF BeginDestroy
  <2>4. claim[t] = None /\ mine[t] = None
    BY <2>3 DEF Roles, Role
  <2>5. TypeOK' BY <2>1, <2>2, <2>3 DEF TypeOK, Step
  <2>6. Named' BY <2>1, <2>3, <2>4 DEF TypeOK, Named
  <2>7. Roles' BY <2>1, <2>3, <2>4 DEF TypeOK, Roles, Role, Using
  <2> QED BY <2>5, <2>6, <2>7
<1>4. ASSUME NEW t \in Thread, LookupFinds(t) PROVE Typed'
  <2> DEFINE h == At(req[t].store, req[t].sid)
  <2>1. h \in Handle /\ sess[h] \in Session /\ sess[h].store = req[t].store
          /\ sess[h].sid = req[t].sid
    BY <1>4, Fields DEF LookupFinds, At, Named
  <2>2. UNCHANGED <<pool, sess, age, browserVars, memoryVars, reaper>> /\ pc[t] = "lookup"
    BY <1>4 DEF LookupFinds
  <2>3. CASE req[t].op = "solve" /\ Claim(t, h) /\ Goto(t, "expire") /\ UNCHANGED <<req, mine>>
    <3> HIDE DEF h
    <3>1. TypeOK' BY <2>1, <2>2, <2>3 DEF Claim, TypeOK, Step
    <3>2. Named' BY <2>1, <2>2, <2>3 DEF Claim, TypeOK, Named
    <3>3. Roles' BY <2>1, <2>2, <2>3 DEF Claim, TypeOK, Roles, Role, Using
    <3> QED BY <3>1, <3>2, <3>3
  <2>4. CASE Finish(t) /\ UNCHANGED <<inUse, idle>>
    <3>1. TypeOK' BY <2>2, <2>4 DEF Finish, TypeOK, Step
    <3>2. Named' BY <2>2, <2>4 DEF Finish, TypeOK, Named
    <3>3. Roles' BY <2>2, <2>4 DEF Finish, TypeOK, Roles, Role, Using
    <3> QED BY <3>1, <3>2, <3>3
  <2> QED BY <1>4, <2>3, <2>4 DEF LookupFinds
<1>5. ASSUME NEW t \in Thread, LookupMisses(t) PROVE Typed'
  <2>1. TypeOK'
    BY <1>5 DEF LookupMisses, TypeOK, Step, Roles, Role, Using
  <2>2. Named'
    BY <1>5 DEF LookupMisses, TypeOK, Named
  <2>3. Roles'
    BY <1>5 DEF LookupMisses, TypeOK, Roles, Role, Using
  <2> QED BY <2>1, <2>2, <2>3
<1>6. ASSUME NEW t \in Thread, BuildFails(t) PROVE Typed'
  <2>1. TypeOK'
    BY <1>6 DEF BuildFails, Finish, TypeOK, Step, Roles, Role, Using
  <2>2. Named'
    BY <1>6 DEF BuildFails, Finish, TypeOK, Named
  <2>3. Roles'
    BY <1>6 DEF BuildFails, Finish, TypeOK, Roles, Role, Using
  <2> QED BY <2>1, <2>2, <2>3
<1>7. ASSUME NEW t \in Thread, Publish(t) PROVE Typed'
  <2> DEFINE race == At(req[t].store, req[t].sid)
             new  == [sid |-> req[t].sid, store |-> req[t].store, proxy |-> req[t].proxy]
  <2>0. PICK built \in Handle : PublishAs(t, built)
    BY <1>7 DEF Publish
  <2>1. /\ req[t].store \in Store /\ req[t].sid \in Sid /\ race \in Handle \cup {None}
        /\ new \in Session /\ req[t].op \in {"solve", "create"} /\ req[t] \in Request
        /\ race # None => sess[race] \in Session /\ sess[race].store = req[t].store
                            /\ sess[race].sid = req[t].sid
    BY <2>0, Fields DEF PublishAs, Roles, Role, Named, Session, At
  <2> DEFINE h == Stored(race, built)
  <2>3. h \in Handle /\ (race = None => h = built) /\ (race # None => h = race)
    BY <2>1 DEF Stored
  <2>4. Marks(t) \in {0, 1} /\ (Marks(t) = 1 <=> req[t].op = "solve")
    BY DEF Marks
  <2>5. /\ pc[t] = "build" /\ Collected(built)
        /\ sess' = [sess EXCEPT ![built] = new]
        /\ live' = [live EXCEPT ![built] = TRUE]
        /\ age' = [age EXCEPT ![built] = 0]
        /\ idle' = [idle EXCEPT ![built] = 0, ![h] = IF Marks(t) = 1 THEN 0 ELSE @]
        /\ inUse' = [inUse EXCEPT ![built] = 0, ![h] = @ + Marks(t)]
        /\ pool' = [pool EXCEPT ![req[t].store][req[t].sid] = h]
        /\ claim' = [claim EXCEPT ![t] = IF Marks(t) = 1 THEN h ELSE @]
        /\ mine' = [mine EXCEPT ![t] = IF race = None THEN None ELSE built]
        /\ Goto(t, IF race = None THEN "remember" ELSE "closeExtra")
        /\ UNCHANGED <<lock, stray, memoryVars, req, reaper>>
    BY <2>0 DEF PublishAs
  <2>6. built # None /\ ~Pooled(built) /\ \A u \in Thread : claim[u] # built
    BY <2>5 DEF Collected
  <2> HIDE DEF race, new, h
  <2>7. TypeOK'
    <3>1. /\ sess' \in [Handle -> Session \cup {None}] /\ live' \in [Handle -> BOOLEAN]
          /\ age' \in [Handle -> 0 .. LifeTTL + 1] /\ idle' \in [Handle -> 0 .. IdleTTL + 1]
          /\ inUse' \in [Handle -> Nat]
      BY <2>1, <2>3, <2>4, <2>5 DEF TypeOK
    <3>2. /\ pool' \in [Store -> [Sid -> Handle \cup {None}]]
          /\ claim' \in [Thread -> Handle \cup {None}]
          /\ mine' \in [Thread -> Handle \cup {None}]
          /\ pc' \in [Thread -> Step]
      BY <2>1, <2>3, <2>4, <2>5 DEF TypeOK, Step
    <3> QED BY <2>5, <3>1, <3>2 DEF TypeOK
  <2>8. Named'
    <3>1. \A st \in Store, sid \in Sid : pool[st][sid] # built
      BY <2>6 DEF Pooled
    <3>2. ASSUME NEW st \in Store, NEW sid \in Sid, pool'[st][sid] # None
          PROVE  /\ sess'[pool'[st][sid]] \in Session
                 /\ sess'[pool'[st][sid]].store = st
                 /\ sess'[pool'[st][sid]].sid = sid
      <4>1. CASE st = req[t].store /\ sid = req[t].sid
        <5>1. pool'[st][sid] = h
          BY <2>1, <2>5, <4>1 DEF TypeOK
        <5>2. CASE race = None
          BY <2>1, <2>3, <2>5, <4>1, <5>1, <5>2 DEF TypeOK, new
        <5>3. CASE race # None
          BY <2>1, <2>3, <2>5, <4>1, <5>1, <5>3, <3>1 DEF TypeOK, race, At
        <5> QED BY <5>2, <5>3
      <4>2. CASE ~(st = req[t].store /\ sid = req[t].sid)
        <5>1. pool'[st][sid] = pool[st][sid]
          BY <2>1, <2>5, <4>2 DEF TypeOK
        <5> QED BY <2>5, <3>1, <3>2, <5>1 DEF TypeOK, Named
      <4> QED BY <4>1, <4>2
    <3>3. ASSUME NEW u \in Thread, claim'[u] # None
          PROVE  /\ sess'[claim'[u]] \in Session
                 /\ sess'[claim'[u]].store = req'[u].store
                 /\ sess'[claim'[u]].sid = req'[u].sid
      <4>1. CASE u = t /\ Marks(t) = 1
        <5>1. claim'[u] = h
          BY <2>5, <4>1 DEF TypeOK
        <5>2. CASE race = None
          BY <2>1, <2>3, <2>5, <4>1, <5>1, <5>2 DEF TypeOK, new
        <5>3. CASE race # None
          BY <2>1, <2>3, <2>5, <4>1, <5>1, <5>3, <3>1 DEF TypeOK, race, At
        <5> QED BY <5>2, <5>3
      <4>2. CASE ~(u = t /\ Marks(t) = 1)
        <5>1. claim'[u] = claim[u] /\ claim[u] # built
          BY <2>4, <2>5, <2>6, <4>2 DEF TypeOK
        <5> QED BY <2>5, <3>3, <5>1 DEF TypeOK, Named
      <4> QED BY <4>1, <4>2
    <3> QED BY <3>2, <3>3 DEF Named
  <2>9. Roles'
    BY <2>1, <2>3, <2>4, <2>5 DEF TypeOK, Roles, Role, Using
  <2> QED BY <2>7, <2>8, <2>9
<1>8. ASSUME NEW t \in Thread, Remember(t) PROVE Typed'
  <2>1. req[t].sid \in Sid /\ req[t].proxy \in Proxy /\ pc[t] = "remember"
          /\ req[t].op \in {"solve", "create"} /\ req[t] \in Request
    BY <1>8, Fields DEF Remember, Roles, Role
  <2>2. memory' \in [Sid -> Proxy \cup {Unknown}] /\ older' \in SUBSET (Sid \X Sid)
        /\ since' \in [Sid -> SUBSET Sid]
    <3>1. Remembered \cup {req[t].sid} \subseteq Sid
      BY <2>1 DEF Remembered
    <3>2. MovedToEnd(Remembered \cup {req[t].sid}, req[t].sid) \subseteq Sid \X Sid
      BY <2>1, <3>1 DEF MovedToEnd, TypeOK
    <3> QED BY <1>8, <2>1, <3>2 DEF Remember, RememberProxy, Use, TypeOK
  <2>3. UNCHANGED <<tableVars, browserVars, reaper>>
    BY <1>8 DEF Remember
  <2>4. CASE req[t].op = "solve" /\ Goto(t, "acquire") /\ UNCHANGED <<localVars>>
    <3>1. TypeOK' BY <2>2, <2>3, <2>4 DEF TypeOK, Step
    <3>2. Named' BY <2>3, <2>4 DEF TypeOK, Named
    <3>3. Roles' BY <2>1, <2>3, <2>4 DEF TypeOK, Roles, Role, Using
    <3> QED BY <3>1, <3>2, <3>3
  <2>5. CASE Finish(t)
    <3>1. TypeOK' BY <2>2, <2>3, <2>5 DEF Finish, TypeOK, Step
    <3>2. Named' BY <2>3, <2>5 DEF Finish, TypeOK, Named
    <3>3. Roles' BY <2>3, <2>5 DEF Finish, TypeOK, Roles, Role, Using
    <3> QED BY <3>1, <3>2, <3>3
  <2> QED BY <1>8, <2>4, <2>5 DEF Remember
<1>9. ASSUME NEW t \in Thread, CloseExtra(t) PROVE Typed'
  <2>1. /\ pc[t] = "closeExtra" /\ req[t].op \in {"solve", "create"}
        /\ live' \in [Handle -> BOOLEAN] /\ UNCHANGED <<tableVars, lock, stray, memoryVars, reaper>>
        /\ req[t] \in Request
    BY <1>9, Fields DEF CloseExtra, Close, TypeOK, Roles, Role
  <2>2. CASE req[t].op = "solve" /\ Goto(t, "expire") /\ mine' = [mine EXCEPT ![t] = None]
               /\ UNCHANGED <<req, claim>>
    <3>1. TypeOK' BY <2>1, <2>2 DEF TypeOK, Step
    <3>2. Named' BY <2>1, <2>2 DEF TypeOK, Named
    <3>3. Roles' BY <2>1, <2>2 DEF TypeOK, Roles, Role, Using
    <3> QED BY <3>1, <3>2, <3>3
  <2>3. CASE Finish(t)
    <3>1. TypeOK' BY <2>1, <2>3 DEF Finish, TypeOK, Step
    <3>2. Named' BY <2>1, <2>3 DEF Finish, TypeOK, Named
    <3>3. Roles' BY <2>1, <2>3 DEF Finish, TypeOK, Roles, Role, Using
    <3> QED BY <3>1, <3>2, <3>3
  <2> QED BY <1>9, <2>2, <2>3 DEF CloseExtra
<1>10. ASSUME NEW t \in Thread, Expire(t) PROVE Typed'
  <2> DEFINE asked == [req[t] EXCEPT !.ttl = FALSE, !.proxy = sess[claim[t]].proxy]
  <2>1. /\ pc[t] = "expire" /\ claim[t] \in Handle /\ sess[claim[t]].proxy \in Proxy
        /\ req[t].op = "solve" /\ req[t].store \in Store /\ req[t].sid \in Sid
    BY <1>10, Fields DEF Expire, Roles, Role, Using, Named, Session
  <2>2. /\ asked \in Request /\ asked.op = "solve" /\ asked.store = req[t].store
        /\ asked.sid = req[t].sid /\ asked.proxy \in Proxy
    BY <2>1, Fields DEF Request
  <2>3. /\ pool' = [pool EXCEPT ![req[t].store][req[t].sid] = None]
        /\ req' = [req EXCEPT ![t] = asked]
        /\ pc' = [pc EXCEPT ![t] = "closeExpired"]
        /\ UNCHANGED <<sess, inUse, age, idle, browserVars, memoryVars, claim, mine, reaper>>
    BY <1>10, <2>1 DEF Expire, TypeOK
  <2> HIDE DEF asked
  <2>4. TypeOK'
    BY <2>1, <2>2, <2>3 DEF TypeOK, Step
  <2>5. Named'
    BY <2>1, <2>2, <2>3 DEF TypeOK, Named
  <2>6. Roles'
    BY <2>1, <2>2, <2>3 DEF TypeOK, Roles, Role, Using
  <2> QED BY <2>4, <2>5, <2>6
<1>11. ASSUME NEW t \in Thread, StillFresh(t) PROVE Typed'
  <2>1. TypeOK'
    BY <1>11 DEF StillFresh, TypeOK, Step, Roles, Role, Using
  <2>2. Named'
    BY <1>11 DEF StillFresh, TypeOK, Named
  <2>3. Roles'
    BY <1>11 DEF StillFresh, TypeOK, Roles, Role, Using
  <2> QED BY <2>1, <2>2, <2>3
<1>12. ASSUME NEW t \in Thread, CloseExpired(t) PROVE Typed'
  <2>1. /\ pc[t] = "closeExpired" /\ req[t] \in Request /\ req[t].op = "solve"
        /\ live' \in [Handle -> BOOLEAN] /\ Goto(t, "lookup")
        /\ UNCHANGED <<tableVars, lock, stray, memoryVars, localVars, reaper>>
    BY <1>12, Fields DEF CloseExpired, Close, TypeOK, Roles, Role, Using
  <2>2. TypeOK' BY <2>1 DEF TypeOK, Step
  <2>3. Named' BY <2>1 DEF TypeOK, Named
  <2>4. Roles' BY <2>1 DEF TypeOK, Roles, Role, Using
  <2> QED BY <2>2, <2>3, <2>4
<1>13. ASSUME NEW t \in Thread, Acquire(t) PROVE Typed'
  <2>1. TypeOK'
    BY <1>13 DEF Acquire, IsChrome, TypeOK, Step, Roles, Role, Using
  <2>2. Named'
    BY <1>13 DEF Acquire, IsChrome, TypeOK, Named
  <2>3. Roles'
    BY <1>13 DEF Acquire, IsChrome, TypeOK, Roles, Role, Using
  <2> QED BY <2>1, <2>2, <2>3
<1>14. ASSUME NEW t \in Thread, AcquireTimesOut(t) PROVE Typed'
  <2>1. TypeOK'
    BY <1>14 DEF AcquireTimesOut, TypeOK, Step, Roles, Role, Using
  <2>2. Named'
    BY <1>14 DEF AcquireTimesOut, TypeOK, Named
  <2>3. Roles'
    BY <1>14 DEF AcquireTimesOut, TypeOK, Roles, Role, Using
  <2> QED BY <2>1, <2>2, <2>3
<1>15. ASSUME NEW t \in Thread, Enter(t) PROVE Typed'
  <2>1. TypeOK'
    BY <1>15 DEF Enter, TypeOK, Step, Roles, Role, Using
  <2>2. Named'
    BY <1>15 DEF Enter, TypeOK, Named
  <2>3. Roles'
    BY <1>15 DEF Enter, TypeOK, Roles, Role, Using
  <2> QED BY <2>1, <2>2, <2>3
<1>16. ASSUME NEW t \in Thread, EnterTimesOut(t) PROVE Typed'
  <2>1. TypeOK'
    BY <1>16 DEF EnterTimesOut, TypeOK, Step, Roles, Role, Using
  <2>2. Named'
    BY <1>16 DEF EnterTimesOut, TypeOK, Named
  <2>3. Roles'
    BY <1>16 DEF EnterTimesOut, TypeOK, Roles, Role, Using
  <2> QED BY <2>1, <2>2, <2>3
<1>17. ASSUME NEW t \in Thread, SolveEnds(t) PROVE Typed'
  <2>1. TypeOK'
    BY <1>17 DEF SolveEnds, TypeOK, Step, Roles, Role, Using
  <2>2. Named'
    BY <1>17 DEF SolveEnds, TypeOK, Named
  <2>3. Roles'
    BY <1>17 DEF SolveEnds, TypeOK, Roles, Role, Using
  <2> QED BY <2>1, <2>2, <2>3
<1>18. ASSUME NEW t \in Thread, SolveTimesOut(t) PROVE Typed'
  <2>1. TypeOK'
    BY <1>18 DEF SolveTimesOut, AfterTimeout, IsChrome, TypeOK, Step, Roles, Role, Using
  <2>2. Named'
    BY <1>18 DEF SolveTimesOut, AfterTimeout, IsChrome, TypeOK, Named
  <2>3. Roles'
    BY <1>18 DEF SolveTimesOut, AfterTimeout, IsChrome, TypeOK, Roles, Role, Using
  <2> QED BY <2>1, <2>2, <2>3
<1>19. ASSUME NEW t \in Thread, Discard(t) PROVE Typed'
  <2> DEFINE h == At(req[t].store, req[t].sid)
  <2>1. /\ pc[t] = "discard" /\ req[t].store \in Store /\ req[t].sid \in Sid
        /\ h \in Handle \cup {None} /\ req[t].op \in {"solve", "destroy"}
    BY <1>19, Fields DEF Discard, Roles, Role
  <2>2. /\ pool' = [pool EXCEPT ![req[t].store][req[t].sid] = None]
        /\ UNCHANGED <<sess, inUse, age, idle, browserVars, memoryVars, reaper>>
    BY <1>19 DEF Discard
  <2>3. pool' \in [Store -> [Sid -> Handle \cup {None}]]
          /\ \A st \in Store, sid \in Sid : pool'[st][sid] # None => pool'[st][sid] = pool[st][sid]
    BY <2>1, <2>2 DEF TypeOK
  <2>4. CASE h # None /\ mine' = [mine EXCEPT ![t] = h] /\ Goto(t, "closePopped")
               /\ UNCHANGED <<req, claim>>
    <3> HIDE DEF h
    <3>1. TypeOK' BY <2>1, <2>2, <2>3, <2>4 DEF TypeOK, Step
    <3>2. Named' BY <2>2, <2>3, <2>4 DEF TypeOK, Named
    <3>3. Roles' BY <2>1, <2>2, <2>4 DEF TypeOK, Roles, Role, Using
    <3> QED BY <3>1, <3>2, <3>3
  <2>5. CASE req[t].op = "solve" /\ Goto(t, "release") /\ UNCHANGED <<localVars>>
    <3> HIDE DEF h
    <3>1. TypeOK' BY <2>1, <2>2, <2>3, <2>5 DEF TypeOK, Step
    <3>2. Named' BY <2>2, <2>3, <2>5 DEF TypeOK, Named
    <3>3. Roles' BY <2>1, <2>2, <2>5 DEF TypeOK, Roles, Role, Using
    <3> QED BY <3>1, <3>2, <3>3
  <2>6. CASE Finish(t)
    <3> HIDE DEF h
    <3>1. TypeOK' BY <2>2, <2>3, <2>6 DEF Finish, TypeOK, Step
    <3>2. Named' BY <2>2, <2>3, <2>6 DEF Finish, TypeOK, Named
    <3>3. Roles' BY <2>2, <2>6 DEF Finish, TypeOK, Roles, Role, Using
    <3> QED BY <3>1, <3>2, <3>3
  <2> QED BY <1>19, <2>4, <2>5, <2>6 DEF Discard
<1>20. ASSUME NEW t \in Thread, ClosePopped(t) PROVE Typed'
  <2>1. /\ pc[t] = "closePopped" /\ req[t].op \in {"solve", "destroy"}
        /\ live' \in [Handle -> BOOLEAN] /\ UNCHANGED <<tableVars, lock, stray, memoryVars, reaper>>
        /\ req[t] \in Request
    BY <1>20, Fields DEF ClosePopped, Close, TypeOK, Roles, Role
  <2>2. CASE req[t].op = "solve" /\ Goto(t, "release") /\ mine' = [mine EXCEPT ![t] = None]
               /\ UNCHANGED <<req, claim>>
    <3>1. TypeOK' BY <2>1, <2>2 DEF TypeOK, Step
    <3>2. Named' BY <2>1, <2>2 DEF TypeOK, Named
    <3>3. Roles' BY <2>1, <2>2 DEF TypeOK, Roles, Role, Using
    <3> QED BY <3>1, <3>2, <3>3
  <2>3. CASE Finish(t)
    <3>1. TypeOK' BY <2>1, <2>3 DEF Finish, TypeOK, Step
    <3>2. Named' BY <2>1, <2>3 DEF Finish, TypeOK, Named
    <3>3. Roles' BY <2>1, <2>3 DEF Finish, TypeOK, Roles, Role, Using
    <3> QED BY <3>1, <3>2, <3>3
  <2> QED BY <1>20, <2>2, <2>3 DEF ClosePopped
<1>21. ASSUME NEW t \in Thread, Release(t) PROVE Typed'
  <2>1. TypeOK'
    BY <1>21 DEF Release, TypeOK, Step, Roles, Role, Using
  <2>2. Named'
    BY <1>21 DEF Release, TypeOK, Named
  <2>3. Roles'
    BY <1>21 DEF Release, TypeOK, Roles, Role, Using
  <2> QED BY <2>1, <2>2, <2>3
<1>22. ASSUME NEW t \in Thread, EndUse(t) PROVE Typed'
  <2>1. TypeOK'
    BY <1>22 DEF EndUse, Released, Finish, TypeOK, Step, Roles, Role, Using
  <2>2. Named'
    BY <1>22 DEF EndUse, Released, Finish, TypeOK, Named
  <2>3. Roles'
    BY <1>22 DEF EndUse, Released, Finish, TypeOK, Roles, Role, Using
  <2> QED BY <2>1, <2>2, <2>3
<1>23. ASSUME NEW st \in Store, ReapIdle(st) PROVE Typed'
  <2>1. /\ pool' = Without(IdleIn(st)) /\ reaper'.step = "closeIdle"
        /\ reaper' = [step |-> "closeIdle", store |-> st, popped |-> IdleIn(st)]
        /\ UNCHANGED <<sess, inUse, age, idle, browserVars, memoryVars, pc, localVars>>
    BY <1>23 DEF ReapIdle
  <2>2. IdleIn(st) \in SUBSET Handle
    BY DEF IdleIn, PooledIn
  <2> QED BY <2>1, <2>2, ShrunkPool DEF TypeOK, ReaperStep
<1>24. ASSUME EnforceCap PROVE Typed'
  <2>1. PICK E \in Evictable(reaper.store) :
          /\ pool' = Without(E)
          /\ reaper' = [reaper EXCEPT !.step = "closeOver", !.popped = E]
    BY <1>24 DEF EnforceCap
  <2>2. E \in SUBSET Handle
    BY <2>1 DEF Evictable, PooledIn
  <2>3. UNCHANGED <<sess, inUse, age, idle, browserVars, memoryVars, pc, localVars>>
    BY <1>24 DEF EnforceCap
  <2> QED BY <2>1, <2>2, <2>3, ShrunkPool DEF TypeOK, ReaperStep
<1>25. ASSUME NEW h \in Handle, ReaperCloses(h) PROVE Typed'
  <2>1. live' \in [Handle -> BOOLEAN] /\ reaper' \in [step : ReaperStep, store : Store \cup {None}, popped : SUBSET Handle]
    BY <1>25 DEF ReaperCloses, Close, TypeOK
  <2>2. UNCHANGED <<tableVars, lock, stray, memoryVars, pc, localVars>>
    BY <1>25 DEF ReaperCloses
  <2>3. TypeOK' BY <2>1, <2>2 DEF TypeOK
  <2> QED BY <2>2, <2>3 DEF Named, Roles, Role
<1>26. ASSUME ReaperMovesOn PROVE Typed'
  <2>1. reaper' \in [step : ReaperStep, store : Store \cup {None}, popped : SUBSET Handle]
    <3>1. ASSUME NEW step \in {"wait", "enforceCap"}, NEW st \in Store \cup {None},
                 reaper' = [reaper EXCEPT !.step = step, !.store = st]
          PROVE  reaper' \in [step : ReaperStep, store : Store \cup {None}, popped : SUBSET Handle]
      BY <3>1 DEF TypeOK, ReaperStep
    <3>2. CASE reaper' = [reaper EXCEPT !.step = "enforceCap"]
      BY <3>2 DEF TypeOK, ReaperStep
    <3>3. CASE reaper' = [reaper EXCEPT !.step = "wait", !.store = None]
      BY <3>1, <3>3
    <3> QED BY <1>26, <3>2, <3>3 DEF ReaperMovesOn
  <2>2. UNCHANGED <<tableVars, browserVars, memoryVars, pc, localVars>>
    BY <1>26 DEF ReaperMovesOn
  <2>3. TypeOK' BY <2>1, <2>2 DEF TypeOK
  <2> QED BY <2>2, <2>3 DEF Named, Roles, Role
<1>27. ASSUME NEW h \in Handle, StrayStops(h) PROVE Typed'
  <2>1. TypeOK' BY <1>27 DEF StrayStops, TypeOK
  <2> QED BY <1>27, <2>1 DEF StrayStops, Named, Roles, Role
<1>28. ASSUME Tick PROVE Typed'
  <2>1. age' \in [Handle -> 0 .. LifeTTL + 1] /\ idle' \in [Handle -> 0 .. IdleTTL + 1]
    BY <1>28 DEF Tick, TypeOK
  <2>2. UNCHANGED <<pool, sess, inUse, browserVars, memoryVars, pc, localVars, reaper>>
    BY <1>28 DEF Tick
  <2>3. TypeOK' BY <2>1, <2>2 DEF TypeOK
  <2> QED BY <2>2, <2>3 DEF Named, Roles, Role
<1> QED
  BY <1>1, <1>2, <1>3, <1>4, <1>5, <1>6, <1>7, <1>8, <1>9, <1>10, <1>11, <1>12, <1>13,
     <1>14, <1>15, <1>16, <1>17, <1>18, <1>19, <1>20, <1>21, <1>22, <1>23, <1>24, <1>25,
     <1>26, <1>27, <1>28 DEF Next, Arrive, Serve, Clean

\* Every variable keeps its type, whatever the clients send and however requests and
\* the cleanup interleave.
THEOREM TypesCorrect == Spec => []TypeOK
<1>1. Init => Typed
  BY TypedInit
<1>2. Typed /\ [Next]_vars => Typed'
  BY TypedNext
<1>3. Typed => TypeOK
  BY DEF Typed
<1> QED BY <1>1, <1>2, <1>3, PTL DEF Spec
=============================================================================
