-------------------------- MODULE PassthroughProofs --------------------------
(***************************************************************************)
(* What holds of Passthrough for any number of requests, paths and cached  *)
(* bytes.  Five layers:                                                    *)
(*   Typed   types, but for the running total of bytes, and what each step *)
(*           of a request knows of itself;                                 *)
(*   Owned   a path's slot and the thread that will release it belong to   *)
(*           each other, and only waiters share a _Pending with its owner; *)
(*   Finished  how far the fields of a _Pending are assigned when its      *)
(*           owner is done, and when its event is set;                     *)
(*   Told    what they hold is what this _Pending's own solve gave, from   *)
(*           the solve on until the last waiter has read it;               *)
(*   Accounted  the running total counts a finite number of octets, those  *)
(*           of the entries: what makes it a sum that a store can split.   *)
(***************************************************************************)
EXTENDS Passthrough, FiniteSetTheorems, TLAPS

\* The steps of an owner before it has released its path's slot.
Holding == OwnerStep \ {"wake"}

Cell == [event : BOOLEAN, error : BOOLEAN, filled : 0 .. 3, doc : Document \cup {None}]
Reply == [code : {"404", "502", "none", "page"}, doc : Document \cup {None}, typed : BOOLEAN]

Types ==
  /\ cache \in [Path -> Entry \cup {None}]
  /\ inflight \in [Path -> Pending \cup {None}]
  /\ pending \in [Pending -> Cell]
  /\ pc \in [Thread -> Step]
  /\ path \in [Thread -> Path \cup {None}]
  /\ slot \in [Thread -> Pending \cup {None}]
  /\ got \in [Thread -> Document \cup {None}]
  /\ reply \in [Thread -> Reply]
  /\ gave \in [Pending -> Document \cup {None}]

Role(t) ==
  /\ pc[t] \in OwnerStep \cup {"wait"} => slot[t] \in Pending /\ path[t] \in Path
  /\ pc[t] \in {"idle", "send"} => slot[t] = None
  /\ pc[t] \in {"store", "fill"} => got[t] \in Document

Typed == Types /\ \A t \in Thread : Role(t)

Owned ==
  /\ \A p \in Path : inflight[p] # None =>
       \E t \in Thread : pc[t] \in Holding /\ path[t] = p /\ slot[t] = inflight[p]
  /\ \A t \in Thread : pc[t] \in Holding => inflight[path[t]] = slot[t]
  /\ \A t, u \in Thread : pc[t] \in OwnerStep /\ pc[u] \in OwnerStep /\ slot[t] = slot[u] => t = u
  /\ \A u \in Thread : pc[u] = "wait" =>
       pending[slot[u]].event \/ \E t \in Thread : Owns(t, slot[u])

\* What is in a _Pending is what its solve gave.
Given(c) == c.error \/ (c.filled = 3 /\ c.doc \in Document)

Finished ==
  /\ \A q \in Pending : pending[q].event => Given(pending[q])
  /\ \A t \in Thread :
       /\ pc[t] \in {"solve", "store"} => pending[slot[t]].filled = 0
       /\ pc[t] = "fill" => pending[slot[t]].filled < 3
       /\ pc[t] \in {"sendOwn", "release", "wake"} => Given(pending[slot[t]])

\* The fields of q say what its solve gave.
Match(q) == IF pending[q].error THEN gave[q] = None
                                ELSE gave[q] \in Document /\ pending[q].doc = gave[q]

\* What the owner t of q knows of it.
Stage(t, q) ==
  /\ pc[t] = "solve" => ~pending[q].error /\ gave[q] = None
  /\ pc[t] \in {"store", "fill"} => ~pending[q].error /\ gave[q] = got[t]
  /\ pc[t] \in {"sendOwn", "release", "wake"} => Match(q)

Told ==
  /\ \A q \in Pending : pending[q].event => Match(q)
  /\ \A t \in Thread : pc[t] \in OwnerStep => Stage(t, slot[t])

USE DEF Goto

\* What a thread's step leaves of every other thread.
Alone(t) == \A u \in Thread \ {t} :
  pc'[u] = pc[u] /\ path'[u] = path[u] /\ slot'[u] = slot[u] /\ got'[u] = got[u]

LEMMA ThreadAlone ==
  ASSUME Typed, NEW t \in Thread, Arrive(t) \/ Serve(t) \/ Write(t) \/ WaitTimesOut(t)
  PROVE  Alone(t)
<1>1. CASE Arrive(t)
  BY <1>1 DEF Arrive, Refuse, AnswerFromCache, Join, Own, Alone, Typed, Types
<1>2. CASE Serve(t)
  BY <1>2 DEF Serve, SolveFails, SolveReturns, Store, AfterStore, Fill, Release, Wake, Woken,
    Read, Alone, Typed, Types
<1>3. CASE Write(t) \/ WaitTimesOut(t)
  BY <1>3 DEF Write, SendOwn, Send, WaitTimesOut, Read, Alone, Typed, Types
<1> QED BY <1>1, <1>2, <1>3

-----------------------------------------------------------------------------
(* Typed *)

LEMMA TypedInit == Init => Typed
  BY ConstantsAssumption DEF Init, Typed, Types, Role, Step, OwnerStep, NewPending, Cell,
    Reply, Dropped

LEMMA StoreTyped ==
  ASSUME Typed, NEW t \in Thread, Store(t)
  PROVE  cache' \in [Path -> Entry \cup {None}]
<1> DEFINE d == got[t]
           p == path[t]
<1>1. d \in Document /\ p \in Path
  BY DEF Store, Typed, Types, Role, OwnerStep
<1>2. [left |-> Lifetime(d), doc |-> d] \in Entry
  BY <1>1, ConstantsAssumption DEF Lifetime, Entry
<1> HIDE DEF d, p
<1>3. CASE UNCHANGED cache
  BY <1>3 DEF Typed, Types
<1>4. CASE \E K \in Kept(Live \ {p}, d) :
             cache' = [r \in Path |-> IF r = p THEN [left |-> Lifetime(d), doc |-> d]
                                      ELSE IF r \in K THEN cache[r] ELSE None]
  BY <1>2, <1>4 DEF Typed, Types
<1> QED BY <1>3, <1>4 DEF Store, d, p

LEMMA TickTyped ==
  ASSUME Typed, Tick
  PROVE  cache' \in [Path -> Entry \cup {None}]
<1>1. ASSUME NEW p \in Live PROVE [cache[p] EXCEPT !.left = @ - 1] \in Entry
  BY <1>1, ConstantsAssumption DEF Typed, Types, Entry, Live, Cached
<1>2. \A p \in Path : cache'[p] \in Entry \cup {None}
  BY <1>1 DEF Tick, Typed, Types
<1>3. cache' = [p \in Path |-> cache'[p]]
  BY DEF Tick
<1> QED BY <1>2, <1>3

LEMMA Cells ==
  ASSUME NEW c \in Cell
  PROVE  /\ [c EXCEPT !.error = TRUE] \in Cell
         /\ [c EXCEPT !.event = TRUE] \in Cell
         /\ c.filled + 1 \in 0 .. 3 =>
              \A d \in Document : [c EXCEPT !.filled = c.filled + 1, !.doc = d] \in Cell
  BY DEF Cell

LEMMA PendingTyped ==
  ASSUME Typed, Finished, NEW t \in Thread, Arrive(t) \/ Serve(t) \/ Write(t) \/ WaitTimesOut(t)
  PROVE  pending' \in [Pending -> Cell]
<1> USE DEF Typed, Types, Role, OwnerStep
<1>1. CASE \E p \in Path : Own(t, p)
  BY <1>1, ConstantsAssumption DEF Own, NewPending, Cell
<1>2. CASE SolveFails(t)
  BY <1>2, Cells DEF SolveFails
<1>3. CASE Wake(t)
  BY <1>3, Cells DEF Wake, Event
<1>4. CASE Fill(t)
  <2> DEFINE c == pending[slot[t]]
  <2>1. c \in Cell /\ got[t] \in Document /\ slot[t] \in Pending
    BY <1>4 DEF Fill
  <2>2. c.filled + 1 \in 0 .. 3
    BY <1>4, <2>1 DEF Fill, Finished, Cell
  <2>3. [c EXCEPT !.filled = c.filled + 1, !.doc = got[t]] \in Cell
    BY <2>1, <2>2, Cells
  <2>4. pending' = [pending EXCEPT ![slot[t]] = [c EXCEPT !.filled = c.filled + 1, !.doc = got[t]]]
    BY <1>4 DEF Fill
  <2> QED BY <2>1, <2>3, <2>4
<1>5. CASE UNCHANGED pending
  BY <1>5
<1> QED
  BY <1>1, <1>2, <1>3, <1>4, <1>5 DEF Arrive, Refuse, AnswerFromCache, Join, Serve,
    SolveReturns, Store, Release, Woken, Read, Write, SendOwn, Send, WaitTimesOut

LEMMA ReplyTyped ==
  ASSUME Typed, NEW t \in Thread, Arrive(t) \/ Serve(t) \/ Write(t) \/ WaitTimesOut(t)
  PROVE  reply' \in [Thread -> Reply]
<1> USE DEF Typed, Types, Role, Reply
<1>1. CASE \E p \in Path : Refuse(t, p)
  <2>1. NotFound \in Reply
    BY DEF NotFound
  <2> QED BY <1>1, <2>1 DEF Refuse
<1>2. CASE \E p \in Path : AnswerFromCache(t, p)
  <2>1. PICK p \in Path : AnswerFromCache(t, p)
    BY <1>2
  <2>2. cache[p].doc \in Document
    BY <2>1 DEF AnswerFromCache, Hit, Live, Cached, Entry
  <2> QED BY <2>1, <2>2 DEF AnswerFromCache, Page
<1>3. CASE SolveFails(t)
  <2>1. SolverError \in Reply
    BY DEF SolverError
  <2> QED BY <1>3, <2>1 DEF SolveFails
<1>4. CASE Fill(t)
  <2>1. Page(got[t], TRUE) \in Reply
    BY <1>4 DEF Fill, Page
  <2> QED BY <1>4, <2>1 DEF Fill
<1>5. CASE Wake(t) \/ Send(t)
  <2>1. Dropped \in Reply
    BY DEF Dropped
  <2> QED BY <1>5, <2>1 DEF Wake, Send
<1>6. CASE Read(t) /\ pc[t] = "wait"
  <2>1. pending[slot[t]] \in Cell
    BY <1>6
  <2>2. Answer(pending[slot[t]]) \in Reply
    BY <2>1 DEF Answer, Cell, SolverError, Dropped, Page
  <2> QED BY <1>6, <2>2 DEF Read
<1>7. CASE UNCHANGED reply
  BY <1>7
<1> QED
  BY <1>1, <1>2, <1>3, <1>4, <1>5, <1>6, <1>7 DEF Arrive, Join, Own, Serve, SolveReturns,
    Store, Release, Woken, Write, SendOwn, WaitTimesOut

LEMMA TypedNext ==
  ASSUME Typed, Finished, [Next]_vars
  PROVE  Typed'
<1> USE ConstantsAssumption DEF Typed, Types, Role, Step, OwnerStep
<1>1. ASSUME NEW t \in Thread, Arrive(t) PROVE Typed'
  <2>1. pending' \in [Pending -> Cell] /\ reply' \in [Thread -> Reply]
    BY <1>1, PendingTyped, ReplyTyped
  <2>2. PICK p \in Path : Refuse(t, p) \/ AnswerFromCache(t, p) \/ Join(t, p) \/ Own(t, p)
    BY <1>1 DEF Arrive
  <2>3. CASE Refuse(t, p)
    BY <2>1, <2>3 DEF Refuse
  <2>6. CASE AnswerFromCache(t, p)
    BY <2>1, <2>6 DEF AnswerFromCache
  <2>4. CASE Join(t, p)
    <3>1. inflight[p] \in Pending
      BY <2>1, <2>4 DEF Join, UnderWay
    <3> QED BY <2>1, <2>4, <3>1 DEF Join
  <2>5. CASE Own(t, p)
    BY <2>1, <2>5 DEF Own
  <2> QED BY <2>2, <2>3, <2>4, <2>5, <2>6
<1>2. ASSUME NEW t \in Thread, Serve(t) PROVE Typed'
  <2>1. pending' \in [Pending -> Cell] /\ reply' \in [Thread -> Reply]
    BY <1>2, PendingTyped, ReplyTyped
  <2>2. CASE SolveFails(t)
    BY <2>1, <2>2 DEF SolveFails
  <2>3. CASE SolveReturns(t)
    BY <2>1, <2>3 DEF SolveReturns
  <2>4. CASE Store(t)
    BY <2>1, <2>4, StoreTyped DEF Store, AfterStore
  <2>5. CASE Fill(t)
    BY <2>1, <2>5 DEF Fill
  <2>6. CASE Release(t)
    BY <2>1, <2>6 DEF Release, Vacated
  <2>7. CASE Wake(t)
    BY <2>1, <2>7 DEF Wake
  <2>8. CASE Woken(t)
    BY <2>1, <2>8 DEF Woken, Read
  <2> QED BY <1>2, <2>2, <2>3, <2>4, <2>5, <2>6, <2>7, <2>8 DEF Serve
<1>3. ASSUME NEW t \in Thread, Write(t) \/ WaitTimesOut(t) PROVE Typed'
  BY <1>3, ReplyTyped DEF Write, SendOwn, Send, WaitTimesOut, Read
<1>4. CASE Tick
  BY <1>4, TickTyped DEF Tick
<1>5. CASE UNCHANGED vars
  BY <1>5 DEF vars
<1> QED BY <1>1, <1>2, <1>3, <1>4, <1>5 DEF Next

-----------------------------------------------------------------------------
(* Owned *)

LEMMA OwnedInit == Init => Owned
  BY DEF Init, Owned, Holding, OwnerStep

\* The steps in which an owner goes on holding its path's slot.
LEMMA HoldingStepsOwned ==
  ASSUME Typed, Owned, NEW t \in Thread,
         SolveFails(t) \/ SolveReturns(t) \/ Store(t) \/ Fill(t) \/ SendOwn(t)
  PROVE  Owned'
<1>1. Alone(t)
  BY ThreadAlone DEF Serve, Write
<1>2. pc[t] \in Holding /\ pc'[t] \in Holding
  BY DEF SolveFails, SolveReturns, Store, AfterStore, Fill, SendOwn, Holding, OwnerStep, Typed, Types
<1>3. UNCHANGED <<inflight, path, slot>>
  BY DEF SolveFails, SolveReturns, Store, Fill, SendOwn
<1>4. \A q \in Pending : pending'[q].event = pending[q].event
  <2>1. CASE SolveFails(t) \/ Fill(t)
    <3>1. slot[t] \in Pending
      BY <2>1 DEF SolveFails, Fill, Typed, Role, OwnerStep
    <3>2. \A q \in Pending \ {slot[t]} : pending'[q] = pending[q]
      BY <2>1 DEF SolveFails, Fill, Typed, Types
    <3>3. pending'[slot[t]].event = pending[slot[t]].event
      <4> DEFINE c == pending[slot[t]]
      <4>1. c \in Cell
        BY <3>1 DEF Typed, Types
      <4>2. \/ pending'[slot[t]] = [c EXCEPT !.error = TRUE]
            \/ pending'[slot[t]] = [c EXCEPT !.filled = c.filled + 1, !.doc = got[t]]
        BY <2>1, <3>1 DEF SolveFails, Fill, Typed, Types
      <4>3. [c EXCEPT !.error = TRUE].event = c.event
        BY <4>1 DEF Cell
      <4>4. [c EXCEPT !.filled = c.filled + 1, !.doc = got[t]].event = c.event
        BY <4>1 DEF Cell
      <4> QED BY <4>2, <4>3, <4>4
    <3> QED BY <3>2, <3>3
  <2>2. CASE UNCHANGED pending
    BY <2>2
  <2> QED BY <2>1, <2>2 DEF SolveReturns, Store, SendOwn
<1>5. \A u \in Thread : pc[u] = "wait" => slot[u] \in Pending
  BY DEF Typed, Role
<1>6. \A u \in Thread : /\ pc'[u] \in Holding <=> pc[u] \in Holding
                        /\ pc'[u] \in OwnerStep <=> pc[u] \in OwnerStep
                        /\ pc'[u] = "wait" <=> pc[u] = "wait"
  BY <1>1, <1>2 DEF Alone, Holding, OwnerStep
<1> QED BY <1>3, <1>4, <1>5, <1>6 DEF Owned, Owns

LEMMA ArriveOwned ==
  ASSUME Typed, Owned, NEW t \in Thread, Arrive(t)
  PROVE  Owned'
<1> USE DEF Owned, Owns
<1>1. PICK p \in Path : Refuse(t, p) \/ AnswerFromCache(t, p) \/ Join(t, p) \/ Own(t, p)
  BY DEF Arrive
<1>2. Alone(t) /\ pc[t] = "idle"
  BY <1>1, ThreadAlone DEF Refuse, AnswerFromCache, Join, Own
<1>3. CASE Refuse(t, p) \/ AnswerFromCache(t, p)
  <2>1. pc'[t] = "send" /\ UNCHANGED <<inflight, pending, slot>>
    <3>1. CASE Refuse(t, p)
      BY <3>1 DEF Refuse, Typed, Types
    <3>2. CASE AnswerFromCache(t, p)
      BY <3>2 DEF AnswerFromCache, Typed, Types
    <3> QED BY <1>3, <3>1, <3>2
  <2> QED BY <1>2, <2>1 DEF Alone, Holding, OwnerStep
<1>4. CASE Join(t, p)
  <2>1. /\ pc'[t] = "wait" /\ slot'[t] = inflight[p] /\ inflight[p] # None
        /\ UNCHANGED <<inflight, pending>>
    BY <1>4 DEF Join, UnderWay, Typed, Types
  <2>2. PICK v \in Thread : pc[v] \in Holding /\ path[v] = p /\ slot[v] = inflight[p]
    BY <2>1
  <2>3. v # t /\ pc'[v] \in OwnerStep /\ slot'[v] = slot'[t]
    BY <1>2, <2>1, <2>2 DEF Alone, Holding, OwnerStep
  <2> QED BY <1>2, <2>1, <2>3 DEF Alone, Holding, OwnerStep
<1>5. CASE Own(t, p)
  <2>1. PICK q \in Pending : /\ Collected(q)
                             /\ pending' = [pending EXCEPT ![q] = NewPending]
                             /\ inflight' = [inflight EXCEPT ![p] = q]
                             /\ slot' = [slot EXCEPT ![t] = q]
    BY <1>5 DEF Own
  <2>2. /\ pc'[t] = "solve" /\ path'[t] = p /\ slot'[t] = q /\ inflight[p] = None
        /\ inflight'[p] = q
    BY <1>5, <2>1 DEF Own, UnderWay, Typed, Types
  <2>3. \A r \in Path \ {p} : inflight'[r] = inflight[r]
    BY <2>1 DEF Typed, Types
  <2>4. \A u \in Thread \ {t} : slot[u] # q /\ (pc[u] = "wait" => slot[u] \in Pending)
    BY <2>1 DEF Collected, Typed, Role
  <2>5. \A r \in Pending \ {q} : pending'[r] = pending[r]
    BY <2>1 DEF Typed, Types
  <2>6. \A u \in Thread \ {t} : pc[u] \in Holding => path[u] \in Path /\ path[u] # p
    <3>1. SUFFICES ASSUME NEW u \in Thread, pc[u] \in Holding
                   PROVE  path[u] \in Path /\ path[u] # p
      OBVIOUS
    <3>2. path[u] \in Path /\ inflight[path[u]] = slot[u] /\ slot[u] \in Pending
      BY <3>1 DEF Typed, Role, Holding
    <3> QED BY <2>2, <3>2, ConstantsAssumption
  <2>7. \A r \in Path : inflight'[r] # None =>
          \E u \in Thread : pc'[u] \in Holding /\ path'[u] = r /\ slot'[u] = inflight'[r]
    BY <1>2, <2>2, <2>3 DEF Alone, Holding, OwnerStep
  <2>8. \A u \in Thread : pc'[u] \in Holding => inflight'[path'[u]] = slot'[u]
    BY <1>2, <2>2, <2>3, <2>6 DEF Alone, Holding, OwnerStep
  <2>9. \A u \in Thread : pc'[u] = "wait" =>
          pending'[slot'[u]].event \/ \E v \in Thread : pc'[v] \in OwnerStep /\ slot'[v] = slot'[u]
    BY <1>2, <2>2, <2>4, <2>5 DEF Alone, Holding, OwnerStep
  <2>10. \A u, v \in Thread : pc'[u] \in OwnerStep /\ pc'[v] \in OwnerStep /\ slot'[u] = slot'[v] => u = v
    BY <1>2, <2>2, <2>4 DEF Alone, OwnerStep
  <2> QED BY <2>7, <2>8, <2>9, <2>10
<1> QED BY <1>1, <1>3, <1>4, <1>5

LEMMA ReleaseOwned ==
  ASSUME Typed, Owned, NEW t \in Thread, Release(t)
  PROVE  Owned'
<1> USE DEF Owned, Owns
<1>1. Alone(t)
  BY ThreadAlone DEF Serve
<1>2. /\ pc[t] = "release" /\ pc'[t] = "wake"
      /\ UNCHANGED <<pending, path, slot>>
      /\ path[t] \in Path /\ inflight'[path[t]] = None
      /\ \A r \in Path \ {path[t]} : inflight'[r] = inflight[r]
  BY DEF Release, Vacated, Typed, Types, Role, OwnerStep
<1>3. \A u \in Thread \ {t} : pc[u] \in Holding => path[u] \in Path /\ path[u] # path[t]
  BY <1>2 DEF Typed, Role, Holding, OwnerStep
<1>4. \A r \in Path : inflight'[r] # None =>
        \E u \in Thread : pc'[u] \in Holding /\ path'[u] = r /\ slot'[u] = inflight'[r]
  <2>1. SUFFICES ASSUME NEW r \in Path, inflight'[r] # None
                 PROVE  \E u \in Thread : pc'[u] \in Holding /\ path'[u] = r /\ slot'[u] = inflight'[r]
    OBVIOUS
  <2>2. r # path[t] /\ inflight'[r] = inflight[r]
    BY <1>2, <2>1
  <2>3. PICK u \in Thread : pc[u] \in Holding /\ path[u] = r /\ slot[u] = inflight[r]
    BY <2>1, <2>2
  <2> QED BY <1>1, <1>2, <2>2, <2>3 DEF Alone
<1>5. \A u \in Thread : pc'[u] \in Holding => inflight'[path'[u]] = slot'[u]
  BY <1>1, <1>2, <1>3 DEF Alone, Holding
<1>6. \A u \in Thread : /\ pc'[u] \in OwnerStep <=> pc[u] \in OwnerStep
                        /\ pc'[u] = "wait" <=> pc[u] = "wait"
  BY <1>1, <1>2 DEF Alone, OwnerStep
<1> QED BY <1>2, <1>4, <1>5, <1>6

LEMMA WakeOwned ==
  ASSUME Typed, Owned, NEW t \in Thread, Wake(t)
  PROVE  Owned'
<1> USE DEF Owned, Owns
<1>1. Alone(t)
  BY ThreadAlone DEF Serve
<1>2. /\ pc[t] = "wake" /\ pc'[t] = "idle" /\ inflight' = inflight
      /\ slot[t] \in Pending /\ pending'[slot[t]].event
      /\ \A r \in Pending \ {slot[t]} : pending'[r] = pending[r]
  BY DEF Wake, Event, Typed, Types, Role, OwnerStep, Cell
<1>3. \A u \in Thread : pc'[u] = "wait" =>
        pending'[slot'[u]].event \/ \E v \in Thread : pc'[v] \in OwnerStep /\ slot'[v] = slot'[u]
  <2>1. SUFFICES ASSUME NEW u \in Thread, pc'[u] = "wait", slot'[u] # slot[t]
                 PROVE  \/ pending'[slot'[u]].event
                        \/ \E v \in Thread : pc'[v] \in OwnerStep /\ slot'[v] = slot'[u]
    BY <1>2
  <2>2. u # t /\ pc[u] = "wait" /\ slot'[u] = slot[u] /\ slot[u] \in Pending
    BY <1>1, <1>2, <2>1 DEF Alone, Typed, Role
  <2>3. CASE pending[slot[u]].event
    BY <1>2, <2>1, <2>2, <2>3
  <2>4. CASE \E v \in Thread : pc[v] \in OwnerStep /\ slot[v] = slot[u]
    BY <1>1, <2>1, <2>2, <2>4 DEF Alone
  <2> QED BY <2>2, <2>3, <2>4
<1> QED BY <1>1, <1>2, <1>3 DEF Alone, Holding, OwnerStep

LEMMA LeaveOwned ==
  ASSUME Typed, Owned, NEW t \in Thread, Woken(t) \/ WaitTimesOut(t) \/ Send(t)
  PROVE  Owned'
<1>1. Alone(t)
  BY ThreadAlone DEF Serve, Write
<1>2. /\ pc[t] \in {"wait", "send"} /\ pc'[t] \in {"send", "idle"}
      /\ UNCHANGED <<inflight, pending>>
  BY DEF Woken, WaitTimesOut, Read, Send, Typed, Types
<1> QED BY <1>1, <1>2 DEF Alone, Holding, OwnerStep, Owned, Owns

LEMMA OwnedNext ==
  ASSUME Typed, Owned, [Next]_vars
  PROVE  Owned'
<1>1. CASE UNCHANGED <<inflight, pending, pc, path, slot>>
  BY <1>1 DEF Owned, Owns
<1> QED
  BY <1>1, ArriveOwned, HoldingStepsOwned, ReleaseOwned, WakeOwned, LeaveOwned
  DEF Next, Serve, Write, Tick, vars

-----------------------------------------------------------------------------
(* Finished *)

LEMMA FinishedInit == Init => Finished
  BY DEF Init, Finished, NewPending

\* A step that leaves the _Pending objects alone.
LEMMA SamePendingFinished ==
  ASSUME Typed, Finished, UNCHANGED pending, NEW t \in Thread, Alone(t),
         \/ pc'[t] \notin OwnerStep
         \/ UNCHANGED slot /\ pc[t] \in {"solve", "store", "fill"} /\ pc'[t] = pc[t]
         \/ UNCHANGED slot /\ pc[t] = "solve" /\ pc'[t] = "store"
         \/ UNCHANGED slot /\ pc[t] = "store" /\ pc'[t] = "fill"
         \/ UNCHANGED slot /\ pc[t] \in {"sendOwn", "release"} /\ pc'[t] \in {"release", "wake"}
  PROVE  Finished'
<1>1. \A u \in Thread \ {t} : pc'[u] = pc[u] /\ slot'[u] = slot[u]
  BY DEF Alone
<1>2. \A q \in Pending : Given(pending'[q]) <=> Given(pending[q])
  BY DEF Given
<1>3. \A u \in Thread : pc[u] \in OwnerStep => slot[u] \in Pending
  BY DEF Typed, Role
<1> QED BY <1>1, <1>2, <1>3 DEF Finished, OwnerStep, Given

\* A step that changes one _Pending, which no other owner has.
LEMMA OnePendingFinished ==
  ASSUME Typed, Finished, NEW t \in Thread, Alone(t), NEW q \in Pending,
         \A r \in Pending \ {q} : pending'[r] = pending[r],
         \A u \in Thread \ {t} : pc[u] \in OwnerStep => slot[u] # q,
         pending'[q].event => Given(pending'[q]),
         \/ pc'[t] \notin OwnerStep
         \/ /\ slot'[t] = q
            /\ pc'[t] \in {"solve", "store"} => pending'[q].filled = 0
            /\ pc'[t] = "fill" => pending'[q].filled < 3
            /\ pc'[t] \in {"sendOwn", "release", "wake"} => Given(pending'[q])
  PROVE  Finished'
<1>1. \A u \in Thread \ {t} : pc'[u] = pc[u] /\ slot'[u] = slot[u]
  BY DEF Alone
<1>2. \A r \in Pending \ {q} : Given(pending'[r]) <=> Given(pending[r])
  BY DEF Given
<1>3. \A u \in Thread : pc[u] \in OwnerStep => slot[u] \in Pending
  BY DEF Typed, Role
<1>4. \A r \in Pending : pending'[r].event => Given(pending'[r])
  BY <1>2 DEF Finished
<1>5. ASSUME NEW u \in Thread
      PROVE  /\ pc'[u] \in {"solve", "store"} => pending'[slot'[u]].filled = 0
             /\ pc'[u] = "fill" => pending'[slot'[u]].filled < 3
             /\ pc'[u] \in {"sendOwn", "release", "wake"} => Given(pending'[slot'[u]])
  <2>1. CASE u = t
    BY <2>1 DEF OwnerStep, Given
  <2>2. CASE u # t /\ pc[u] \in OwnerStep
    BY <1>1, <1>3, <2>2 DEF Finished, OwnerStep, Given
  <2>3. CASE u # t /\ pc[u] \notin OwnerStep
    BY <1>1, <2>3 DEF OwnerStep
  <2> QED BY <2>1, <2>2, <2>3
<1> QED BY <1>4, <1>5 DEF Finished, Given

LEMMA FinishedNext ==
  ASSUME Typed, Owned, Finished, [Next]_vars
  PROVE  Finished'
<1>1. ASSUME NEW t \in Thread, Arrive(t) \/ Serve(t) \/ Write(t) \/ WaitTimesOut(t)
      PROVE  Finished'
  <2> USE DEF Typed, Types
  <2>1. Alone(t)
    BY <1>1, ThreadAlone
  <2>2. CASE \E p \in Path : Refuse(t, p) \/ AnswerFromCache(t, p) \/ Join(t, p)
    <3>1. UNCHANGED pending /\ pc'[t] \notin OwnerStep
      BY <2>2 DEF Refuse, AnswerFromCache, Join, OwnerStep
    <3> QED BY <2>1, <3>1, SamePendingFinished
  <2>3. CASE \E p \in Path : Own(t, p)
    <3>1. PICK p \in Path : Own(t, p)
      BY <2>3
    <3>2. PICK q \in Pending : /\ Collected(q)
                               /\ pending' = [pending EXCEPT ![q] = NewPending]
                               /\ slot' = [slot EXCEPT ![t] = q]
      BY <3>1 DEF Own
    <3>3. pc'[t] = "solve" /\ slot'[t] = q /\ pending'[q] = NewPending
      BY <3>1, <3>2 DEF Own
    <3>4. ~pending'[q].event /\ pending'[q].filled = 0
      BY <3>3 DEF NewPending
    <3>5. \A u \in Thread \ {t} : slot[u] # q
      BY <3>2 DEF Collected
    <3>6. \A r \in Pending \ {q} : pending'[r] = pending[r]
      BY <3>2
    <3> QED BY <2>1, <3>3, <3>4, <3>5, <3>6, OnePendingFinished
  <2>4. CASE SolveFails(t) \/ Fill(t) \/ Wake(t)
    <3> DEFINE q == slot[t]
               c == pending[q]
    <3>1. q \in Pending /\ c \in Cell /\ pc[t] \in OwnerStep
      BY <2>4 DEF SolveFails, Fill, Wake, Role, OwnerStep
    <3>2. /\ \A r \in Pending \ {q} : pending'[r] = pending[r]
          /\ \A u \in Thread \ {t} : pc[u] \in OwnerStep => slot[u] # q
      <4>1. \A r \in Pending \ {q} : pending'[r] = pending[r]
        BY <2>4, <3>1 DEF SolveFails, Fill, Wake
      <4>2. \A u \in Thread \ {t} : pc[u] \in OwnerStep => slot[u] # q
        BY <3>1 DEF Owned
      <4> QED BY <4>1, <4>2
    <3>3. CASE SolveFails(t)
      <4>1. pending'[q] = [c EXCEPT !.error = TRUE] /\ pc'[t] = "sendOwn" /\ slot'[t] = q
        BY <3>1, <3>3 DEF SolveFails
      <4>2. Given(pending'[q])
        BY <3>1, <4>1 DEF Cell, Given, SolveFails
      <4> QED BY <2>1, <3>1, <3>2, <4>1, <4>2, OnePendingFinished
    <3>4. CASE Fill(t)
      <4>1. /\ pending'[q] = [c EXCEPT !.filled = c.filled + 1, !.doc = got[t]]
            /\ pc[t] = "fill" /\ slot'[t] = q /\ got[t] \in Document /\ c.filled \in 0 .. 2
            /\ IF c.filled + 1 < 3 THEN pc'[t] = "fill" ELSE pc'[t] = "sendOwn"
        <5>1. pc[t] = "fill" /\ got[t] \in Document /\ slot'[t] = q
          BY <3>4 DEF Fill, Role
        <5>2. c.filled \in 0 .. 2
          BY <3>1, <5>1 DEF Finished, Cell
        <5>3. pending'[q] = [c EXCEPT !.filled = c.filled + 1, !.doc = got[t]]
          BY <3>1, <3>4 DEF Fill
        <5>4. IF c.filled + 1 < 3 THEN pc'[t] = "fill" ELSE pc'[t] = "sendOwn"
          BY <3>4, <5>1 DEF Fill
        <5> QED BY <5>1, <5>2, <5>3, <5>4
      <4>2. /\ pending'[q].event = c.event /\ pending'[q].error = c.error
            /\ pending'[q].filled = c.filled + 1 /\ pending'[q].doc = got[t]
        BY <3>1, <4>1 DEF Cell
      <4>3. pending'[q].event => Given(pending'[q])
        BY <3>1, <4>1, <4>2 DEF Finished, Given, Fill
      <4>4. pc'[t] = "sendOwn" => Given(pending'[q])
        <5>1. pc'[t] = "sendOwn" => c.filled = 2
          BY <4>1
        <5> QED BY <4>1, <4>2, <5>1 DEF Given
      <4>5. /\ pc'[t] \in {"fill", "sendOwn"} /\ slot'[t] = q
            /\ pc'[t] = "fill" => pending'[q].filled < 3
        BY <4>1, <4>2
      <4> HIDE DEF q, c
      <4> QED BY <2>1, <3>1, <3>2, <4>3, <4>4, <4>5, OnePendingFinished
    <3>5. CASE Wake(t)
      <4>1. pending'[q] = [c EXCEPT !.event = TRUE] /\ pc[t] = "wake" /\ pc'[t] = "idle"
        BY <3>1, <3>5 DEF Wake, Event
      <4>2. /\ pending'[q].error = c.error
            /\ pending'[q].filled = c.filled /\ pending'[q].doc = c.doc
        BY <3>1, <4>1 DEF Cell
      <4>3. Given(pending'[q])
        BY <3>1, <4>1, <4>2 DEF Finished, Given
      <4>4. pc'[t] \notin OwnerStep
        BY <4>1 DEF OwnerStep
      <4> QED BY <2>1, <3>1, <3>2, <4>3, <4>4, OnePendingFinished
    <3> QED BY <2>4, <3>3, <3>4, <3>5
  <2>5. CASE SolveReturns(t) \/ Store(t)
    <3>1. /\ UNCHANGED <<pending, slot>>
          /\ \/ pc[t] = "solve" /\ pc'[t] = "store"
             \/ pc[t] = "store" /\ pc'[t] = "fill"
      <4>1. CASE SolveReturns(t)
        BY <4>1 DEF SolveReturns
      <4>2. CASE Store(t)
        BY <4>2 DEF Store, AfterStore
      <4> QED BY <2>5, <4>1, <4>2
    <3> QED BY <2>1, <3>1, SamePendingFinished
  <2>6. CASE Release(t) \/ SendOwn(t)
    <3>1. /\ UNCHANGED <<pending, slot>>
          /\ pc[t] \in {"sendOwn", "release"} /\ pc'[t] \in {"release", "wake"}
      BY <2>6 DEF Release, SendOwn
    <3> QED BY <2>1, <3>1, SamePendingFinished
  <2>7. CASE Woken(t) \/ WaitTimesOut(t) \/ Send(t)
    <3>1. UNCHANGED pending /\ pc'[t] \notin OwnerStep
      BY <2>7 DEF Woken, WaitTimesOut, Read, Send, OwnerStep
    <3> QED BY <2>1, <3>1, SamePendingFinished
  <2> QED BY <1>1, <2>2, <2>3, <2>4, <2>5, <2>6, <2>7 DEF Arrive, Serve, Write
<1>2. CASE UNCHANGED <<pending, pc, slot>>
  BY <1>2 DEF Finished, Given
<1> QED BY <1>1, <1>2 DEF Next, Tick, vars

-----------------------------------------------------------------------------
(* Told *)

LEMMA ToldInit == Init => Told
  BY DEF Init, Told, NewPending, OwnerStep

\* A step of a thread that owns nothing afterwards and leaves the _Pending objects alone.
LEMMA BystanderTold ==
  ASSUME Typed, Told, NEW t \in Thread, Alone(t), UNCHANGED <<pending, gave>>,
         pc'[t] \notin OwnerStep
  PROVE  Told'
BY DEF Alone, Told, Stage, Match

\* A step of a thread on one _Pending, which no other owner has.
LEMMA OwnerTold ==
  ASSUME Typed, Told, NEW t \in Thread, Alone(t), NEW q \in Pending,
         \A r \in Pending \ {q} : pending'[r] = pending[r] /\ gave'[r] = gave[r],
         \A u \in Thread \ {t} : pc[u] \in OwnerStep => slot[u] # q,
         pending'[q].event => Match(q)',
         pc'[t] \in OwnerStep => slot'[t] = q /\ Stage(t, q)'
  PROVE  Told'
<1>1. \A r \in Pending \ {q} : Match(r)' <=> Match(r)
  BY DEF Match
<1>2. \A r \in Pending : pending'[r].event => Match(r)'
  BY <1>1 DEF Told
<1>3. ASSUME NEW u \in Thread, pc'[u] \in OwnerStep PROVE Stage(u, slot[u])'
  <2>1. CASE u = t
    BY <1>3, <2>1
  <2>2. CASE u # t
    <3>1. pc[u] = pc'[u] /\ slot'[u] = slot[u] /\ got'[u] = got[u]
      BY <2>2 DEF Alone
    <3>2. slot[u] \in Pending \ {q} /\ Stage(u, slot[u])
      BY <1>3, <2>2, <3>1 DEF Typed, Role, Told
    <3> QED BY <1>1, <3>1, <3>2 DEF Stage
  <2> QED BY <2>1, <2>2
<1> QED BY <1>2, <1>3 DEF Told

LEMMA ToldNext ==
  ASSUME Typed, Owned, Told, [Next]_vars
  PROVE  Told'
<1>1. ASSUME NEW t \in Thread, Arrive(t) \/ Serve(t) \/ Write(t) \/ WaitTimesOut(t)
      PROVE  Told'
  <2> USE DEF Typed, Types
  <2>1. Alone(t)
    BY <1>1, ThreadAlone
  <2>2. CASE \E p \in Path : Refuse(t, p) \/ AnswerFromCache(t, p) \/ Join(t, p)
    <3>1. UNCHANGED <<pending, gave>> /\ pc'[t] \notin OwnerStep
      BY <2>2 DEF Refuse, AnswerFromCache, Join, OwnerStep
    <3> QED BY <2>1, <3>1, BystanderTold
  <2>3. CASE Woken(t) \/ WaitTimesOut(t) \/ Send(t)
    <3>1. UNCHANGED <<pending, gave>> /\ pc'[t] \notin OwnerStep
      BY <2>3 DEF Woken, WaitTimesOut, Read, Send, OwnerStep
    <3> QED BY <2>1, <3>1, BystanderTold
  <2>4. CASE \E p \in Path : Own(t, p)
    <3>1. PICK q \in Pending : /\ Collected(q)
                               /\ pending' = [pending EXCEPT ![q] = NewPending]
                               /\ slot' = [slot EXCEPT ![t] = q]
                               /\ gave' = [gave EXCEPT ![q] = None]
      BY <2>4 DEF Own
    <3>2. pc'[t] = "solve" /\ slot'[t] = q /\ pending'[q] = NewPending /\ gave'[q] = None
      BY <2>4, <3>1 DEF Own
    <3>3. ~pending'[q].event /\ Stage(t, q)'
      BY <3>2 DEF NewPending, Stage
    <3>4. \A r \in Pending \ {q} : pending'[r] = pending[r] /\ gave'[r] = gave[r]
      BY <3>1
    <3>5. \A u \in Thread \ {t} : slot[u] # q
      BY <3>1 DEF Collected
    <3> QED BY <2>1, <3>2, <3>3, <3>4, <3>5, OwnerTold
  <2>5. ASSUME pc[t] \in OwnerStep
        PROVE  /\ slot[t] \in Pending /\ pending[slot[t]] \in Cell
               /\ \A u \in Thread \ {t} : pc[u] \in OwnerStep => slot[u] # slot[t]
    BY <2>5 DEF Role, Owned
  <2> DEFINE q == slot[t]
             c == pending[q]
  <2>6. CASE SolveFails(t)
    <3>1. pc[t] \in OwnerStep /\ q \in Pending /\ c \in Cell
      BY <2>5, <2>6 DEF SolveFails, OwnerStep
    <3>2. /\ pending'[q] = [c EXCEPT !.error = TRUE] /\ gave'[q] = gave[q] /\ gave[q] = None
          /\ slot'[t] = q /\ pc'[t] = "sendOwn"
          /\ \A r \in Pending \ {q} : pending'[r] = pending[r] /\ gave'[r] = gave[r]
      BY <2>6, <3>1 DEF SolveFails, Told, Stage
    <3>3. Match(q)'
      BY <3>1, <3>2 DEF Match, Cell
    <3>4. Stage(t, q)'
      BY <3>2, <3>3 DEF Stage
    <3> QED BY <2>1, <2>5, <3>1, <3>2, <3>3, <3>4, OwnerTold
  <2>7. CASE SolveReturns(t)
    <3>1. pc[t] \in OwnerStep /\ q \in Pending /\ c \in Cell
      BY <2>5, <2>7 DEF SolveReturns, OwnerStep
    <3>2. ~c.error /\ gave[q] = None
      BY <2>7, <3>1 DEF SolveReturns, Told, Stage
    <3>3. ~c.event
      BY <3>1, <3>2, ConstantsAssumption DEF Told, Match
    <3>4. /\ pending' = pending /\ gave'[q] = got'[t] /\ slot'[t] = q /\ pc'[t] = "store"
          /\ \A r \in Pending \ {q} : pending'[r] = pending[r] /\ gave'[r] = gave[r]
      BY <2>7, <3>1 DEF SolveReturns
    <3>5. Stage(t, q)'
      BY <3>2, <3>4 DEF Stage
    <3> QED BY <2>1, <2>5, <3>1, <3>3, <3>4, <3>5, OwnerTold
  <2>8. CASE Fill(t)
    <3>1. pc[t] \in OwnerStep /\ q \in Pending /\ c \in Cell /\ got[t] \in Document
      BY <2>5, <2>8 DEF Fill, OwnerStep, Role
    <3>2. ~c.error /\ gave[q] = got[t]
      BY <2>8, <3>1 DEF Fill, Told, Stage
    <3>3. /\ pending'[q] = [c EXCEPT !.filled = c.filled + 1, !.doc = got[t]]
          /\ gave'[q] = gave[q] /\ got'[t] = got[t] /\ slot'[t] = q
          /\ pc'[t] \in {"fill", "sendOwn"}
          /\ \A r \in Pending \ {q} : pending'[r] = pending[r] /\ gave'[r] = gave[r]
      BY <2>8, <3>1 DEF Fill
    <3>4. ~pending'[q].error /\ pending'[q].doc = got[t]
      BY <3>1, <3>2, <3>3 DEF Cell
    <3>5. Match(q)' /\ Stage(t, q)'
      BY <3>1, <3>2, <3>3, <3>4 DEF Match, Stage
    <3> QED BY <2>1, <2>5, <3>1, <3>3, <3>5, OwnerTold
  <2>9. CASE Store(t) \/ SendOwn(t) \/ Release(t)
    <3>1. pc[t] \in OwnerStep /\ q \in Pending /\ c \in Cell
      BY <2>5, <2>9 DEF Store, SendOwn, Release, OwnerStep
    <3>2. /\ UNCHANGED <<pending, gave>> /\ slot'[t] = q /\ got'[t] = got[t]
          /\ \/ pc[t] = "store" /\ pc'[t] = "fill"
             \/ pc[t] \in {"sendOwn", "release"} /\ pc'[t] \in {"release", "wake"}
      BY <2>9 DEF Store, AfterStore, SendOwn, Release
    <3>3. Stage(t, q) /\ (c.event => Match(q))
      BY <3>1 DEF Told
    <3>4. Match(q)' <=> Match(q)
      BY <3>2 DEF Match
    <3>5. Stage(t, q)'
      BY <3>2, <3>3, <3>4 DEF Stage
    <3> QED BY <2>1, <2>5, <3>1, <3>2, <3>3, <3>4, <3>5, OwnerTold
  <2>10. CASE Wake(t)
    <3>1. PICK w \in Pending : w = slot[t]
      BY <2>5, <2>10 DEF Wake, OwnerStep
    <3>2. /\ pc[t] = "wake" /\ pending[w] \in Cell
          /\ \A u \in Thread \ {t} : pc[u] \in OwnerStep => slot[u] # w
      BY <2>5, <2>10, <3>1 DEF Wake, OwnerStep
    <3>3. /\ pending'[w] = [pending[w] EXCEPT !.event = TRUE] /\ pc'[t] = "idle"
          /\ \A r \in Pending \ {w} : pending'[r] = pending[r]
          /\ UNCHANGED gave
      BY <2>10, <3>1 DEF Wake, Event
    <3>4. Match(w)
      BY <3>1, <3>2 DEF Told, Stage, OwnerStep
    <3>5. pending'[w].error = pending[w].error /\ pending'[w].doc = pending[w].doc
      BY <3>2, <3>3 DEF Cell
    <3>6. Match(w)'
      BY <3>3, <3>4, <3>5 DEF Match
    <3>7. pc'[t] \notin OwnerStep
      BY <3>3 DEF OwnerStep
    <3> QED BY <2>1, <3>2, <3>3, <3>6, <3>7, OwnerTold
  <2> QED BY <1>1, <2>2, <2>3, <2>4, <2>6, <2>7, <2>8, <2>9, <2>10 DEF Arrive, Serve, Write
<1>2. CASE UNCHANGED <<pending, pc, slot, got, gave>>
  BY <1>2 DEF Told, Stage, Match
<1> QED BY <1>1, <1>2 DEF Next, Tick, vars

-----------------------------------------------------------------------------
(* The cache *)

\* What a store leaves in the cache: its own document, if it is one to keep, and
\* entries that were there.
LEMMA StoreKeeps ==
  ASSUME Typed, NEW t \in Thread, Store(t)
  PROVE  \A r \in Path :
           \/ cache'[r] = cache[r] \/ cache'[r] = None
           \/ /\ r = path[t] /\ Cacheable(got[t])
              /\ cache'[r] = [left |-> Lifetime(got[t]), doc |-> got[t]]
<1>1. CASE UNCHANGED cache
  BY <1>1
<1>2. CASE \E K \in Kept(Live \ {path[t]}, got[t]) :
             cache' = [r \in Path |->
               IF r = path[t] THEN [left |-> Lifetime(got[t]), doc |-> got[t]]
               ELSE IF r \in K THEN cache[r] ELSE None]
  <2>1. PICK K \in Kept(Live \ {path[t]}, got[t]) :
             cache' = [r \in Path |->
               IF r = path[t] THEN [left |-> Lifetime(got[t]), doc |-> got[t]]
               ELSE IF r \in K THEN cache[r] ELSE None]
    BY <1>2
  <2>2. CASE Cacheable(got[t])
    BY <2>1, <2>2
  <2>3. CASE ~Cacheable(got[t])
    BY <2>3 DEF Store
  <2> QED BY <2>2, <2>3
<1> QED BY <1>1, <1>2 DEF Store

LEMMA OnePathPerSolve ==
  ASSUME Typed, Owned
  PROVE  OneSolvePerPath
<1>1. SUFFICES ASSUME NEW t \in Thread, NEW u \in Thread, path[t] = path[u],
                      pc[t] \in {"solve", "store"}, pc[u] \in {"solve", "store"}
               PROVE  t = u
  BY DEF OneSolvePerPath
<1>2. slot[t] = inflight[path[t]] /\ slot[u] = inflight[path[u]]
  BY <1>1 DEF Owned, Holding, OwnerStep
<1> QED BY <1>1, <1>2 DEF Owned, OwnerStep

LEMMA UncachedNext ==
  ASSUME Typed, Owned, SolvesOnlyUncached, [Next]_vars
  PROVE  SolvesOnlyUncached'
<1> USE DEF SolvesOnlyUncached, Live, Cached
<1>1. ASSUME NEW t \in Thread, Store(t) PROVE SolvesOnlyUncached'
  <2>1. SUFFICES ASSUME NEW u \in Thread, pc'[u] = "solve"
                 PROVE  path'[u] \notin Live'
    OBVIOUS
  <2>2. u # t /\ pc[u] = "solve" /\ UNCHANGED path
    BY <1>1, <2>1, ThreadAlone DEF Store, AfterStore, Alone, Serve, Typed, Types
  <2>3. path[u] # path[t]
    BY <1>1, <2>2, OnePathPerSolve DEF OneSolvePerPath, Store
  <2> QED BY <1>1, <2>2, <2>3, StoreKeeps
<1>2. ASSUME NEW t \in Thread, NEW p \in Path, Own(t, p) PROVE SolvesOnlyUncached'
  <2>1. UNCHANGED cache /\ pc[t] = "idle" /\ path'[t] = p
    BY <1>2 DEF Own, Typed, Types
  <2>2. p \notin Live
    BY <1>2, ConstantsAssumption DEF Own, Hit, Typed, Types, Entry
  <2>3. Alone(t)
    BY <1>2, ThreadAlone DEF Arrive
  <2> QED BY <2>1, <2>2, <2>3 DEF Alone
<1>3. ASSUME NEW t \in Thread, UNCHANGED cache, pc'[t] # "solve", Alone(t)
      PROVE  SolvesOnlyUncached'
  BY <1>3 DEF Alone
<1>4. ASSUME NEW t \in Thread,
             \/ \E p \in Path : Refuse(t, p) \/ AnswerFromCache(t, p) \/ Join(t, p)
             \/ SolveFails(t) \/ SolveReturns(t) \/ Fill(t) \/ Release(t) \/ Wake(t) \/ Woken(t)
             \/ Write(t) \/ WaitTimesOut(t)
      PROVE  SolvesOnlyUncached'
  <2>1. Alone(t)
    BY <1>4, ThreadAlone DEF Arrive, Serve
  <2>2. UNCHANGED cache /\ pc'[t] # "solve"
    <3> USE DEF Typed, Types
    <3>1. CASE \E p \in Path : Refuse(t, p) \/ AnswerFromCache(t, p) \/ Join(t, p)
      BY <3>1 DEF Refuse, AnswerFromCache, Join
    <3>2. CASE SolveFails(t) \/ SolveReturns(t) \/ Release(t) \/ Wake(t)
      BY <3>2 DEF SolveFails, SolveReturns, Release, Wake
    <3>3. CASE Fill(t)
      BY <3>3 DEF Fill
    <3>4. CASE Woken(t) \/ Write(t) \/ WaitTimesOut(t)
      BY <3>4 DEF Woken, WaitTimesOut, Read, Write, SendOwn, Send
    <3> QED BY <1>4, <3>1, <3>2, <3>3, <3>4
  <2> QED BY <1>3, <2>1, <2>2
<1>5. CASE Tick
  <2>1. \A p \in Path : p \in Live' => p \in Live
    BY <1>5 DEF Tick
  <2> QED BY <1>5, <2>1 DEF Tick
<1>6. CASE UNCHANGED vars
  BY <1>6 DEF vars
<1> QED BY <1>1, <1>2, <1>4, <1>5, <1>6 DEF Next, Arrive, Serve

-----------------------------------------------------------------------------
(* The running total of bytes *)

Accounted == IsFiniteSet(Octets(Cached)) /\ BytesAccounted

\* A body that is not over its share of the cap is not over the cap.
LEMMA ShareOfCap ==
  ASSUME NEW size \in Nat, NEW share \in Nat \ {0}, NEW max \in Nat, size * share <= max
  PROVE  size <= max
<1>1. size <= size * share
  OBVIOUS
<1> QED BY <1>1

LEMMA DisjointUnion ==
  ASSUME NEW S, NEW T, IsFiniteSet(S), IsFiniteSet(T), S \cap T = {}
  PROVE  /\ IsFiniteSet(S \cup T)
         /\ Cardinality(S) \in Nat /\ Cardinality(T) \in Nat
         /\ Cardinality(S \cup T) = Cardinality(S) + Cardinality(T)
<1>1. /\ IsFiniteSet(S \cup T)
      /\ Cardinality(S \cup T) = Cardinality(S) + Cardinality(T) - Cardinality(S \cap T)
  BY FS_Union
<1>2. Cardinality(S \cap T) = 0
  BY FS_EmptySet
<1>3. Cardinality(S) \in Nat /\ Cardinality(T) \in Nat
  BY FS_CardinalityType
<1> QED BY <1>1, <1>2, <1>3

\* The octets of one document under one path.
LEMMA OctetsOfOne ==
  ASSUME NEW p, NEW n \in Nat
  PROVE  IsFiniteSet({p} \X (1 .. n)) /\ Cardinality({p} \X (1 .. n)) = n
<1>1. IsFiniteSet(1 .. n) /\ Cardinality(1 .. n) = n
  BY FS_Interval
<1>2. IsFiniteSet({p}) /\ Cardinality({p}) = 1
  BY FS_Singleton
<1>3. IsFiniteSet({p} \X (1 .. n)) /\ Cardinality({p} \X (1 .. n)) = 1 * n
  BY <1>1, <1>2, FS_Product
<1>4. 1 * n = n
  OBVIOUS
<1> QED BY <1>3, <1>4

\* The bytes of a part of the cache and of the rest add up.
LEMMA BytesSplit ==
  ASSUME NEW P, NEW K \in SUBSET P, IsFiniteSet(Octets(P))
  PROVE  /\ IsFiniteSet(Octets(K)) /\ IsFiniteSet(Octets(P \ K))
         /\ Bytes(K) \in Nat /\ Bytes(P \ K) \in Nat
         /\ Bytes(P) = Bytes(K) + Bytes(P \ K)
<1>1. Octets(P) = Octets(K) \cup Octets(P \ K)
  BY DEF Octets
<1>2. Octets(K) \cap Octets(P \ K) = {}
  BY DEF Octets
<1>3. IsFiniteSet(Octets(K)) /\ IsFiniteSet(Octets(P \ K))
  BY <1>1, FS_Subset
<1>4. /\ Cardinality(Octets(K)) \in Nat /\ Cardinality(Octets(P \ K)) \in Nat
      /\ Cardinality(Octets(P)) = Cardinality(Octets(K)) + Cardinality(Octets(P \ K))
  BY <1>1, <1>2, <1>3, DisjointUnion
<1> QED BY <1>3, <1>4 DEF Bytes

LEMMA StoreAccounted ==
  ASSUME Typed, Accounted, NEW t \in Thread, Store(t)
  PROVE  Accounted'
<1> DEFINE d == got[t]
           p == path[t]
<1>1. d \in Document /\ d.size \in Nat /\ p \in Path
  BY ConstantsAssumption DEF Store, Typed, Types, Role, OwnerStep
<1>2. CASE UNCHANGED <<cache, cacheBytes>>
  BY <1>2 DEF Accounted, BytesAccounted, Bytes, Octets, Cached
<1>3. CASE ~UNCHANGED <<cache, cacheBytes>>
  <2>1. PICK K \in Kept(Live \ {p}, d) :
          /\ cache' = [r \in Path |-> IF r = p THEN [left |-> Lifetime(d), doc |-> d]
                                       ELSE IF r \in K THEN cache[r] ELSE None]
          /\ cacheBytes' = cacheBytes - Freed(Cached \ K) + d.size
          /\ ~TooBig(d)
    BY <1>3 DEF Store
  <2>2. K \in SUBSET Cached /\ p \notin K /\ (K = {} \/ Fits(K, d))
    BY <2>1 DEF Kept, Live
  <2>3. cache'[p] = [left |-> Lifetime(d), doc |-> d] /\ \A r \in K : cache'[r] = cache[r]
    BY <1>1, <2>1, <2>2 DEF Cached
  <2>4. cache'[p] # None /\ cache'[p].doc = d
    <3>1. [left |-> Lifetime(d), doc |-> d] \in [left : 0 .. TTL, doc : Document]
      BY <1>1, ConstantsAssumption DEF Lifetime
    <3> QED BY <2>3, <3>1, ConstantsAssumption
  <2>5. Cached' = K \cup {p}
    BY <1>1, <2>1, <2>2, <2>4 DEF Cached
  <2> HIDE DEF d, p
  <2>6. /\ IsFiniteSet(Octets(K)) /\ Bytes(K) \in Nat /\ Bytes(Cached \ K) \in Nat
        /\ Bytes(Cached) = Bytes(K) + Bytes(Cached \ K)
    BY <2>2, BytesSplit DEF Accounted
  <2>7. Octets(Cached)' = Octets(K) \cup ({p} \X (1 .. d.size))
    BY <2>3, <2>4, <2>5 DEF Octets
  <2>8. Octets(K) \cap ({p} \X (1 .. d.size)) = {}
    BY <2>2 DEF Octets
  <2>9. IsFiniteSet({p} \X (1 .. d.size)) /\ Cardinality({p} \X (1 .. d.size)) = d.size
    BY <1>1, OctetsOfOne
  <2>10. /\ IsFiniteSet(Octets(Cached)')
         /\ Cardinality(Octets(Cached)') = Bytes(K) + d.size
    <3> DEFINE own == {p} \X (1 .. d.size)
    <3>1. IsFiniteSet(own) /\ Cardinality(own) = d.size /\ Octets(K) \cap own = {}
      BY <2>8, <2>9
    <3> HIDE DEF own
    <3>2. /\ IsFiniteSet(Octets(K) \cup own)
          /\ Cardinality(Octets(K) \cup own) = Cardinality(Octets(K)) + Cardinality(own)
      BY <2>6, <3>1, DisjointUnion
    <3>3. Octets(Cached)' = Octets(K) \cup own
      BY <2>7 DEF own
    <3> QED BY <3>1, <3>2, <3>3 DEF Bytes
  <2>11. cacheBytes' = Bytes(K) + d.size
    BY <1>1, <2>1, <2>6 DEF Freed, Accounted, BytesAccounted
  <2>12. MaxBytes > 0 => Bytes(K) + d.size <= MaxBytes
    <3>1. CASE K = {}
      <4>1. Bytes(K) = 0
        BY <3>1, FS_EmptySet DEF Bytes, Octets
      <4>2. MaxBytes > 0 => d.size <= MaxBytes
        BY <1>1, <2>1, ShareOfCap, ConstantsAssumption DEF TooBig
      <4> QED BY <1>1, <4>1, <4>2
    <3>2. CASE K # {}
      BY <2>2, <3>2, ConstantsAssumption DEF Fits
    <3> QED BY <3>1, <3>2
  <2> QED BY <2>10, <2>11, <2>12 DEF Accounted, BytesAccounted, Bytes
<1> QED BY <1>2, <1>3

LEMMA AccountedNext ==
  ASSUME Typed, Accounted, [Next]_vars
  PROVE  Accounted'
<1>1. ASSUME NEW t \in Thread, Store(t) PROVE Accounted'
  BY <1>1, StoreAccounted
<1>2. CASE Tick
  <2>1. Cached' = Cached /\ \A p \in Cached : cache'[p].doc = cache[p].doc
    <3>1. ASSUME NEW p \in Path, p \in Live
          PROVE  /\ cache'[p] = [cache[p] EXCEPT !.left = @ - 1]
                 /\ cache'[p].doc = cache[p].doc /\ cache'[p] # None
      <4>1. cache[p] \in Entry /\ cache'[p] = [cache[p] EXCEPT !.left = @ - 1]
        BY <1>2, <3>1 DEF Tick, Typed, Types, Live, Cached
      <4>2. cache'[p] \in [left : 0 .. TTL, doc : Document]
        BY <3>1, <4>1, ConstantsAssumption DEF Entry, Live
      <4> QED BY <4>1, <4>2, ConstantsAssumption DEF Entry
    <3>2. \A p \in Path : p \notin Live => cache'[p] = cache[p]
      BY <1>2 DEF Tick
    <3> QED BY <3>1, <3>2 DEF Cached, Live
  <2>2. Octets(Cached)' = Octets(Cached)
    BY <2>1 DEF Octets
  <2> QED BY <1>2, <2>2 DEF Tick, Accounted, BytesAccounted, Bytes
<1>3. CASE UNCHANGED <<cache, cacheBytes>>
  BY <1>3 DEF Accounted, BytesAccounted, Bytes, Octets, Cached
<1> QED
  BY <1>1, <1>2, <1>3 DEF Next, Arrive, Refuse, AnswerFromCache, Join, Own, Serve, SolveFails,
    SolveReturns, Fill, Release, Wake, Woken, Read, Write, SendOwn, Send, WaitTimesOut, vars

-----------------------------------------------------------------------------
(* What the server promises *)

Inv == Typed /\ Owned /\ Finished /\ Told /\ SolvesOnlyUncached /\ Accounted

LEMMA InvHolds == Spec => []Inv
<1>1. Init => Inv
  <2>1. Init => Accounted
    BY FS_EmptySet, ConstantsAssumption DEF Init, Accounted, BytesAccounted, Bytes, Octets, Cached
  <2> QED BY <2>1, TypedInit, OwnedInit, FinishedInit, ToldInit
    DEF Init, Inv, SolvesOnlyUncached
<1>2. Inv /\ [Next]_vars => Inv'
  BY TypedNext, OwnedNext, FinishedNext, ToldNext, UncachedNext, AccountedNext
  DEF Inv
<1> QED BY <1>1, <1>2, PTL DEF Spec

\* Every state of the server has its types, the running total included: it never goes
\* below zero.
THEOREM TypesHold == Spec => []TypeOK
<1>1. Inv => TypeOK
  <2>1. Accounted => cacheBytes \in Nat
    BY FS_CardinalityType DEF Accounted, BytesAccounted, Bytes
  <2> QED BY <2>1 DEF Inv, Typed, Types, TypeOK, Cell, Reply, Filled
<1> QED BY <1>1, InvHolds, PTL

\* The running total is exactly the bytes of the entries, over any series of stores,
\* expiries and evictions, and never over the cap.
THEOREM TotalIsExact == Spec => []BytesAccounted
<1>1. Inv => BytesAccounted
  BY DEF Inv, Accounted
<1> QED BY <1>1, InvHolds, PTL

\* However many requests share however many paths, a slot always has a thread that
\* will release it, and a request that waits one that has woken it or will.
THEOREM NobodyIsStranded == Spec => []NobodyStranded
<1>1. Inv => NobodyStranded
  <2>1. SUFFICES ASSUME Inv PROVE NobodyStranded
    OBVIOUS
  <2>2. \A p \in Path : inflight[p] # None =>
          \E t \in Thread : Owns(t, inflight[p]) /\ path[t] = p /\ pc[t] # "wake"
    BY <2>1 DEF Inv, Owned, Owns, Holding
  <2> QED BY <2>1, <2>2 DEF Inv, Owned, NobodyStranded
<1> QED BY <1>1, InvHolds, PTL

\* No path is being solved, or on its way to the cache, twice at a time.
THEOREM OneSolveAtATime == Spec => []OneSolvePerPath
<1>1. Inv => OneSolvePerPath
  BY OnePathPerSolve DEF Inv
<1> QED BY <1>1, InvHolds, PTL

\* No solve starts, or goes on, for a page the cache can answer.
THEOREM NoWastedSolve == Spec => []SolvesOnlyUncached
<1>1. Inv => SolvesOnlyUncached
  BY DEF Inv
<1> QED BY <1>1, InvHolds, PTL

\* A waiter that was woken sends the document that the solve it waited on gave, whole,
\* or that solve's error, though the owner assigns the shared fields one by one.
THEOREM WokenGetsWholeAnswer == Spec => WokenGetsTheSolve
<1>1. ASSUME Inv, [Next]_vars, NEW t \in Thread,
             pc[t] = "wait", pending[slot[t]].event, pc'[t] = "send"
      PROVE  reply'[t] = IF gave[slot[t]] = None THEN SolverError
                                                 ELSE Page(gave[slot[t]], TRUE)
  <2> DEFINE q == slot[t]
             c == pending[q]
  <2>1. q \in Pending /\ c \in Cell /\ Given(c) /\ Match(q)
    BY <1>1 DEF Inv, Typed, Types, Role, Finished, Told
  <2>2. Woken(t)
    <3>1. PICK u \in Thread : Arrive(u) \/ Serve(u) \/ Write(u) \/ WaitTimesOut(u)
      BY <1>1 DEF Next, Tick, vars
    <3>2. u = t
      BY <1>1, <3>1, ThreadAlone DEF Alone, Inv
    <3> QED
      BY <1>1, <3>1, <3>2 DEF Arrive, Refuse, AnswerFromCache, Join, Own, Serve, SolveFails,
        SolveReturns, Store, Fill, Release, Wake, Write, SendOwn, Send, WaitTimesOut
  <2>3. reply'[t] = Answer(c)
    BY <1>1, <2>2 DEF Woken, Read, Inv, Typed, Types
  <2>4. CASE c.error
    <3>1. gave[q] = None
      BY <2>1, <2>4 DEF Match
    <3>2. Answer(c) = SolverError
      BY <2>4 DEF Answer
    <3> QED BY <2>3, <3>1, <3>2
  <2>5. CASE ~c.error
    <3>1. gave[q] \in Document /\ c.doc = gave[q] /\ gave[q] # None
      BY <2>1, <2>5, ConstantsAssumption DEF Match
    <3>2. c.filled = 3
      BY <2>1, <2>5 DEF Given
    <3>3. Answer(c) = Page(c.doc, c.filled = 3)
      BY <2>5, <3>2 DEF Answer
    <3>4. Answer(c) = Page(c.doc, TRUE)
      BY <3>2, <3>3 DEF Page
    <3> QED BY <2>3, <3>1, <3>4
  <2> QED BY <2>4, <2>5
<1>2. Inv /\ [Next]_vars =>
        [\A t \in Thread :
           pc[t] = "wait" /\ pending[slot[t]].event /\ pc'[t] = "send" =>
             reply'[t] = IF gave[slot[t]] = None THEN SolverError
                                                 ELSE Page(gave[slot[t]], TRUE)]_vars
  BY <1>1
<1> QED BY <1>2, InvHolds, PTL DEF Spec, WokenGetsTheSolve
=============================================================================
