---------------------------- MODULE SessionStore ----------------------------
(***************************************************************************)
(* The session registry of Solverr (sessions.py), the requests that use    *)
(* it (ChromeEngine.solve, StealthEngine.solve, sessions.create and        *)
(* sessions.destroy) and the background cleanup (session_reaper.py).       *)
(*                                                                         *)
(* A Session object is a Handle: the identity of one browser.  Each store  *)
(* (one per engine) maps a session id to a handle.  What runs under the    *)
(* store's lock is one action; what runs outside it (launching, closing    *)
(* and driving a browser) is an action of its own, so requests and the     *)
(* cleanup interleave exactly where the code lets go of the lock.          *)
(*                                                                         *)
(* Abstractions.  Time is counted in ticks since a session was made (age)  *)
(* and since it was last stamped (idle), each saturating one tick past its *)
(* limit, so stamps further back than that compare as equal and the cap    *)
(* may evict them in either order.  A handle that nothing refers to any    *)
(* more stands for a collected object and may be built again.  Closing a   *)
(* browser always works (the code swallows what goes wrong there).         *)
(*                                                                         *)
(* A definition marked (variant) is the next one with a bug: nothing uses  *)
(* it but the runs that show a property can fail.                          *)
(***************************************************************************)
EXTENDS Naturals, FiniteSets

CONSTANTS
  Thread,        \* the request threads of the HTTP server
  Sid,           \* session ids a client names
  Store,         \* the session stores, one per engine
  ChromeStore,   \* those whose engine discards the session on a solve timeout
  Proxy,         \* what a request may carry as its proxy ("none" is one of them)
  Handle,        \* identities of Session objects
  None,          \* no handle, no thread
  Unknown,       \* _UNKNOWN_SESSION: nothing is remembered for the id
  Commands,      \* the commands clients send: a subset of AllCommands
  WithTtl,       \* the requests' session_ttl_minutes: FALSE = left out
  IdleTTL,       \* SESSION_TTL_MINUTES, in ticks; 0 turns idle reaping off
  LifeTTL,       \* the session_ttl_minutes a request names, in ticks
  MaxSessions,   \* SESSION_MAX; 0 turns the cap off
  ProxyMemory    \* _PROXY_MEMORY, the most ids whose proxy is remembered

AllCommands == {"solve", "create", "destroy"}

ASSUME ConstantsAssumption ==
  /\ IsFiniteSet(Thread)
  /\ ChromeStore \subseteq Store
  /\ None \notin Handle \cup Thread
  /\ Unknown \notin Proxy
  /\ Commands \subseteq AllCommands
  /\ WithTtl \subseteq BOOLEAN
  /\ IdleTTL \in Nat /\ LifeTTL \in Nat /\ MaxSessions \in Nat
  /\ ProxyMemory \in Nat \ {0}

VARIABLES
  pool,      \* pool[st][sid]: SessionStore.sessions
  sess,      \* sess[h]: session_id, proxy and owning store, fixed at creation
  inUse,     \* Session.in_use
  age,       \* ticks since created_at
  idle,      \* ticks since last_used
  live,      \* live[h]: the browser process of h is running
  lock,      \* Session.lock: the thread that holds it, or None
  stray,     \* browsers a timed-out solve may still be sending commands to
  memory,    \* _PROXY_BY_ID: id -> the proxy it was created with, or Unknown
  older,     \* its order: <<a, b>> when a stands before b in the OrderedDict
  since,     \* history, read by no action: since[a], the ids used since a last was
  pc,        \* where each request thread is
  req,       \* the request it serves
  claim,     \* the session it marked in use (in_use in solve)
  mine,      \* the session it is about to close: one built in vain, or popped
  reaper     \* the cleanup thread: its step, its store, the sessions it popped

vars == <<pool, sess, inUse, age, idle, live, lock, stray, memory, older, since, pc,
          req, claim, mine, reaper>>

tableVars   == <<pool, sess, inUse, age, idle>>
browserVars == <<live, lock, stray>>
memoryVars  == <<memory, older, since>>
localVars   == <<req, claim, mine>>
allButPc    == <<tableVars, browserVars, memoryVars, localVars, reaper>>

-----------------------------------------------------------------------------
(* Types *)

Session == [sid : Sid, store : Store, proxy : Proxy]
Request == [op : AllCommands, store : Store, sid : Sid,
            proxy : Proxy \cup {None}, ttl : BOOLEAN]

Step == {"idle", "lookup", "build", "closeExtra", "remember", "expire",
         "closeExpired", "acquire", "enter", "solve", "discard", "closePopped",
         "release", "endUse"}

ReaperStep == {"wait", "closeIdle", "enforceCap", "closeOver"}

TypeOK ==
  /\ pool \in [Store -> [Sid -> Handle \cup {None}]]
  /\ sess \in [Handle -> Session \cup {None}]
  /\ inUse \in [Handle -> Nat]
  /\ age \in [Handle -> 0 .. LifeTTL + 1]
  /\ idle \in [Handle -> 0 .. IdleTTL + 1]
  /\ live \in [Handle -> BOOLEAN]
  /\ lock \in [Handle -> Thread \cup {None}]
  /\ stray \in SUBSET Handle
  /\ memory \in [Sid -> Proxy \cup {Unknown}]
  /\ older \in SUBSET (Sid \X Sid)
  /\ since \in [Sid -> SUBSET Sid]
  /\ pc \in [Thread -> Step]
  /\ req \in [Thread -> Request \cup {None}]
  /\ claim \in [Thread -> Handle \cup {None}]
  /\ mine \in [Thread -> Handle \cup {None}]
  /\ reaper \in [step : ReaperStep, store : Store \cup {None}, popped : SUBSET Handle]

-----------------------------------------------------------------------------
(* Vocabulary *)

\* The session a store holds under an id.
At(st, sid) == pool[st][sid]

Pooled(h) == \E st \in Store, sid \in Sid : pool[st][sid] = h

PooledIn(st) == {h \in Handle : \E sid \in Sid : pool[st][sid] = h}

\* The requests whose mark is on the session.
Holders(h) == {t \in Thread : claim[t] = h}

\* Nothing refers to h any more: the object is gone and the identity is free.
Collected(h) ==
  /\ ~live[h] /\ ~Pooled(h) /\ h \notin stray /\ lock[h] = None
  /\ \A t \in Thread : claim[t] # h /\ mine[t] # h
  /\ h \notin reaper.popped

Remembered == {s \in Sid : memory[s] # Unknown}

\* The pool without the sessions of H.
Without(H) ==
  [st \in Store |-> [sid \in Sid |-> IF pool[st][sid] \in H THEN None ELSE pool[st][sid]]]

Goto(t, step) == pc' = [pc EXCEPT ![t] = step]

-----------------------------------------------------------------------------
(* The proxy memory: an OrderedDict bounded to ProxyMemory entries *)

\* A request uses sid: the record of who was used since whom, kept whatever the
\* memory makes of the use.
Use(sid) == since' = [a \in Sid |-> IF a = sid THEN {} ELSE since[a] \cup {sid}]

\* sid becomes the last of the ids in S.
MovedToEnd(S, sid) ==
  {p \in older : p[1] \in S \ {sid} /\ p[2] \in S \ {sid}} \cup ((S \ {sid}) \X {sid})

\* What has to go for the ids in known to fit: the first in order.
Dropped(known, order) ==
  IF Cardinality(known) > ProxyMemory
    THEN {s \in known : \A r \in known : <<r, s>> \notin order}
    ELSE {}

\* _remember_proxy: the entry goes to the end; past the bound the oldest is dropped.
RememberProxy(sid, proxy) ==
  LET order   == MovedToEnd(Remembered \cup {sid}, sid)
      dropped == Dropped(Remembered \cup {sid}, order)
  IN  /\ memory' = [s \in Sid |-> IF s \in dropped THEN Unknown
                                  ELSE IF s = sid THEN proxy ELSE memory[s]]
      /\ older' = {p \in order : p[1] \notin dropped /\ p[2] \notin dropped}

\* _recall_proxy: reading an entry moves it to the end.
RecallInPlace(sid) == UNCHANGED <<memory, older>>   \* (variant)
RecallProxy(sid) ==
  /\ older' = IF sid \in Remembered THEN MovedToEnd(Remembered, sid) ELSE older
  /\ UNCHANGED memory

\* _forget_proxy.
ForgetProxy(sid) ==
  /\ memory' = [memory EXCEPT ![sid] = Unknown]
  /\ older' = {p \in older : p[1] # sid /\ p[2] # sid}

-----------------------------------------------------------------------------
Init ==
  /\ pool = [st \in Store |-> [sid \in Sid |-> None]]
  /\ sess = [h \in Handle |-> None]
  /\ inUse = [h \in Handle |-> 0]
  /\ age = [h \in Handle |-> 0]
  /\ idle = [h \in Handle |-> 0]
  /\ live = [h \in Handle |-> FALSE]
  /\ lock = [h \in Handle |-> None]
  /\ stray = {}
  /\ memory = [sid \in Sid |-> Unknown]
  /\ older = {}
  /\ since = [sid \in Sid |-> {}]
  /\ pc = [t \in Thread |-> "idle"]
  /\ req = [t \in Thread |-> None]
  /\ claim = [t \in Thread |-> None]
  /\ mine = [t \in Thread |-> None]
  /\ reaper = [step |-> "wait", store |-> None, popped |-> {}]

-----------------------------------------------------------------------------
(* A request arrives.  Its first shared step is part of its arrival. *)

\* The exit a session is built with: what is remembered for its id, else the
\* request's own proxy.
ExitUnchecked(sid, proxy) == memory[sid]   \* (variant)
Exit(sid, proxy) == IF memory[sid] # Unknown THEN memory[sid] ELSE proxy

\* solve on a named session: SessionStore.get reads the proxy memory first.
BeginSolve(t) ==
  /\ pc[t] = "idle" /\ "solve" \in Commands
  /\ \E st \in Store, sid \in Sid, proxy \in Proxy, ttl \in WithTtl :
       /\ req' = [req EXCEPT ![t] =
            [op |-> "solve", store |-> st, sid |-> sid, ttl |-> ttl,
             proxy |-> Exit(sid, proxy)]]
       /\ RecallProxy(sid)
       /\ Use(sid)
  /\ Goto(t, "lookup")
  /\ UNCHANGED <<tableVars, browserVars, claim, mine, reaper>>

\* sessions.create.
BeginCreate(t) ==
  /\ pc[t] = "idle" /\ "create" \in Commands
  /\ \E st \in Store, sid \in Sid, proxy \in Proxy :
       req' = [req EXCEPT ![t] =
         [op |-> "create", store |-> st, sid |-> sid, ttl |-> FALSE, proxy |-> proxy]]
  /\ Goto(t, "lookup")
  /\ UNCHANGED <<tableVars, browserVars, memoryVars, claim, mine, reaper>>

\* sessions.destroy: the proxy is forgotten, then the session is discarded.
BeginDestroy(t) ==
  /\ pc[t] = "idle" /\ "destroy" \in Commands
  /\ \E st \in Store, sid \in Sid :
       /\ req' = [req EXCEPT ![t] =
            [op |-> "destroy", store |-> st, sid |-> sid, ttl |-> FALSE, proxy |-> None]]
       /\ ForgetProxy(sid)
       /\ UNCHANGED since
  /\ Goto(t, "discard")
  /\ UNCHANGED <<tableVars, browserVars, claim, mine, reaper>>

\* The request has been answered.
Finish(t) ==
  /\ Goto(t, "idle")
  /\ req' = [req EXCEPT ![t] = None]
  /\ claim' = [claim EXCEPT ![t] = None]
  /\ mine' = [mine EXCEPT ![t] = None]

-----------------------------------------------------------------------------
(* SessionStore.create and the rest of SessionStore.get *)

\* _claim: mark the session in use; the caller holds the store's lock.
Claim(t, h) ==
  /\ inUse' = [inUse EXCEPT ![h] = @ + 1]
  /\ idle' = [idle EXCEPT ![h] = 0]
  /\ claim' = [claim EXCEPT ![t] = h]

\* The id is in the pool: get claims its session under the same lock that found
\* it, sessions.create only reports it.
LookupFinds(t) ==
  LET h == At(req[t].store, req[t].sid)
  IN  /\ pc[t] = "lookup" /\ h # None
      /\ \/ /\ req[t].op = "solve"
            /\ Claim(t, h)
            /\ Goto(t, "expire")
            /\ UNCHANGED <<req, mine>>
         \/ /\ req[t].op = "create"
            /\ Finish(t)
            /\ UNCHANGED <<inUse, idle>>
      /\ UNCHANGED <<pool, sess, age, browserVars, memoryVars, reaper>>

LookupMisses(t) ==
  /\ pc[t] = "lookup" /\ At(req[t].store, req[t].sid) = None
  /\ Goto(t, "build")
  /\ UNCHANGED allButPc

\* The launch fails: the exception ends the request, which owns no mark yet.
BuildFails(t) ==
  /\ pc[t] = "build"
  /\ Finish(t)
  /\ UNCHANGED <<tableVars, browserVars, memoryVars, reaper>>

\* create marks the session it hands out only for a caller that asks for it: get.
MarksAlways(t) == 1   \* (variant)
Marks(t) == IF req[t].op = "solve" THEN 1 ELSE 0

\* The first thread to store the id wins.
StoredLast(race, built) == built   \* (variant)
Stored(race, built) == IF race = None THEN built ELSE race

\* The browser is launched outside the lock; this is the moment the launch is over
\* and the thread is back under the lock.  A loser is handed the winner's session.
PublishAs(t, built) ==
  LET race == At(req[t].store, req[t].sid)
      h    == Stored(race, built)
  IN  /\ pc[t] = "build" /\ Collected(built)
      /\ sess' = [sess EXCEPT ![built] = [sid   |-> req[t].sid,
                                          store |-> req[t].store,
                                          proxy |-> req[t].proxy]]
      /\ live' = [live EXCEPT ![built] = TRUE]
      /\ age' = [age EXCEPT ![built] = 0]
      /\ idle' = [idle EXCEPT ![built] = 0, ![h] = IF Marks(t) = 1 THEN 0 ELSE @]
      /\ inUse' = [inUse EXCEPT ![built] = 0, ![h] = @ + Marks(t)]
      /\ pool' = [pool EXCEPT ![req[t].store][req[t].sid] = h]
      /\ claim' = [claim EXCEPT ![t] = IF Marks(t) = 1 THEN h ELSE @]
      /\ mine' = [mine EXCEPT ![t] = IF race = None THEN None ELSE built]
      /\ Goto(t, IF race = None THEN "remember" ELSE "closeExtra")
      /\ UNCHANGED <<lock, stray, memoryVars, req, reaper>>

Publish(t) == \E built \in Handle : PublishAs(t, built)

\* The proxy of a stored session is remembered after the store's lock is let go.
Remember(t) ==
  /\ pc[t] = "remember"
  /\ RememberProxy(req[t].sid, req[t].proxy)
  /\ Use(req[t].sid)
  /\ \/ /\ req[t].op = "solve"
        /\ Goto(t, "acquire")      \* fresh: its lifetime is not looked at
        /\ UNCHANGED <<localVars>>
     \/ /\ req[t].op = "create"
        /\ Finish(t)
  /\ UNCHANGED <<tableVars, browserVars, reaper>>

\* The browser of h is closed (SessionStore._teardown).
Close(h) == live' = [live EXCEPT ![h] = FALSE]

\* The loser of the race closes the browser it launched for nothing.
ExtraSwapped(t) == claim[t]   \* (variant)
Extra(t) == mine[t]

CloseExtra(t) ==
  /\ pc[t] = "closeExtra"
  /\ Close(Extra(t))
  /\ \/ /\ req[t].op = "solve"
        /\ Goto(t, "expire")
        /\ mine' = [mine EXCEPT ![t] = None]
        /\ UNCHANGED <<req, claim>>
     \/ /\ req[t].op = "create"
        /\ Finish(t)
  /\ UNCHANGED <<tableVars, lock, stray, memoryVars, reaper>>

\* Past the request's session_ttl_minutes, and marked by this request alone.
ExpiredForAll(t) == req[t].ttl /\ age[claim[t]] > LifeTTL   \* (variant)
Expired(t) ==
  /\ req[t].ttl
  /\ age[claim[t]] > LifeTTL
  /\ inUse[claim[t]] = 1

\* An expired session leaves the pool, by id, and is rebuilt with its own proxy.
\* What that second create returns is used whatever its age.
Expire(t) ==
  /\ pc[t] = "expire" /\ Expired(t)
  /\ pool' = [pool EXCEPT ![req[t].store][req[t].sid] = None]
  /\ req' = [req EXCEPT ![t].ttl = FALSE, ![t].proxy = sess[claim[t]].proxy]
  /\ Goto(t, "closeExpired")
  /\ UNCHANGED <<sess, inUse, age, idle, browserVars, memoryVars, claim, mine, reaper>>

StillFresh(t) ==
  /\ pc[t] = "expire" /\ ~Expired(t)
  /\ Goto(t, "acquire")
  /\ UNCHANGED allButPc

CloseExpired(t) ==
  /\ pc[t] = "closeExpired"
  /\ Close(claim[t])
  /\ Goto(t, "lookup")
  /\ UNCHANGED <<tableVars, lock, stray, memoryVars, localVars, reaper>>

-----------------------------------------------------------------------------
(* Driving the browser: the solve methods of both engines *)

IsChrome(t) == req[t].store \in ChromeStore

\* One request at a time: the session's own lock, held for the whole solve.
Acquire(t) ==
  /\ pc[t] = "acquire" /\ lock[claim[t]] = None
  /\ lock' = [lock EXCEPT ![claim[t]] = t]
  /\ Goto(t, IF IsChrome(t) THEN "solve" ELSE "enter")
  /\ UNCHANGED <<tableVars, live, stray, memoryVars, localVars, reaper>>

\* The wait counts against the request's share, and runs it out.
AcquireTimesOut(t) ==
  /\ pc[t] = "acquire" /\ lock[claim[t]] # None
  /\ Goto(t, "endUse")
  /\ UNCHANGED allButPc

\* The stealth engine's coroutine also takes the context's asyncio lock, which a
\* cancelled solve gives back only once it has unwound.
ContextUnlocked(h) == TRUE   \* (variant)
ContextFree(h) == h \notin stray

Enter(t) ==
  /\ pc[t] = "enter" /\ ContextFree(claim[t])
  /\ Goto(t, "solve")
  /\ UNCHANGED allButPc

EnterTimesOut(t) ==
  /\ pc[t] = "enter" /\ ~ContextFree(claim[t])
  /\ Goto(t, "release")
  /\ UNCHANGED allButPc

\* The solve returns a page or raises.
SolveEnds(t) ==
  /\ pc[t] = "solve"
  /\ Goto(t, "release")
  /\ UNCHANGED allButPc

\* Chrome discards the session of a timed-out solve; the stealth engine only cancels.
AfterTimeoutKept(t) == "release"   \* (variant)
AfterTimeout(t) == IF IsChrome(t) THEN "discard" ELSE "release"

\* The solve is cut off, perhaps with a command to the browser still in flight.
SolveTimesOut(t) ==
  /\ pc[t] = "solve"
  /\ \/ UNCHANGED stray
     \/ live[claim[t]] /\ stray' = stray \cup {claim[t]}
  /\ Goto(t, AfterTimeout(t))
  /\ UNCHANGED <<tableVars, live, lock, memoryVars, localVars, reaper>>

\* The command in flight, or the cancelled coroutine, comes to its end.
StrayStops(h) ==
  /\ h \in stray
  /\ stray' = stray \ {h}
  /\ UNCHANGED <<tableVars, live, lock, memoryVars, pc, localVars, reaper>>

\* SessionStore.discard: whatever the id names now leaves the pool, in use or not.
Discard(t) ==
  LET h == At(req[t].store, req[t].sid)
  IN  /\ pc[t] = "discard"
      /\ pool' = [pool EXCEPT ![req[t].store][req[t].sid] = None]
      /\ \/ /\ h # None
            /\ mine' = [mine EXCEPT ![t] = h]
            /\ Goto(t, "closePopped")
            /\ UNCHANGED <<req, claim>>
         \/ /\ h = None /\ req[t].op = "solve"
            /\ Goto(t, "release")
            /\ UNCHANGED <<localVars>>
         \/ /\ h = None /\ req[t].op = "destroy"
            /\ Finish(t)
      /\ UNCHANGED <<sess, inUse, age, idle, browserVars, memoryVars, reaper>>

ClosePopped(t) ==
  /\ pc[t] = "closePopped"
  /\ Close(mine[t])
  /\ \/ /\ req[t].op = "solve"
        /\ Goto(t, "release")
        /\ mine' = [mine EXCEPT ![t] = None]
        /\ UNCHANGED <<req, claim>>
     \/ /\ req[t].op = "destroy"
        /\ Finish(t)
  /\ UNCHANGED <<tableVars, lock, stray, memoryVars, reaper>>

\* The finally of solve: the lock first, then the mark.
Release(t) ==
  /\ pc[t] = "release"
  /\ lock' = [lock EXCEPT ![claim[t]] = None]
  /\ Goto(t, "endUse")
  /\ UNCHANGED <<tableVars, live, stray, memoryVars, localVars, reaper>>

ReleasedNot(n) == n   \* (variant)
Released(n) == IF n = 0 THEN 0 ELSE n - 1

\* SessionStore.end_use: idle time runs from here.
EndUse(t) ==
  /\ pc[t] = "endUse"
  /\ inUse' = [inUse EXCEPT ![claim[t]] = Released(@)]
  /\ idle' = [idle EXCEPT ![claim[t]] = 0]
  /\ Finish(t)
  /\ UNCHANGED <<pool, sess, age, browserVars, memoryVars, reaper>>

-----------------------------------------------------------------------------
(* The cleanup thread.  It visits the stores in a fixed order, here in any. *)

\* A session in use is not idle, whatever its stamp says.
IdleIn(st) == {h \in PooledIn(st) : IdleTTL > 0 /\ idle[h] > IdleTTL /\ inUse[h] = 0}

\* SessionStore.reap_idle, under the lock.
ReapIdle(st) ==
  /\ reaper.step = "wait"
  /\ pool' = Without(IdleIn(st))
  /\ reaper' = [step |-> "closeIdle", store |-> st, popped |-> IdleIn(st)]
  /\ UNCHANGED <<sess, inUse, age, idle, browserVars, memoryVars, pc, localVars>>

\* How many sessions st holds too many.
OverButOne(st) == Cardinality(PooledIn(st)) - MaxSessions - 1   \* (variant)
Over(st) == Cardinality(PooledIn(st)) - MaxSessions

\* What the cap evicts from st: the longest idle of the sessions nobody is using,
\* as many as there are too many.
Evictable(st) ==
  LET free == {h \in PooledIn(st) : inUse[h] = 0}
  IN  IF MaxSessions = 0 \/ Cardinality(PooledIn(st)) <= MaxSessions
        THEN {{}}
        ELSE {E \in SUBSET free :
                /\ Cardinality(E) = IF Cardinality(free) < Over(st)
                                      THEN Cardinality(free) ELSE Over(st)
                /\ \A h \in E, g \in free \ E : idle[h] >= idle[g]}

\* SessionStore.enforce_cap, under the lock.
EnforceCap ==
  /\ reaper.step = "enforceCap"
  /\ \E E \in Evictable(reaper.store) :
       /\ pool' = Without(E)
       /\ reaper' = [reaper EXCEPT !.step = "closeOver", !.popped = E]
  /\ UNCHANGED <<sess, inUse, age, idle, browserVars, memoryVars, pc, localVars>>

\* What was popped is closed one by one, outside the lock.
ReaperCloses(h) ==
  /\ h \in reaper.popped
  /\ Close(h)
  /\ reaper' = [reaper EXCEPT !.popped = @ \ {h}]
  /\ UNCHANGED <<tableVars, lock, stray, memoryVars, pc, localVars>>

ReaperMovesOn ==
  /\ reaper.popped = {}
  /\ \/ /\ reaper.step = "closeIdle"
        /\ reaper' = [reaper EXCEPT !.step = "enforceCap"]
     \/ /\ reaper.step = "closeOver"
        /\ reaper' = [reaper EXCEPT !.step = "wait", !.store = None]
  /\ UNCHANGED <<tableVars, browserVars, memoryVars, pc, localVars>>

-----------------------------------------------------------------------------
\* Time passes for every session something still refers to.
Tick ==
  /\ age' = [h \in Handle |-> IF Collected(h) \/ age[h] > LifeTTL THEN age[h] ELSE age[h] + 1]
  /\ idle' = [h \in Handle |-> IF Collected(h) \/ idle[h] > IdleTTL THEN idle[h] ELSE idle[h] + 1]
  /\ <<age, idle>>' # <<age, idle>>
  /\ UNCHANGED <<pool, sess, inUse, browserVars, memoryVars, pc, localVars, reaper>>

Arrive(t) == BeginSolve(t) \/ BeginCreate(t) \/ BeginDestroy(t)

Serve(t) ==
  \/ LookupFinds(t) \/ LookupMisses(t) \/ BuildFails(t) \/ Publish(t)
  \/ Remember(t) \/ CloseExtra(t) \/ Expire(t) \/ StillFresh(t) \/ CloseExpired(t)
  \/ Acquire(t) \/ AcquireTimesOut(t) \/ Enter(t) \/ EnterTimesOut(t) \/ SolveEnds(t)
  \/ SolveTimesOut(t) \/ Discard(t) \/ ClosePopped(t) \/ Release(t) \/ EndUse(t)

Clean == (\E st \in Store : ReapIdle(st)) \/ EnforceCap
         \/ (\E h \in Handle : ReaperCloses(h)) \/ ReaperMovesOn

Next ==
  \/ \E t \in Thread : Arrive(t) \/ Serve(t)
  \/ Clean
  \/ \E h \in Handle : StrayStops(h)
  \/ Tick

Spec == Init /\ [][Next]_vars

\* Request threads keep running, the cleanup thread keeps visiting every store,
\* and time passes.  Nothing makes a client send a request.
Fairness ==
  /\ \A t \in Thread : WF_vars(Serve(t))
  /\ WF_vars(Clean)
  /\ \A st \in Store : SF_vars(ReapIdle(st))
  /\ WF_vars(Tick)

FairSpec == Spec /\ Fairness

-----------------------------------------------------------------------------
(* Properties *)

\* The in-use counter of a findable session is exactly the number of requests
\* whose mark is on it: every claim is taken once, with the pool's lock held, and
\* given back once on every way out of a solve.  A count too low lets the cleanup
\* close a browser mid-request; one too high keeps a browser for ever.
ClaimsCounted ==
  \A h \in Handle : Pooled(h) => inUse[h] = Cardinality(Holders(h))

\* A session a lookup can find has a running browser: whoever closes one takes it
\* out of the pool first, and nobody closes one that someone else published.
PoolServesLive ==
  \A h \in Handle : Pooled(h) => live[h]

\* A browser somebody has taken out of the pool and is about to close.
Condemned(h) ==
  \/ \E t \in Thread : pc[t] \in {"closeExtra", "closePopped"} /\ mine[t] = h
  \/ \E t \in Thread : pc[t] = "closeExpired" /\ claim[t] = h
  \/ h \in reaper.popped

\* One request at a time drives a session's browser, and none while a command of
\* a request that timed out may still be running on it (the reason ChromeEngine
\* throws the browser away), unless that browser is already being closed.
SoleDriver ==
  \A t \in Thread :
    pc[t] = "solve" =>
      /\ \A u \in Thread : pc[u] = "solve" /\ claim[u] = claim[t] => u = t
      /\ claim[t] \in stray => ~live[claim[t]] \/ Condemned(claim[t])

\* No browser is lost: each one running is in its pool, where the cleanup finds
\* it, or in the hands of a thread that will publish or close it.
NoLostBrowser ==
  \A h \in Handle : live[h] =>
    \/ pool[sess[h].store][sess[h].sid] = h
    \/ Condemned(h)

\* The cleanup, the cap and an expiring lifetime never close a browser that
\* another request has marked in use, however the three interleave with requests
\* (only a client's destroy and a timed-out solve may).
SparesSessionsInUse ==
  [][\A h \in Handle : live[h] /\ ~live'[h] =>
       \/ \E t \in Thread : pc[t] = "closePopped" /\ mine[t] = h
       \/ \A u \in Thread : claim[u] = h => pc[u] = "closeExpired" /\ pc'[u] = "lookup"]_vars

\* The memory of exits: what is stored is found, the bound holds, and an id whose exit
\* is lost was either destroyed by a client or had to go to keep the bound, every id
\* that stays having been used (stored by a create or named by a solve) since it last
\* was.  An id in daily service keeps its exit (_recall_proxy) however other
\* clients' ids come and go between its requests.
ProxyMemoryIsLru ==
  [][/\ \A t \in Thread : pc[t] = "remember" /\ pc'[t] # "remember" =>
          memory'[req[t].sid] = req[t].proxy
     /\ Cardinality(Remembered') <= ProxyMemory
     /\ \A a \in Remembered \ Remembered' :
          \/ \E t \in Thread : pc[t] = "idle" /\ pc'[t] = "discard" /\ req'[t].sid = a
          \/ /\ Cardinality(Remembered') = ProxyMemory
             /\ Remembered' \subseteq since'[a]]_vars

\* A request that waited its turn is handed a browser that still runs: after a
\* timed-out solve "the next request on this id builds a fresh one"
\* (chrome_engine.py).  Clients destroying the session under it are left out.
QueuedGetsLiveBrowser ==
  [][\A t \in Thread : pc[t] = "acquire" /\ lock'[claim[t]] = t => live[claim[t]]]_vars

\* "memory can't leak no matter how clients behave" (session_reaper.py): a session
\* no request is on does not stay in the pool for ever.
AbandonedAreReaped ==
  \A h \in Handle : []<>(~Pooled(h) \/ Holders(h) # {})

\* A pass of the cap leaves its store within MaxSessions, unless every session left
\* in it is one a request has marked in use.
CapIsRestored ==
  [][reaper.step = "enforceCap" /\ reaper'.step = "closeOver" /\ MaxSessions > 0 =>
       LET left == PooledIn(reaper.store)'
       IN  Cardinality(left) <= MaxSessions \/ \A h \in left : Holders(h) # {}]_vars

Pool == INSTANCE SessionPool WITH uses <- claim, driving <- {t \in Thread : pc[t] = "solve"}

\* The registry keeps the promise of SessionPool: through every race, timeout and cleanup,
\* each step of the code is one step of that pool, or none.
ImplementsPool == Pool!Spec
=============================================================================
