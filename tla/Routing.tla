------------------------------- MODULE Routing -------------------------------
(***************************************************************************)
(* The controller (flaresolverr_service.py): which engines a request is    *)
(* tried on, how its time is divided among them, what it is answered, what *)
(* is learnt about its host, and sessions.create and sessions.destroy over *)
(* the two engines' session pools.                                         *)
(*                                                                         *)
(* A pool is the set of the ids it holds; SessionStore is the module about *)
(* one pool.  Each look into a pool and each access to the host memory     *)
(* takes its own lock, so each is an action and requests interleave        *)
(* between them.                                                           *)
(*                                                                         *)
(* Abstractions.  Time is in whole units, spent only while an engine       *)
(* solves.  An engine may outlast its share by Overrun: the one-second     *)
(* floors of budget.py, the slack of the stealth engine's hard cap and the *)
(* closing of a browser.  A URL is its host.  What validation refuses      *)
(* before any of this is not modelled, nor is sessions.list, which only    *)
(* reads, nor sessions.create without an id, which no request can share.   *)
(*                                                                         *)
(* A definition marked (variant) is the next one with a bug: nothing uses  *)
(* it but the runs that show a property can fail.                          *)
(***************************************************************************)
EXTENDS Integers, SequencesExt

CONSTANTS
  Thread,         \* the request threads of the HTTP server
  Host,           \* the hosts of the requests' URLs
  Sid,            \* session ids a client names
  None,           \* no session, no engine, no maxTimeout
  Commands,       \* the commands clients send
  Forced,         \* what their "engine" field says: "auto" (or nothing), or an engine
  Asked,          \* their maxTimeout, in units, or None
  Html,           \* whether the answer carries the page: FALSE = returnOnlyCookies
  Clears,         \* Clears[h]: the engines that can get past the challenge of h
  Unmarked,       \* the hosts that can answer with a page that is no clearance and shows none
                  \* of the titles and markers of detection.py: a denial, another challenge
  StealthOn,      \* STEALTH_ENGINE is there
  DefaultEngine,  \* DEFAULT_ENGINE, "auto" among its values
  Fallback,       \* ENGINE_FALLBACK
  Ceiling,        \* MAX_TIMEOUT_MS; 0 lifts it
  DefaultBudget,  \* what a request that asks for no maxTimeout gets
  MinEngine,      \* _MIN_ENGINE_SECONDS
  MaxHosts,       \* _MAX_REMEMBERED_HOSTS
  Overrun         \* the most an engine takes beyond its share

Engine == {"chrome", "stealth"}

ASSUME ConstantsAssumption ==
  /\ Commands \subseteq {"solve", "create", "destroy"}
  /\ Forced \subseteq Engine \cup {"auto"}
  /\ None \notin Sid \cup Engine
  /\ Asked \subseteq Int \cup {None}
  /\ Html \subseteq BOOLEAN /\ StealthOn \in BOOLEAN /\ Fallback \in BOOLEAN
  /\ DefaultEngine \in Engine \cup {"auto"}
  /\ Clears \in [Host -> SUBSET Engine] /\ Unmarked \subseteq Host
  /\ Ceiling \in Nat /\ Overrun \in Nat
  /\ DefaultBudget \in Nat \ {0} /\ MinEngine \in Nat \ {0} /\ MaxHosts \in Nat \ {0}

\* _available_engines, in the order everything goes through them.
Order == IF StealthOn THEN <<"chrome", "stealth">> ELSE <<"chrome">>
Available == ToSet(Order)

VARIABLES
  pool,    \* pool[e]: the ids of the sessions engine e holds
  memory,  \* _DOMAIN_ENGINE, the host learnt last at the end
  pc,      \* where each request thread is
  req,     \* the request it serves
  seen,    \* what its looks into the pools have answered so far, in Order
  plan,    \* the engines to try, in order
  tried,   \* the attempts so far: the share, the time it took, what it gave
  spent,   \* the time that has passed since it arrived
  reply,   \* how the request is answered
  unread   \* history, read by no action: the engines that did not clear h and whose
           \* page the controller did not get to see, for each host h

vars == <<pool, memory, pc, req, seen, plan, tried, spent, reply, unread>>

Request == [op : {"solve", "create", "destroy"}, host : Host \cup {None}, sid : Sid \cup {None},
            forced : Engine \cup {"auto"}, budget : Nat \ {0}, html : BOOLEAN]
Learnt  == [host : Host, engine : Engine]
Attempt == [share : Int, took : Nat, gave : {"page", "challenge", "error"}]
Step    == {"idle", "probe", "recall", "try", "solve", "remember", "launch", "remove", "answered"}
Reply   == {"none", "page", "challenge", "error", "created", "exists", "destroyed"}

TypeOK ==
  /\ pool \in [Available -> SUBSET Sid]
  /\ memory \in Seq(Learnt)
  /\ pc \in [Thread -> Step]
  /\ req \in [Thread -> Request \cup {None}]
  /\ \A t \in Thread : req[t] # None /\ Ceiling > 0 => req[t].budget <= Ceiling
  /\ seen \in [Thread -> Seq(BOOLEAN)]
  /\ plan \in [Thread -> Seq(Available)]
  /\ tried \in [Thread -> Seq(Attempt)]
  /\ spent \in [Thread -> Nat]
  /\ reply \in [Thread -> Reply]
  /\ unread \in [Host -> SUBSET Engine]

-----------------------------------------------------------------------------
(* Vocabulary *)

Goto(t, step) == pc' = [pc EXCEPT ![t] = step]

Answer(t, r) == Goto(t, "answered") /\ reply' = [reply EXCEPT ![t] = r]

\* The engine the thread looks at or tries next.
Looked(t) == Order[Len(seen[t]) + 1]
Current(t) == plan[t][Len(tried[t]) + 1]

LastLook(t) == Len(seen[t]) + 1 = Len(Order)
IsLast(t) == Len(tried[t]) + 1 = Len(plan[t])

Remaining(t) == req[t].budget - spent[t]

\* An engine has returned a page, which looked challenged (last_result).
HasPage(t) == \E i \in DOMAIN tried[t] : tried[t][i].gave # "error"

Init ==
  /\ pool = [e \in Available |-> {}]
  /\ memory = <<>>
  /\ pc = [t \in Thread |-> "idle"]
  /\ req = [t \in Thread |-> None]
  /\ seen = [t \in Thread |-> <<>>]
  /\ plan = [t \in Thread |-> <<>>]
  /\ tried = [t \in Thread |-> <<>>]
  /\ spent = [t \in Thread |-> 0]
  /\ reply = [t \in Thread |-> "none"]
  /\ unread = [h \in Host |-> {}]

-----------------------------------------------------------------------------
(* A request arrives *)

\* _validate_max_timeout: a default for nothing asked, the ceiling over both.
BudgetUnclamped(asked) == IF asked = None \/ asked < 1 THEN DefaultBudget ELSE asked   \* (variant)
Budget(asked) ==
  LET wanted == IF asked = None \/ asked < 1 THEN DefaultBudget ELSE asked
  IN  IF 0 < Ceiling /\ Ceiling < wanted THEN Ceiling ELSE wanted

\* A request for a page.  A forced engine is the whole plan; otherwise the pools are
\* asked for the session, if there is one.
BeginSolve(t) ==
  /\ pc[t] = "idle" /\ "solve" \in Commands
  /\ \E host \in Host, sid \in Sid \cup {None}, forced \in Forced, asked \in Asked, html \in Html :
       /\ req' = [req EXCEPT ![t] = [op |-> "solve", host |-> host, sid |-> sid, forced |-> forced,
                                     budget |-> Budget(asked), html |-> html]]
       /\ \/ /\ forced \in Available
             /\ plan' = [plan EXCEPT ![t] = <<forced>>]
             /\ Goto(t, "try") /\ UNCHANGED reply
          \/ /\ forced \notin Available \cup {"auto"}
             /\ Answer(t, "error") /\ UNCHANGED plan
          \/ /\ forced = "auto"
             /\ Goto(t, IF sid = None THEN "recall" ELSE "probe") /\ UNCHANGED <<plan, reply>>
  /\ UNCHANGED <<pool, memory, seen, tried, spent, unread>>

\* sessions.create and sessions.destroy on an id.
BeginOnSession(t, op, step, choices) ==
  /\ pc[t] = "idle" /\ op \in Commands
  /\ \E sid \in Sid, forced \in choices :
       req' = [req EXCEPT ![t] = [op |-> op, host |-> None, sid |-> sid, forced |-> forced,
                                  budget |-> Budget(None), html |-> FALSE]]
  /\ Goto(t, step)
  /\ UNCHANGED <<pool, memory, seen, plan, tried, spent, reply, unread>>

BeginCreate(t) == BeginOnSession(t, "create", "probe", Forced)
BeginDestroy(t) == BeginOnSession(t, "destroy", "remove", {"auto"})

\* _pool_has, one pool after the other.  A create stops at the first that has the id.
Probe(t) ==
  LET has == req[t].sid \in pool[Looked(t)]
  IN  /\ pc[t] = "probe"
      /\ seen' = [seen EXCEPT ![t] = Append(@, has)]
      /\ \/ /\ req[t].op = "create" /\ has
            /\ Answer(t, "exists")
         \/ /\ req[t].op = "solve" \/ ~has
            /\ Goto(t, IF ~LastLook(t) THEN "probe"
                       ELSE IF req[t].op = "solve" THEN "recall" ELSE "launch")
            /\ UNCHANGED reply
      /\ UNCHANGED <<pool, memory, req, plan, tried, spent, unread>>

-----------------------------------------------------------------------------
(* The plan: _engine_plan *)

\* The host's entry in a memory, which holds one for it or none.
Knows(m, h) == \E i \in DOMAIN m : m[i].host = h
Place(m, h) == CHOOSE i \in DOMAIN m : m[i].host = h

\* _recalled_engine.
Recalled(h) == IF Knows(memory, h) THEN memory[Place(memory, h)].engine ELSE None

\* The pools that were seen to hold the request's session.
Holders(t) == {Order[i] : i \in {j \in DOMAIN seen[t] : seen[t][j]}}

\* The one pool that holds the session; of two the one remembered for the host; with
\* no session what is remembered, then the default.
Primary(t) ==
  LET held     == Holders(t)
      recalled == Recalled(req[t].host)
  IN  CASE held = {"chrome"}  -> "chrome"
        [] held = {"stealth"} -> "stealth"
        [] held = Engine      -> IF recalled \in held THEN recalled ELSE "chrome"
        [] held = {}          -> IF recalled \in Available THEN recalled
                                 ELSE IF DefaultEngine \in Available THEN DefaultEngine
                                 ELSE "chrome"

MakePlan(t) ==
  LET others == IF Fallback THEN Available \ {Primary(t)} ELSE {}
  IN  /\ pc[t] = "recall"
      /\ \/ \E e \in others : plan' = [plan EXCEPT ![t] = <<Primary(t), e>>]
         \/ others = {} /\ plan' = [plan EXCEPT ![t] = <<Primary(t)>>]
      /\ Goto(t, "try")
      /\ UNCHANGED <<pool, memory, req, seen, tried, spent, reply, unread>>

-----------------------------------------------------------------------------
(* The attempts: _resolve_challenge *)

\* An even part of what is left for each engine still to come.
ShareAllLeft(t) == Remaining(t)   \* (variant)
ShareOfWhole(t) == req[t].budget  \* (variant)
Share(t) == Remaining(t) \div (Len(plan[t]) - Len(tried[t]))

\* Too little is left for another engine to start.
BudgetSpent(t) == Len(tried[t]) > 0 /\ Remaining(t) < MinEngine

\* No engine is left to try: a page one of them did return goes back, whatever it
\* looks like, before the reason the last one failed.
FromLastEngine(gave, hasPage) == gave   \* (variant)
WhatIsLeft(gave, hasPage) == IF gave = "error" /\ hasPage THEN "challenge" ELSE gave

GiveUp(t) ==
  /\ pc[t] = "try" /\ BudgetSpent(t)
  /\ Answer(t, WhatIsLeft("error", HasPage(t)))
  /\ UNCHANGED <<pool, memory, req, seen, plan, tried, spent, unread>>

\* The engine gets its share; a named session is opened in its pool, if it is not there.
StartEngine(t) ==
  /\ pc[t] = "try" /\ ~BudgetSpent(t)
  /\ pool' = [pool EXCEPT ![Current(t)] = @ \cup ({req[t].sid} \ {None})]
  /\ Goto(t, "solve")
  /\ UNCHANGED <<memory, req, seen, plan, tried, spent, reply, unread>>

\* The attempt is over: it took some of its share, or a little more.
Attempted(t, gave) ==
  \E took \in 0 .. Share(t) + Overrun :
    /\ tried' = [tried EXCEPT ![t] = Append(@, [share |-> Share(t), took |-> took, gave |-> gave])]
    /\ spent' = [spent EXCEPT ![t] = @ + took]

\* The next engine's turn, or the answer if there is none.
MoveOn(t, gave) ==
  \/ ~IsLast(t) /\ Goto(t, "try") /\ UNCHANGED reply
  \/ IsLast(t) /\ Answer(t, WhatIsLeft(gave, HasPage(t)))

LaunchFails(t) ==
  /\ pc[t] = "try" /\ ~BudgetSpent(t)
  /\ Attempted(t, "error") /\ MoveOn(t, "error")
  /\ UNCHANGED <<pool, memory, req, seen, plan, unread>>

\* The solve raises; a Chrome solve that timed out takes its session out of the pool.
EngineFails(t) ==
  /\ pc[t] = "solve"
  /\ Attempted(t, "error") /\ MoveOn(t, "error")
  /\ \/ UNCHANGED pool
     \/ Current(t) = "chrome" /\ pool' = [pool EXCEPT !["chrome"] = @ \ {req[t].sid}]
  /\ UNCHANGED <<memory, req, seen, plan, unread>>

\* Whether the page passes for a challenge: it shows a title or a marker of one, which
\* takes its HTML.
LooksChallengedNever(t, marked) == FALSE   \* (variant)
LooksChallenged(t, marked) == req[t].html /\ marked

\* The engine reports success and hands back a page: past the challenge, if it can get
\* past it, or another, which shows what it is except on the hosts of Unmarked.
EngineReturns(t) ==
  LET h == req[t].host
      e == Current(t)
  IN  /\ pc[t] = "solve"
      /\ \E cleared, marked \in BOOLEAN :
           /\ cleared => e \in Clears[h]
           /\ cleared \/ marked \/ h \in Unmarked
           /\ \/ /\ LooksChallenged(t, marked)
                 /\ Attempted(t, "challenge") /\ MoveOn(t, "challenge")
              \/ /\ ~LooksChallenged(t, marked)
                 /\ Attempted(t, "page") /\ Goto(t, "remember") /\ UNCHANGED reply
           /\ unread' = IF cleared \/ req[t].html THEN unread ELSE [unread EXCEPT ![h] = @ \cup {e}]
      /\ UNCHANGED <<pool, memory, req, seen, plan>>

\* The memory once the host's entry is popped.
Without(m, h) == IF Knows(m, h) THEN RemoveAt(m, Place(m, h)) ELSE m

\* What stays of the memory when a host is added to it: the oldest gives way.
TrimmedNever(m) == m   \* (variant)
Trimmed(m) == IF Len(m) > MaxHosts THEN Tail(m) ELSE m

\* _remember_engine; the page is the answer.
Remember(t) ==
  LET h == req[t].host
      e == plan[t][Len(tried[t])]
  IN  /\ pc[t] = "remember"
      /\ memory' = Trimmed(Append(Without(memory, h), [host |-> h, engine |-> e]))
      /\ Answer(t, "page")
      /\ UNCHANGED <<pool, req, seen, plan, tried, spent, unread>>

-----------------------------------------------------------------------------
(* The rest of sessions.create and sessions.destroy, and the pools' own changes *)

\* 'auto' is not an engine: it takes the default, and anything but stealth is Chrome.
CreatesOn(t) ==
  IF req[t].forced \in Engine THEN req[t].forced
  ELSE IF DefaultEngine = "stealth" THEN "stealth" ELSE "chrome"

\* The browser is launched, and stored unless another thread has stored the id in
\* that pool meanwhile; or the engine is not there, or the launch fails.
Launch(t) ==
  /\ pc[t] = "launch"
  /\ \/ /\ CreatesOn(t) \in Available
        /\ pool' = [pool EXCEPT ![CreatesOn(t)] = @ \cup {req[t].sid}]
        /\ Answer(t, IF req[t].sid \in pool[CreatesOn(t)] THEN "exists" ELSE "created")
     \/ UNCHANGED pool /\ Answer(t, "error")
  /\ UNCHANGED <<memory, req, seen, plan, tried, spent, unread>>

\* Both pools are always tried.
DestroyIn(t) ==
  LET e == Looked(t)
      existed == Append(seen[t], req[t].sid \in pool[e])
  IN  /\ pc[t] = "remove"
      /\ pool' = [pool EXCEPT ![e] = @ \ {req[t].sid}]
      /\ seen' = [seen EXCEPT ![t] = existed]
      /\ IF LastLook(t) THEN Answer(t, IF Contains(existed, TRUE) THEN "destroyed" ELSE "error")
                        ELSE UNCHANGED <<pc, reply>>
      /\ UNCHANGED <<memory, req, plan, tried, spent, unread>>

\* The cleanup closes a session no request is on.
Reap(e, sid) ==
  /\ sid \in pool[e]
  /\ \A t \in Thread : pc[t] = "solve" /\ req[t].sid = sid => Current(t) # e
  /\ pool' = [pool EXCEPT ![e] = @ \ {sid}]
  /\ UNCHANGED <<memory, pc, req, seen, plan, tried, spent, reply, unread>>

\* The answer has been sent.
Depart(t) ==
  /\ pc[t] = "answered"
  /\ Goto(t, "idle")
  /\ req' = [req EXCEPT ![t] = None]
  /\ seen' = [seen EXCEPT ![t] = <<>>]
  /\ plan' = [plan EXCEPT ![t] = <<>>]
  /\ tried' = [tried EXCEPT ![t] = <<>>]
  /\ spent' = [spent EXCEPT ![t] = 0]
  /\ reply' = [reply EXCEPT ![t] = "none"]
  /\ UNCHANGED <<pool, memory, unread>>

-----------------------------------------------------------------------------
Arrive(t) == BeginSolve(t) \/ BeginCreate(t) \/ BeginDestroy(t)

Serve(t) ==
  \/ Probe(t) \/ MakePlan(t) \/ GiveUp(t) \/ StartEngine(t) \/ LaunchFails(t)
  \/ EngineFails(t) \/ EngineReturns(t) \/ Remember(t)
  \/ Launch(t) \/ DestroyIn(t) \/ Depart(t)

Next == \/ \E t \in Thread : Arrive(t) \/ Serve(t)
        \/ \E e \in Available, sid \in Sid : Reap(e, sid)

Spec == Init /\ [][Next]_vars

-----------------------------------------------------------------------------
(* Properties *)

Answered(t) == pc[t] = "answered" /\ req[t].op = "solve"

\* "falling back never makes your app wait longer than it asked for"
\* (how-it-works.md): a request on two engines is late by no more than the one
\* engine that is late itself, never by the sum of what they were given.
AnsweredInTime ==
  \A t \in Thread : Answered(t) => spent[t] <= req[t].budget + Overrun

\* A first engine that keeps to its share cannot starve the fallback: with a budget
\* both can start in, an unsolved request has been tried on every engine of its plan.
FallbackIsReached ==
  \A t \in Thread : Answered(t) /\ reply[t] # "page" =>
    \/ Len(tried[t]) = Len(plan[t])
    \/ \E i \in DOMAIN tried[t] : tried[t][i].took > tried[t][i].share
    \/ req[t].budget < 2 * MinEngine

\* A request is answered with an error only if no engine gave it a page, and a page that
\* shows no challenge is never passed over for one that does.
PageBeatsError ==
  \A t \in Thread : Answered(t) =>
    /\ reply[t] = "error" => ~HasPage(t)
    /\ \A i \in DOMAIN tried[t] : tried[t][i].gave = "page" => reply[t] = "page"

\* A page that still looks challenged "is not a clearance, so the memory must not learn
\* this engine" (flaresolverr_service.py): the memory sends a host to an engine that
\* cannot clear it only where the controller could not have told, the host's page
\* showing no known title or marker or the page not being asked for.  However requests
\* for the host overlap, whichever engine of a plan gave the page, and with no learning
\* from an error or from another host's page.
ClearsOrHidden(h, e) == e \in Clears[h] \/ h \in Unmarked \/ e \in unread[h]

RemembersOnlyClearers ==
  \A i \in DOMAIN memory : ClearsOrHidden(memory[i].host, memory[i].engine)

\* The memory stays within its bound, with one entry to a host, so that what a host was
\* last cleared by is all it can recall.
HostMemoryKept ==
  /\ Len(memory) <= MaxHosts
  /\ \A i, j \in DOMAIN memory : memory[i].host = memory[j].host => i = j
=============================================================================
