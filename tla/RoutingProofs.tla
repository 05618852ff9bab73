---------------------------- MODULE RoutingProofs ----------------------------
(***************************************************************************)
(* What holds of Routing for any requests, budgets and engines: a request  *)
(* is answered in its time, tried on the second engine if there is time    *)
(* for one, and given the best page any engine got.  No request's answer   *)
(* depends on another's, so the invariant has a part for each:             *)
(*   Typed    types, but for the pools and the host memory, which none of  *)
(*            this reads;                                                  *)
(*   Kept     what a request has spent, and been given, at each step;      *)
(*   Learned  what requests leave behind, in the pools and in the memory,  *)
(*            and what of a request reaches it.                            *)
(***************************************************************************)
EXTENDS Routing, SequenceTheorems, TLAPS

Types ==
  /\ pc \in [Thread -> Step]
  /\ req \in [Thread -> Request \cup {None}]
  /\ seen \in [Thread -> Seq(BOOLEAN)]
  /\ plan \in [Thread -> Seq(Engine)]
  /\ tried \in [Thread -> Seq(Attempt)]
  /\ spent \in [Thread -> Nat]
  /\ reply \in [Thread -> Reply]

Role(t) ==
  /\ pc[t] # "idle" => req[t] \in Request
  /\ Len(seen[t]) <= Len(Order)
  /\ pc[t] \in {"idle", "launch", "probe", "recall", "remove"} => tried[t] = <<>> /\ spent[t] = 0
  /\ pc[t] \in {"probe", "remove"} => Len(seen[t]) < Len(Order)
  /\ pc[t] = "idle" => seen[t] = <<>>
  /\ pc[t] \in {"idle", "probe", "recall"} => plan[t] = <<>>
  /\ pc[t] \in {"launch", "remove"} => req[t].op # "solve"
  /\ pc[t] \in {"recall", "try", "solve", "remember"} => req[t].op = "solve"

Typed == Types /\ \A t \in Thread : Role(t)

\* An engine that kept to its share leaves half the budget for the other.
OnTime(t) ==
  \A i \in DOMAIN tried[t] : tried[t][i].took > tried[t][i].share \/ 2 * spent[t] <= req[t].budget

Trying(t) ==
  /\ Len(tried[t]) < Len(plan[t]) /\ Len(plan[t]) <= 2
  /\ \A i \in DOMAIN tried[t] : tried[t][i].gave # "page"
  /\ tried[t] = <<>> => spent[t] = 0
  /\ Len(tried[t]) = 1 => OnTime(t)

Kept(t) ==
  /\ pc[t] \in {"try", "solve"} => Trying(t)
  /\ pc[t] = "solve" => ~BudgetSpent(t)
  /\ pc[t] = "try" \/ pc[t] = "remember" => spent[t] <= req[t].budget + Overrun
  /\ Answered(t) =>
       /\ spent[t] <= req[t].budget + Overrun
       /\ reply[t] = "error" => ~HasPage(t)
       /\ \A i \in DOMAIN tried[t] : tried[t][i].gave = "page" => reply[t] = "page"
       /\ reply[t] # "page" =>
            \/ Len(tried[t]) = Len(plan[t])
            \/ \E i \in DOMAIN tried[t] : tried[t][i].took > tried[t][i].share
            \/ req[t].budget < 2 * MinEngine

Inv == Typed /\ \A t \in Thread : Kept(t)

USE DEF Goto

-----------------------------------------------------------------------------
(* Typed *)

\* A budget is a positive number, whatever was asked for.
LEMMA BudgetIsPositive ==
  ASSUME NEW asked \in Asked \cup {None}
  PROVE  Budget(asked) \in Nat \ {0}
  BY ConstantsAssumption DEF Budget

\* The first engine of a plan is there.
LEMMA PrimaryIsThere ==
  ASSUME Typed, NEW t \in Thread
  PROVE  Primary(t) \in Available
<1>1. "chrome" \in Available /\ Available \subseteq Engine
  BY DEF Available, Order, ToSet, Engine
<1>2. Holders(t) \subseteq Available
  BY DEF Typed, Types, Role, Holders, Available, Order, ToSet
<1>3. Holders(t) \in {{}, {"chrome"}, {"stealth"}, Engine}
  BY <1>1, <1>2 DEF Engine
<1> QED BY <1>1, <1>2, <1>3 DEF Primary, Engine

\* Nobody has asked for anything yet.
LEMMA InitTyped == Init => Typed
  BY ConstantsAssumption DEF Init, Typed, Types, Role, Step, Reply, Order

\* Nobody writes to another request.
Alone(t) == \A u \in Thread \ {t} :
  /\ pc'[u] = pc[u] /\ req'[u] = req[u] /\ seen'[u] = seen[u] /\ plan'[u] = plan[u]
  /\ tried'[u] = tried[u] /\ spent'[u] = spent[u] /\ reply'[u] = reply[u]

\* A request's own step leaves the others where they are.
LEMMA StepAlone ==
  ASSUME Typed, NEW t \in Thread, Arrive(t) \/ Serve(t)
  PROVE  Alone(t)
<1>1. CASE Arrive(t)
  BY <1>1 DEF Arrive, BeginSolve, BeginCreate, BeginDestroy, BeginOnSession, Answer, Alone, Typed, Types
<1>2. CASE \/ Probe(t) \/ MakePlan(t) \/ GiveUp(t) \/ StartEngine(t)
           \/ Remember(t) \/ Launch(t) \/ DestroyIn(t) \/ Depart(t)
  BY <1>2 DEF Probe, MakePlan, GiveUp, StartEngine, Remember, Launch, DestroyIn, Depart, Answer,
    Alone, Typed, Types
<1>3. CASE LaunchFails(t) \/ EngineFails(t) \/ EngineReturns(t)
  BY <1>3 DEF LaunchFails, EngineFails, EngineReturns, Attempted, MoveOn,
    Answer, Alone, Typed, Types
<1> QED BY <1>1, <1>2, <1>3 DEF Serve

\* What a request asks for becomes a request.
LEMMA ArriveTyped ==
  ASSUME Typed, NEW t \in Thread, Arrive(t)
  PROVE  Types' /\ Role(t)'
<1>1. Types /\ Role(t) /\ Order # <<>> /\ Len(Order) >= 1
  BY DEF Typed, Order
<1>2. CASE BeginSolve(t)
  <2>1. PICK host \in Host, sid \in Sid \cup {None}, forced \in Forced, asked \in Asked, html \in Html :
           /\ req' = [req EXCEPT ![t] = [op |-> "solve", host |-> host, sid |-> sid, forced |-> forced,
                                     budget |-> Budget(asked), html |-> html]]
           /\ \/ /\ forced \in Available
                 /\ plan' = [plan EXCEPT ![t] = <<forced>>]
                 /\ Goto(t, "try") /\ UNCHANGED reply
              \/ /\ forced \notin Available \cup {"auto"}
                 /\ Answer(t, "error") /\ UNCHANGED plan
              \/ /\ forced = "auto"
                 /\ Goto(t, IF sid = None THEN "recall" ELSE "probe") /\ UNCHANGED <<plan, reply>>
    BY <1>2 DEF BeginSolve
  <2>2. [op |-> "solve", host |-> host, sid |-> sid, forced |-> forced,
         budget |-> Budget(asked), html |-> html] \in Request
    BY BudgetIsPositive, ConstantsAssumption DEF Request
  <2>3. Available \subseteq Engine
    BY DEF Available, Order, ToSet, Engine
  <2>4. req' \in [Thread -> Request \cup {None}] /\ req'[t] \in Request /\ req'[t].op = "solve"
    BY <1>1, <2>1, <2>2 DEF Types
  <2>5. pc[t] = "idle" /\ UNCHANGED <<seen, tried, spent>>
    BY <1>2 DEF BeginSolve
  <2>6. /\ pc' \in [Thread -> Step] /\ pc'[t] \in {"try", "answered", "recall", "probe"}
        /\ pc'[t] \in {"recall", "probe"} => UNCHANGED plan
    BY <1>1, <2>1 DEF Types, Answer, Step
  <2>7. plan' \in [Thread -> Seq(Engine)]
    <3>1. forced \in Available => <<forced>> \in Seq(Engine)
      BY <2>3
    <3> QED BY <1>1, <2>1, <3>1 DEF Types
  <2>8. reply' \in [Thread -> Reply]
    BY <1>1, <2>1 DEF Types, Answer, Reply
  <2> QED BY <1>1, <2>4, <2>5, <2>6, <2>7, <2>8 DEF Types, Role
<1>3. ASSUME NEW op \in {"create", "destroy"}, NEW step \in {"probe", "remove"},
             NEW choices \in SUBSET (Engine \cup {"auto"}),
             BeginOnSession(t, op, step, choices), step = "remove" => op # "solve"
      PROVE  Types' /\ Role(t)'
  <2>1. PICK sid \in Sid, forced \in choices :
       req' = [req EXCEPT ![t] = [op |-> op, host |-> None, sid |-> sid, forced |-> forced,
                                  budget |-> Budget(None), html |-> FALSE]]
    BY <1>3 DEF BeginOnSession
  <2>2. [op |-> op, host |-> None, sid |-> sid, forced |-> forced,
         budget |-> Budget(None), html |-> FALSE] \in Request
    BY BudgetIsPositive DEF Request
  <2>3. req' \in [Thread -> Request \cup {None}] /\ req'[t] \in Request /\ req'[t].op = op
    BY <1>1, <2>1, <2>2 DEF Types
  <2>4. /\ pc[t] = "idle" /\ pc' \in [Thread -> Step] /\ pc'[t] = step
        /\ UNCHANGED <<seen, plan, tried, spent, reply>>
    BY <1>1, <1>3 DEF BeginOnSession, Types, Step
  <2> QED BY <1>1, <1>3, <2>3, <2>4 DEF Types, Role
<1> QED BY <1>2, <1>3, ConstantsAssumption DEF Arrive, BeginCreate, BeginDestroy

\* An attempt takes a time and is recorded.
LEMMA AttemptedTyped ==
  ASSUME Typed, NEW t \in Thread, NEW gave \in {"page", "challenge", "error"}, Attempted(t, gave),
         pc[t] \in {"try", "solve"}, Kept(t)
  PROVE  tried' \in [Thread -> Seq(Attempt)] /\ spent' \in [Thread -> Nat]
<1>1. Share(t) \in Int
  BY DEF Typed, Types, Role, Kept, Trying, Share, Remaining, Request
<1>2. PICK took \in 0 .. Share(t) + Overrun :
        /\ tried' = [tried EXCEPT ![t] = Append(@, [share |-> Share(t), took |-> took, gave |-> gave])]
        /\ spent' = [spent EXCEPT ![t] = @ + took]
  BY DEF Attempted
<1>3. took \in Nat /\ [share |-> Share(t), took |-> took, gave |-> gave] \in Attempt
  BY <1>1, ConstantsAssumption DEF Attempt
<1> QED BY <1>2, <1>3 DEF Typed, Types

\* A page that is handed back is one attempt, which ends the request unless it looks
\* challenged.
LEMMA ReturnAttempts ==
  ASSUME NEW t \in Thread, EngineReturns(t)
  PROVE  /\ pc[t] = "solve" /\ UNCHANGED <<pool, memory, req, seen, plan>>
         /\ \/ Attempted(t, "challenge") /\ MoveOn(t, "challenge")
            \/ Attempted(t, "page") /\ Goto(t, "remember") /\ UNCHANGED reply
  BY DEF EngineReturns

\* Every step a request is served in keeps its types.
LEMMA ServeTyped ==
  ASSUME Inv, NEW t \in Thread, Serve(t)
  PROVE  Types' /\ Role(t)'
<1>1. Types /\ Role(t) /\ Kept(t) /\ Typed
  BY DEF Inv, Typed
<1>2. CASE Probe(t)
  <2> DEFINE has == req[t].sid \in pool[Looked(t)]
  <2>1. seen' = [seen EXCEPT ![t] = Append(@, has)] /\ has \in BOOLEAN
    BY <1>2 DEF Probe
  <2> HIDE DEF has
  <2>2. seen' \in [Thread -> Seq(BOOLEAN)] /\ Len(seen'[t]) = Len(seen[t]) + 1
    BY <1>1, <2>1 DEF Types
  <2>3. pc' \in [Thread -> Step] /\ reply' \in [Thread -> Reply]
    BY <1>1, <1>2 DEF Probe, Types, Answer, Step, Reply
  <2>4. Len(seen[t]) \in Nat /\ Len(seen[t]) < Len(Order) /\ Len(Order) \in Nat
    BY <1>1, <1>2 DEF Probe, Types, Role, Order
  <2>5. /\ pc'[t] \in {"answered", "probe", "recall", "launch"}
        /\ pc'[t] = "probe" => ~LastLook(t)
        /\ pc'[t] = "recall" => req[t].op = "solve"
        /\ pc'[t] = "launch" => req[t].op # "solve"
    BY <1>1, <1>2 DEF Probe, Types, Answer
  <2> QED BY <1>1, <1>2, <2>2, <2>3, <2>4, <2>5 DEF Probe, Types, Role, LastLook
<1>3. CASE MakePlan(t)
  <2>1. Primary(t) \in Engine /\ Available \subseteq Engine
    BY <1>1, PrimaryIsThere DEF Available, Order, ToSet, Engine
  <2>2. plan' \in [Thread -> Seq(Engine)]
    <3>1. \A e \in Engine : <<Primary(t), e>> \in Seq(Engine) /\ <<Primary(t)>> \in Seq(Engine)
      BY <2>1
    <3>2. \E p \in Seq(Engine) : plan' = [plan EXCEPT ![t] = p]
      BY <1>3, <2>1, <3>1 DEF MakePlan
    <3> QED BY <1>1, <3>2 DEF Types
  <2> QED BY <1>1, <1>3, <2>2 DEF MakePlan, Types, Role, Step
<1>4. CASE GiveUp(t)
  BY <1>1, <1>4 DEF GiveUp, Types, Role, Answer, WhatIsLeft, Step, Reply
<1>5. CASE StartEngine(t)
  BY <1>1, <1>5 DEF StartEngine, Types, Role, Step
<1>6. ASSUME NEW gave \in {"page", "challenge", "error"}, Attempted(t, gave),
             pc[t] \in {"try", "solve"}, UNCHANGED <<req, seen, plan>>,
             \/ MoveOn(t, gave)
             \/ Goto(t, "remember") /\ UNCHANGED reply
      PROVE  Types' /\ Role(t)'
  <2>1. tried' \in [Thread -> Seq(Attempt)] /\ spent' \in [Thread -> Nat]
    BY <1>1, <1>6, AttemptedTyped
  <2>2. /\ pc' \in [Thread -> Step] /\ reply' \in [Thread -> Reply]
        /\ pc'[t] \in {"try", "answered", "remember"}
    BY <1>1, <1>6 DEF MoveOn, Answer, WhatIsLeft, Types, Step, Reply
  <2> QED BY <1>1, <1>6, <2>1, <2>2 DEF Types, Role
<1>7. CASE LaunchFails(t) \/ EngineFails(t) \/ EngineReturns(t)
  <2>1. CASE LaunchFails(t) \/ EngineFails(t)
    BY <1>6, <2>1 DEF LaunchFails, EngineFails
  <2>2. CASE EngineReturns(t)
    BY <1>6, <2>2, ReturnAttempts
  <2> QED BY <1>7, <2>1, <2>2
<1>8. CASE Remember(t)
  BY <1>1, <1>8 DEF Remember, Types, Role, Answer, Step, Reply
<1>9. CASE Launch(t)
  BY <1>1, <1>9 DEF Launch, Types, Role, Answer, Step, Reply
<1>10. CASE DestroyIn(t)
  <2> DEFINE has == req[t].sid \in pool[Looked(t)]
  <2>1. seen' = [seen EXCEPT ![t] = Append(seen[t], has)] /\ has \in BOOLEAN
    BY <1>10 DEF DestroyIn
  <2> HIDE DEF has
  <2>2. seen' \in [Thread -> Seq(BOOLEAN)] /\ Len(seen'[t]) = Len(seen[t]) + 1
    BY <1>1, <2>1 DEF Types
  <2>3. pc' \in [Thread -> Step] /\ reply' \in [Thread -> Reply]
    BY <1>1, <1>10 DEF DestroyIn, Types, Answer, Step, Reply
  <2>4. Len(seen[t]) \in Nat /\ Len(seen[t]) < Len(Order) /\ Len(Order) \in Nat
    BY <1>1, <1>10 DEF DestroyIn, Types, Role, Order
  <2>5. pc'[t] \in {"answered", "remove"} /\ (pc'[t] = "remove" => ~LastLook(t))
    BY <1>1, <1>10 DEF DestroyIn, Types, Answer
  <2>6. Types'
    BY <1>1, <1>10, <2>2, <2>3 DEF DestroyIn, Types
  <2>7. pc[t] = "remove" /\ UNCHANGED <<req, plan, tried, spent>>
    BY <1>10 DEF DestroyIn
  <2>8. Len(seen'[t]) <= Len(Order) /\ (pc'[t] = "remove" => Len(seen'[t]) < Len(Order))
    BY <2>2, <2>4, <2>5 DEF LastLook
  <2> QED BY <1>1, <2>5, <2>6, <2>7, <2>8 DEF Role
<1>11. CASE Depart(t)
  BY <1>1, <1>11 DEF Depart, Types, Role, Step, Reply, Order
<1> QED BY <1>2, <1>3, <1>4, <1>5, <1>7, <1>8, <1>9, <1>10, <1>11 DEF Serve

-----------------------------------------------------------------------------
(* Kept *)

\* m attempts of a plan of n engines, at most two.
LEMMA Lengths ==
  \A m, n \in Nat :
    /\ n - m = 1 => n # 2 \/ m # 0
    /\ 0 < m /\ m < n /\ n <= 2 => m = 1
    /\ m < n /\ n <= 2 => m + 1 = n \/ (m = 0 /\ n = 2)
    /\ m = 0 /\ n \in {1, 2} => m < n /\ n <= 2
  OBVIOUS

\* An engine's share is within what is left, and half of it where another may follow.
LEMMA ShareFits ==
  ASSUME Typed, NEW t \in Thread, pc[t] \in {"try", "solve"}, Kept(t), ~BudgetSpent(t)
  PROVE  /\ Share(t) \in 0 .. Remaining(t) /\ req[t].budget \in Nat \ {0} /\ spent[t] \in Nat
         /\ Len(plan[t]) = 2 /\ tried[t] = <<>> => 2 * Share(t) <= req[t].budget /\ spent[t] = 0
<1>1. /\ req[t].budget \in Nat \ {0} /\ spent[t] \in Nat
      /\ Len(tried[t]) \in Nat /\ Len(plan[t]) \in Nat
      /\ Len(tried[t]) < Len(plan[t]) /\ Len(plan[t]) <= 2
      /\ tried[t] = <<>> <=> Len(tried[t]) = 0
      /\ tried[t] = <<>> => spent[t] = 0
  BY DEF Typed, Types, Role, Kept, Trying, Request
<1>2. Remaining(t) \in Nat
  BY <1>1, ConstantsAssumption DEF BudgetSpent, Remaining
<1>3. Len(plan[t]) - Len(tried[t]) \in {1, 2}
  BY <1>1
<1>4. \A n \in Nat : n \div 1 = n /\ n \div 2 \in 0 .. n /\ 2 * (n \div 2) <= n
  OBVIOUS
<1>5. CASE Len(plan[t]) - Len(tried[t]) = 1
  <2>1. Share(t) = Remaining(t)
    BY <1>2, <1>4, <1>5 DEF Share
  <2>2. Share(t) \in 0 .. Remaining(t)
    BY <1>2, <2>1
  <2>3. Len(plan[t]) # 2 \/ Len(tried[t]) # 0
    BY <1>1, <1>5, Lengths
  <2> QED BY <1>1, <2>2, <2>3
<1>6. CASE Len(plan[t]) - Len(tried[t]) = 2
  <2>1. Share(t) \in 0 .. Remaining(t) /\ 2 * Share(t) <= Remaining(t)
    BY <1>2, <1>4, <1>6 DEF Share
  <2> QED BY <1>1, <1>2, <2>1 DEF Remaining
<1> QED BY <1>3, <1>5, <1>6

\* What an attempt leaves: within the time, and no page unless it gave one.
LEMMA AfterAttempt ==
  ASSUME Inv, NEW t \in Thread, NEW gave \in {"page", "challenge", "error"},
         pc[t] \in {"try", "solve"}, ~BudgetSpent(t), Attempted(t, gave),
         UNCHANGED <<req, plan>>
  PROVE  /\ spent'[t] <= req[t].budget + Overrun
         /\ Len(tried'[t]) = Len(tried[t]) + 1 /\ tried'[t] # <<>>
         /\ \A i \in DOMAIN tried'[t] : tried'[t][i].gave = "page" => gave = "page"
         /\ (\E i \in DOMAIN tried'[t] : tried'[t][i].gave # "error")
              <=> HasPage(t) \/ gave # "error"
         /\ Len(tried'[t]) = 1 /\ Len(plan[t]) = 2 => OnTime(t)'
<1>1. Typed /\ Types /\ Role(t) /\ Kept(t) /\ Trying(t)
  BY DEF Inv, Typed, Kept
<1>2. /\ Share(t) \in 0 .. Remaining(t) /\ req[t].budget \in Nat \ {0} /\ spent[t] \in Nat
      /\ Len(plan[t]) = 2 /\ tried[t] = <<>> => 2 * Share(t) <= req[t].budget /\ spent[t] = 0
  BY <1>1, ShareFits
<1>3. PICK took \in 0 .. Share(t) + Overrun :
        /\ tried' = [tried EXCEPT ![t] = Append(@, [share |-> Share(t), took |-> took, gave |-> gave])]
        /\ spent' = [spent EXCEPT ![t] = @ + took]
  BY DEF Attempted
<1> DEFINE a == [share |-> Share(t), took |-> took, gave |-> gave]
<1>4. a.share = Share(t) /\ a.took = took /\ a.gave = gave
  OBVIOUS
<1>5. tried'[t] = Append(tried[t], a) /\ spent'[t] = spent[t] + took
  BY <1>1, <1>3 DEF Types
<1> HIDE DEF a
<1>6. /\ tried[t] \in Seq(Attempt) /\ Len(tried[t]) \in Nat
      /\ Len(tried'[t]) = Len(tried[t]) + 1 /\ DOMAIN tried'[t] = 1 .. Len(tried[t]) + 1
      /\ \A i \in 1 .. Len(tried[t]) : tried'[t][i] = tried[t][i]
      /\ tried'[t][Len(tried[t]) + 1] = a /\ DOMAIN tried[t] = 1 .. Len(tried[t])
  BY <1>1, <1>5 DEF Types
<1>7. spent'[t] <= req[t].budget + Overrun
  BY <1>2, <1>3, <1>5, ConstantsAssumption DEF Remaining
<1>8. Len(tried'[t]) = 1 /\ Len(plan[t]) = 2 => OnTime(t)'
  <2> SUFFICES ASSUME Len(tried'[t]) = 1, Len(plan[t]) = 2, NEW i \in DOMAIN tried'[t],
                      ~(tried'[t][i].took > tried'[t][i].share)
               PROVE  2 * spent'[t] <= req'[t].budget
    BY DEF OnTime
  <2>1. Len(tried[t]) = 0 /\ tried[t] = <<>> /\ i = 1
    BY <1>6
  <2>2. took <= Share(t)
    BY <1>2, <1>3, <1>4, <1>6, <2>1, ConstantsAssumption
  <2>3. spent'[t] = took /\ 2 * Share(t) <= req[t].budget /\ Share(t) \in Nat /\ took \in Nat
    BY <1>2, <1>3, <1>5, <2>1, ConstantsAssumption
  <2> QED BY <1>2, <2>2, <2>3
<1>9. \A i \in DOMAIN tried'[t] : tried'[t][i].gave = "page" => gave = "page"
  BY <1>1, <1>4, <1>6 DEF Trying
<1>10. (\E i \in DOMAIN tried'[t] : tried'[t][i].gave # "error") <=> HasPage(t) \/ gave # "error"
  BY <1>4, <1>6 DEF HasPage
<1> QED BY <1>6, <1>7, <1>8, <1>9, <1>10

\* A request that is given up early was late already, or could not have had a second engine.
LEMMA GiveUpKept ==
  ASSUME Inv, NEW t \in Thread, GiveUp(t)
  PROVE  Kept(t)'
<1>1. Types /\ Role(t) /\ Kept(t) /\ Trying(t)
  BY DEF Inv, Typed, Kept, GiveUp
<1>2. /\ pc'[t] = "answered" /\ reply'[t] = WhatIsLeft("error", HasPage(t))
      /\ UNCHANGED <<req, plan, tried, spent>>
  BY <1>1 DEF GiveUp, Answer, Types
<1>0. Len(tried[t]) \in Nat /\ Len(plan[t]) \in Nat
  BY <1>1 DEF Types
<1>3. Len(tried[t]) = 1 /\ Remaining(t) < MinEngine
  <2>1. 0 < Len(tried[t]) /\ Remaining(t) < MinEngine
    BY <1>0 DEF GiveUp, BudgetSpent
  <2>2. Len(tried[t]) < Len(plan[t]) /\ Len(plan[t]) <= 2
    BY <1>1 DEF Trying
  <2> QED BY <1>0, <2>1, <2>2, Lengths
<1>4. /\ req[t].budget \in Nat /\ spent[t] \in Nat /\ 1 \in DOMAIN tried[t]
  BY <1>1, <1>3 DEF GiveUp, Role, Types, Request
<1>5. \/ \E i \in DOMAIN tried[t] : tried[t][i].took > tried[t][i].share
      \/ req[t].budget < 2 * MinEngine
  BY <1>1, <1>3, <1>4, ConstantsAssumption DEF Trying, OnTime, Remaining
<1> QED BY <1>1, <1>2, <1>5 DEF Kept, GiveUp, Answered, HasPage, WhatIsLeft, Trying

\* An attempt is followed by the next engine or by the answer.
LEMMA AttemptKept ==
  ASSUME Inv, NEW t \in Thread, NEW gave \in {"page", "challenge", "error"},
         pc[t] \in {"try", "solve"}, ~BudgetSpent(t), Attempted(t, gave),
         UNCHANGED <<req, plan>>,
         \/ gave # "page" /\ MoveOn(t, gave)
         \/ Goto(t, "remember") /\ UNCHANGED reply
  PROVE  Kept(t)'
<1>1. Types /\ Role(t) /\ Kept(t) /\ Trying(t)
  BY DEF Inv, Typed, Kept
<1>2. /\ spent'[t] <= req[t].budget + Overrun
      /\ Len(tried'[t]) = Len(tried[t]) + 1 /\ tried'[t] # <<>>
      /\ \A i \in DOMAIN tried'[t] : tried'[t][i].gave = "page" => gave = "page"
      /\ HasPage(t)' <=> HasPage(t) \/ gave # "error"
      /\ Len(tried'[t]) = 1 /\ Len(plan[t]) = 2 => OnTime(t)'
  BY AfterAttempt DEF HasPage
<1>3. Len(tried[t]) \in Nat /\ Len(plan[t]) \in Nat
  BY <1>1 DEF Types
<1>4. CASE Goto(t, "remember") /\ UNCHANGED reply
  <2>1. pc'[t] = "remember"
    BY <1>1, <1>4 DEF Types
  <2> QED BY <1>2, <2>1 DEF Kept, Answered
<1>5. CASE gave # "page" /\ ~IsLast(t) /\ Goto(t, "try") /\ UNCHANGED reply
  <2>1. pc'[t] = "try"
    BY <1>1, <1>5 DEF Types
  <2>2. Trying(t)'
    <3>1. /\ Len(tried'[t]) < Len(plan[t]) /\ Len(plan[t]) <= 2
          /\ Len(tried'[t]) = 1 => Len(plan[t]) = 2
      <4>1. Len(tried[t]) < Len(plan[t]) /\ Len(plan[t]) <= 2 /\ Len(tried[t]) + 1 # Len(plan[t])
        BY <1>1, <1>5 DEF Trying, IsLast
      <4>2. Len(tried[t]) = 0 /\ Len(plan[t]) = 2
        BY <1>3, <4>1, Lengths
      <4> QED BY <1>2, <4>2
    <3> QED BY <1>2, <1>5, <3>1 DEF Trying
  <2> QED BY <1>2, <2>1, <2>2 DEF Kept, Answered
<1>6. CASE gave # "page" /\ IsLast(t) /\ Answer(t, WhatIsLeft(gave, HasPage(t)))
  <2>1. pc'[t] = "answered" /\ reply'[t] = WhatIsLeft(gave, HasPage(t))
    BY <1>1, <1>6 DEF Types, Answer
  <2>2. Len(tried'[t]) = Len(plan'[t])
    BY <1>2, <1>6 DEF IsLast
  <2>3. reply'[t] = "error" => ~HasPage(t)'
    BY <1>2, <2>1 DEF WhatIsLeft
  <2> QED BY <1>2, <1>6, <2>1, <2>2, <2>3 DEF Kept, Answered
<1> QED BY <1>4, <1>5, <1>6 DEF MoveOn

\* An arriving request has spent nothing; what is answered at once was never planned.
LEMMA ArriveKept ==
  ASSUME Inv, NEW t \in Thread, Arrive(t)
  PROVE  Kept(t)'
<1>1. Types /\ Role(t)
  BY DEF Inv, Typed
<1>2. /\ pc[t] = "idle" /\ UNCHANGED <<tried, spent>>
      /\ tried[t] = <<>> /\ spent[t] = 0 /\ plan[t] = <<>>
      /\ Len(tried[t]) = 0 /\ DOMAIN tried[t] = {}
  BY <1>1 DEF Arrive, BeginSolve, BeginCreate, BeginDestroy, BeginOnSession, Role
<1>3. /\ pc'[t] \in {"answered", "try", "recall", "probe", "remove"}
      /\ pc'[t] = "try" => \E e \in Available : plan'[t] = <<e>>
      /\ pc'[t] = "answered" => reply'[t] = "error" /\ plan'[t] = <<>>
  <2>1. CASE BeginSolve(t)
    BY <1>1, <1>2, <2>1 DEF BeginSolve, Answer, Types
  <2>2. CASE BeginCreate(t) \/ BeginDestroy(t)
    BY <1>1, <2>2 DEF BeginCreate, BeginDestroy, BeginOnSession, Types
  <2> QED BY <2>1, <2>2 DEF Arrive
<1>4. \A e : Len(<<e>>) = 1
  OBVIOUS
<1>5. pc'[t] = "try" => Trying(t)' /\ req'[t].budget \in Nat
  <2>1. req'[t] \in Request \/ pc'[t] = "idle"
    BY ArriveTyped DEF Inv, Role
  <2>2. pc'[t] = "try" => Len(plan'[t]) = 1
    BY <1>3, <1>4
  <2>3. pc'[t] = "try" => Trying(t)'
    <3>1. Len(tried'[t]) = 0 /\ DOMAIN tried'[t] = {} /\ spent'[t] = 0
      BY <1>2
    <3>2. pc'[t] = "try" => (Len(tried[t]) < Len(plan[t]) /\ Len(plan[t]) <= 2)'
      BY <2>2, <3>1, Lengths
    <3>3. (\A i \in DOMAIN tried[t] : tried[t][i].gave # "page")'
      BY <3>1
    <3> QED BY <3>1, <3>2, <3>3 DEF Trying
  <2> QED BY <2>1, <2>3 DEF Request
<1>6. pc'[t] = "answered" => req'[t].budget \in Nat
  BY ArriveTyped DEF Inv, Role, Request
<1> QED BY <1>2, <1>3, <1>5, <1>6, ConstantsAssumption DEF Kept, Answered, HasPage

\* The plan a request starts from has one engine or two.
LEMMA MakePlanKept ==
  ASSUME Inv, NEW t \in Thread, MakePlan(t)
  PROVE  Kept(t)'
<1>1. Types /\ Role(t)
  BY DEF Inv, Typed
<1>2. /\ pc'[t] = "try" /\ UNCHANGED <<req, tried, spent>>
      /\ tried[t] = <<>> /\ spent[t] = 0 /\ req[t].budget \in Nat
      /\ Len(tried[t]) = 0 /\ DOMAIN tried[t] = {}
  BY <1>1 DEF MakePlan, Types, Role, Request
<1>3. \E e, f : plan'[t] = <<e>> \/ plan'[t] = <<e, f>>
  BY <1>1 DEF MakePlan, Types
<1>4. \A e, f : Len(<<e>>) = 1 /\ Len(<<e, f>>) = 2
  OBVIOUS
<1>5. Len(plan'[t]) \in {1, 2}
  BY <1>3, <1>4
<1>6. Trying(t)'
  <2>1. Len(tried'[t]) = 0 /\ DOMAIN tried'[t] = {} /\ spent'[t] = 0
    BY <1>2
  <2>2. (Len(tried[t]) < Len(plan[t]) /\ Len(plan[t]) <= 2)'
    BY <1>5, <2>1, Lengths
  <2>3. (\A i \in DOMAIN tried[t] : tried[t][i].gave # "page")'
    BY <2>1
  <2> QED BY <2>1, <2>2, <2>3 DEF Trying
<1> QED BY <1>2, <1>6, ConstantsAssumption DEF Kept, Answered

-----------------------------------------------------------------------------
\* Of the requests only the one that moves is disturbed.
LEMMA InvHolds == Spec => []Inv
<1>1. Init => Inv
  BY InitTyped DEF Init, Inv, Kept, Answered
<1>2. ASSUME Inv, [Next]_vars
      PROVE  Inv'
  <2>1. CASE UNCHANGED vars
    BY <1>2, <2>1 DEF vars, Inv, Typed, Types, Role, Kept, Trying, OnTime, BudgetSpent, Remaining,
      Answered, HasPage
  <2>2. CASE \E e \in Available, sid \in Sid : Reap(e, sid)
    BY <1>2, <2>2 DEF Reap, Inv, Typed, Types, Role, Kept, Trying, OnTime, BudgetSpent, Remaining,
      Answered, HasPage
  <2>3. ASSUME NEW t \in Thread, Arrive(t) \/ Serve(t)
        PROVE  Inv'
    <3>1. Inv /\ Typed /\ Role(t) /\ Kept(t) /\ Types
      BY <1>2 DEF Inv, Typed
    <3>2. Alone(t)
      BY <2>3, <3>1, StepAlone
    <3>3. Types' /\ Role(t)'
      BY <2>3, <3>1, ArriveTyped, ServeTyped
    <3>4. ASSUME NEW u \in Thread \ {t}
          PROVE  Role(u)' /\ Kept(u)'
      <4>1. Role(u) /\ Kept(u)
        BY <3>1 DEF Inv, Typed
      <4> QED BY <3>2, <4>1 DEF Alone, Role, Kept, Trying, OnTime, BudgetSpent, Remaining,
            Answered, HasPage
    <3>5. Kept(t)'
      <4>1. CASE Arrive(t)
        BY <3>1, <4>1, ArriveKept
      <4>2. CASE GiveUp(t)
        BY <3>1, <4>2, GiveUpKept
      <4>3. CASE LaunchFails(t)
        BY <3>1, <4>3, AttemptKept DEF LaunchFails
      <4>4. CASE EngineFails(t) \/ EngineReturns(t)
        <5>1. ~BudgetSpent(t)
          BY <3>1, <4>4 DEF EngineFails, EngineReturns, Kept
        <5>2. CASE EngineFails(t)
          BY <3>1, <5>1, <5>2, AttemptKept DEF EngineFails
        <5>3. CASE EngineReturns(t)
          BY <3>1, <5>1, <5>3, AttemptKept, ReturnAttempts
        <5> QED BY <4>4, <5>2, <5>3
      <4>5. CASE StartEngine(t)
        <5>1. /\ pc[t] = "try" /\ pc'[t] = "solve" /\ ~BudgetSpent(t)
              /\ UNCHANGED <<req, plan, tried, spent>>
          BY <3>1, <4>5 DEF StartEngine, Types
        <5> QED BY <3>1, <5>1 DEF Kept, Trying, OnTime, BudgetSpent, Remaining, Answered
      <4>6. CASE MakePlan(t)
        BY <3>1, <4>6, MakePlanKept
      <4>7. CASE Remember(t)
        <5>1. /\ pc[t] = "remember" /\ pc'[t] = "answered" /\ reply'[t] = "page"
              /\ UNCHANGED <<req, plan, tried, spent>>
          BY <3>1, <4>7 DEF Remember, Answer, Types
        <5> QED BY <3>1, <5>1 DEF Kept, Answered
      <4>8. CASE Probe(t)
        <5>1. /\ pc'[t] \in {"answered", "probe", "recall", "launch"}
              /\ pc'[t] = "answered" => req'[t].op # "solve"
          BY <3>1, <4>8 DEF Probe, Answer, Types
        <5> QED BY <5>1 DEF Kept, Answered
      <4>9. CASE Launch(t) \/ DestroyIn(t)
        <5>1. pc'[t] \in {"answered", "remove"} /\ req'[t].op # "solve"
          BY <3>1, <4>9 DEF Launch, DestroyIn, Answer, Types, Role
        <5> QED BY <5>1 DEF Kept, Answered
      <4>10. CASE Depart(t)
        <5>1. pc'[t] = "idle"
          BY <3>1, <4>10 DEF Depart, Types
        <5> QED BY <5>1 DEF Kept, Answered
      <4> QED BY <2>3, <4>1, <4>2, <4>3, <4>4, <4>5, <4>6, <4>7, <4>8, <4>9, <4>10 DEF Serve
    <3> QED BY <3>3, <3>4, <3>5 DEF Inv, Typed
  <2> QED BY <1>2, <2>1, <2>2, <2>3 DEF Next
<1> QED BY <1>1, <1>2, PTL DEF Spec

\* A request is late by no more than one engine is, however many it was tried on.
THEOREM AnswersInTime == Spec => []AnsweredInTime
<1>1. Inv => AnsweredInTime
  BY DEF Inv, Kept, AnsweredInTime
<1> QED BY <1>1, InvHolds, PTL

\* The first engine cannot starve the fallback of a budget both can start in.
THEOREM FallbackReached == Spec => []FallbackIsReached
<1>1. Inv => FallbackIsReached
  BY DEF Inv, Kept, FallbackIsReached
<1> QED BY <1>1, InvHolds, PTL

\* The best answer any engine gave is the request's.
THEOREM BestPageIsGiven == Spec => []PageBeatsError
<1>1. Inv => PageBeatsError
  BY DEF Inv, Kept, PageBeatsError
<1> QED BY <1>1, InvHolds, PTL

-----------------------------------------------------------------------------
(* Learned *)

\* What a request carries to the places that use it.
Asking(t) ==
  /\ req[t] # None /\ Ceiling > 0 => req[t].budget <= Ceiling
  /\ pc[t] # "idle" => \/ req[t].op = "solve" /\ req[t].host \in Host /\ req[t].html \in Html
                       \/ req[t].op # "solve" /\ req[t].sid \in Sid
  /\ plan[t] \in Seq(Available)
  /\ pc[t] = "remember" =>
       /\ Len(tried[t]) \in 1 .. Len(plan[t])
       /\ ClearsOrHidden(req[t].host, plan[t][Len(tried[t])])

\* What requests leave behind for each other.
Left ==
  /\ pool \in [Available -> SUBSET Sid]
  /\ memory \in Seq(Learnt)
  /\ HostMemoryKept
  /\ RemembersOnlyClearers
  /\ unread \in [Host -> SUBSET Engine]

Learned == Inv /\ Left /\ \A t \in Thread : Asking(t)

\* What was not read of a host stays not read.
LEMMA HiddenStays ==
  ASSUME Learned, NEW t \in Thread, Arrive(t) \/ Serve(t)
  PROVE  /\ unread' \in [Host -> SUBSET Engine]
         /\ \A h \in Host : unread[h] \subseteq unread'[h]
<1>1. CASE EngineReturns(t)
  <2>1. Types /\ Trying(t) /\ unread \in [Host -> SUBSET Engine] /\ req[t].host \in Host
    BY <1>1 DEF EngineReturns, Learned, Left, Inv, Typed, Kept, Role, Asking
  <2>2. Current(t) \in Engine
    BY <2>1 DEF Current, Types, Trying
  <2>3. UNCHANGED unread \/ unread' = [unread EXCEPT ![req[t].host] = @ \cup {Current(t)}]
    BY <1>1 DEF EngineReturns
  <2> QED BY <2>1, <2>2, <2>3
<1>2. CASE UNCHANGED unread
  BY <1>2 DEF Learned, Left
<1>3. CASE Arrive(t)
  BY <1>2, <1>3 DEF Arrive, BeginSolve, BeginCreate, BeginDestroy, BeginOnSession
<1> QED BY <1>1, <1>2, <1>3 DEF Serve, Probe, MakePlan, GiveUp, StartEngine, LaunchFails,
    EngineFails, Remember, Launch, DestroyIn, Depart

\* An entry that is popped leaves the others in their order.
LEMMA PopsOne ==
  ASSUME NEW S, NEW m \in Seq(S), NEW i \in 1 .. Len(m)
  PROVE  /\ RemoveAt(m, i) \in Seq(S) /\ Len(RemoveAt(m, i)) = Len(m) - 1
         /\ \A j \in 1 .. Len(m) - 1 : RemoveAt(m, i)[j] = m[IF j < i THEN j ELSE j + 1]
<1> DEFINE a == SubSeq(m, 1, i - 1)
           b == SubSeq(m, i + 1, Len(m))
<1>1. Len(m) \in Nat /\ i \in Nat /\ 1 <= i /\ i <= Len(m) /\ \A j \in 1 .. Len(m) : m[j] \in S
  OBVIOUS
<1>2. a \in Seq(S) /\ Len(a) = i - 1 /\ \A j \in 1 .. i - 1 : a[j] = m[j]
  <2>1. \A j \in 1 .. i - 1 : m[j] \in S
    BY <1>1
  <2> QED BY <1>1, <2>1, SubSeqProperties
<1>3. b \in Seq(S) /\ Len(b) = Len(m) - i /\ \A j \in 1 .. Len(m) - i : b[j] = m[i + j]
  <2>1. \A j \in i + 1 .. Len(m) : m[j] \in S
    BY <1>1
  <2>2. /\ b \in Seq(S) /\ Len(b) = IF i + 1 <= Len(m) THEN Len(m) - (i + 1) + 1 ELSE 0
        /\ \A j \in 1 .. Len(m) - (i + 1) + 1 : b[j] = m[i + 1 + j - 1]
    BY <1>1, <2>1, SubSeqProperties
  <2> QED BY <1>1, <2>2
<1>4. RemoveAt(m, i) = a \o b
  BY DEF RemoveAt
<1> HIDE DEF a, b
<1>5. /\ a \o b \in Seq(S) /\ Len(a \o b) = (i - 1) + (Len(m) - i)
      /\ \A j \in 1 .. (i - 1) + (Len(m) - i) :
           (a \o b)[j] = IF j <= i - 1 THEN a[j] ELSE b[j - (i - 1)]
  <2>1. /\ a \o b \in Seq(S) /\ Len(a \o b) = Len(a) + Len(b)
        /\ \A j \in 1 .. Len(a) + Len(b) : (a \o b)[j] = IF j <= Len(a) THEN a[j] ELSE b[j - Len(a)]
    BY <1>2, <1>3, ConcatProperties
  <2> QED BY <1>2, <1>3, <2>1
<1>6. ASSUME NEW j \in 1 .. Len(m) - 1
      PROVE  (a \o b)[j] = m[IF j < i THEN j ELSE j + 1]
  <2>1. CASE j < i
    BY <1>1, <1>2, <1>5, <2>1
  <2>2. CASE ~(j < i)
    <3>1. j - (i - 1) \in 1 .. Len(m) - i /\ i + (j - (i - 1)) = j + 1 /\ ~(j <= i - 1)
      BY <1>1, <2>2
    <3> QED BY <1>1, <1>3, <1>5, <2>2, <3>1
  <2> QED BY <2>1, <2>2
<1> QED BY <1>1, <1>4, <1>5, <1>6

\* A host has one entry, so that popping it leaves none.
LEMMA PopsAll ==
  ASSUME NEW m \in Seq(Learnt), NEW h \in Host,
         \A i, j \in DOMAIN m : m[i].host = m[j].host => i = j
  PROVE  /\ Without(m, h) \in Seq(Learnt)
         /\ Len(Without(m, h)) <= Len(m)
         /\ \A i \in DOMAIN Without(m, h) : /\ Without(m, h)[i].host # h
                                            /\ \E j \in DOMAIN m : Without(m, h)[i] = m[j]
         /\ \A i, j \in DOMAIN Without(m, h) : Without(m, h)[i].host = Without(m, h)[j].host => i = j
<1>1. CASE ~Knows(m, h)
  BY <1>1 DEF Without, Knows
<1>2. CASE Knows(m, h)
  <2> DEFINE p == Place(m, h)
             w == Without(m, h)
  <2>1. p \in DOMAIN m /\ m[p].host = h
    BY <1>2 DEF Knows, Place
  <2>2. w = RemoveAt(m, p)
    BY <1>2 DEF Without
  <2> HIDE DEF p, w
  <2>3. DOMAIN m = 1 .. Len(m) /\ Len(m) \in Nat /\ p \in Nat /\ 1 <= p /\ p <= Len(m)
    BY <2>1
  <2>4. /\ w \in Seq(Learnt) /\ Len(w) = Len(m) - 1
        /\ \A j \in 1 .. Len(m) - 1 : w[j] = m[IF j < p THEN j ELSE j + 1]
    <3>1. p \in 1 .. Len(m)
      BY <2>1, <2>3
    <3> QED BY <2>2, <3>1, PopsOne
  <2>5. DOMAIN w = 1 .. Len(m) - 1
    BY <2>4
  <2> DEFINE at(j) == IF j < p THEN j ELSE j + 1
  <2>6. \A j \in 1 .. Len(m) - 1 : at(j) \in DOMAIN m /\ at(j) # p
    BY <2>3
  <2>7. \A i, j \in 1 .. Len(m) - 1 : at(i) = at(j) => i = j
    BY <2>3
  <2>8. \A j \in DOMAIN w : w[j] = m[at(j)] /\ at(j) \in DOMAIN m /\ at(j) # p
    BY <2>4, <2>5, <2>6
  <2> HIDE DEF at
  <2>9. \A j \in DOMAIN w : w[j].host # h /\ \E k \in DOMAIN m : w[j] = m[k]
    BY <2>1, <2>8
  <2>10. \A i, j \in DOMAIN w : w[i].host = w[j].host => i = j
    BY <2>5, <2>7, <2>8
  <2>11. Len(w) <= Len(m)
    BY <2>3, <2>4
  <2> QED BY <2>4, <2>9, <2>10, <2>11 DEF w
<1> QED BY <1>1, <1>2

\* Trimming takes the head away, if anything.
LEMMA TrimsHead ==
  ASSUME NEW m \in Seq(Learnt), Len(m) <= MaxHosts + 1,
         \A i, j \in DOMAIN m : m[i].host = m[j].host => i = j
  PROVE  /\ Trimmed(m) \in Seq(Learnt) /\ Len(Trimmed(m)) <= MaxHosts
         /\ \A i \in DOMAIN Trimmed(m) : \E j \in DOMAIN m : Trimmed(m)[i] = m[j]
         /\ \A i, j \in DOMAIN Trimmed(m) : Trimmed(m)[i].host = Trimmed(m)[j].host => i = j
<1>1. CASE ~(Len(m) > MaxHosts)
  BY <1>1, ConstantsAssumption DEF Trimmed
<1>2. CASE Len(m) > MaxHosts
  <2>1. m # <<>> /\ Len(m) \in Nat
    BY <1>2, ConstantsAssumption
  <2>2. /\ Tail(m) \in Seq(Learnt) /\ Len(Tail(m)) = Len(m) - 1
        /\ \A i \in 1 .. Len(Tail(m)) : Tail(m)[i] = m[i + 1]
    BY <2>1, HeadTailProperties
  <2>3. /\ DOMAIN Tail(m) = 1 .. Len(m) - 1 /\ DOMAIN m = 1 .. Len(m)
        /\ \A i \in 1 .. Len(m) - 1 : i + 1 \in 1 .. Len(m)
    BY <2>1, <2>2
  <2>4. \A i \in DOMAIN Tail(m) : Tail(m)[i] = m[i + 1] /\ i + 1 \in DOMAIN m /\ i \in Int
    BY <2>2, <2>3
  <2>5. Len(Tail(m)) <= MaxHosts
    BY <2>1, <2>2, ConstantsAssumption
  <2>6. ASSUME NEW i \in DOMAIN Tail(m), NEW j \in DOMAIN Tail(m), Tail(m)[i].host = Tail(m)[j].host
        PROVE  i = j
    <3>1. i + 1 = j + 1
      BY <2>4, <2>6
    <3> QED BY <2>4, <3>1
  <2> QED BY <1>2, <2>2, <2>4, <2>5, <2>6 DEF Trimmed
<1> QED BY <1>1, <1>2

\* The memory after a host is learnt: one more entry, for that host, and the oldest gone.
LEMMA LearnsOne ==
  ASSUME Left, NEW t \in Thread, Remember(t), req[t].host \in Host, plan[t] \in Seq(Available),
         Len(tried[t]) \in 1 .. Len(plan[t])
  PROVE  /\ memory' \in Seq(Learnt) /\ HostMemoryKept'
         /\ \A i \in DOMAIN memory' :
              \/ \E j \in DOMAIN memory : memory'[i] = memory[j]
              \/ memory'[i].host = req[t].host /\ memory'[i].engine = plan[t][Len(tried[t])]
<1> DEFINE h == req[t].host
           e == plan[t][Len(tried[t])]
           w == Without(memory, h)
           a == Append(w, [host |-> h, engine |-> e])
<1>1. /\ memory \in Seq(Learnt) /\ Len(memory) <= MaxHosts
      /\ \A i, j \in DOMAIN memory : memory[i].host = memory[j].host => i = j
  BY DEF Left, HostMemoryKept
<1>2. h \in Host /\ e \in Engine
  BY DEF Available, Order, ToSet, Engine
<1>3. memory' = Trimmed(a)
  BY DEF Remember
<1>4. /\ w \in Seq(Learnt) /\ Len(w) <= Len(memory)
      /\ \A i \in DOMAIN w : w[i].host # h /\ \E j \in DOMAIN memory : w[i] = memory[j]
      /\ \A i, j \in DOMAIN w : w[i].host = w[j].host => i = j
  BY <1>1, <1>2, PopsAll
<1>5. /\ [host |-> h, engine |-> e] \in Learnt
      /\ [host |-> h, engine |-> e].host = h /\ [host |-> h, engine |-> e].engine = e
  BY <1>2 DEF Learnt
<1> HIDE DEF h, e, w
<1>6. /\ a \in Seq(Learnt) /\ Len(a) = Len(w) + 1 /\ Len(w) \in Nat
      /\ DOMAIN a = 1 .. Len(w) + 1 /\ DOMAIN w = 1 .. Len(w)
      /\ \A i \in 1 .. Len(w) : a[i] = w[i]
      /\ a[Len(w) + 1].host = h /\ a[Len(w) + 1].engine = e
  BY <1>4, <1>5, AppendProperties
<1> HIDE DEF a
<1>7. Len(a) <= MaxHosts + 1
  <2>1. \A n, m, x \in Nat : n <= m /\ m <= x => n + 1 <= x + 1
    OBVIOUS
  <2>2. Len(memory) \in Nat /\ MaxHosts \in Nat
    BY <1>1, ConstantsAssumption
  <2> QED BY <1>1, <1>4, <1>6, <2>1, <2>2
<1>8. \A i \in DOMAIN a :
        \/ i \in DOMAIN w /\ a[i] = w[i]
        \/ i = Len(w) + 1 /\ a[i].host = h /\ a[i].engine = e
  BY <1>6
<1>9. \A i, j \in DOMAIN a : a[i].host = a[j].host => i = j
  BY <1>4, <1>8
<1>10. /\ memory' \in Seq(Learnt) /\ Len(memory') <= MaxHosts
       /\ \A i \in DOMAIN memory' : \E j \in DOMAIN a : memory'[i] = a[j]
       /\ \A i, j \in DOMAIN memory' : memory'[i].host = memory'[j].host => i = j
  <2>1. /\ Trimmed(a) \in Seq(Learnt) /\ Len(Trimmed(a)) <= MaxHosts
        /\ \A i \in DOMAIN Trimmed(a) : \E j \in DOMAIN a : Trimmed(a)[i] = a[j]
        /\ \A i, j \in DOMAIN Trimmed(a) : Trimmed(a)[i].host = Trimmed(a)[j].host => i = j
    BY <1>6, <1>7, <1>9, TrimsHead
  <2> QED BY <1>3, <2>1
<1>11. \A i \in DOMAIN memory' :
              \/ \E j \in DOMAIN memory : memory'[i] = memory[j]
              \/ memory'[i].host = h /\ memory'[i].engine = e
  BY <1>4, <1>8, <1>10
<1> QED BY <1>10, <1>11 DEF HostMemoryKept, h, e

\* The pools hold ids, and only a page that is remembered writes to the host memory.
LEMMA LeftKept ==
  ASSUME Learned, NEW t \in Thread, Arrive(t) \/ Serve(t)
  PROVE  Left'
<1>1. Left /\ Types /\ Role(t) /\ Kept(t) /\ Asking(t)
  BY DEF Learned, Inv, Typed
<1>0. /\ unread' \in [Host -> SUBSET Engine]
      /\ \A h \in Host : unread[h] \subseteq unread'[h]
  BY HiddenStays
<1>12. \A i \in DOMAIN memory :
         /\ memory[i].host \in Host
         /\ \/ memory[i].engine \in Clears[memory[i].host]
            \/ memory[i].host \in Unmarked
            \/ memory[i].engine \in unread'[memory[i].host]
  <2>1. \A i \in DOMAIN memory : memory[i].host \in Host
    <3>1. \A i \in DOMAIN memory : memory[i] \in Learnt
      BY <1>1 DEF Left
    <3> QED BY <3>1 DEF Learnt
  <2> QED BY <1>0, <1>1, <2>1 DEF Left, RemembersOnlyClearers, ClearsOrHidden
<1>13. memory' = memory => RemembersOnlyClearers'
  BY <1>12 DEF RemembersOnlyClearers, ClearsOrHidden
<1>2. CASE Arrive(t)
  BY <1>0, <1>1, <1>2, <1>13 DEF Arrive, BeginSolve, BeginCreate, BeginDestroy, BeginOnSession, Left,
    HostMemoryKept, RemembersOnlyClearers
<1>3. CASE Remember(t)
  <2>1. /\ req[t].host \in Host /\ plan[t] \in Seq(Available) /\ Len(tried[t]) \in 1 .. Len(plan[t])
        /\ ClearsOrHidden(req[t].host, plan[t][Len(tried[t])])
    BY <1>1, <1>3 DEF Remember, Asking, Role
  <2>2. /\ memory' \in Seq(Learnt) /\ HostMemoryKept'
        /\ \A i \in DOMAIN memory' :
             \/ \E j \in DOMAIN memory : memory'[i] = memory[j]
             \/ memory'[i].host = req[t].host /\ memory'[i].engine = plan[t][Len(tried[t])]
    BY <1>1, <1>3, <2>1, LearnsOne
  <2>3. RemembersOnlyClearers'
    <3>1. \/ plan[t][Len(tried[t])] \in Clears[req[t].host]
          \/ req[t].host \in Unmarked
          \/ plan[t][Len(tried[t])] \in unread'[req[t].host]
      BY <1>0, <2>1 DEF ClearsOrHidden
    <3> QED BY <1>12, <2>2, <3>1 DEF RemembersOnlyClearers, ClearsOrHidden
  <2> QED BY <1>0, <1>1, <1>3, <2>2, <2>3 DEF Remember, Left
<1>4. CASE UNCHANGED <<pool, memory>>
  BY <1>0, <1>1, <1>4, <1>13 DEF Left, HostMemoryKept, RemembersOnlyClearers
<1>5. ASSUME UNCHANGED memory, pool' \in [Available -> SUBSET Sid]
      PROVE  Left'
  BY <1>0, <1>1, <1>5, <1>13 DEF Left, HostMemoryKept, RemembersOnlyClearers
<1>6. req[t].sid \in Sid \cup {None} \/ pc[t] = "idle"
  BY <1>1 DEF Role, Request
<1>7. CASE StartEngine(t)
  BY <1>1, <1>5, <1>6, <1>7 DEF StartEngine, Left
<1>8. CASE EngineFails(t)
  BY <1>1, <1>5, <1>8 DEF EngineFails, Left
<1>9. CASE Launch(t)
  <2>1. req[t].sid \in Sid
    BY <1>1, <1>9 DEF Launch, Role, Asking
  <2> QED BY <1>1, <1>5, <1>9, <2>1 DEF Launch, Left
<1>10. CASE DestroyIn(t)
  BY <1>1, <1>5, <1>10 DEF DestroyIn, Left
<1>11. CASE \/ Probe(t) \/ MakePlan(t) \/ GiveUp(t) \/ LaunchFails(t)
            \/ EngineReturns(t) \/ Depart(t)
  BY <1>4, <1>11, ReturnAttempts DEF Probe, MakePlan, GiveUp, LaunchFails, Depart
<1> QED BY <1>2, <1>3, <1>7, <1>8, <1>9, <1>10, <1>11 DEF Serve

\* No budget is above the ceiling, if there is one.
LEMMA BudgetIsCapped ==
  ASSUME NEW asked \in Asked \cup {None}, Ceiling > 0
  PROVE  Budget(asked) <= Ceiling
  BY ConstantsAssumption DEF Budget

\* What is asked for is what the request carries.
LEMMA ArriveAsks ==
  ASSUME Learned, NEW t \in Thread, Arrive(t)
  PROVE  Asking(t)'
<1>1. Types /\ Role(t) /\ Asking(t) /\ pc'[t] # "remember"
  BY DEF Learned, Inv, Typed, Arrive, BeginSolve, BeginCreate, BeginDestroy, BeginOnSession, Answer, Types
<1>2. CASE BeginSolve(t)
  <2>1. PICK host \in Host, sid \in Sid \cup {None}, forced \in Forced, asked \in Asked, html \in Html :
           /\ req' = [req EXCEPT ![t] = [op |-> "solve", host |-> host, sid |-> sid, forced |-> forced,
                                     budget |-> Budget(asked), html |-> html]]
           /\ \/ /\ forced \in Available
                 /\ plan' = [plan EXCEPT ![t] = <<forced>>]
                 /\ Goto(t, "try") /\ UNCHANGED reply
              \/ /\ forced \notin Available \cup {"auto"}
                 /\ Answer(t, "error") /\ UNCHANGED plan
              \/ /\ forced = "auto"
                 /\ Goto(t, IF sid = None THEN "recall" ELSE "probe") /\ UNCHANGED <<plan, reply>>
    BY <1>2 DEF BeginSolve
  <2>2. /\ req'[t].op = "solve" /\ req'[t].host = host /\ req'[t].html = html
        /\ req'[t].budget = Budget(asked)
    BY <1>1, <2>1 DEF Types
  <2>3. plan'[t] \in Seq(Available)
    <3>1. forced \in Available => <<forced>> \in Seq(Available)
      OBVIOUS
    <3> QED BY <1>1, <2>1, <3>1 DEF Types, Asking
  <2>4. Ceiling > 0 => req'[t].budget <= Ceiling
    BY <2>2, BudgetIsCapped
  <2> QED BY <1>1, <2>1, <2>2, <2>3, <2>4 DEF Asking
<1>3. ASSUME NEW op \in {"create", "destroy"}, NEW step \in {"probe", "remove"},
             NEW choices \in SUBSET (Engine \cup {"auto"}), BeginOnSession(t, op, step, choices)
      PROVE  Asking(t)'
  <2>1. PICK sid \in Sid, forced \in choices :
       req' = [req EXCEPT ![t] = [op |-> op, host |-> None, sid |-> sid, forced |-> forced,
                                  budget |-> Budget(None), html |-> FALSE]]
    BY <1>3 DEF BeginOnSession
  <2>2. req'[t].op = op /\ req'[t].sid = sid /\ req'[t].budget = Budget(None)
    BY <1>1, <2>1 DEF Types
  <2>3. plan'[t] \in Seq(Available)
    BY <1>1, <1>3 DEF BeginOnSession, Asking
  <2>4. Ceiling > 0 => req'[t].budget <= Ceiling
    BY <2>2, BudgetIsCapped
  <2> QED BY <1>1, <2>2, <2>3, <2>4 DEF Asking
<1> QED BY <1>2, <1>3, ConstantsAssumption DEF Arrive, BeginCreate, BeginDestroy

\* A request is not changed while it is served, and only what cleared its host, or a page
\* that shows nothing, is remembered.
LEMMA ServeAsks ==
  ASSUME Learned, NEW t \in Thread, Serve(t)
  PROVE  Asking(t)'
<1>1. Types /\ Role(t) /\ Kept(t) /\ Asking(t)
  BY DEF Learned, Inv, Typed
<1>2. ASSUME UNCHANGED <<req, plan>>, pc[t] # "idle", pc'[t] # "remember"
      PROVE  Asking(t)'
  BY <1>1, <1>2 DEF Asking
<1>3. CASE \/ Probe(t) \/ GiveUp(t) \/ StartEngine(t) \/ LaunchFails(t) \/ EngineFails(t)
           \/ Remember(t) \/ Launch(t) \/ DestroyIn(t)
  <2>1. UNCHANGED <<req, plan>> /\ pc[t] # "idle"
    BY <1>3 DEF Probe, GiveUp, StartEngine, LaunchFails, EngineFails, Remember, Launch, DestroyIn
  <2>2. CASE Probe(t) \/ GiveUp(t) \/ StartEngine(t)
    BY <1>1, <1>2, <2>1, <2>2 DEF Probe, GiveUp, StartEngine, Answer, Types
  <2>3. CASE LaunchFails(t) \/ EngineFails(t)
    BY <1>1, <1>2, <2>1, <2>3 DEF LaunchFails, EngineFails, MoveOn, Answer, Types
  <2>4. CASE Remember(t) \/ Launch(t) \/ DestroyIn(t)
    BY <1>1, <1>2, <2>1, <2>4 DEF Remember, Launch, DestroyIn, Answer, Types
  <2> QED BY <1>3, <2>2, <2>3, <2>4
<1>4. CASE MakePlan(t)
  <2>1. Primary(t) \in Available
    BY <1>1, PrimaryIsThere DEF Learned, Inv, MakePlan
  <2>2. \A e \in Available : <<Primary(t), e>> \in Seq(Available) /\ <<Primary(t)>> \in Seq(Available)
    BY <2>1
  <2>3. \E p \in Seq(Available) : plan' = [plan EXCEPT ![t] = p]
    BY <1>4, <2>1, <2>2 DEF MakePlan
  <2>4. plan'[t] \in Seq(Available) /\ UNCHANGED req /\ pc[t] # "idle" /\ pc'[t] = "try"
    BY <1>1, <1>4, <2>3 DEF MakePlan, Types
  <2> QED BY <1>1, <2>4 DEF Asking
<1>5. ASSUME NEW gave \in {"page", "challenge"}, pc[t] = "solve", Attempted(t, gave),
             UNCHANGED <<req, plan>>
      PROVE  Len(tried'[t]) = Len(tried[t]) + 1 /\ Len(tried'[t]) \in 1 .. Len(plan[t])
  <2>1. Len(tried'[t]) = Len(tried[t]) + 1
    BY <1>1, <1>5, AfterAttempt DEF Learned, Kept
  <2>2. Len(tried[t]) < Len(plan[t]) /\ Len(tried[t]) \in Nat /\ Len(plan[t]) \in Nat
    BY <1>1, <1>5 DEF Kept, Trying, Types
  <2> QED BY <2>1, <2>2
<1>6. CASE EngineReturns(t)
  <2>1. pc[t] = "solve" /\ UNCHANGED <<req, plan>>
    BY <1>6 DEF EngineReturns
  <2>2. PICK cleared, marked \in BOOLEAN :
          /\ cleared => plan[t][Len(tried[t]) + 1] \in Clears[req[t].host]
          /\ cleared \/ marked \/ req[t].host \in Unmarked
          /\ \/ /\ LooksChallenged(t, marked)
                /\ Attempted(t, "challenge") /\ MoveOn(t, "challenge")
             \/ /\ ~LooksChallenged(t, marked)
                /\ Attempted(t, "page") /\ Goto(t, "remember") /\ UNCHANGED reply
          /\ unread' = IF cleared \/ req[t].html THEN unread
                       ELSE [unread EXCEPT ![req[t].host] = @ \cup {plan[t][Len(tried[t]) + 1]}]
    BY <1>6 DEF EngineReturns, Current
  <2>3. CASE LooksChallenged(t, marked)
    BY <1>1, <1>2, <2>1, <2>2, <2>3 DEF MoveOn, Answer, Types
  <2>4. CASE ~LooksChallenged(t, marked)
    <3>1. Len(tried'[t]) = Len(tried[t]) + 1 /\ Len(tried'[t]) \in 1 .. Len(plan[t])
      BY <1>5, <2>1, <2>2, <2>4
    <3>2. req[t].host \in Host
      BY <1>1, <2>1 DEF Asking, Role
    <3> DEFINE h == req[t].host
               e == plan[t][Len(tried[t]) + 1]
    <3>3. e \in Clears[h] \/ h \in Unmarked \/ e \in unread'[h]
      <4>1. CASE cleared \/ req[t].html
        BY <2>2, <2>4, <4>1 DEF LooksChallenged
      <4>2. CASE ~(cleared \/ req[t].html)
        BY <2>2, <3>2, <4>2 DEF Learned, Left
      <4> QED BY <4>1, <4>2
    <3>4. ClearsOrHidden(req[t].host, plan[t][Len(tried[t])])'
      BY <2>1, <3>1, <3>3 DEF ClearsOrHidden
    <3> QED BY <1>1, <2>1, <3>1, <3>4 DEF Asking
  <2> QED BY <2>3, <2>4
<1>8. CASE Depart(t)
  <2>1. req'[t] = None /\ plan'[t] = <<>> /\ pc'[t] = "idle"
    BY <1>1, <1>8 DEF Depart, Types
  <2> QED BY <2>1 DEF Asking
<1> QED BY <1>3, <1>4, <1>6, <1>8 DEF Serve

\* What one request leaves behind is sound for the next.
LEMMA LearnedHolds == Spec => []Learned
<1>1. Init /\ Inv => Learned
  <2> SUFFICES ASSUME Init, Inv PROVE Learned
    OBVIOUS
  <2>1. Left
    BY ConstantsAssumption DEF Init, Left, HostMemoryKept, RemembersOnlyClearers
  <2>2. \A t \in Thread : Asking(t)
    BY DEF Init, Asking
  <2> QED BY <2>1, <2>2 DEF Learned
<1>2. ASSUME Learned, Inv', [Next]_vars
      PROVE  Learned'
  <2>1. CASE UNCHANGED vars
    BY <1>2, <2>1 DEF vars, Learned, Left, HostMemoryKept, RemembersOnlyClearers, ClearsOrHidden, Asking
  <2>2. CASE \E e \in Available, sid \in Sid : Reap(e, sid)
    BY <1>2, <2>2 DEF Reap, Learned, Left, HostMemoryKept, RemembersOnlyClearers, ClearsOrHidden, Asking
  <2>3. ASSUME NEW t \in Thread, Arrive(t) \/ Serve(t)
        PROVE  Learned'
    <3>1. Alone(t) /\ Left'
      BY <1>2, <2>3, StepAlone, LeftKept DEF Learned, Inv
    <3>2. Asking(t)'
      BY <1>2, <2>3, ArriveAsks, ServeAsks
    <3>3. ASSUME NEW u \in Thread \ {t}
          PROVE  Asking(u)'
      <4>1. Asking(u)
        BY <1>2 DEF Learned
      <4>2. /\ pc'[u] = pc[u] /\ req'[u] = req[u] /\ plan'[u] = plan[u] /\ tried'[u] = tried[u]
        BY <3>1 DEF Alone
      <4>3. /\ req'[u] # None /\ Ceiling > 0 => req'[u].budget <= Ceiling
            /\ pc'[u] # "idle" => \/ req'[u].op = "solve" /\ req'[u].host \in Host /\ req'[u].html \in Html
                                  \/ req'[u].op # "solve" /\ req'[u].sid \in Sid
            /\ plan'[u] \in Seq(Available)
        BY <4>1, <4>2 DEF Asking
      <4>4. /\ Len(tried'[u]) = Len(tried[u]) /\ plan'[u] = plan[u]
            /\ Clears[req'[u].host] = Clears[req[u].host]
            /\ unread[req[u].host] \subseteq unread'[req[u].host] \/ req[u].host \notin Host
        BY <1>2, <2>3, <4>2, HiddenStays
      <4>6. pc[u] = "remember" => req[u].host \in Host
        BY <1>2, <4>1 DEF Asking, Learned, Inv, Typed, Role
      <4>5. pc'[u] = "remember" =>
              /\ Len(tried'[u]) \in 1 .. Len(plan'[u])
              /\ ClearsOrHidden(req[u].host, plan[u][Len(tried[u])])'
        BY <4>1, <4>2, <4>4, <4>6 DEF Asking, ClearsOrHidden
      <4> QED BY <4>3, <4>5 DEF Asking
    <3> QED BY <1>2, <3>1, <3>2, <3>3 DEF Learned
  <2> QED BY <1>2, <2>1, <2>2, <2>3 DEF Next
<1> QED BY <1>1, <1>2, InvHolds, PTL DEF Spec

\* Every state has the declared types: no plan names an engine that is not there, no
\* budget is above the ceiling and no pool holds what is not an id.
THEOREM TypesHold == Spec => []TypeOK
<1>1. Learned => TypeOK
  BY DEF Learned, Inv, Typed, Types, Left, Asking, TypeOK
<1> QED BY <1>1, LearnedHolds, PTL

\* The host memory is bounded and has one entry to a host.
THEOREM HostMemoryIsKept == Spec => []HostMemoryKept
<1>1. Learned => HostMemoryKept
  BY DEF Learned, Left
<1> QED BY <1>1, LearnedHolds, PTL

\* The memory sends a host to an engine that cannot clear it only where no page the
\* controller read could have told it.
THEOREM ClearersAreLearnt == Spec => []RemembersOnlyClearers
<1>1. Learned => RemembersOnlyClearers
  BY DEF Learned, Left
<1> QED BY <1>1, LearnedHolds, PTL
=============================================================================
