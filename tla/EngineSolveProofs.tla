-------------------------- MODULE EngineSolveProofs --------------------------
(***************************************************************************)
(* What holds of one solve for any share, any times and any site that      *)
(* moves as EngineSolve lets it.  Three layers:                            *)
(*   TypeOK, Clocked, Planned   types; nothing runs on past the cut-off;   *)
(*           what a kernel has still to yield, and the caller's cookies;   *)
(*   Answered, Lasting, Reserving   what has been read for the answer; how *)
(*           old a guard, a gap or a verification gets; how far past its   *)
(*           deadline each step of the stealth engine's loop can be due;   *)
(*   Sparing, Confirming, Settling, Fitting   one clock each against one   *)
(*           thing on the site, under the condition EngineSolve names.     *)
(* SolveFrame and SolveFlow say once which action moves which variable and *)
(* which action leads to which step; what follows looks only at those.     *)
(***************************************************************************)
EXTENDS EngineSolve, TLAPS

\* A document, an answer and a plan of a kernel.
Documents == [kind : Kind, box : Box, age : 0 .. RoundMin, loads : BOOLEAN]
Answers == [body : Kind \cup {"none"}, had : 0 .. JarMax, cookies : 0 .. JarMax]
Plans == Seq({"navigate", "setCookies", "wait", "body", "cookies"})

\* Time: the next step is never overdue, and nothing runs on past the cut-off.
Clocked ==
  /\ clock <= wake
  /\ pc \notin {"launch", "start"} => begun <= clock
  /\ Cuttable => clock <= Cutoff
  /\ pc = "done" => wake = clock /\ clock <= AtLeast(begun, req.share) + 1

\* The kernels: what is left to yield, and what the caller's cookies were used for.
Loaded == pc \notin {"launch", "start", "approach", "arrive", "done"}

Planned ==
  /\ pc \in {"approach", "arrive"} =>
       \/ todo = <<"navigate">> /\ (req.cookies => planted)
       \/ req.cookies /\ todo = <<"navigate", "setCookies", "navigate">>
       \/ pc = "approach" /\ req.cookies /\ todo = <<"setCookies", "navigate">>
  /\ Loaded /\ req.cookies => planted /\ carried
  /\ pc = "read" => todo \in {<<"wait", "body", "cookies">>, <<"body", "cookies">>, <<"cookies">>}

-----------------------------------------------------------------------------
(* Operators *)

\* The first yield of each plan, and what is left after it.
LEMMA PlanFacts ==
  /\ Head(<<"navigate">>) = "navigate" /\ Tail(<<"navigate">>) = <<>>
  /\ Head(<<"navigate", "setCookies", "navigate">>) = "navigate"
  /\ Tail(<<"navigate", "setCookies", "navigate">>) = <<"setCookies", "navigate">>
  /\ Head(<<"setCookies", "navigate">>) = "setCookies"
  /\ Tail(<<"setCookies", "navigate">>) = <<"navigate">>
  /\ Head(<<"wait", "body", "cookies">>) = "wait"
  /\ Tail(<<"wait", "body", "cookies">>) = <<"body", "cookies">>
  /\ Head(<<"body", "cookies">>) = "body"
  /\ Tail(<<"body", "cookies">>) = <<"cookies">>
  /\ Head(<<"cookies">>) = "cookies" /\ Tail(<<"cookies">>) = <<>>
  /\ <<"navigate">> # <<>> /\ <<"setCookies", "navigate">> # <<>>
  /\ <<"body", "cookies">> # <<>> /\ <<"cookies">> # <<>>
  OBVIOUS

\* The plans are plans.
LEMMA PlansTyped ==
  /\ {<<>>, <<"navigate">>, <<"setCookies", "navigate">>,
      <<"navigate", "setCookies", "navigate">>} \subseteq Plans
  /\ {<<"wait", "body", "cookies">>, <<"body", "cookies">>, <<"cookies">>} \subseteq Plans
  BY DEF Plans

\* The fields of a document, and of one with another widget or age.
LEMMA DocumentsTyped ==
  ASSUME NEW d \in Documents
  PROVE  /\ d.kind \in Kind /\ d.box \in Box /\ d.age \in 0 .. RoundMin /\ d.loads \in BOOLEAN
         /\ \A box \in Box : /\ [d EXCEPT !.box = box] \in Documents
                             /\ [d EXCEPT !.box = box].kind = d.kind
                             /\ [d EXCEPT !.box = box].box = box
                             /\ [d EXCEPT !.box = box].age = d.age
                             /\ [d EXCEPT !.box = box].loads = d.loads
         /\ \A n \in 0 .. RoundMin : /\ [d EXCEPT !.age = n] \in Documents
                                     /\ [d EXCEPT !.age = n].kind = d.kind
                                     /\ [d EXCEPT !.age = n].box = d.box
                                     /\ [d EXCEPT !.age = n].age = n
                                     /\ [d EXCEPT !.age = n].loads = d.loads
  BY DEF Documents

\* The constants, one by one.
LEMMA ConstantsTyped ==
  /\ Margin \in Nat /\ Cooldown \in Nat /\ Settle \in Nat /\ Render \in Nat
  /\ LaunchMax \in Nat /\ NavMax \in Nat /\ ClickMax \in Nat /\ JarMax \in Nat
  /\ GuardMax \in Nat /\ GapMax \in Nat /\ VerifyMax \in Nat
  /\ ApiTime \in Nat \ {0} /\ Poll \in Nat \ {0} /\ Confirm \in Nat \ {0}
  /\ Retry \in Nat \ {0} /\ WaitTimeout \in Nat \ {0} /\ RoundMin \in Nat \ {0}
  /\ Quiet \in Nat
  BY ConstantsAssumption

\* How the solve's own times are ordered.
LEMMA Times ==
  ASSUME TypeOK
  PROVE  /\ req.share \in Nat \ {0} /\ Cutoff \in Nat /\ SolveDeadline \in Nat
         /\ begun + 1 <= SolveDeadline /\ SolveDeadline <= Cutoff
         /\ Cutoff <= SolveDeadline + Margin
         /\ SolveDeadline > begun + 1 => Cutoff = SolveDeadline + Margin
         /\ Cutoff = AtLeast(begun + 1, req.share)
<1>1. req.share \in Nat \ {0} /\ begun \in Nat
  BY DEF TypeOK, Request
<1> QED BY <1>1, ConstantsTyped DEF Cutoff, SolveDeadline, LeftOfShare, AtLeast

-----------------------------------------------------------------------------
(* What moves what *)

\* Nothing happens after the end of a solve: no step is due, the site is left alone.
LEMMA DoneIsDone ==
  ASSUME TypeOK, Clocked, pc = "done", [Next]_vars
  PROVE  UNCHANGED vars
<1>1. ~Load
  BY DEF Load, At, Launch, Start, Navigate, Arrive, SetCookies
<1>2. ~PressWidget
  BY DEF PressWidget, At, WidgetShows, NoWidget, PressOnce, Pressed, PressesOver
<1>3. ~Judge
  BY DEF Judge, At, LookFindsChallenge, LookFindsDenied, LookIsClear, Settled, LookRaces
<1>4. ~Clear
  BY DEF Clear, At, LoopLooks, ReadToken, ReadMarkup, Strike, Check, ConfirmClear, Escalate,
    PaidSolverEnds, Gone, GoneTimesOut, Verified
<1>5. ~Respond
  BY DEF Respond, At, Await, Assemble, Wait, ReadBody, ReadCookies
<1>6. ~CutOff /\ ~Raises /\ ~Site
  BY DEF CutOff, Cuttable, Raises, Site
<1>7. ~Tick
  BY DEF Tick, Clocked, TypeOK
<1> QED BY <1>1, <1>2, <1>3, <1>4, <1>5, <1>6, <1>7 DEF Next, Solve
\* The actions of the engine, group by group, cited wherever each has to be looked at.
LEMMA SolveFrame ==
  ASSUME Solve
  PROVE  /\ UNCHANGED <<clock, jar, req>>
         /\ begun' = begun \/ Start \/ Raises
         /\ doc' = doc \/ Arrive \/ Strike \/ Escalate
         /\ planted' = planted \/ SetCookies
         /\ carried' = carried \/ Arrive \/ Escalate
         /\ \/ todo' = todo \/ Start \/ Arrive \/ SetCookies
            \/ Assemble \/ Wait \/ ReadBody \/ ReadCookies
         /\ pressed' = pressed \/ Strike
         /\ UNCHANGED <<pass, passes>> \/ PressOnce
         /\ reserved' = reserved \/ LookFindsChallenge
         /\ answer' = answer \/ ReadBody \/ ReadCookies
<1>1. CASE Load
  BY <1>1 DEF Load, Launch, Start, Navigate, Arrive, SetCookies, siteVars, loopVars, fixedVars
<1>2. CASE PressWidget
  BY <1>2 DEF PressWidget, WidgetShows, NoWidget, PressOnce, Pressed, PressesOver,
    unmovedByEngine, siteVars, loopVars, fixedVars
<1>3. CASE Judge
  BY <1>3 DEF Judge, LookFindsChallenge, LookFindsDenied, LookIsClear, Settled, LookRaces,
    unmovedByEngine, siteVars, loopVars, fixedVars
<1>4. CASE Clear
  BY <1>4 DEF Clear, LoopLooks, ReadToken, ReadMarkup, Strike, Check, ConfirmClear, Escalate,
    PaidSolverEnds, Gone, GoneTimesOut, Verified, unmovedByEngine, siteVars, loopVars, fixedVars
<1>5. CASE Respond
  BY <1>5 DEF Respond, Await, Assemble, Wait, ReadBody, ReadCookies, unmovedByEngine,
    siteVars, loopVars, fixedVars
<1>6. CASE CutOff \/ Raises
  BY <1>6 DEF CutOff, Raises, unmovedByEngine, siteVars, loopVars, fixedVars
<1> QED BY <1>1, <1>2, <1>3, <1>4, <1>5, <1>6 DEF Solve

\* Where each step of interest is reached from.
LEMMA SolveFlow ==
  ASSUME Solve
  PROVE  /\ pc' \in Step /\ pc' # "launch" /\ (pc' = "start" => Launch)
         /\ pc' = "approach" => Start \/ Arrive \/ SetCookies
         /\ pc' = "arrive" => Navigate
         /\ Loaded' => Loaded \/ Arrive \/ SetCookies
         /\ pc' = "pressed" => PressOnce
         /\ pc' = "settle" => LookIsClear
         /\ pc' = "look2" => Settled
         /\ pc' = "gone" => LookFindsChallenge \/ Verified
         /\ pc' = "verify" => GoneTimesOut
         /\ pc' = "poll" => LookFindsChallenge \/ LookRaces \/ Check
         /\ pc' = "token" => LoopLooks
         /\ pc' = "markup" => ReadToken \/ LookRaces
         /\ pc' = "strike" => ReadToken
         /\ pc' = "check" => LoopLooks \/ ReadToken \/ ReadMarkup \/ Strike \/ ConfirmClear
         /\ pc' = "confirm" => LoopLooks \/ LookRaces
         /\ pc' = "escalate" => Check
         /\ pc' = "await" => LookIsClear \/ Gone
         /\ pc' = "read" => Assemble \/ Wait \/ ReadBody \/ ReadCookies
         /\ pc' = "done" \/ reply' = reply
<1> USE DEF Goto, Sleep, Raise, End, At, Step, Loaded
<1>1. CASE Load
  BY <1>1 DEF Load, Launch, Start, Navigate, Arrive, SetCookies, NextOfApproach
<1>2. CASE PressWidget
  BY <1>2 DEF PressWidget, WidgetShows, NoWidget, PressOnce, Pressed, PressesOver
<1>3. CASE Judge
  BY <1>3 DEF Judge, LookFindsChallenge, LookFindsDenied, LookIsClear, Settled,
    LookRaces
<1>4. CASE Clear
  BY <1>4 DEF Clear, LoopLooks, ReadToken, ReadMarkup, Strike, Check, ConfirmClear, Solved,
    Escalate, PaidSolverEnds, Gone, GoneTimesOut, Verified
<1>5. CASE Respond
  BY <1>5 DEF Respond, Await, Assemble, NextRead, Wait, ReadBody, ReadCookies
<1>6. CASE CutOff \/ Raises
  BY <1>6 DEF CutOff, Raises
<1> QED BY <1>1, <1>2, <1>3, <1>4, <1>5, <1>6 DEF Solve

\* The site moves its own document and jar, and nothing of the engine's.
LEMMA SiteFrame ==
  ASSUME Site
  PROVE  /\ pc # "done"
         /\ UNCHANGED <<planted, clock, wake, pc, fixedVars, todo, loopVars, answer, reply>>
         /\ carried' = carried \/ carried' = planted
         /\ jar' = jar \/ (jar < JarMax /\ jar' = jar + 1)
         /\ \/ doc' = doc
            \/ \E kind \in MovesTo(doc.kind) :
                 doc' = [kind |-> kind, box |-> "none", age |-> 0, loads |-> FALSE]
            \/ \E box \in {"empty", "filled"} : doc' = [doc EXCEPT !.box = box]
  BY DEF Site, Moves, WidgetRenders, WidgetAnswers, SetsCookie, unmovedBySite

-----------------------------------------------------------------------------
(* Types *)

\* The document keeps its type, whoever moves it.
LEMMA DocTyped ==
  ASSUME TypeOK, [Next]_vars
  PROVE  doc' \in Documents
<1>1. doc \in Documents
  BY DEF TypeOK, Documents
<1>2. Arrivals \subseteq Documents
  <2>1. 0 \in 0 .. RoundMin
    BY ConstantsTyped
  <2>2. {"guard", "denied", "page", "gate"} \subseteq Kind /\ {"none", "empty"} \subseteq Box
    BY DEF Kind, Box
  <2> QED BY <2>1, <2>2 DEF Arrivals, Documents
<1>3. \A kind \in Kind :
        [kind |-> kind, box |-> "none", age |-> 0, loads |-> FALSE] \in Documents
  BY ConstantsTyped DEF Documents, Box
<1>4. CASE Solve
  <2>1. CASE Arrive \/ Escalate
    BY <1>2, <2>1 DEF Arrive, Escalate
  <2>2. CASE Strike
    <3>1. "verifying" \in Box
      BY DEF Box
    <3>2. [doc EXCEPT !.box = "verifying"] \in Documents
      BY <1>1, <3>1, DocumentsTyped
    <3> QED BY <1>1, <2>2, <3>2 DEF Strike
  <2> QED BY <1>1, <1>4, <2>1, <2>2, SolveFrame
<1>5. CASE Site
  <2>1. MovesTo(doc.kind) \subseteq Kind
    BY <1>1 DEF Documents, MovesTo, Kind
  <2>2. ASSUME NEW box \in {"empty", "filled"} PROVE [doc EXCEPT !.box = box] \in Documents
    <3>1. box \in Box
      BY DEF Box
    <3> QED BY <1>1, <3>1, DocumentsTyped
  <2> QED BY <1>1, <1>3, <1>5, <2>1, <2>2, SiteFrame
<1>6. CASE Tick
  <2>1. AtMost(RoundMin, doc.age + 1) \in 0 .. RoundMin
    BY <1>1, ConstantsTyped DEF Documents, AtMost
  <2> QED BY <1>1, <1>6, <2>1, DocumentsTyped DEF Tick
<1>7. CASE UNCHANGED vars
  BY <1>1, <1>7 DEF vars, siteVars
<1> QED BY <1>4, <1>5, <1>6, <1>7 DEF Next

\* When a step of the engine makes its next one due.
LEMMA WakeSteps ==
  ASSUME TypeOK, Solve
  PROVE  wake' \in Nat /\ clock <= wake'
<1> USE ConstantsTyped DEF TypeOK, Sleep, Goto, Raise, End
<1>1. CASE Load
  BY <1>1 DEF Load, Launch, Start, Navigate, Arrive, SetCookies, NextOfApproach
<1>2. CASE PressWidget
  BY <1>2, ConstantsAssumption DEF PressWidget, WidgetShows, NoWidget, PressOnce, Pressed,
    PressesOver
<1>3. CASE Judge
  BY <1>3 DEF Judge, LookFindsChallenge, LookFindsDenied, LookIsClear, Settled, LookRaces
<1>4. CASE Clear
  <2>1. CASE Solved
    <3>1. PICK d \in 0 .. AtMost(2 * Settle, AtLeast(0, Deadline - clock)) : wake' = clock + d
      BY <2>1 DEF Solved
    <3>2. 0 .. AtMost(2 * Settle, AtLeast(0, Deadline - clock)) \subseteq Nat
      OBVIOUS
    <3> QED BY <3>1, <3>2
  <2>2. CASE LoopLooks \/ ReadToken
    BY <2>2 DEF LoopLooks, ConfirmAfter, ReadToken
  <2>6. CASE Strike
    <3>1. wake' = clock + 0
      BY <2>6 DEF Strike
    <3> QED BY <3>1
  <2>7. CASE Check
    <3>1. wake' = clock + 0 \/ wake' = clock + Poll
      BY <2>7 DEF Check
    <3> QED BY <3>1
  <2>3. CASE Escalate \/ Gone \/ Verified
    BY <2>3 DEF Escalate, Gone, Verified
  <2>4. CASE GoneTimesOut
    BY <2>4, ConstantsAssumption DEF GoneTimesOut
  <2>5. CASE ReadMarkup \/ ConfirmClear \/ PaidSolverEnds
    BY <2>1, <2>5 DEF ReadMarkup, ConfirmClear, PaidSolverEnds
  <2> QED BY <1>4, <2>2, <2>3, <2>4, <2>5, <2>6, <2>7 DEF Clear
<1>5. CASE Respond
  <2>1. CASE Await
    BY <2>1 DEF Await
  <2>2. CASE Assemble \/ ReadBody \/ ReadCookies
    <3>1. wake' = clock + 0
      BY <2>2 DEF Assemble, NextRead, ReadBody, ReadCookies
    <3> QED BY <3>1
  <2>3. CASE Wait
    BY <2>3, ConstantsAssumption DEF Wait
  <2> QED BY <1>5, <2>1, <2>2, <2>3 DEF Respond
<1>6. CASE CutOff \/ Raises
  BY <1>6 DEF CutOff, Raises
<1> QED BY <1>1, <1>2, <1>3, <1>4, <1>5, <1>6 DEF Solve

\* What is left of a kernel's plan.
LEMMA TodoTyped ==
  ASSUME TypeOK, Planned, Solve
  PROVE  todo' \in Plans
<1>1. CASE Start
  BY <1>1, PlansTyped DEF Start, Approach
<1>2. CASE Arrive
  BY <1>2, PlanFacts, PlansTyped DEF Arrive, At, NextOfApproach, Planned
<1>3. CASE SetCookies
  BY <1>3, PlanFacts, PlansTyped DEF SetCookies, At, NextOfApproach, Planned
<1>4. CASE Assemble
  BY <1>4, PlansTyped DEF Assemble, Reads
<1>5. CASE Wait \/ ReadBody \/ ReadCookies
  BY <1>5, PlanFacts, PlansTyped DEF Wait, ReadBody, ReadCookies, NextRead, At, Planned
<1> QED BY <1>1, <1>2, <1>3, <1>4, <1>5, SolveFrame DEF TypeOK, Plans

\* The answer keeps its type.
LEMMA AnswerTyped ==
  ASSUME TypeOK, Solve
  PROVE  answer' \in Answers
<1>1. answer \in Answers /\ doc.kind \in Kind /\ jar \in 0 .. JarMax
  <2>1. doc \in Documents
    BY DEF TypeOK, Documents
  <2> QED BY <2>1, DocumentsTyped DEF TypeOK, Answers
<1>2. \A kind \in Kind : [answer EXCEPT !.body = kind, !.had = jar] \in Answers
  BY <1>1 DEF Answers
<1>3. [answer EXCEPT !.cookies = jar] \in Answers
  BY <1>1 DEF Answers
<1> QED BY <1>1, <1>2, <1>3, SolveFrame DEF ReadBody, ReadCookies

\* What the loops count keeps its type.
LEMMA LoopTyped ==
  ASSUME TypeOK, Solve
  PROVE  /\ raced' \in BOOLEAN /\ reserved' \in BOOLEAN
         /\ pressed' \in 0 .. Cooldown /\ pass' \in PassTimes \cup {0} /\ passes' \in 0 .. 2
<1> USE ConstantsTyped DEF TypeOK, unmovedByEngine, loopVars
<1>1. CASE Load
  BY <1>1 DEF Load, Launch, Start, Navigate, Arrive, SetCookies
<1>2. CASE PressWidget
  BY <1>2 DEF PressWidget, WidgetShows, NoWidget, PressOnce, Pressed, PressesOver, AtMost
<1>3. CASE Judge
  <2>1. RoomForBoth \in BOOLEAN
    BY ConstantsAssumption DEF RoomForBoth
  <2> QED BY <1>3, <2>1 DEF Judge, LookFindsChallenge, LookFindsDenied, LookIsClear, Settled, LookRaces
<1>4. CASE Clear
  <2>1. CASE Strike
    <3>1. pressed' \in {0, pressed} /\ UNCHANGED <<raced, reserved, pass, passes>>
      BY <2>1 DEF Strike
    <3> QED BY <3>1
  <2>2. CASE LoopLooks \/ ReadMarkup \/ ConfirmClear \/ PaidSolverEnds
    BY <2>2 DEF LoopLooks, ReadMarkup, ConfirmClear, PaidSolverEnds
  <2>3. CASE ReadToken \/ Check \/ Escalate \/ Gone \/ GoneTimesOut \/ Verified
    BY <2>3 DEF ReadToken, Check, Escalate, Gone, GoneTimesOut, Verified
  <2> QED BY <1>4, <2>1, <2>2, <2>3 DEF Clear
<1>5. CASE Respond
  BY <1>5 DEF Respond, Await, Assemble, Wait, ReadBody, ReadCookies
<1>6. CASE CutOff \/ Raises
  BY <1>6 DEF CutOff, Raises
<1> QED BY <1>1, <1>2, <1>3, <1>4, <1>5, <1>6 DEF Solve

\* The reply keeps its type.
LEMMA ReplyTyped ==
  ASSUME TypeOK, Solve
  PROVE  reply' \in {"none", "page", "error", "timeout"}
<1> USE DEF TypeOK, Goto, Sleep, Raise, End, unmovedByEngine
<1>1. CASE Load
  BY <1>1 DEF Load, Launch, Start, Navigate, Arrive, SetCookies
<1>2. CASE PressWidget
  BY <1>2 DEF PressWidget, WidgetShows, NoWidget, PressOnce, Pressed, PressesOver
<1>3. CASE Judge
  BY <1>3 DEF Judge, LookFindsChallenge, LookFindsDenied, LookIsClear, Settled, LookRaces
<1>4. CASE Clear
  BY <1>4 DEF Clear, LoopLooks, ReadToken, ReadMarkup, Strike, Check, ConfirmClear, Escalate,
    PaidSolverEnds, Gone, GoneTimesOut, Verified
<1>5. CASE Respond
  BY <1>5 DEF Respond, Await, Assemble, NextRead, Wait, ReadBody, ReadCookies
<1>6. CASE CutOff \/ Raises
  BY <1>6 DEF CutOff, Raises
<1> QED BY <1>1, <1>2, <1>3, <1>4, <1>5, <1>6 DEF Solve

\* Every step keeps the types, given what the plans can be.
LEMMA TypesNext ==
  ASSUME TypeOK, Planned, [Next]_vars
  PROVE  TypeOK'
<1>1. doc' \in Documents
  BY DocTyped
<1>2. CASE Solve
  <2>1. jar' = jar /\ clock' = clock /\ req' = req /\ planted' \in BOOLEAN /\ carried' \in BOOLEAN
    BY <1>2, SolveFrame DEF TypeOK, SetCookies, Arrive, Escalate
  <2>2. begun' \in Nat
    BY <1>2, SolveFrame DEF TypeOK, Start, Raises
  <2> QED BY <1>1, <1>2, <2>1, <2>2, WakeSteps, TodoTyped, AnswerTyped, LoopTyped, ReplyTyped, SolveFlow
    DEF TypeOK, Documents, Answers, Plans
<1>3. CASE Site
  <2>1. jar' \in 0 .. JarMax /\ carried' \in BOOLEAN
    <3>1. jar \in 0 .. JarMax /\ carried \in BOOLEAN /\ planted \in BOOLEAN
      BY DEF TypeOK
    <3> QED BY <1>3, <3>1, SiteFrame, ConstantsTyped
  <2> QED BY <1>1, <1>3, <2>1, SiteFrame DEF TypeOK, Documents, fixedVars, loopVars
<1>4. CASE Tick
  <2>1. clock' \in Nat /\ pressed' \in 0 .. Cooldown
    <3>1. clock \in Nat /\ pressed \in 0 .. Cooldown
      BY DEF TypeOK
    <3>2. AtMost(Cooldown, pressed + 1) \in 0 .. Cooldown
      BY <3>1, ConstantsTyped DEF AtMost
    <3> QED BY <1>4, <3>1, <3>2 DEF Tick
  <2> QED BY <1>1, <1>4, <2>1 DEF Tick, TypeOK, Documents, fixedVars
<1>5. CASE UNCHANGED vars
  BY <1>5 DEF TypeOK, vars, siteVars, fixedVars, loopVars
<1> QED BY <1>2, <1>3, <1>4, <1>5 DEF Next

-----------------------------------------------------------------------------
(* Time *)

\* A step that ends the solve makes nothing due.
LEMMA EndsNow ==
  ASSUME TypeOK, Solve, pc' = "done"
  PROVE  wake' = clock
<1> SUFFICES wake' = clock + 0
  BY DEF TypeOK
<1> USE DEF Goto, Sleep, Raise, End, At
<1>1. CASE Load
  BY <1>1 DEF Load, Launch, Start, Navigate, Arrive, SetCookies, NextOfApproach
<1>2. CASE PressWidget
  BY <1>2 DEF PressWidget, WidgetShows, NoWidget, PressOnce, Pressed, PressesOver
<1>3. CASE Judge
  BY <1>3 DEF Judge, LookFindsChallenge, LookFindsDenied, LookIsClear, Settled,
    LookRaces
<1>4. CASE Clear
  BY <1>4 DEF Clear, LoopLooks, ReadToken, ReadMarkup, Strike, Check, ConfirmClear, Solved,
    Escalate, PaidSolverEnds, Gone, GoneTimesOut, Verified
<1>5. CASE Respond
  BY <1>5 DEF Respond, Await, Assemble, NextRead, Wait, ReadBody, ReadCookies
<1>6. CASE CutOff \/ Raises
  BY <1>6 DEF CutOff, Raises
<1> QED BY <1>1, <1>2, <1>3, <1>4, <1>5, <1>6 DEF Solve

\* What a step from before the solve's own clock can be, and what sets that clock.
LEMMA ClockStarts ==
  ASSUME Solve, pc \in {"launch", "start"}
  PROVE  \/ pc' = "start"
         \/ Start /\ pc' = "approach"
         \/ Raises /\ begun' = clock /\ pc' = "done"
<1> USE DEF Goto, Sleep, Raise, End, At
<1>1. CASE Load
  <2>1. Launch \/ Start
    BY <1>1 DEF Load, Navigate, Arrive, SetCookies
  <2>2. Launch => pc' = "start"
    BY DEF Launch
  <2>3. Start => pc' = "approach"
    BY DEF Start
  <2> QED BY <2>1, <2>2, <2>3
<1>2. ~PressWidget /\ ~Judge
  BY DEF PressWidget, WidgetShows, NoWidget, PressOnce, Pressed, PressesOver, Judge,
    LookFindsChallenge, LookFindsDenied, LookIsClear, Settled, LookRaces
<1>3. ~Clear /\ ~Respond
  BY DEF Clear, LoopLooks, ReadToken, ReadMarkup, Strike, Check, ConfirmClear, Escalate,
    PaidSolverEnds, Gone, GoneTimesOut, Verified, Respond, Await, Assemble, Wait, ReadBody,
    ReadCookies
<1>4. CASE CutOff \/ Raises
  BY <1>4 DEF CutOff, Cuttable, Raises
<1> QED BY <1>1, <1>2, <1>3, <1>4 DEF Solve

\* The solve's own clock is started once.
LEMMA ClockKept ==
  ASSUME Solve, pc \notin {"launch", "start"}
  PROVE  begun' = begun /\ pc' \notin {"launch", "start"}
<1>1. ~Launch /\ ~Start
  BY DEF Launch, Start, At
<1> QED BY <1>1, SolveFrame, SolveFlow DEF Raises

\* Every step keeps the time: only Tick moves it, and not past the cut-off.
LEMMA ClockedNext ==
  ASSUME TypeOK, Clocked, TypeOK', [Next]_vars
  PROVE  Clocked'
<1> USE DEF Clocked, Cuttable
<1>1. CASE pc = "done" \/ UNCHANGED vars
  <2>1. UNCHANGED vars
    BY <1>1, DoneIsDone
  <2> QED BY <2>1 DEF vars, siteVars, fixedVars, loopVars, Cutoff, LeftOfShare
<1>2. CASE pc # "done" /\ Solve
  <2>1. clock' = clock /\ req' = req /\ clock \in Nat /\ begun \in Nat /\ req.share \in Nat
    BY <1>2, SolveFrame, Times DEF TypeOK
  <2>2. clock' <= wake'
    BY <1>2, <2>1, WakeSteps
  <2>3. Cutoff = AtLeast(begun + 1, req.share) /\ Cutoff' = AtLeast(begun' + 1, req.share)
    <3>1. begun' \in Nat
      BY DEF TypeOK
    <3>2. \A b, n \in Nat : b + AtLeast(1, n - b) = AtLeast(b + 1, n)
      BY DEF AtLeast
    <3> QED BY <2>1, <3>1, <3>2 DEF Cutoff, LeftOfShare
  <2>4. CASE pc \in {"launch", "start"}
    <3>1. pc' = "start" \/ begun' = clock
      BY <1>2, <2>4, ClockStarts DEF Start
    <3>2. pc' # "start" => clock <= Cutoff' /\ clock <= AtLeast(begun', req.share) + 1
      BY <2>1, <2>3, <3>1 DEF AtLeast
    <3> QED BY <1>2, <2>1, <2>2, <3>1, <3>2, EndsNow
  <2>5. CASE pc \notin {"launch", "start"}
    <3>1. begun' = begun /\ pc' \notin {"launch", "start"}
      BY <1>2, <2>5, ClockKept
    <3>2. clock <= Cutoff /\ Cutoff' = Cutoff
      BY <1>2, <2>3, <2>5, <3>1
    <3>3. clock <= AtLeast(begun', req.share) + 1
      BY <2>1, <2>3, <3>1, <3>2 DEF AtLeast
    <3> QED BY <1>2, <2>1, <2>2, <2>5, <3>1, <3>2, <3>3, EndsNow
  <2> QED BY <2>4, <2>5
<1>3. CASE Site
  <2>1. UNCHANGED <<clock, wake, pc, begun, req>>
    BY <1>3, SiteFrame DEF fixedVars
  <2>2. Cutoff' = Cutoff
    BY <2>1 DEF Cutoff, LeftOfShare
  <2> QED BY <2>1, <2>2
<1>4. CASE pc # "done" /\ Tick
  <2>1. UNCHANGED <<wake, pc, begun, req>> /\ clock' = clock + 1 /\ clock < wake
        /\ (pc \in {"launch", "start"} \/ clock < Cutoff)
    BY <1>4 DEF Tick, fixedVars
  <2>2. Cutoff' = Cutoff /\ Cutoff \in Nat
    BY <2>1, Times DEF Cutoff, LeftOfShare
  <2>3. clock \in Nat /\ wake \in Nat /\ begun \in Nat
    BY DEF TypeOK
  <2> QED BY <1>4, <2>1, <2>2, <2>3
<1> QED BY <1>1, <1>2, <1>3, <1>4 DEF Next

-----------------------------------------------------------------------------
(* The kernels *)

\* Every step keeps to the plan; a document loaded later carries the cookies too.
LEMMA PlannedNext ==
  ASSUME TypeOK, Clocked, Planned, [Next]_vars
  PROVE  Planned'
<1>1. CASE Solve
  <2>1. req' = req /\ planted \in BOOLEAN /\ carried \in BOOLEAN /\ req.cookies \in BOOLEAN
    BY <1>1, SolveFrame DEF TypeOK, Request
  <2>2. planted => planted'
    BY <1>1, SolveFrame DEF SetCookies
  <2>3. CASE Start
    BY <2>1, <2>3, PlanFacts DEF Start, Goto, Sleep, Approach, Planned, Loaded
  <2>4. CASE Arrive
    <3>1. carried' = planted /\ planted' = planted /\ NextOfApproach(Tail(todo)) /\ pc = "arrive"
      BY <2>4 DEF Arrive, At
    <3>2. CASE todo = <<"navigate">> /\ (req.cookies => planted)
      BY <2>1, <3>1, <3>2, PlanFacts DEF NextOfApproach, Goto, Sleep, Planned, Loaded
    <3>3. CASE req.cookies /\ todo = <<"navigate", "setCookies", "navigate">>
      BY <2>1, <3>1, <3>3, PlanFacts DEF NextOfApproach, Goto, Sleep, Planned, Loaded
    <3> QED BY <3>1, <3>2, <3>3 DEF Planned
  <2>5. CASE SetCookies
    <3>1. planted' = TRUE /\ NextOfApproach(Tail(todo)) /\ todo = <<"setCookies", "navigate">>
      BY <2>5, PlanFacts DEF SetCookies, At, Planned
    <3> QED BY <2>1, <3>1, PlanFacts DEF NextOfApproach, Goto, Sleep, Planned, Loaded
  <2>6. CASE Navigate
    <3>1. pc = "approach" /\ pc' = "arrive" /\ todo' = todo /\ planted' = planted /\ Head(todo) = "navigate"
      BY <2>6 DEF Navigate, At, Sleep
    <3> QED BY <2>1, <3>1, PlanFacts DEF Planned, Loaded
  <2>7. CASE ~Start /\ ~Arrive /\ ~SetCookies /\ ~Navigate
    <3>1. pc' \notin {"approach", "arrive"} /\ (Loaded' => Loaded)
      BY <1>1, <2>7, SolveFlow
    <3>2. carried' = carried \/ carried' = planted
      BY <1>1, <2>7, SolveFrame DEF Escalate
    <3>3. pc' = "read" => todo' \in {<<"wait", "body", "cookies">>, <<"body", "cookies">>, <<"cookies">>}
      <4>1. Assemble => todo' \in {<<"wait", "body", "cookies">>, <<"cookies">>}
        BY DEF Assemble, Reads
      <4>2. (Wait \/ ReadBody \/ ReadCookies) /\ pc' = "read" =>
              todo' \in {<<"body", "cookies">>, <<"cookies">>}
        BY PlanFacts DEF Wait, ReadBody, ReadCookies, NextRead, At, End, Goto, Sleep, Planned
      <4> QED BY <1>1, <4>1, <4>2, SolveFlow
    <3> QED BY <2>1, <2>2, <3>1, <3>2, <3>3 DEF Planned
  <2> QED BY <2>3, <2>4, <2>5, <2>6, <2>7
<1>2. CASE Site
  <2>1. UNCHANGED <<pc, req, todo, planted>> /\ (carried' = carried \/ carried' = planted)
    BY <1>2, SiteFrame DEF fixedVars
  <2> QED BY <2>1 DEF Planned, Loaded
<1>3. CASE Tick \/ UNCHANGED vars
  <2>1. UNCHANGED <<pc, req, todo, planted, carried>>
    BY <1>3 DEF Tick, vars, siteVars, fixedVars
  <2> QED BY <2>1 DEF Planned, Loaded
<1> QED BY <1>1, <1>2, <1>3 DEF Next

-----------------------------------------------------------------------------
(* The answer *)

Answered ==
  /\ answer.had <= jar
  /\ pc # "done" => reply = "none"
  /\ reply = "page" => answer.cookies >= answer.had /\ (req.cookies => carried)

\* Only the last read of a plan answers with a page.
LEMMA PageIsRead ==
  ASSUME Solve, reply = "none", reply' = "page"
  PROVE  (ReadBody \/ ReadCookies) /\ Tail(todo) = <<>>
<1> USE DEF Goto, Sleep, Raise, End, unmovedByEngine
<1>1. ~Load
  BY DEF Load, Launch, Start, Navigate, Arrive, SetCookies
<1>2. ~PressWidget
  BY DEF PressWidget, WidgetShows, NoWidget, PressOnce, Pressed, PressesOver
<1>3. ~Judge
  BY DEF Judge, LookFindsChallenge, LookFindsDenied, LookIsClear, Settled, LookRaces
<1>4. ~Clear
  BY DEF Clear, LoopLooks, ReadToken, ReadMarkup, Strike, Check, ConfirmClear, Escalate,
    PaidSolverEnds, Gone, GoneTimesOut, Verified
<1>5. CASE Respond
  BY <1>5 DEF Respond, Await, Assemble, NextRead, Wait, ReadBody, ReadCookies
<1>6. ~CutOff /\ ~Raises
  BY DEF CutOff, Raises
<1> QED BY <1>1, <1>2, <1>3, <1>4, <1>5, <1>6 DEF Solve

\* Every step keeps the answer: the jar is read last, and only grows.
LEMMA AnsweredNext ==
  ASSUME TypeOK, Clocked, Planned, Answered, [Next]_vars
  PROVE  Answered'
<1> USE DEF Answered
<1>1. CASE pc = "done" \/ UNCHANGED vars
  <2>1. UNCHANGED vars
    BY <1>1, DoneIsDone
  <2> QED BY <2>1 DEF vars, siteVars, fixedVars
<1>2. CASE pc # "done" /\ Solve
  <2>1. jar' = jar /\ req' = req /\ reply = "none" /\ jar \in Nat /\ answer \in Answers
    BY <1>2, SolveFrame, ConstantsTyped DEF TypeOK, Answers
  <2>2. pc' # "done" => reply' = "none"
    BY <1>2, <2>1, SolveFlow
  <2>3. /\ [answer EXCEPT !.body = doc.kind, !.had = jar].had = jar
        /\ [answer EXCEPT !.cookies = jar].had = answer.had
        /\ [answer EXCEPT !.cookies = jar].cookies = jar
    BY <2>1 DEF Answers
  <2>4. answer'.had <= jar
    <3>1. answer' = answer \/ ReadBody \/ ReadCookies
      BY <1>2, SolveFrame
    <3>2. ReadBody => answer'.had = jar
      BY <2>3 DEF ReadBody
    <3>3. ReadCookies => answer'.had = answer.had
      BY <2>3 DEF ReadCookies
    <3> QED BY <2>1, <3>1, <3>2, <3>3
  <2>5. ASSUME reply' = "page" PROVE answer'.cookies >= answer'.had /\ (req.cookies => carried')
    <3>1. pc = "read" /\ carried' = carried /\ (ReadBody \/ ReadCookies) /\ Tail(todo) = <<>>
      BY <1>2, <2>1, <2>5, PageIsRead DEF ReadBody, ReadCookies, At, siteVars
    <3>2. ~ReadBody
      BY <3>1, PlanFacts DEF ReadBody, Planned
    <3>3. answer' = [answer EXCEPT !.cookies = jar]
      BY <3>1, <3>2 DEF ReadCookies
    <3> QED BY <2>1, <2>3, <3>1, <3>3 DEF Planned, Loaded
  <2> QED BY <2>1, <2>2, <2>4, <2>5
<1>3. CASE Site
  <2>1. UNCHANGED <<pc, req, reply, answer>> /\ jar' >= jar /\ pc # "done"
    BY <1>3, SiteFrame DEF fixedVars, TypeOK
  <2>2. answer.had \in Int /\ jar \in Int /\ jar' \in Int
    BY <1>3, SiteFrame DEF TypeOK
  <2> QED BY <2>1, <2>2
<1>4. CASE Tick
  BY <1>4 DEF Tick, fixedVars
<1> QED BY <1>1, <1>2, <1>3, <1>4 DEF Next

-----------------------------------------------------------------------------
(* How long things on the site last *)

Lasting ==
  /\ doc.kind = "guard" => doc.age <= GuardMax
  /\ doc.kind = "gap" => doc.age <= GapMax
  /\ doc.box = "verifying" => pressed <= VerifyMax

\* A document just loaded is no gap, new, and nobody pressed on it.
LEMMA ArrivalFacts ==
  ASSUME NEW d \in Arrivals
  PROVE  d.kind # "gap" /\ d.age = 0 /\ d.box \in {"none", "empty"}
  BY DEF Arrivals

\* A document that is not the one before: another the site moved to, or one loaded.
LEMMA Documented ==
  ASSUME TypeOK, [Next]_vars
  PROVE  \/ doc' = doc /\ pressed' = pressed
         \/ doc' \in Arrivals /\ pressed' = pressed /\ (Arrive \/ Escalate)
         \/ /\ Strike /\ pressed' = 0
            /\ doc'.kind = doc.kind /\ doc'.age = doc.age /\ doc'.box = "verifying"
         \/ /\ Site /\ pressed' = pressed
            /\ doc'.kind \in MovesTo(doc.kind) /\ doc'.age = 0 /\ doc'.box = "none"
         \/ /\ Site /\ pressed' = pressed
            /\ doc'.kind = doc.kind /\ doc'.age = doc.age /\ doc'.box # "verifying"
         \/ /\ Tick /\ pressed' = AtMost(Cooldown, pressed + 1)
            /\ doc'.kind = doc.kind /\ doc'.age = AtMost(RoundMin, doc.age + 1)
            /\ doc'.box = doc.box
<1>1. doc \in Documents
  BY DEF TypeOK, Documents
<1>2. CASE Solve
  <2>1. CASE Arrive \/ Escalate
    BY <2>1 DEF Arrive, Escalate, loopVars
  <2>2. CASE Strike
    <3>1. \/ UNCHANGED <<doc, pressed>>
          \/ doc' = [doc EXCEPT !.box = "verifying"] /\ pressed' = 0
      BY <2>2 DEF Strike
    <3>2. "verifying" \in Box
      BY DEF Box
    <3>3. /\ [doc EXCEPT !.box = "verifying"].kind = doc.kind
          /\ [doc EXCEPT !.box = "verifying"].age = doc.age
          /\ [doc EXCEPT !.box = "verifying"].box = "verifying"
      BY <1>1, <3>2, DocumentsTyped
    <3> QED BY <2>2, <3>1, <3>3
  <2> QED BY <1>2, <2>1, <2>2, SolveFrame
<1>3. CASE Site
  <2>1. pressed' = pressed
    BY <1>3, SiteFrame DEF loopVars
  <2>2. ASSUME NEW box \in {"empty", "filled"}, doc' = [doc EXCEPT !.box = box]
        PROVE  doc'.kind = doc.kind /\ doc'.age = doc.age /\ doc'.box # "verifying"
    <3>1. box \in Box
      BY DEF Box
    <3> QED BY <1>1, <2>2, <3>1, DocumentsTyped
  <2> QED BY <1>3, <2>1, <2>2, SiteFrame
<1>4. CASE Tick
  <2>1. AtMost(RoundMin, doc.age + 1) \in 0 .. RoundMin
    BY <1>1, ConstantsTyped DEF Documents, AtMost
  <2> QED BY <1>1, <1>4, <2>1, DocumentsTyped DEF Tick
<1>5. CASE UNCHANGED vars
  BY <1>5 DEF vars, siteVars, loopVars
<1> QED BY <1>2, <1>3, <1>4, <1>5 DEF Next

\* Nothing gets older than it can: time does not pass over what is overdue.
LEMMA LastingNext ==
  ASSUME TypeOK, Lasting, [Next]_vars
  PROVE  Lasting'
<1> USE ConstantsTyped DEF Lasting
<1>1. doc \in Documents /\ doc.age \in Nat /\ pressed \in Nat
  BY DEF TypeOK, Documents
<1>2. CASE doc' = doc /\ pressed' = pressed
  BY <1>2
<1>3. CASE doc' \in Arrivals /\ pressed' = pressed
  BY <1>3, ArrivalFacts
<1>4. CASE /\ pressed' = 0
           /\ doc'.kind = doc.kind /\ doc'.age = doc.age /\ doc'.box = "verifying"
  BY <1>4
<1>5. CASE /\ pressed' = pressed
           /\ doc'.kind \in MovesTo(doc.kind) /\ doc'.age = 0 /\ doc'.box = "none"
  BY <1>5
<1>6. CASE /\ pressed' = pressed
           /\ doc'.kind = doc.kind /\ doc'.age = doc.age /\ doc'.box # "verifying"
  BY <1>6
<1>7. CASE /\ Tick /\ pressed' = AtMost(Cooldown, pressed + 1)
           /\ doc'.kind = doc.kind /\ doc'.age = AtMost(RoundMin, doc.age + 1)
           /\ doc'.box = doc.box
  <2>1. /\ doc.kind = "guard" => doc.age < GuardMax
        /\ doc.kind = "gap" => doc.age < GapMax
        /\ doc.box = "verifying" => pressed < VerifyMax
    BY <1>1, <1>7 DEF Tick, Overdue
  <2>2. doc'.age <= doc.age + 1 /\ pressed' <= pressed + 1 /\ doc'.age \in Int /\ pressed' \in Int
    BY <1>1, <1>7 DEF AtMost
  <2> QED BY <1>1, <1>7, <2>1, <2>2
<1> QED BY <1>2, <1>3, <1>4, <1>5, <1>6, <1>7, Documented

\* What is left of the time before a step, and of a document's age, as time passes.
LEMMA Ticks ==
  ASSUME TypeOK, Tick
  PROVE  /\ UNCHANGED <<pc, wake, raced, reserved, passes, pass, begun, req, jar, planted, carried>>
         /\ clock' = clock + 1 /\ clock < wake
         /\ doc'.kind = doc.kind /\ doc'.box = doc.box /\ doc'.loads = doc.loads
         /\ doc'.age \in Nat /\ doc'.age <= doc.age + 1 /\ doc.age <= doc'.age
         /\ doc.age < RoundMin => doc'.age = doc.age + 1
<1>1. doc \in Documents /\ doc.age \in 0 .. RoundMin
  BY DEF TypeOK, Documents
<1>2. /\ AtMost(RoundMin, doc.age + 1) \in 0 .. RoundMin
      /\ AtMost(RoundMin, doc.age + 1) <= doc.age + 1
      /\ doc.age <= AtMost(RoundMin, doc.age + 1)
      /\ doc.age < RoundMin => AtMost(RoundMin, doc.age + 1) = doc.age + 1
  BY <1>1, ConstantsTyped DEF AtMost
<1>3. doc' = [doc EXCEPT !.age = AtMost(RoundMin, doc.age + 1)]
  BY DEF Tick
<1>4. /\ doc'.kind = doc.kind /\ doc'.box = doc.box /\ doc'.loads = doc.loads
      /\ doc'.age = AtMost(RoundMin, doc.age + 1)
  BY <1>1, <1>2, <1>3, DocumentsTyped
<1> QED BY <1>2, <1>4 DEF Tick, fixedVars

\* What the site can do to the document.
LEMMA Sites ==
  ASSUME TypeOK, Site
  PROVE  /\ UNCHANGED <<pc, wake, clock, raced, reserved, passes, pass, begun, req>>
         /\ \/ doc'.kind = doc.kind /\ doc'.age = doc.age /\ doc'.loads = doc.loads
            \/ doc'.kind \in MovesTo(doc.kind) /\ doc'.age = 0
         /\ doc'.box # "verifying" \/ doc' = doc
<1>1. doc \in Documents
  BY DEF TypeOK, Documents
<1>2. UNCHANGED <<pc, wake, clock, raced, reserved, passes, pass, begun, req>>
  BY SiteFrame DEF fixedVars, loopVars
<1>3. ASSUME NEW box \in {"empty", "filled"}, doc' = [doc EXCEPT !.box = box]
      PROVE  /\ doc'.kind = doc.kind /\ doc'.age = doc.age /\ doc'.loads = doc.loads
             /\ doc'.box # "verifying"
  <2>1. box \in Box
    BY DEF Box
  <2> QED BY <1>1, <1>3, <2>1, DocumentsTyped
<1> QED BY <1>2, <1>3, SiteFrame

-----------------------------------------------------------------------------
(* The presses of the stealth engine *)

Sparing == pc = "strike" => doc.box # "verifying"

\* A press is sent only once the last one's verification must be over.
LEMMA SparingNext ==
  ASSUME TypeOK, Clocked, Lasting, Sparing, CooldownCoversVerifying, [Next]_vars
  PROVE  Sparing'
<1>1. CASE Solve
  <2>1. SUFFICES ASSUME pc' = "strike" PROVE doc'.box # "verifying"
    BY DEF Sparing
  <2>2. ReadToken
    BY <1>1, <2>1, SolveFlow
  <2>3. pressed >= Cooldown /\ doc' = doc
    BY <2>1, <2>2 DEF ReadToken, CooledDown, Goto, Sleep, unmovedByEngine, siteVars
  <2> QED BY <2>3, ConstantsTyped DEF Lasting, CooldownCoversVerifying, TypeOK
<1>2. CASE Site
  BY <1>2, Sites DEF Sparing
<1>3. CASE Tick
  BY <1>3, Ticks DEF Sparing
<1>4. CASE UNCHANGED vars
  BY <1>4 DEF Sparing, vars, siteVars
<1> QED BY <1>1, <1>2, <1>3, <1>4 DEF Next

-----------------------------------------------------------------------------
(* The second look of the stealth engine *)

\* How long the look at hand is put off, and what the document can have been through
\* since: a gap was there all along, and a gate is younger than that.
Put == IF raced THEN Retry ELSE Confirm

Confirming ==
  pc = "confirm" =>
    /\ wake - clock <= Put
    /\ doc.kind = "gap" => ~raced /\ doc.age + (wake - clock) >= Confirm
    /\ doc.kind = "gate" => doc.age + (wake - clock) <= Put

\* While the look is put off no gap can begin, and one there was grows older.
LEMMA ConfirmingNext ==
  ASSUME TypeOK, Clocked, Lasting, Confirming, ConfirmOutlastsGap, [Next]_vars
  PROVE  Confirming'
<1> SUFFICES ASSUME pc' = "confirm"
             PROVE  /\ wake' - clock' <= Put'
                    /\ doc'.kind = "gap" => ~raced' /\ doc'.age + (wake' - clock') >= Confirm
                    /\ doc'.kind = "gate" => doc'.age + (wake' - clock') <= Put'
  BY DEF Confirming
<1> USE ConstantsTyped DEF ConfirmOutlastsGap
<1>1. clock \in Nat /\ wake \in Nat /\ doc.age \in Nat /\ clock <= wake /\ raced \in BOOLEAN
  BY DEF TypeOK, Clocked
<1>2. CASE LoopLooks
  <2>1. Verdict = "clear" /\ wake' = clock + Confirm /\ raced' = FALSE /\ UNCHANGED <<doc, clock>>
    BY <1>2 DEF LoopLooks, Goto, Sleep, Raise, End, ConfirmAfter, unmovedByEngine, siteVars
  <2>2. doc.kind # "gate"
    BY <2>1 DEF Verdict
  <2> QED BY <1>1, <2>1, <2>2 DEF Put
<1>3. CASE LookRaces
  <2>1. /\ pc = "confirm" /\ clock >= wake /\ wake' = clock + Retry
        /\ raced = FALSE /\ raced' = TRUE /\ doc.age = 0 /\ UNCHANGED <<doc, clock>>
    BY <1>1, <1>3 DEF LookRaces, At, Awake, Sleep, unmovedByEngine, siteVars
  <2> QED BY <1>1, <2>1 DEF Confirming, Put
<1>4. CASE Solve
  BY <1>2, <1>3, <1>4, SolveFlow
<1>5. CASE Site
  <2>1. pc = "confirm" /\ UNCHANGED <<wake, clock, raced>>
    BY <1>5, Sites
  <2>2. CASE doc'.kind = doc.kind /\ doc'.age = doc.age
    BY <1>1, <2>1, <2>2 DEF Confirming, Put
  <2>3. CASE doc'.kind \in MovesTo(doc.kind) /\ doc'.age = 0
    <3>1. doc'.kind = "gap" => doc.kind = "gate" /\ doc.age >= RoundMin
      BY <2>3 DEF MovesTo, TypeOK, Kind
    <3>2. doc'.kind # "gap"
      BY <1>1, <2>1, <3>1 DEF Confirming, Put
    <3> QED BY <1>1, <2>1, <2>3, <3>2 DEF Confirming, Put
  <2> QED BY <1>5, <2>2, <2>3, Sites
<1>6. CASE Tick
  <2>1. /\ pc = "confirm" /\ UNCHANGED <<wake, raced>> /\ clock' = clock + 1
        /\ doc'.kind = doc.kind /\ doc'.age \in Nat /\ doc'.age <= doc.age + 1
    BY <1>6, Ticks
  <2>2. doc.kind = "gap" => doc'.age = doc.age + 1
    BY <1>1, <1>6, Ticks DEF Lasting
  <2> QED BY <1>1, <2>1, <2>2 DEF Confirming, Put
<1>7. CASE UNCHANGED vars
  BY <1>7 DEF Confirming, Put, vars, siteVars, loopVars
<1> QED BY <1>4, <1>5, <1>6, <1>7 DEF Next

\* What ends the second look well.
LEMMA ConfirmsAwake ==
  ASSUME TypeOK, [Next]_vars, pc = "confirm", pc' = "assemble"
  PROVE  clock >= wake
<1> USE DEF Goto, Sleep, Raise, End, At
<1>1. Solve
  BY SiteFrame DEF Tick, vars, Next
<1>2. ~Load /\ ~PressWidget /\ ~Respond
  BY DEF Load, Launch, Start, Navigate, Arrive, SetCookies, PressWidget, WidgetShows, NoWidget,
    PressOnce, Pressed, PressesOver, Respond, Await, Assemble, Wait, ReadBody, ReadCookies
<1>3. CASE Judge
  BY <1>3 DEF Judge, LookFindsChallenge, LookFindsDenied, LookIsClear, Settled, LookRaces
<1>4. CASE Clear
  BY <1>4 DEF Clear, LoopLooks, ReadToken, ReadMarkup, Strike, Check, ConfirmClear, Awake,
    Escalate, PaidSolverEnds, Gone, GoneTimesOut, Verified
<1>5. CASE CutOff \/ Raises
  BY <1>5 DEF CutOff, Raises
<1> QED BY <1>1, <1>2, <1>3, <1>4, <1>5 DEF Solve

-----------------------------------------------------------------------------
(* The settle, and the second verdict on the page *)



Settling ==
  /\ pc = "settle" /\ doc.kind = "guard" => doc.age + (wake - clock) >= Settle
  /\ pc = "look2" /\ doc.kind = "guard" => clock >= SolveDeadline \/ Silent
  /\ pc \in {"gone", "verify"} => doc.kind # "guard"

\* A guard that is still there when the settle ends is silent, or has outlasted it.
LEMMA SettlingNext ==
  ASSUME TypeOK, Clocked, Lasting, Settling, SettleOutlastsGuard, [Next]_vars
  PROVE  Settling'
<1> USE ConstantsTyped DEF SettleOutlastsGuard
<1>1. clock \in Nat /\ wake \in Nat /\ doc.age \in Nat /\ clock <= wake
  BY DEF TypeOK, Clocked
<1>2. CASE Solve
  <2>1. ASSUME pc' = "settle", doc'.kind = "guard"
        PROVE  doc'.age + (wake' - clock') >= Settle
    <3>1. LookIsClear
      BY <1>2, <2>1, SolveFlow
    <3>2. wake' = clock + Settle /\ UNCHANGED <<doc, clock>>
      BY <2>1, <3>1 DEF LookIsClear, Goto, Sleep, unmovedByEngine, siteVars
    <3> QED BY <1>1, <3>2
  <2>2. ASSUME pc' = "look2", doc'.kind = "guard"
        PROVE  clock' >= SolveDeadline' \/ Silent'
    <3>1. Settled
      BY <1>2, <2>2, SolveFlow
    <3>2. /\ pc = "settle" /\ UNCHANGED <<doc, clock, begun, req>>
          /\ Silent \/ clock >= wake \/ clock >= SolveDeadline
      BY <2>2, <3>1 DEF Settled, WentQuiet, Silent, Awake, unmovedByEngine, siteVars, fixedVars
    <3>3. SolveDeadline' = SolveDeadline
      BY <3>2 DEF SolveDeadline, LeftOfShare
    <3>4. ~(clock >= wake)
      BY <1>1, <2>2, <3>2 DEF Settling, Lasting
    <3> QED BY <3>2, <3>3, <3>4 DEF Silent
  <2>3. ASSUME pc' \in {"gone", "verify"}
        PROVE  doc'.kind # "guard"
    <3>1. LookFindsChallenge /\ pc' = "gone" => doc' = doc /\ doc.kind # "guard"
      BY DEF LookFindsChallenge, Verdict, IsChrome, Goto, Sleep, unmovedByEngine, siteVars
    <3>2. Verified => doc' = doc /\ doc.kind # "guard"
      BY DEF Verified, At, Settling, unmovedByEngine, siteVars
    <3>3. GoneTimesOut => doc' = doc /\ doc.kind # "guard"
      BY DEF GoneTimesOut, unmovedByEngine, siteVars
    <3> QED BY <1>2, <2>3, <3>1, <3>2, <3>3, SolveFlow
  <2> QED BY <2>1, <2>2, <2>3 DEF Settling
<1>3. CASE Site
  <2>1. UNCHANGED <<pc, wake, clock, begun, req>>
    BY <1>3, Sites
  <2>2. SolveDeadline' = SolveDeadline
    BY <2>1 DEF SolveDeadline, LeftOfShare
  <2>3. doc'.kind = "guard" => doc.kind = "guard" /\ doc'.age = doc.age /\ doc'.loads = doc.loads
    <3>1. "guard" \notin MovesTo(doc.kind)
      BY DEF TypeOK, Kind, MovesTo
    <3> QED BY <1>3, <3>1, Sites
  <2> QED BY <2>1, <2>2, <2>3 DEF Settling, Silent
<1>4. CASE Tick
  <2>1. /\ UNCHANGED <<pc, wake, begun, req>> /\ clock' = clock + 1
        /\ doc'.kind = doc.kind /\ doc'.loads = doc.loads
        /\ doc'.age \in Nat /\ doc.age <= doc'.age
    BY <1>4, Ticks
  <2>2. SolveDeadline' = SolveDeadline /\ SolveDeadline \in Nat
    BY <2>1, Times DEF SolveDeadline, LeftOfShare
  <2>3. doc.kind = "guard" => doc'.age = doc.age + 1
    <3>1. doc.kind = "guard" => doc.age < GuardMax
      BY <1>1, <1>4 DEF Tick, Overdue
    <3> QED BY <1>1, <1>4, <3>1, Ticks
  <2>4. doc.kind = "guard" /\ Silent => Silent'
    BY <1>1, <2>1 DEF Silent
  <2> QED BY <1>1, <2>1, <2>2, <2>3, <2>4 DEF Settling
<1>5. CASE UNCHANGED vars
  BY <1>5 DEF Settling, Silent, SolveDeadline, LeftOfShare, vars, siteVars, fixedVars
<1> QED BY <1>2, <1>3, <1>4, <1>5 DEF Next

-----------------------------------------------------------------------------
(* The time kept back for the paid solver *)

Pass == {"poll", "token", "markup", "confirm", "strike", "check", "escalate"}

Again == IF raced THEN Retry ELSE 0

\* How far past the deadline the steps of one pass can be due.
Slack ==
  CASE pc = "poll" -> Poll + Again
    [] pc = "token" -> Poll + Retry
    [] pc = "markup" -> Poll + Retry + Again
    [] pc = "confirm" -> Poll + Retry + Confirm + Again
    [] pc = "strike" -> Poll + Retry + ClickMax
    [] OTHER -> LongestPass

Reserving ==
  /\ pc \in {"token", "strike", "check"} => ~raced
  /\ reserved /\ pc \in Pass =>
       Cutoff = SolveDeadline + Margin /\ wake < SolveDeadline - ApiTime + Slack

\* Each step of a pass adds what it can take, and a pass starts before the deadline.
LEMMA ReservingNext ==
  ASSUME TypeOK, Clocked, Reserving, [Next]_vars
  PROVE  Reserving'
<1> USE ConstantsTyped
<1>1. /\ clock \in Nat /\ wake \in Nat /\ clock <= wake
      /\ SolveDeadline \in Nat /\ Cutoff \in Nat /\ raced \in BOOLEAN /\ reserved \in BOOLEAN
  BY Times DEF TypeOK, Clocked
<1>2. LongestPass \in Nat /\ LongestPass >= Poll + Retry + Retry + Confirm
      /\ LongestPass >= Poll + Retry + ClickMax
  BY DEF LongestPass, AtLeast
<1>3. CASE Solve
  <2>1. SUFFICES ASSUME pc' \in Pass PROVE Reserving'
    BY DEF Reserving, Pass
  <2>2. pc \notin {"launch", "start"} /\ begun' = begun /\ req' = req /\ clock' = clock
    <3>1. pc \notin {"launch", "start"}
      BY <1>3, <2>1, ClockStarts DEF Pass
    <3> QED BY <1>3, <3>1, ClockKept, SolveFrame
  <2>3. SolveDeadline' = SolveDeadline /\ Cutoff' = Cutoff
    BY <2>2 DEF SolveDeadline, Cutoff, LeftOfShare
  <2>4. CASE LookFindsChallenge
    <3>1. /\ pc' = "poll" /\ wake' = clock + 0
          /\ reserved' => SolveDeadline - clock > 2 * ApiTime
      BY <2>1, <2>4 DEF LookFindsChallenge, Goto, Sleep, Pass, RoomForBoth
    <3>2. reserved' => Cutoff = SolveDeadline + Margin
      <4>1. begun <= clock /\ begun \in Nat
        BY <2>2 DEF Clocked, TypeOK
      <4> QED BY <1>1, <3>1, <4>1, Times
    <3>3. raced' = FALSE
      BY <2>4 DEF LookFindsChallenge
    <3> QED BY <1>1, <2>3, <3>1, <3>2, <3>3 DEF Reserving, Slack, Again
  <2>5. CASE ~LookFindsChallenge
    <3>1. reserved' = reserved
      BY <1>3, <2>5, SolveFrame
    <3>2. CASE LookRaces
      <4>1. /\ pc' = pc /\ pc \in {"poll", "confirm", "markup"} /\ clock >= wake
            /\ wake' = clock + Retry /\ raced = FALSE /\ raced' = TRUE
        BY <2>1, <3>2 DEF LookRaces, At, Awake, Sleep, Pass
      <4> QED BY <1>1, <2>3, <3>1, <4>1 DEF Reserving, Slack, Again, Pass
    <3>3. CASE LoopLooks
      <4>1. /\ pc = "poll" /\ clock >= wake /\ raced' = FALSE
            /\ \/ pc' \in {"check", "token"} /\ wake' = clock + 0
               \/ pc' = "confirm" /\ wake' = clock + Confirm
        BY <2>1, <3>3 DEF LoopLooks, At, Awake, Goto, Sleep, Raise, End, ConfirmAfter, Pass
      <4> QED BY <1>1, <1>2, <2>3, <3>1, <4>1 DEF Reserving, Slack, Again, Pass
    <3>4. CASE ReadToken
      <4>1. /\ pc = "token" /\ clock >= wake /\ raced' = raced
            /\ \/ pc' \in {"check", "markup"} /\ wake' = clock + 0
               \/ pc' = "strike" /\ \E d \in 0 .. ClickMax : wake' = clock + d
        BY <3>4 DEF ReadToken, At, Awake, Goto, Sleep, loopVars
      <4> QED BY <1>1, <1>2, <2>3, <3>1, <4>1 DEF Reserving, Slack, Again, Pass
    <3>5. CASE ReadMarkup \/ ConfirmClear
      <4>1. /\ pc \in {"markup", "confirm"} /\ clock >= wake /\ raced' = FALSE
            /\ pc' = "check" /\ wake' = clock + 0
        BY <2>1, <3>5 DEF ReadMarkup, ConfirmClear, At, Awake, Goto, Sleep, Solved, Pass
      <4> QED BY <1>1, <1>2, <2>3, <3>1, <4>1 DEF Reserving, Slack, Again, Pass
    <3>6. CASE Strike
      <4>1. pc = "strike" /\ clock >= wake /\ raced' = raced /\ pc' = "check" /\ wake' = clock + 0
        BY <3>6 DEF Strike, At, Awake, Goto, Sleep
      <4> QED BY <1>1, <1>2, <2>3, <3>1, <4>1 DEF Reserving, Slack, Again, Pass
    <3>7. CASE Check
      <4>1. /\ pc = "check" /\ clock >= wake /\ raced' = raced
            /\ \/ pc' = "poll" /\ clock < Deadline /\ wake' = clock + Poll
               \/ pc' = "escalate" /\ wake' = clock + 0
        BY <2>1, <3>7 DEF Check, At, Awake, Goto, Sleep, Raise, End, Pass, loopVars
      <4> QED BY <1>1, <1>2, <2>3, <3>1, <4>1 DEF Reserving, Slack, Again, Pass, Deadline
    <3> QED BY <1>3, <2>1, <2>5, <3>2, <3>3, <3>4, <3>5, <3>6, <3>7, SolveFlow DEF Pass
  <2> QED BY <2>4, <2>5
<1>4. CASE Site \/ Tick
  <2>1. UNCHANGED <<pc, wake, raced, reserved, begun, req>>
    BY <1>4, Sites, Ticks
  <2> QED BY <2>1 DEF Reserving, Slack, Again, SolveDeadline, Cutoff, LeftOfShare
<1>5. CASE UNCHANGED vars
  BY <1>5 DEF Reserving, Slack, Again, SolveDeadline, Cutoff, LeftOfShare, vars, fixedVars, loopVars
<1> QED BY <1>3, <1>4, <1>5 DEF Next

-----------------------------------------------------------------------------
(* The presses of Chrome *)

Fitting ==
  /\ pc = "pressed" => passes >= 1
  /\ passes >= 1 => pass \in PassTimes
  /\ pc = "pressed" /\ passes = 2 => wake < Cutoff

\* A press is started when the last one would fit, and takes little more.
LEMMA FittingNext ==
  ASSUME TypeOK, Clocked, Fitting, PressesAreAlike, [Next]_vars
  PROVE  Fitting'
<1> USE ConstantsTyped
<1>1. clock \in Nat /\ wake \in Nat /\ begun \in Nat /\ Cutoff \in Nat /\ SolveDeadline \in Nat
  BY Times DEF TypeOK
<1>2. CASE Solve
  <2>1. CASE PressOnce
    <3>1. PICK p \in PassTimes : pass' = p /\ wake' = clock + p
      BY <2>1 DEF PressOnce, Sleep
    <3>2. /\ passes' = AtMost(2, passes + 1) /\ clock + pass < SolveDeadline
          /\ UNCHANGED <<begun, req>> /\ pc = "press"
      BY <2>1 DEF PressOnce, Fits, At, unmovedByEngine, fixedVars
    <3>3. Cutoff' = Cutoff
      BY <3>2 DEF Cutoff, LeftOfShare
    <3>4. passes \in 0 .. 2 /\ p \in Nat
      BY ConstantsAssumption DEF TypeOK
    <3>5. passes' >= 1
      BY <3>2, <3>4 DEF AtMost
    <3>6. ASSUME passes' = 2 PROVE wake' < Cutoff
      <4>1. pass \in PassTimes /\ pass \in Nat \ {0}
        <5>1. passes >= 1
          BY <3>2, <3>4, <3>6 DEF AtMost
        <5> QED BY <5>1, ConstantsAssumption DEF Fitting
      <4>2. p <= pass + Margin
        BY <4>1 DEF PressesAreAlike
      <4>3. begun <= clock
        BY <3>2 DEF Clocked
      <4>4. Cutoff = SolveDeadline + Margin
        BY <1>1, <3>2, <4>1, <4>3, Times
      <4> QED BY <1>1, <3>1, <3>2, <3>4, <4>1, <4>2, <4>4
    <3> QED BY <3>1, <3>3, <3>5, <3>6 DEF Fitting
  <2>2. CASE ~PressOnce
    <3>1. UNCHANGED <<pass, passes>> /\ pc' # "pressed"
      BY <1>2, <2>2, SolveFrame, SolveFlow
    <3> QED BY <3>1 DEF Fitting
  <2> QED BY <2>1, <2>2
<1>3. CASE Site \/ Tick
  <2>1. UNCHANGED <<pc, wake, pass, passes, begun, req>>
    BY <1>3, Sites, Ticks
  <2> QED BY <2>1 DEF Fitting, Cutoff, LeftOfShare
<1>4. CASE UNCHANGED vars
  BY <1>4 DEF Fitting, Cutoff, LeftOfShare, vars, fixedVars, loopVars
<1> QED BY <1>2, <1>3, <1>4 DEF Next

\* Only the cut-off gives the engine's own timeout for an answer.
LEMMA TimeoutIsCut ==
  ASSUME Solve, reply = "none", reply' = "timeout"
  PROVE  CutOff
<1> USE DEF Goto, Sleep, Raise, End, unmovedByEngine
<1>1. ~Load
  BY DEF Load, Launch, Start, Navigate, Arrive, SetCookies
<1>2. ~PressWidget
  BY DEF PressWidget, WidgetShows, NoWidget, PressOnce, Pressed, PressesOver
<1>3. ~Judge
  BY DEF Judge, LookFindsChallenge, LookFindsDenied, LookIsClear, Settled, LookRaces
<1>4. ~Clear
  BY DEF Clear, LoopLooks, ReadToken, ReadMarkup, Strike, Check, ConfirmClear, Escalate,
    PaidSolverEnds, Gone, GoneTimesOut, Verified
<1>5. ~Respond
  BY DEF Respond, Await, Assemble, NextRead, Wait, ReadBody, ReadCookies
<1>6. ~Raises
  BY DEF Raises
<1> QED BY <1>1, <1>2, <1>3, <1>4, <1>5, <1>6 DEF Solve

-----------------------------------------------------------------------------
(* What a solve promises *)

Inv == TypeOK /\ Clocked /\ Planned /\ Answered /\ Lasting /\ Reserving

\* All of it holds of a request just handed over.
LEMMA InitFacts ==
  ASSUME Init
  PROVE  TypeOK /\ Clocked /\ Planned /\ Answered /\ Lasting /\ Reserving
         /\ Sparing /\ Confirming /\ Settling /\ Fitting
<1> USE ConstantsTyped
<1>1. TypeOK
  <2>1. doc \in Documents /\ answer \in Answers
    BY DEF Init, Documents, Answers, Kind, Box
  <2>2. req \in Request /\ todo \in Plans
    BY PlansTyped, ConstantsAssumption DEF Init
  <2>3. planted \in BOOLEAN /\ carried \in BOOLEAN /\ raced \in BOOLEAN /\ reserved \in BOOLEAN
    BY Zenon DEF Init
  <2>4. /\ jar \in 0 .. JarMax /\ clock \in Nat /\ wake \in Nat /\ begun \in Nat
        /\ pressed \in 0 .. Cooldown /\ pass \in PassTimes \cup {0} /\ passes \in 0 .. 2
        /\ pc \in Step /\ reply \in {"none", "page", "error", "timeout"}
    BY DEF Init, Step
  <2> QED BY <2>1, <2>2, <2>3, <2>4 DEF TypeOK, Documents, Answers, Plans
<1>2. Clocked /\ Planned /\ Answered /\ Reserving
  BY DEF Init, Clocked, Cuttable, Planned, Loaded, Answered, Reserving, Pass
<1>3. Lasting /\ Sparing /\ Confirming /\ Settling /\ Fitting
  BY DEF Init, Lasting, Sparing, Confirming, Settling, Fitting
<1> QED BY <1>1, <1>2, <1>3

\* The parts that need no condition are an inductive invariant together.
LEMMA InvHolds == Spec => []Inv
<1>1. Init => Inv
  BY InitFacts DEF Inv
<1>2. Inv /\ [Next]_vars => Inv'
  <2>1. SUFFICES ASSUME Inv, [Next]_vars PROVE Inv'
    OBVIOUS
  <2>2. TypeOK'
    BY <2>1, TypesNext DEF Inv
  <2> QED BY <2>1, <2>2, ClockedNext, PlannedNext, AnsweredNext, LastingNext, ReservingNext DEF Inv
<1> QED BY <1>1, <1>2, PTL DEF Spec

\* Every state of a solve has its types: no kernel is asked for more than it yields, and
\* no counter runs over.
THEOREM TypesHold == Spec => []TypeOK
<1>1. Inv => TypeOK
  BY DEF Inv
<1> QED BY <1>1, InvHolds, PTL

\* Whatever the browser, the site and the paid solver take, an engine is late by no more
\* than the second it is always left.
THEOREM ShareIsKept == Spec => []EngineKeepsItsShare
<1>1. Inv => EngineKeepsItsShare
  BY DEF Inv, Clocked, EngineKeepsItsShare
<1> QED BY <1>1, InvHolds, PTL

\* Wherever the site moves, a page that is answered was fetched with the caller's cookies.
THEOREM CookiesAreUsed == Spec => []CallerCookiesAreUsed
<1>1. Inv => CallerCookiesAreUsed
  BY DEF Inv, Answered, CallerCookiesAreUsed
<1> QED BY <1>1, InvHolds, PTL

\* However many cookies the page sets while it is read, those it had with its body are in
\* the answer.
THEOREM CookiesAreComplete == Spec => []CookiesCoverBody
<1>1. Inv => CookiesCoverBody
  BY DEF Inv, Answered, CookiesCoverBody
<1> QED BY <1>1, InvHolds, PTL

\* The paid solver starts with its time and the margin left, but for one pass.
THEOREM PaidSolverHasItsTime == Spec => []ReserveIsKept
<1>1. Inv => ReserveIsKept
  <2>1. SUFFICES ASSUME Inv, pc = "escalate", reserved
                 PROVE  Cutoff - clock > ApiTime + Margin - LongestPass
    BY DEF ReserveIsKept
  <2>2. /\ clock \in Nat /\ wake \in Nat /\ clock <= wake
        /\ Cutoff \in Nat /\ SolveDeadline \in Nat /\ LongestPass \in Nat
    BY <2>1, Times, ConstantsTyped DEF Inv, TypeOK, Clocked, LongestPass, AtLeast
  <2>3. Cutoff = SolveDeadline + Margin /\ wake < SolveDeadline - ApiTime + LongestPass
    BY <2>1 DEF Inv, Reserving, Pass, Slack
  <2> QED BY <2>2, <2>3, ConstantsTyped
<1> QED BY <1>1, InvHolds, PTL

\* While a verification ends within the cooldown, no press ever lands on one.
THEOREM PressSpares ==
  ASSUME CooldownCoversVerifying
  PROVE  Spec => []PressSparesVerification
<1>1. Init => Sparing
  BY InitFacts
<1>2. Inv /\ Sparing /\ [Next]_vars => Sparing'
  BY SparingNext, CooldownCoversVerifying DEF Inv
<1>3. Sparing => PressSparesVerification
  BY DEF Sparing, PressSparesVerification
<1> QED BY <1>1, <1>2, <1>3, InvHolds, PTL DEF Spec

\* While the second look comes after any gap and before any round is over, what it finds
\* clear is not a gap.
THEOREM SecondLookIsNoGap ==
  ASSUME ConfirmOutlastsGap
  PROVE  Spec => ConfirmedIsNoGap
<1>1. Init => Confirming
  BY InitFacts
<1>2. Inv /\ Confirming /\ [Next]_vars => Confirming'
  BY ConfirmingNext, ConfirmOutlastsGap DEF Inv
<1>3. ASSUME Inv, Confirming, [Next]_vars, pc = "confirm", pc' = "assemble"
      PROVE  doc.kind # "gap"
  <2>1. clock >= wake /\ clock \in Nat /\ wake \in Nat /\ doc.age \in Nat
    BY <1>3, ConfirmsAwake DEF Inv, TypeOK
  <2> QED BY <1>3, <2>1, ConstantsTyped, ConfirmOutlastsGap DEF Inv, Confirming, Lasting, ConfirmOutlastsGap
<1>4. Inv /\ Confirming /\ [Next]_vars => [pc = "confirm" /\ pc' = "assemble" => doc.kind # "gap"]_vars
  BY <1>3
<1> QED BY <1>1, <1>2, <1>4, InvHolds, PTL DEF Spec, ConfirmedIsNoGap

\* While presses differ by no more than the margin, none after the first is cut off.
THEOREM LaterPressesFit ==
  ASSUME PressesAreAlike
  PROVE  Spec => PressesAreNotCutOff
<1>1. Init => Fitting
  BY InitFacts
<1>2. Inv /\ Fitting /\ [Next]_vars => Fitting'
  BY FittingNext, PressesAreAlike DEF Inv
<1>3. ASSUME Inv, Fitting, [Next]_vars, pc = "pressed", passes = 2
      PROVE  reply' # "timeout"
  <2>1. reply = "none" /\ clock < Cutoff
    BY <1>3, Times DEF Inv, Answered, Clocked, Fitting, TypeOK
  <2>2. ~CutOff
    BY <2>1, <1>3, Times DEF CutOff, Inv, TypeOK
  <2>3. Solve => reply' # "timeout"
    BY <2>1, <2>2, TimeoutIsCut
  <2>4. ~Solve => reply' = reply
    BY <1>3, SiteFrame DEF Next, Tick, vars
  <2> QED BY <2>1, <2>3, <2>4
<1>4. Inv /\ Fitting /\ [Next]_vars => [pc = "pressed" /\ passes = 2 => reply' # "timeout"]_vars
  BY <1>3
<1> QED BY <1>1, <1>2, <1>4, InvHolds, PTL DEF Spec, PressesAreNotCutOff

\* While the settle outlasts a guard, a guard is called the page only after it went quiet,
\* or when there was no time left to wait for it: never one that keeps loading.
THEOREM SettleTellsGuards ==
  ASSUME SettleOutlastsGuard
  PROVE  Spec => GuardIsNotThePage
<1>1. Init => Settling
  BY InitFacts
<1>2. Inv /\ Settling /\ [Next]_vars => Settling'
  BY SettlingNext, SettleOutlastsGuard DEF Inv
<1>3. ASSUME Inv, Settling, [Next]_vars, doc.kind = "guard", pc # "await", pc' = "await"
      PROVE  clock >= SolveDeadline \/ Silent
  <2>1. LookIsClear \/ Gone
    BY <1>3, SiteFrame, SolveFlow DEF Next, Tick, vars
  <2>2. ~Gone
    BY <1>3 DEF Gone, Settling
  <2>3. pc = "look2"
    BY <1>3, <2>1, <2>2 DEF LookIsClear, At, Sleep
  <2> QED BY <1>3, <2>3 DEF Settling
<1>4. Inv /\ Settling /\ [Next]_vars =>
        [doc.kind = "guard" /\ pc # "await" /\ pc' = "await"
           => clock >= SolveDeadline \/ (~doc.loads /\ doc.age >= Quiet)]_vars
  BY <1>3 DEF Silent
<1> QED BY <1>1, <1>2, <1>4, InvHolds, PTL DEF Spec, GuardIsNotThePage
=============================================================================
