----------------------------- MODULE EngineSolve -----------------------------
(***************************************************************************)
(* One solve on one browser, by either engine (chrome_engine.py,           *)
(* stealth_engine.py): the share of the request's time it may spend        *)
(* (budget.py), loading the page and judging it (pipeline.py,              *)
(* detection.py), getting past a challenge, and assembling the answer      *)
(* (assembly.py), while the site changes the document under it.            *)
(*                                                                         *)
(* The site is the environment.  A document is what the looks can tell     *)
(* apart: a guard (a site's own check, which may keep loading or sit       *)
(* silent), the page, a gate (a challenge), a gap (Cloudflare has dropped  *)
(* the markup of one round and not issued the next) or a denial; and its   *)
(* Turnstile widget.                                                       *)
(*                                                                         *)
(* Abstractions.  Time is in whole units and passes only while the engine  *)
(* sleeps or waits: every step sets the time it is due at (wake).  A look  *)
(* at the selectors of one document is one step.  Waiting for a session is *)
(* part of the launch; its locks are in SessionStore.  Blocked media, the  *)
(* throwaway page of the paid solver, PDFs, headers and screenshots change *)
(* neither the order nor the outcome of these steps and are left out.      *)
(*                                                                         *)
(* A definition marked (variant) is the next one with a bug: nothing uses  *)
(* it but the runs that show a property can fail.                          *)
(***************************************************************************)
EXTENDS Integers, Sequences

CONSTANTS
  Requests,     \* what is asked of an engine, and its share
  ApiOn,        \* a paid CAPTCHA solver is configured
  Margin,       \* SOLVE_MARGIN_SECONDS
  ApiTime,      \* _API_SOLVE_SECONDS
  Poll,         \* _POLL_SECONDS
  Confirm,      \* _CHALLENGE_CONFIRM_SECONDS
  Cooldown,     \* _CLICK_COOLDOWN_SECONDS
  Retry,        \* the pause before a read that raced a navigation is repeated
  Settle,       \* _NETWORKIDLE_MS, and the cap of Chrome's settle
  Quiet,        \* how long a page that loads nothing is quiet before it counts as settled
  Render,       \* _WIDGET_RENDER_SECONDS
  WaitTimeout,  \* BROWSER_WAIT_TIMEOUT
  LaunchMax,    \* the longest a launch takes
  NavMax,       \* the longest a navigation takes
  ClickMax,     \* the longest the reads behind one click of the stealth engine take
  PassTimes,    \* how long one press of the checkbox takes Chrome
  Waits,        \* waitInSeconds
  JarMax,       \* cookies the page sets by itself
  GuardMax, GapMax, VerifyMax,  \* the longest a guard, a gap, a verification lasts
  RoundMin                      \* the shortest a round of the challenge shows

Engine  == {"chrome", "stealth"}
Request == [engine : Engine, share : Nat \ {0}, cookies : BOOLEAN, presses : BOOLEAN,
            only : BOOLEAN]

ASSUME ConstantsAssumption ==
  /\ Requests \subseteq Request
  /\ ApiOn \in BOOLEAN
  /\ {Margin, Cooldown, Settle, Render, LaunchMax, NavMax, ClickMax, JarMax,
      GuardMax, GapMax, VerifyMax} \subseteq Nat
  /\ {ApiTime, Poll, Confirm, Retry, WaitTimeout, RoundMin} \subseteq Nat \ {0}
  /\ PassTimes \subseteq Nat \ {0} /\ Waits \subseteq Nat
  /\ Quiet \in 0 .. RoundMin   \* a document's age is counted up to RoundMin

VARIABLES
  doc,       \* the document the browser shows: its kind, its widget, its age, and
             \* whether it is a guard that keeps loading as long as it lasts
  jar,       \* how many cookies the page has set by itself
  planted,   \* the caller's cookies are in the browser
  carried,   \* the document was fetched with the caller's cookies
  clock,     \* time since the engine was handed the request
  wake,      \* when its next step is due
  pc,        \* where it is
  req,       \* the request
  begun,     \* when the launch was over, well or badly: the solve's own clock starts
  todo,      \* what a kernel (approach, assembly) has still to yield
  raced,     \* the read at hand is already the second try
  reserved,  \* time has been kept back for the paid solver
  pressed,   \* time since the checkbox was last clicked, up to Cooldown
  pass,      \* how long Chrome's last press took, 0 before the first
  passes,    \* how many there were, up to two
  answer,    \* what has been read for the answer so far
  reply      \* how the solve ended

siteVars  == <<doc, jar, carried>>
loopVars  == <<raced, reserved, pressed, pass, passes>>
fixedVars == <<req, begun>>
vars == <<siteVars, planted, clock, wake, pc, fixedVars, todo, loopVars, answer, reply>>

Kind == {"blank", "guard", "page", "gate", "gap", "denied"}
Box  == {"none", "empty", "verifying", "filled"}
Step == {"launch", "start", "approach", "arrive", "widget", "press", "pressed", "look",
         "settle", "look2", "poll", "token", "markup", "strike", "check", "confirm",
         "escalate", "paid", "gone", "verify", "await", "assemble", "read", "done"}

TypeOK ==
  /\ doc \in [kind : Kind, box : Box, age : 0 .. RoundMin, loads : BOOLEAN]
  /\ jar \in 0 .. JarMax /\ planted \in BOOLEAN /\ carried \in BOOLEAN
  /\ clock \in Nat /\ wake \in Nat /\ begun \in Nat
  /\ pc \in Step /\ req \in Request
  /\ todo \in Seq({"navigate", "setCookies", "wait", "body", "cookies"})
  /\ raced \in BOOLEAN /\ reserved \in BOOLEAN
  /\ pressed \in 0 .. Cooldown /\ pass \in PassTimes \cup {0} /\ passes \in 0 .. 2
  /\ answer \in [body : Kind \cup {"none"}, had : 0 .. JarMax, cookies : 0 .. JarMax]
  /\ reply \in {"none", "page", "error", "timeout"}

-----------------------------------------------------------------------------
(* Time: budget.py *)

AtLeast(least, n) == IF n < least THEN least ELSE n
AtMost(most, n) == IF n > most THEN most ELSE n

IsChrome == req.engine = "chrome"

\* remaining_share: the launch comes out of the share, and a second is always left.
LeftOfShareWhole(t) == req.share   \* (variant)
LeftOfShare(t) == AtLeast(1, req.share - t)

\* The solve is cut here: func_timeout, or asyncio.wait_for.
Cutoff == begun + LeftOfShare(begun)

\* solve_deadline: what is kept back builds the response.
SolveDeadline == begun + AtLeast(1, LeftOfShare(begun) - Margin)

\* The deadline of the stealth engine's wait, with the paid solver's time kept back.
DeadlineUnreserved == SolveDeadline   \* (variant)
Deadline == SolveDeadline - (IF reserved THEN ApiTime ELSE 0)

\* There is room for both the free solve and the paid one.
RoomForBoth == ApiOn /\ SolveDeadline - clock > 2 * ApiTime

Awake == clock >= wake
At(step) == pc = step /\ Awake

Sleep(d, step) == wake' = clock + d /\ pc' = step
Goto(step) == Sleep(0, step)

End(how) == Goto("done") /\ reply' = how
Raise == End("error")

-----------------------------------------------------------------------------
(* The kernels both engines drive *)

\* pipeline.approach: cookies need an origin to be set against, and a second load to
\* be sent.
ApproachUnhandled(cookies) == <<"navigate", "settle">>   \* (variant)
ApproachOnce(cookies) ==   \* (variant)
  IF cookies THEN <<"navigate", "setCookies">> ELSE <<"navigate">>
Approach(cookies) ==
  IF cookies THEN <<"navigate", "setCookies", "navigate">> ELSE <<"navigate">>

\* pipeline.verdict: denied first; a bare widget only for the engine that can press one.
Verdict ==
  CASE doc.kind = "denied" -> "denied"
    [] doc.kind = "gate" -> "challenge"
    [] doc.kind \notin {"denied", "gate"} /\ doc.box # "none" /\ ~IsChrome -> "challenge"
    [] OTHER -> "clear"

\* assembly: the wait before the body, the cookie jar after everything.
ReadsCookiesFirst(only) ==   \* (variant)
  IF only THEN <<"cookies">> ELSE <<"cookies", "wait", "body">>
Reads(only) == IF only THEN <<"cookies">> ELSE <<"wait", "body", "cookies">>


-----------------------------------------------------------------------------
(* The site *)

\* What a document can be when a load is over.
Arrivals ==
  [kind : {"guard"}, box : {"none"}, age : {0}, loads : BOOLEAN]
    \cup [kind : {"denied"}, box : {"none"}, age : {0}, loads : {FALSE}]
    \cup [kind : {"page", "gate"}, box : {"none", "empty"}, age : {0}, loads : {FALSE}]

MovesTo(kind) ==
  CASE kind = "guard" -> {"page", "gate", "denied"}
    [] kind = "gap"   -> {"page", "gate", "denied"}
    [] kind = "gate"  -> {"page", "denied"} \cup (IF doc.age >= RoundMin THEN {"gap"} ELSE {})
    [] kind \in {"blank", "page", "denied"} -> {}

unmovedBySite == <<planted, clock, wake, pc, fixedVars, todo, loopVars, answer, reply>>

\* The site moves on to another document; the caller's cookies go with the request.
Moves ==
  /\ \E kind \in MovesTo(doc.kind) :
       doc' = [kind |-> kind, box |-> "none", age |-> 0, loads |-> FALSE]
  /\ carried' = planted
  /\ UNCHANGED <<jar, unmovedBySite>>

WidgetRenders ==
  /\ doc.kind \in {"page", "gate"} /\ doc.box = "none"
  /\ doc' = [doc EXCEPT !.box = "empty"]
  /\ UNCHANGED <<jar, carried, unmovedBySite>>

\* The widget fills its token, after a press or by itself, or turns the press down.
WidgetAnswers ==
  /\ \/ doc.box \in {"empty", "verifying"} /\ doc' = [doc EXCEPT !.box = "filled"]
     \/ doc.box = "verifying" /\ doc' = [doc EXCEPT !.box = "empty"]
  /\ UNCHANGED <<jar, carried, unmovedBySite>>

SetsCookie ==
  /\ doc.kind # "blank" /\ jar < JarMax
  /\ jar' = jar + 1
  /\ UNCHANGED <<doc, carried, unmovedBySite>>

\* What cannot last any longer.
Overdue ==
  \/ doc.kind = "guard" /\ doc.age >= GuardMax
  \/ doc.kind = "gap" /\ doc.age >= GapMax
  \/ doc.box = "verifying" /\ pressed >= VerifyMax

Site == pc # "done" /\ (Moves \/ WidgetRenders \/ WidgetAnswers \/ SetsCookie)

Tick ==
  /\ clock < wake /\ ~Overdue
  /\ pc \in {"launch", "start"} \/ clock < Cutoff
  /\ clock' = clock + 1
  /\ doc' = [doc EXCEPT !.age = AtMost(RoundMin, @ + 1)]
  /\ pressed' = AtMost(Cooldown, pressed + 1)
  /\ UNCHANGED <<jar, carried, planted, wake, pc, fixedVars, todo, raced, reserved, pass,
                 passes, answer, reply>>

-----------------------------------------------------------------------------
Init ==
  /\ doc = [kind |-> "blank", box |-> "none", age |-> 0, loads |-> FALSE]
  /\ jar = 0 /\ planted = FALSE /\ carried = FALSE
  /\ clock = 0 /\ wake = 0 /\ pc = "launch"
  /\ req \in Requests /\ begun = 0 /\ todo = <<>>
  /\ raced = FALSE /\ reserved = FALSE /\ pressed = Cooldown /\ pass = 0 /\ passes = 0
  /\ answer = [body |-> "none", had |-> 0, cookies |-> 0] /\ reply = "none"

(* Launching the browser and loading the page *)

\* The stealth engine bounds its launch by the share, the Chrome one does not.
Launch ==
  /\ At("launch")
  /\ \E d \in 0 .. LaunchMax : (IsChrome \/ d <= req.share) /\ Sleep(d, "start")
  /\ UNCHANGED <<siteVars, planted, clock, fixedVars, todo, loopVars, answer, reply>>

Start ==
  /\ At("start")
  /\ begun' = clock
  /\ todo' = Approach(req.cookies)
  /\ Goto("approach")
  /\ UNCHANGED <<siteVars, planted, clock, req, loopVars, answer, reply>>

Navigate ==
  /\ At("approach") /\ Head(todo) = "navigate"
  /\ \E d \in 0 .. NavMax : Sleep(d, "arrive")
  /\ UNCHANGED <<siteVars, planted, clock, fixedVars, todo, loopVars, answer, reply>>

\* The approach goes on; at its end Chrome presses a checkbox it was given a count
\* for, once the widget shows.
NextOfApproach(rest) ==
  /\ todo' = rest
  /\ \/ rest # <<>> /\ Goto("approach")
     \/ rest = <<>> /\ IsChrome /\ req.presses /\ Sleep(Render, "widget")
     \/ rest = <<>> /\ ~(IsChrome /\ req.presses) /\ Goto("look")

Arrive ==
  /\ At("arrive")
  /\ doc' \in Arrivals
  /\ carried' = planted
  /\ NextOfApproach(Tail(todo))
  /\ UNCHANGED <<jar, planted, clock, fixedVars, loopVars, answer, reply>>

SetCookies ==
  /\ At("approach") /\ Head(todo) = "setCookies"
  /\ planted' = TRUE
  /\ NextOfApproach(Tail(todo))
  /\ UNCHANGED <<siteVars, clock, fixedVars, loopVars, answer, reply>>

-----------------------------------------------------------------------------
(* Chrome presses the checkbox: _resolve_turnstile_captcha *)

unmovedByEngine == <<siteVars, planted, clock, fixedVars, todo, answer>>

WidgetShows ==
  /\ pc = "widget" /\ doc.box # "none"
  /\ Goto("press")
  /\ UNCHANGED <<unmovedByEngine, loopVars, reply>>

NoWidget ==
  /\ At("widget") /\ doc.box = "none"
  /\ Goto("look")
  /\ UNCHANGED <<unmovedByEngine, loopVars, reply>>

\* A pass starts only if the last one's duration still fits.
FitsAtTheTop == clock < SolveDeadline   \* (variant)
Fits == clock + pass < SolveDeadline

PressOnce ==
  /\ At("press") /\ Fits
  /\ \E p \in PassTimes : pass' = p /\ Sleep(p, "pressed")
  /\ passes' = AtMost(2, passes + 1)
  /\ UNCHANGED <<unmovedByEngine, raced, reserved, pressed, reply>>

\* The token has changed, or it has not.
Pressed ==
  /\ At("pressed")
  /\ Goto("look") \/ Goto("press")
  /\ UNCHANGED <<unmovedByEngine, loopVars, reply>>

PressesOver ==
  /\ At("press") /\ ~Fits
  /\ Goto("look")
  /\ UNCHANGED <<unmovedByEngine, loopVars, reply>>

-----------------------------------------------------------------------------
(* The verdict on the page *)

\* A challenge is acted on, a denied page refused.
LookFindsChallenge ==
  /\ At("look") \/ At("look2")
  /\ Verdict = "challenge"
  /\ raced' = FALSE
  /\ \/ IsChrome /\ Sleep(WaitTimeout, "gone") /\ UNCHANGED reserved
     \/ ~IsChrome /\ Goto("poll") /\ reserved' = RoomForBoth
  /\ UNCHANGED <<unmovedByEngine, pressed, pass, passes, reply>>

LookFindsDenied ==
  /\ At("look") \/ At("look2")
  /\ Verdict = "denied"
  /\ Raise
  /\ UNCHANGED <<unmovedByEngine, loopVars>>

\* settled_verdict: only a clean first look waits for the page to settle.
LookIsClear ==
  /\ Verdict = "clear"
  /\ \/ At("look") /\ Sleep(Settle, "settle") /\ UNCHANGED raced
     \/ At("look2") /\ Goto("await") /\ raced' = FALSE
  /\ UNCHANGED <<unmovedByEngine, reserved, pressed, pass, passes, reply>>

\* Nothing has loaded for a while, whatever the document is: Playwright counts from before
\* the settle, Chrome's polls from its start.
Silent == ~doc.loads /\ doc.age >= Quiet
QuietWhileLoading == doc.age >= Quiet   \* (variant)
WentQuiet == Silent /\ (IsChrome => clock - (wake - Settle) >= Quiet)

\* The wait ends when the page went quiet or its time is up; Chrome's at the deadline too.
Settled ==
  /\ pc = "settle"
  /\ WentQuiet \/ Awake \/ (IsChrome /\ clock >= SolveDeadline)
  /\ Goto("look2")
  /\ UNCHANGED <<unmovedByEngine, loopVars, reply>>

\* The document moves under a read of the stealth engine: it looks once more.
LookRaces ==
  /\ \E step \in {"look", "look2", "poll", "confirm", "markup", "paid"} :
       /\ At(step) /\ Sleep(Retry, IF step = "look2" THEN "look" ELSE step)
  /\ ~IsChrome /\ ~raced /\ doc.age = 0
  /\ raced' = TRUE
  /\ UNCHANGED <<unmovedByEngine, reserved, pressed, pass, passes, reply>>

-----------------------------------------------------------------------------
(* The stealth engine waits until the challenge is cleared: _wait_until_cleared *)

\* The page is past its challenge: let the destination settle within the deadline.
Solved ==
  \E d \in 0 .. AtMost(2 * Settle, AtLeast(0, Deadline - clock)) : Sleep(d, "assemble")

\* One look of the loop.  A clear one is not believed at once.
ConfirmedAtOnce == 0   \* (variant)
ConfirmAfter == Confirm

LoopLooks ==
  /\ At("poll")
  /\ \/ Verdict = "denied" /\ Raise
     \/ Verdict = "challenge" /\ doc.box = "none" /\ Goto("check") /\ UNCHANGED reply
     \/ Verdict = "challenge" /\ doc.box # "none" /\ Goto("token") /\ UNCHANGED reply
     \/ Verdict = "clear" /\ Sleep(ConfirmAfter, "confirm") /\ UNCHANGED reply
  /\ raced' = FALSE
  /\ UNCHANGED <<unmovedByEngine, reserved, pressed, pass, passes>>

\* A filled token may mean a solved widget; an empty one earns a press, unless the
\* last press may still be at work.
CooledDownAlways == TRUE   \* (variant)
CooledDown == pressed >= Cooldown

ReadToken ==
  /\ At("token")
  /\ \/ doc.box = "filled" /\ Goto("markup")
     \/ /\ doc.box # "filled" /\ CooledDown
        /\ \E d \in 0 .. ClickMax : Sleep(d, "strike")
     \/ doc.box # "filled" /\ ~CooledDown /\ Goto("check")
  /\ UNCHANGED <<unmovedByEngine, loopVars, reply>>

\* _is_interstitial: a token on a gate is not the end of it, unless the gate is one
\* that the narrow list of markers misses.
ReadMarkup ==
  /\ At("markup")
  /\ \/ doc.kind = "gate" /\ Goto("check")
     \/ Solved
  /\ raced' = FALSE
  /\ UNCHANGED <<unmovedByEngine, reserved, pressed, pass, passes, reply>>

\* The click lands on whatever is there by now.
Strike ==
  /\ At("strike")
  /\ \/ /\ doc.box # "none"
        /\ doc' = [doc EXCEPT !.box = "verifying"]
        /\ pressed' = 0
     \/ doc.box = "none" /\ UNCHANGED <<doc, pressed>>
  /\ Goto("check")
  /\ UNCHANGED <<jar, carried, planted, clock, fixedVars, todo, raced, reserved, pass,
                 passes, answer, reply>>

\* The end of a pass: another one, the paid solver, or giving up.
Check ==
  /\ At("check")
  /\ \/ clock < Deadline /\ Sleep(Poll, "poll") /\ UNCHANGED reply
     \/ clock >= Deadline /\ ApiOn /\ Goto("escalate") /\ UNCHANGED reply
     \/ clock >= Deadline /\ ~ApiOn /\ Raise
  /\ UNCHANGED <<unmovedByEngine, loopVars>>

\* _challenge_stays_gone.
ConfirmClear ==
  /\ At("confirm")
  /\ \/ Verdict = "challenge" /\ Goto("check")
     \/ Verdict # "challenge" /\ Solved
  /\ raced' = FALSE
  /\ UNCHANGED <<unmovedByEngine, reserved, pressed, pass, passes, reply>>

\* The paid solver loads the page again, on a page of its own.
Escalate ==
  /\ At("escalate")
  /\ doc' \in Arrivals /\ carried' = planted
  /\ \E d \in 0 .. ApiTime : Sleep(d, "paid")
  /\ UNCHANGED <<jar, planted, clock, fixedVars, todo, loopVars, answer, reply>>

PaidSolverEnds ==
  /\ At("paid")
  /\ \/ Verdict = "challenge" /\ Raise
     \/ Verdict # "challenge" /\ Solved /\ UNCHANGED reply
  /\ raced' = FALSE
  /\ UNCHANGED <<unmovedByEngine, reserved, pressed, pass, passes>>

-----------------------------------------------------------------------------
(* Chrome waits for the challenge to go: the loop of _evil_logic *)

\* The titles and selectors are gone: wait for the redirect, as long as for them.
Gone ==
  /\ pc = "gone" /\ doc.kind # "gate"
  /\ \E d \in 0 .. WaitTimeout : Sleep(d, "await")
  /\ UNCHANGED <<unmovedByEngine, loopVars, reply>>

\* They are not: try to click, for as long as the share lasts.
GoneTimesOut ==
  /\ At("gone") /\ doc.kind = "gate"
  /\ \E p \in PassTimes : Sleep(p, "verify")
  /\ UNCHANGED <<unmovedByEngine, loopVars, reply>>

Verified ==
  /\ At("verify")
  /\ Sleep(WaitTimeout, "gone")
  /\ UNCHANGED <<unmovedByEngine, loopVars, reply>>

-----------------------------------------------------------------------------
(* The answer *)

\* Without a count Chrome waits for a widget to fill its token by itself.
Await ==
  /\ At("await")
  /\ \E d \in 0 .. Render :
       /\ d > 0 => IsChrome /\ ~req.presses /\ doc.box # "none"
       /\ Sleep(d, "assemble")
  /\ UNCHANGED <<unmovedByEngine, loopVars, reply>>

Assemble ==
  /\ At("assemble")
  /\ todo' = Reads(req.only)
  /\ Goto("read")
  /\ UNCHANGED <<siteVars, planted, clock, fixedVars, loopVars, answer, reply>>

NextRead ==
  /\ todo' = Tail(todo)
  /\ \/ Tail(todo) = <<>> /\ End("page")
     \/ Tail(todo) # <<>> /\ Goto("read") /\ UNCHANGED reply

Wait ==
  /\ At("read") /\ Head(todo) = "wait"
  /\ todo' = Tail(todo)
  /\ \E d \in Waits : Sleep(d, "read")
  /\ UNCHANGED <<siteVars, planted, clock, fixedVars, loopVars, answer, reply>>

ReadBody ==
  /\ At("read") /\ Head(todo) = "body"
  /\ answer' = [answer EXCEPT !.body = doc.kind, !.had = jar]
  /\ NextRead
  /\ UNCHANGED <<siteVars, planted, clock, fixedVars, loopVars>>

ReadCookies ==
  /\ At("read") /\ Head(todo) = "cookies"
  /\ answer' = [answer EXCEPT !.cookies = jar]
  /\ NextRead
  /\ UNCHANGED <<siteVars, planted, clock, fixedVars, loopVars>>

-----------------------------------------------------------------------------
(* The solve is cut off, or a call to the browser raises *)

\* Where func_timeout, or wait_for, can end the solve.
UncutWhileWaiting == pc \notin {"launch", "start", "gone", "done"}   \* (variant)
Cuttable == pc \notin {"launch", "start", "done"}

CutOff ==
  /\ Cuttable /\ clock >= Cutoff
  /\ End("timeout")
  /\ UNCHANGED <<unmovedByEngine, loopVars>>

\* A launch is over when it fails, too.
Raises ==
  /\ pc \notin {"done", "launch"} /\ Awake
  /\ Raise
  /\ begun' = IF pc = "start" THEN clock ELSE begun
  /\ UNCHANGED <<siteVars, planted, clock, req, todo, answer, loopVars>>

-----------------------------------------------------------------------------
Load == Launch \/ Start \/ Navigate \/ Arrive \/ SetCookies
PressWidget == WidgetShows \/ NoWidget \/ PressOnce \/ Pressed \/ PressesOver
Judge == LookFindsChallenge \/ LookFindsDenied \/ LookIsClear \/ Settled \/ LookRaces
Clear == \/ LoopLooks \/ ReadToken \/ ReadMarkup \/ Strike \/ Check \/ ConfirmClear
         \/ Escalate \/ PaidSolverEnds \/ Gone \/ GoneTimesOut \/ Verified
Respond == Await \/ Assemble \/ Wait \/ ReadBody \/ ReadCookies

Solve == Load \/ PressWidget \/ Judge \/ Clear \/ Respond \/ CutOff \/ Raises

Next == Solve \/ Site \/ Tick

Spec == Init /\ [][Next]_vars

\* The engine's thread runs, time passes, and what cannot last any longer ends.
\* Nothing makes a site let anyone past its challenge.
Fairness == WF_vars(Solve) /\ WF_vars(Tick) /\ WF_vars(Overdue /\ (Moves \/ WidgetAnswers))

FairSpec == Spec /\ Fairness

-----------------------------------------------------------------------------
(* What the engines count on: how their waits compare with the site's and with each *)
(* other.  The code measured these and checks none of them.                         *)

\* "Verifying takes a few seconds after a press", fewer than the cooldown.
CooldownCoversVerifying == VerifyMax < Cooldown

\* "Look again after this long": longer than a gap, shorter than a round.
ConfirmOutlastsGap == GapMax < Confirm /\ Confirm < RoundMin /\ Retry < RoundMin

\* The settle after a clean first look is longer than a guard, and a guard no longer
\* than ages are told apart.
SettleOutlastsGuard == GuardMax < Settle /\ GuardMax <= RoundMin

\* One press takes no longer than another and the margin.
PressesAreAlike == \A p, q \in PassTimes : p <= q + Margin

-----------------------------------------------------------------------------
(* Properties *)

\* An engine is late by no more than the second it is always left: launching comes
\* out of the share, and no wait for a challenge runs on past it.
EngineKeepsItsShare ==
  pc = "done" => clock <= AtLeast(begun, req.share) + 1

\* "Skipping the reload leaves the caller's cookies set but unused" (pipeline.py): the
\* page that is answered was fetched with them, wherever the site moved since.
CallerCookiesAreUsed ==
  reply = "page" /\ req.cookies => carried

\* No cookie the page had set by the time its body was read is missing (assembly.py).
CookiesCoverBody ==
  reply = "page" => answer.cookies >= answer.had

\* "A single clear reading is not the end of the challenge" (stealth_engine.py): one
\* that was looked at again is never the gap between two rounds.
ConfirmedIsNoGap ==
  [][pc = "confirm" /\ pc' = "assemble" => doc.kind # "gap"]_vars

\* A press never lands on a verification a press before it started, which it would
\* restart, on whatever document either landed.
PressSparesVerification ==
  pc = "strike" => doc.box # "verifying"

\* The time kept back for the paid solver is still there when it starts, but for one
\* pass of the free solver, which looks at the clock only between passes.
LongestPass == Poll + Retry + AtLeast(Retry + Confirm, ClickMax)

ReserveIsKept ==
  pc = "escalate" /\ reserved => Cutoff - clock > ApiTime + Margin - LongestPass

\* Checking the deadline "only at the top overran the deadline by a full pass", which
\* "was enough to trip func_timeout" (chrome_engine.py): a press that is not the first
\* is never cut off, as long as presses differ by no more than the margin.
PressesAreNotCutOff ==
  [][pc = "pressed" /\ passes = 2 => reply' # "timeout"]_vars

\* "the document read at load is the guard and not the page it was guarding" (pipeline.py):
\* a guard called the page had gone quiet, which the settle cannot tell from a page, or
\* there was no time left.  One that keeps loading until it redirects never is.
GuardIsNotThePage ==
  [][doc.kind = "guard" /\ pc # "await" /\ pc' = "await"
       => clock >= SolveDeadline \/ (~doc.loads /\ doc.age >= Quiet)]_vars

\* "a real block is raised as an error by the denied detection" (assembly.py): an
\* engine that calls a challenge solved is not looking at a denied page.
DeniedIsRaised ==
  [][doc.kind = "denied"
       => ~(pc \in {"confirm", "gone", "paid"} /\ pc' \in {"assemble", "await"})]_vars

\* Every solve ends, though the challenge may never go and both loops wait for it.
EverySolveEnds == <>(pc = "done")
=============================================================================
