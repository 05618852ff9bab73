-------------------------- MODULE ChromeLaunchProofs --------------------------
(***************************************************************************)
(* What holds of ChromeLaunch for any number of request threads.  The      *)
(* invariant has a part for each launch and one for what launches share:   *)
(*   Typed     types, and who may launch when;                             *)
(*   Progress  what a launch has, and what it finds ready, at each step;   *)
(*   Shared    what the launch at start-up leaves to those of requests.    *)
(* A request's launch changes nothing that is shared, and while the main   *)
(* thread's does there is no other: so no lock is needed.                  *)
(***************************************************************************)
EXTENDS ChromeLaunch, TLAPS

\* The types, with the bounds on when a thread is in a launch.
Types ==
  /\ phase \in {"down", "booting", "serving"}
  /\ docker \in BOOLEAN /\ headless \in BOOLEAN /\ patchable \in BOOLEAN
  /\ display \in {"none", "made", "up"} /\ saved \in BOOLEAN
  /\ file \in [File -> Content] /\ stray \subseteq Cause /\ remains \subseteq Remain
  /\ pc \in [Thread -> Step] /\ launch \in [Thread -> Launch \cup {None}]

Present(t) ==
  /\ pc[t] = "off" <=> launch[t] = None
  /\ pc[t] # "off" => phase = IF t = Main THEN "booting" ELSE "serving"
  /\ launch[t] # None => launch[t] \in Launch

Typed == Types /\ \A t \in Thread : Present(t)

\* Steps of a launch before its chromedriver is chosen, and from then on.
Early == {"extension", "display", "xvfb", "path"}
Late == {"auto", "fetch", "patch", "rewrite", "browser", "connect", "await", "erase", "save",
         "copy", "running"}
Started == {"connect", "await", "erase", "save", "copy", "running"}

\* The chromedriver a launch uses, and the one of requests.
Which(t) == IF docker THEN "docker" ELSE IF t = Main THEN "download" ELSE "saved"

Fine(t, l) ==   \* of a launch that has not failed
  /\ pc[t] \in Late => l.path = Which(t) /\ l.custom = (Which(t) # "download")
  /\ headless /\ pc[t] \in Late \cup {"path"} => display = "up"
  /\ patchable /\ pc[t] \in Started \cup {"browser"} => file[Which(t)] = "patched"
  /\ pc[t] = "rewrite" => file[Which(t)] # "absent"
  /\ l.browser => pc[t] \in Started
  /\ l.proxy = "account" =>
       /\ pc[t] \in Guarded \ {"erase"} => l.dir
       /\ pc[t] \in {"erase", "save", "copy", "running"} => l.worker

Progress(t) ==
  LET l == launch[t]
  IN  l # None =>
        /\ l.failed => ~l.browser /\ pc[t] = "erase"
        /\ l.dir => pc[t] \in Guarded
        /\ pc[t] \in Early => l.path = None /\ l.driver = None /\ ~l.browser /\ ~l.failed
        /\ l.path \in {None, Which(t)}
        /\ patchable /\ l.driver # None => l.driver = "patched"
        /\ t # Main => pc[t] \notin {"xvfb", "fetch", "save", "copy"}
        /\ t # Main /\ patchable => pc[t] \notin {"patch", "rewrite"}
        /\ pc[t] \in {"fetch", "save", "copy"} => Which(t) = "download"
        /\ ~l.failed => Fine(t, l)

Shared ==
  /\ "copy" \notin stray /\ "launch" \notin remains
  /\ docker => file["docker"] \in {"fresh", "patched"}
  /\ display = "made" =>
       /\ phase = "booting" /\ launch[Main] # None
       /\ pc[Main] = "xvfb" \/ (pc[Main] = "erase" /\ launch[Main].failed)
  /\ phase = "down" => ~saved /\ display = "none"
  /\ phase = "booting" /\ saved => pc[Main] \in {"copy", "running"}
  /\ pc[Main] \in {"copy", "running"} /\ ~docker =>
       saved /\ (pc[Main] = "running" /\ patchable => file["saved"] = "patched")
  /\ phase = "serving" =>
       /\ headless => display = "up"
       /\ docker \/ saved
       /\ patchable => file[IF docker THEN "docker" ELSE "saved"] = "patched"

Inv == Typed /\ Shared /\ \A t \in Thread : Progress(t)

USE DEF Goto, lost

\* The thread that starts the process is one of the threads.
LEMMA MainIsAThread == Main \in Thread
  BY DEF Thread

\* A process that was never started has no launches.
LEMMA InitInv == Init => Inv
  BY ThreadAssumption DEF Init, Inv, Typed, Types, Present, Shared, Progress, Thread,
    Content,
    File, Cause, Remain, Step

\* The end of the process keeps the files, and of what is asked of them only that the
\* image's chromedriver is whole.
LEMMA EndInv ==
  ASSUME Inv, End
  PROVE  Inv'
  BY ThreadAssumption DEF End, config, Inv, Typed, Types, Present, Shared, Progress, Thread,
    Cause, Remain, Step

-----------------------------------------------------------------------------
(* A step of one launch *)

\* The steps of t, by what they do for the launch.
Prepares(t) == Begin(t) \/ MakeExtension(t) \/ MakeDisplay(t) \/ StartDisplay(t) \/ ChoosePath(t)
Patches(t) == PatcherAuto(t) \/ Fetch(t) \/ OpenDriver(t) \/ Rewrite(t)
Starts(t) == StartBrowser(t) \/ Connect(t) \/ WorkerLoads(t) \/ AwaitWorker(t)
Finishes(t) == EraseExtension(t) \/ Save(t) \/ Copy(t) \/ Quit(t) \/ (t = Main /\ Probe)
Acts(t) == Prepares(t) \/ Patches(t) \/ Starts(t) \/ Finishes(t)

\* What a step of t leaves of every other thread.
Alone(t) == \A u \in Thread \ {t} : pc'[u] = pc[u] /\ launch'[u] = launch[u]

\* What a request's launch does not touch.
sharedVars == <<phase, config, display, saved, file>>

\* A step of t keeps the invariant if it keeps the parts that are t's own.
LEMMA OwnPartSuffices ==
  ASSUME Inv, NEW t \in Thread, Alone(t), UNCHANGED config, Typed', Shared', Progress(t)',
         t # Main => UNCHANGED sharedVars,
         t = Main => phase = "booting"
  PROVE  Inv'
<1> SUFFICES ASSUME NEW u \in Thread, u # t PROVE Progress(u)'
  BY DEF Inv
<1>1. Progress(u) /\ Present(u)
  BY DEF Inv, Typed
<1>2. pc'[u] = pc[u] /\ launch'[u] = launch[u]
  BY DEF Alone
<1>3. CASE t = Main
  BY <1>1, <1>2, <1>3 DEF Present, Progress
<1>4. CASE t # Main
  BY <1>1, <1>2, <1>4 DEF Progress, Fine, Which, sharedVars, config
<1> QED BY <1>3, <1>4

\* Nobody writes to the launch of another thread.
LEMMA StepAlone ==
  ASSUME Inv, NEW t \in Thread, Acts(t), ~End
  PROVE  Alone(t) /\ UNCHANGED config
<1>1. pc \in [Thread -> Step] /\ launch \in [Thread -> Launch \cup {None}]
  BY DEF Inv, Typed, Types
<1>2. CASE Prepares(t)
  BY <1>1, <1>2
  DEF Prepares, Begin, MakeExtension, MakeDisplay, StartDisplay, ChoosePath, MayLaunch,
    NewLaunch, Failed, Forgotten, Raise, Alone, config
<1>3. CASE Patches(t)
  BY <1>1, <1>3
  DEF Patches, PatcherAuto, Fetch, OpenDriver, Rewrite, Raise, Alone, config
<1>4. CASE Starts(t)
  BY <1>1, <1>4
  DEF Starts, StartBrowser, Connect, WorkerLoads, AwaitWorker, Raise, Alone, config
<1>5. CASE Finishes(t)
  BY <1>1, <1>5
  DEF Finishes, EraseExtension, Save, Copy, Quit, Probe, Failed, Forgotten, Alone, config
<1> QED BY <1>2, <1>3, <1>4, <1>5 DEF Acts

\* The types of what is shared.
LEMMA RestTyped ==
  ASSUME Inv, NEW t \in Thread, Acts(t), ~End
  PROVE  /\ phase' \in {"down", "booting", "serving"} /\ display' \in {"none", "made", "up"}
         /\ saved' \in BOOLEAN /\ stray' \subseteq Cause /\ remains' \subseteq Remain
         /\ pc' \in [Thread -> Step]
<1>1. Types
  BY DEF Inv, Typed
<1>2. CASE Prepares(t)
  BY <1>1, <1>2
  DEF Prepares, Begin, MakeExtension, MakeDisplay, StartDisplay, ChoosePath, MayLaunch,
    NewLaunch, Failed, Forgotten, Raise, Types, Cause, Remain, Step, Guarded
<1>3. CASE Patches(t)
  BY <1>1, <1>3
  DEF Patches, PatcherAuto, Fetch, OpenDriver, Rewrite, Raise, Types, Cause, Remain, Step, Guarded
<1>4. CASE Starts(t)
  BY <1>1, <1>4
  DEF Starts, StartBrowser, Connect, WorkerLoads, AwaitWorker, Raise, Types, Cause, Remain, Step,
    Guarded
<1>5. CASE Finishes(t)
  BY <1>1, <1>5
  DEF Finishes, EraseExtension, Save, Copy, Quit, Probe, Failed, Forgotten, Types, Cause, Remain, Step, Guarded
<1> QED BY <1>2, <1>3, <1>4, <1>5 DEF Acts

\* A driver file holds nothing but what a step puts there.
LEMMA FileTyped ==
  ASSUME Inv, NEW t \in Thread, Acts(t), ~End
  PROVE  file' \in [File -> Content]
<1>1. Types /\ (launch[t] # None => launch[t].path \in File \cup {None})
  BY DEF Inv, Typed, Types, Launch
<1>2. CASE Prepares(t)
  BY <1>1, <1>2
  DEF Prepares, Begin, MakeExtension, MakeDisplay, StartDisplay, ChoosePath, MayLaunch,
    NewLaunch, Failed, Forgotten, Raise, Types, File, Content
<1>3. CASE Patches(t)
  BY <1>1, <1>3
  DEF Patches, PatcherAuto, Fetch, OpenDriver, Rewrite, Raise, Types, File, Content
<1>4. CASE Starts(t)
  BY <1>1, <1>4
  DEF Starts, StartBrowser, Connect, WorkerLoads, AwaitWorker, Raise, Types, File, Content
<1>5. CASE Finishes(t)
  BY <1>1, <1>5
  DEF Finishes, EraseExtension, Save, Copy, Quit, Probe, Failed, Forgotten, Types, File, Content
<1> QED BY <1>2, <1>3, <1>4, <1>5 DEF Acts

\* A launch goes on in the phase it began in.
LEMMA StepPhase ==
  ASSUME Inv, NEW t \in Thread, Acts(t), ~End
  PROVE  pc'[t] # "off" => phase' = IF t = Main THEN "booting" ELSE "serving"
<1>1. /\ pc[t] # "off" => phase = IF t = Main THEN "booting" ELSE "serving"
      /\ pc \in [Thread -> Step]
  BY DEF Inv, Typed, Types, Present
<1>2. CASE Prepares(t)
  BY <1>1, <1>2
  DEF Prepares, Begin, MakeExtension, MakeDisplay, StartDisplay, ChoosePath, MayLaunch,
    NewLaunch, Failed, Forgotten, Raise
<1>3. CASE Patches(t)
  BY <1>1, <1>3
  DEF Patches, PatcherAuto, Fetch, OpenDriver, Rewrite, Raise
<1>4. CASE Starts(t)
  BY <1>1, <1>4
  DEF Starts, StartBrowser, Connect, WorkerLoads, AwaitWorker, Raise
<1>5. CASE Finishes(t)
  BY <1>1, <1>5
  DEF Finishes, EraseExtension, Save, Copy, Quit, Probe, Failed
<1> QED BY <1>2, <1>3, <1>4, <1>5 DEF Acts

\* Setting a field of a launch gives a launch.
LEMMA LaunchFields ==
  ASSUME NEW l \in Launch
  PROVE  /\ [l EXCEPT !.dir = TRUE] \in Launch
         /\ [l EXCEPT !.dir = FALSE] \in Launch
         /\ [l EXCEPT !.browser = TRUE] \in Launch
         /\ [l EXCEPT !.worker = TRUE] \in Launch
         /\ [l EXCEPT !.failed = TRUE, !.browser = FALSE] \in Launch
         /\ \A c \in Content : [l EXCEPT !.driver = c] \in Launch
         /\ \A f \in File, b \in BOOLEAN : [l EXCEPT !.path = f, !.custom = b] \in Launch
  BY DEF Launch

\* What a step of t does to its launch: it ends, begins or goes on.
Changes(t) ==
  \/ launch' = [launch EXCEPT ![t] = None] /\ pc'[t] = "off"
  \/ /\ \E proxy \in Proxy : launch' = [launch EXCEPT ![t] = NewLaunch(proxy)]
     /\ pc'[t] # "off"
  \/ /\ pc[t] # "off" /\ pc'[t] # "off"
     /\ \/ launch' = launch
        \/ launch' = [launch EXCEPT ![t].dir = TRUE]
        \/ launch' = [launch EXCEPT ![t].dir = FALSE]
        \/ launch' = [launch EXCEPT ![t].browser = TRUE]
        \/ launch' = [launch EXCEPT ![t].worker = TRUE]
        \/ launch' = [launch EXCEPT ![t].failed = TRUE, ![t].browser = FALSE]
        \/ \E c \in Content : launch' = [launch EXCEPT ![t].driver = c]
        \/ \E f \in File : launch' = [launch EXCEPT ![t].path = f, ![t].custom = f # "download"]

\* Each step is one of these.
LEMMA StepChanges ==
  ASSUME Inv, NEW t \in Thread, Acts(t), ~End
  PROVE  Changes(t)
<1>1. /\ file \in [File -> Content] /\ Present(t) /\ pc \in [Thread -> Step]
      /\ launch[t] # None => launch[t].path \in File \cup {None}
      /\ pc[t] = "connect" => launch[t].path \in File
  BY DEF Inv, Typed, Types, Present, Launch, Progress, Fine, Late, Which, File
<1>2. CASE Prepares(t)
  BY <1>1, <1>2
  DEF Prepares, Begin, MakeExtension, MakeDisplay, StartDisplay, ChoosePath, MayLaunch,
    NewLaunch, Failed, Forgotten, Raise, File, Content, Proxy, Changes, Present
<1>3. CASE Patches(t)
  BY <1>1, <1>3
  DEF Patches, PatcherAuto, Fetch, OpenDriver, Rewrite, Raise, File, Content, Proxy,
    Changes, Present
<1>4. CASE Starts(t)
  BY <1>1, <1>4
  DEF Starts, StartBrowser, Connect, WorkerLoads, AwaitWorker, Raise, File, Content,
    Proxy, Changes, Present
<1>5. CASE Finishes(t)
  BY <1>1, <1>5
  DEF Finishes, EraseExtension, Save, Copy, Quit, Probe, Failed, Forgotten, File, Content, Proxy,
    Changes, Present
<1> QED BY <1>2, <1>3, <1>4, <1>5 DEF Acts

\* After which there is a launch exactly where a thread is in one.
LEMMA Changed ==
  ASSUME Typed, NEW t \in Thread, Changes(t)
  PROVE  /\ launch' \in [Thread -> Launch \cup {None}]
         /\ pc'[t] = "off" <=> launch'[t] = None
         /\ launch'[t] # None => launch'[t] \in Launch
<1>1. launch \in [Thread -> Launch \cup {None}] /\ None \notin Launch
  BY NoneAssumption DEF Typed, Types
<1> DEFINE Good == /\ launch' \in [Thread -> Launch \cup {None}]
                   /\ pc'[t] = "off" <=> launch'[t] = None
                   /\ launch'[t] # None => launch'[t] \in Launch
<1>2. CASE launch' = [launch EXCEPT ![t] = None] /\ pc'[t] = "off"
  BY <1>1, <1>2
<1>3. CASE /\ \E proxy \in Proxy : launch' = [launch EXCEPT ![t] = NewLaunch(proxy)]
           /\ pc'[t] # "off"
  <2>1. \A proxy \in Proxy : NewLaunch(proxy) \in Launch
    BY DEF NewLaunch, Launch
  <2> QED BY <1>1, <1>3, <2>1
<1>4. ASSUME pc[t] # "off", pc'[t] # "off",
             NEW l \in Launch, launch' = [launch EXCEPT ![t] = l]
      PROVE  Good
  BY <1>1, <1>4
<1>5. ASSUME pc[t] # "off", pc'[t] # "off", launch' = launch
      PROVE  Good
  BY <1>1, <1>5 DEF Typed, Present
<1>6. pc[t] # "off" => launch[t] \in Launch
  BY DEF Typed, Present
<1> HIDE DEF Good
<1>7. ASSUME pc[t] # "off", pc'[t] # "off",
             launch' = [launch EXCEPT ![t].dir = TRUE]
      PROVE  Good
  <2>1. [launch[t] EXCEPT !.dir = TRUE] \in Launch
    BY <1>6, <1>7, LaunchFields
  <2> QED BY <1>4, <1>7, <2>1
<1>8. ASSUME pc[t] # "off", pc'[t] # "off",
             launch' = [launch EXCEPT ![t].dir = FALSE]
      PROVE  Good
  <2>1. [launch[t] EXCEPT !.dir = FALSE] \in Launch
    BY <1>6, <1>8, LaunchFields
  <2> QED BY <1>4, <1>8, <2>1
<1>9. ASSUME pc[t] # "off", pc'[t] # "off",
             launch' = [launch EXCEPT ![t].browser = TRUE]
      PROVE  Good
  <2>1. [launch[t] EXCEPT !.browser = TRUE] \in Launch
    BY <1>6, <1>9, LaunchFields
  <2> QED BY <1>4, <1>9, <2>1
<1>10. ASSUME pc[t] # "off", pc'[t] # "off",
             launch' = [launch EXCEPT ![t].worker = TRUE]
      PROVE  Good
  <2>1. [launch[t] EXCEPT !.worker = TRUE] \in Launch
    BY <1>6, <1>10, LaunchFields
  <2> QED BY <1>4, <1>10, <2>1
<1>11. ASSUME pc[t] # "off", pc'[t] # "off",
             launch' = [launch EXCEPT ![t].failed = TRUE, ![t].browser = FALSE]
      PROVE  Good
  <2>1. [launch[t] EXCEPT !.failed = TRUE, !.browser = FALSE] \in Launch
    BY <1>6, <1>11, LaunchFields
  <2> QED BY <1>4, <1>11, <2>1
<1>12. ASSUME pc[t] # "off", pc'[t] # "off",
             NEW c \in Content, launch' = [launch EXCEPT ![t].driver = c]
      PROVE  Good
  <2>1. [launch[t] EXCEPT !.driver = c] \in Launch
    BY <1>6, <1>12, LaunchFields
  <2> QED BY <1>4, <1>12, <2>1
<1>13. ASSUME pc[t] # "off", pc'[t] # "off",
             NEW f \in File,
             launch' = [launch EXCEPT ![t].path = f, ![t].custom = f # "download"]
      PROVE  Good
  <2>1. [launch[t] EXCEPT !.path = f, !.custom = f # "download"] \in Launch
    BY <1>6, <1>13, LaunchFields
  <2> QED BY <1>4, <1>13, <2>1
<1>20. Good
  BY <1>2, <1>3, <1>5, <1>7, <1>8, <1>9, <1>10, <1>11, <1>12, <1>13 DEF Changes, Good
<1> QED BY <1>20 DEF Good

\* What is shared is made at start-up and by nobody else.
LEMMA RequestsShareOnly ==
  ASSUME Inv, NEW t \in Thread, Acts(t), ~End
  PROVE  /\ t # Main => UNCHANGED sharedVars
         /\ t = Main => phase = "booting"
<1>1. Typed /\ Progress(t) /\ Shared
  BY DEF Inv
<1>2. CASE Prepares(t)
  BY <1>1, <1>2
  DEF Prepares, Begin, MakeExtension, MakeDisplay, StartDisplay, ChoosePath, MayLaunch,
    NewLaunch, Failed, Forgotten, Raise, Typed, Types, Present, Progress, Fine, Which, Shared,
    config, Launch, Guarded, Late, Early, Started, Thread, sharedVars
<1>3. CASE Patches(t)
  BY <1>1, <1>3
  DEF Patches, PatcherAuto, Fetch, OpenDriver, Rewrite, Raise, Typed, Types, Present,
    Progress, Fine, Which, Shared, config, Launch, Guarded, Late, Early, Started, Thread,
    sharedVars
<1>4. CASE Starts(t)
  BY <1>1, <1>4
  DEF Starts, StartBrowser, Connect, WorkerLoads, AwaitWorker, Raise, Typed, Types,
    Present, Progress, Fine, Which, Shared, config, Launch, Guarded, Late, Early, Started,
    Thread, sharedVars
<1>5. CASE Finishes(t)
  BY <1>1, <1>5
  DEF Finishes, EraseExtension, Save, Copy, Quit, Probe, Failed, Forgotten, Typed, Types, Present,
    Progress, Fine, Which, Shared, config, Launch, Guarded, Late, Early, Started, Thread,
    sharedVars
<1> QED BY <1>2, <1>3, <1>4, <1>5 DEF Acts

\* Types, and that a thread has a launch exactly while it is in one, are kept.
LEMMA StepTyped ==
  ASSUME Inv, NEW t \in Thread, Acts(t), ~End
  PROVE  Typed'
<1>1. Alone(t) /\ UNCHANGED config
  BY StepAlone
<1>2. /\ launch' \in [Thread -> Launch \cup {None}]
      /\ pc'[t] = "off" <=> launch'[t] = None
      /\ launch'[t] # None => launch'[t] \in Launch
  BY StepChanges, Changed DEF Inv
<1>3. Types'
  BY <1>1, <1>2, RestTyped, FileTyped DEF config, Inv, Typed, Types
<1>4. Present(t)'
  BY <1>2, StepPhase DEF Present
<1>5. ASSUME NEW u \in Thread \ {t}
      PROVE  Present(u)'
  BY <1>1, <1>5, RequestsShareOnly, ThreadAssumption DEF Inv, Typed, Present, Alone,
    sharedVars, Thread
<1> QED BY <1>3, <1>4, <1>5 DEF Typed

\* A launch that goes a step on finds ready what the step left or found.
LEMMA StepProgress ==
  ASSUME Inv, NEW t \in Thread, Acts(t), ~End
  PROVE  Progress(t)'
<1>1. Typed /\ Progress(t) /\ Shared
  BY DEF Inv
<1>2. CASE Begin(t)
  <2>1. PICK proxy \in Proxy :
          /\ launch' = [launch EXCEPT ![t] = NewLaunch(proxy)]
          /\ pc' = [pc EXCEPT ![t] = IF proxy = "account" THEN "extension" ELSE "display"]
    BY <1>2 DEF Begin, Proxy
  <2>2. /\ launch'[t] = NewLaunch(proxy)
        /\ pc'[t] = IF proxy = "account" THEN "extension" ELSE "display"
    BY <1>1, <2>1 DEF Typed, Types
  <2> QED BY <2>2 DEF NewLaunch, Progress, Fine, Late, Early, Started, Guarded
<1>3. CASE MakeExtension(t)
  BY <1>1, <1>3
  DEF MakeExtension, Failed, Forgotten, Typed, Types, Present, Progress, Fine, Which, Shared, config,
    Launch, Guarded, Late, Early, Started, Thread
<1>4. CASE MakeDisplay(t)
  BY <1>1, <1>4
  DEF MakeDisplay, Typed, Types, Present, Progress, Fine, Which, Shared, config, Launch,
    Guarded, Late, Early, Started, Thread
<1>5. CASE StartDisplay(t)
  BY <1>1, <1>5
  DEF StartDisplay, Raise, Typed, Types, Present, Progress, Fine, Which, Shared, config,
    Launch, Guarded, Late, Early, Started, Thread
<1>6. CASE ChoosePath(t)
  BY <1>1, <1>6
  DEF ChoosePath, Raise, Typed, Types, Present, Progress, Fine, Which, Shared, config,
    Launch, Guarded, Late, Early, Started, Thread
<1>7. CASE PatcherAuto(t)
  BY <1>1, <1>7
  DEF PatcherAuto, Typed, Types, Present, Progress, Fine, Which, Shared, config, Launch,
    Guarded, Late, Early, Started, Thread
<1>8. CASE Fetch(t)
  BY <1>1, <1>8
  DEF Fetch, Raise, Typed, Types, Present, Progress, Fine, Which, Shared, config, Launch,
    Guarded, Late, Early, Started, Thread
<1>9. CASE OpenDriver(t)
  BY <1>1, <1>9
  DEF OpenDriver, Raise, Typed, Types, Present, Progress, Fine, Which, Shared, config,
    Launch, Guarded, Late, Early, Started, Thread
<1>10. CASE Rewrite(t)
  <2>1. /\ launch[t] \in Launch /\ ~launch[t].failed /\ Fine(t, launch[t])
        /\ launch[t].path = Which(t) /\ Which(t) \in File
    BY <1>1, <1>10 DEF Rewrite, Typed, Types, Present, Progress, Fine, Which, Late, File
  <2>2. patchable => file'[Which(t)] = "patched"
    BY <1>1, <2>1, <1>10 DEF Rewrite, Typed, Types, Fine
  <2>3. pc'[t] = "browser" /\ UNCHANGED <<launch, display, config>>
    BY <1>1, <1>10 DEF Rewrite, Typed, Types
  <2> QED BY <1>1, <2>1, <2>2, <2>3, <1>10
    DEF Rewrite, Progress, Fine, Which, config, Late, Early, Started, Guarded
<1>11. CASE StartBrowser(t)
  BY <1>1, <1>11
  DEF StartBrowser, Raise, Typed, Types, Present, Progress, Fine, Which, Shared, config,
    Launch, Guarded, Late, Early, Started, Thread
<1>12. CASE Connect(t)
  BY <1>1, <1>12
  DEF Connect, Raise, Typed, Types, Present, Progress, Fine, Which, Shared, config,
    Launch, Guarded, Late, Early, Started, Thread
<1>13. CASE WorkerLoads(t)
  BY <1>1, <1>13
  DEF WorkerLoads, Typed, Types, Present, Progress, Fine, Which, Shared, config, Launch,
    Guarded, Late, Early, Started, Thread
<1>14. CASE AwaitWorker(t)
  BY <1>1, <1>14
  DEF AwaitWorker, Raise, Typed, Types, Present, Progress, Fine, Which, Shared, config,
    Launch, Guarded, Late, Early, Started, Thread
<1>15. CASE EraseExtension(t)
  BY <1>1, <1>15
  DEF EraseExtension, Failed, Forgotten, Typed, Types, Present, Progress, Fine, Which, Shared,
    config, Launch, Guarded, Late, Early, Started, Thread
<1>16. CASE Save(t)
  BY <1>1, <1>16
  DEF Save, Typed, Types, Present, Progress, Fine, Which, Shared, config, Launch, Guarded,
    Late, Early, Started, Thread
<1>17. CASE Copy(t)
  <2>1. /\ launch[t] \in Launch /\ ~launch[t].failed /\ Fine(t, launch[t])
        /\ t = Main /\ Which(t) = "download"
    BY <1>1, <1>17 DEF Copy, Typed, Types, Present, Progress
  <2>2. /\ pc'[t] = "running" /\ UNCHANGED <<launch, display, config>>
        /\ file'["download"] = file["download"]
    BY <1>1, <2>1, <1>17 DEF Copy, Failed, Forgotten, Typed, Types, File
  <2> QED BY <1>1, <2>1, <2>2, <1>17
    DEF Copy, Progress, Fine, Which, config, Late, Early, Started, Guarded
<1>18. CASE Quit(t)
  BY <1>1, <1>18
  DEF Quit, Typed, Types, Present, Progress, Fine, Which, Shared, config, Launch, Guarded,
    Late, Early, Started, Thread
<1>19. CASE t = Main /\ Probe
  BY <1>1, <1>19
  DEF Probe, Failed, Forgotten, Typed, Types, Present, Progress, Fine, Which, Shared, config, Launch,
    Guarded, Late, Early, Started, Thread
<1> QED BY <1>2, <1>3, <1>4, <1>5, <1>6, <1>7, <1>8, <1>9, <1>10, <1>11, <1>12, <1>13,
  <1>14, <1>15, <1>16, <1>17, <1>18, <1>19
  DEF Acts, Prepares, Patches, Starts, Finishes

\* Start-up leaves its work done for the requests that come after it.
LEMMA StepShared ==
  ASSUME Inv, NEW t \in Thread, Acts(t), ~End
  PROVE  Shared'
<1>1. Typed /\ Progress(t) /\ Shared
  BY DEF Inv
<1>2. CASE Begin(t)
  BY <1>1, <1>2
  DEF Begin, MayLaunch, NewLaunch, Typed, Types, Present, Progress, Fine, Which, Shared,
    config, Launch, Guarded, Late, Early, Started, Thread
<1>3. CASE MakeExtension(t)
  BY <1>1, <1>3
  DEF MakeExtension, Failed, Forgotten, Typed, Types, Present, Progress, Fine, Which, Shared, config,
    Launch, Guarded, Late, Early, Started, Thread
<1>4. CASE MakeDisplay(t)
  <2>1. CASE t = Main
    <3>1. phase = "booting" /\ launch[Main] # None /\ display # "made" /\ ~saved
      BY <1>1, <2>1, <1>4 DEF MakeDisplay, Typed, Present, Shared
    <3>2. pc'[Main] = IF headless /\ display = "none" THEN "xvfb" ELSE "path"
      BY <1>1, <2>1, <1>4 DEF MakeDisplay, Typed, Types
    <3>3. display' = IF headless /\ display = "none" THEN "made" ELSE display
      BY <1>4 DEF MakeDisplay
    <3>4. UNCHANGED <<phase, config, saved, file, launch, stray, remains>>
      BY <1>4 DEF MakeDisplay
    <3>5. /\ pc'[Main] \notin {"copy", "running"}
          /\ display' = "made" => pc'[Main] = "xvfb"
      BY <3>1, <3>2, <3>3
    <3>6. /\ phase' = "booting" /\ launch'[Main] # None /\ ~saved'
          /\ UNCHANGED <<docker, file, stray, remains>>
      BY <3>1, <3>4 DEF config
    <3> QED BY <1>1, <3>5, <3>6 DEF Shared
  <2>2. CASE t # Main
    <3>1. phase = "serving" /\ ~(headless /\ display = "none")
      BY <1>1, <2>2, <1>4 DEF MakeDisplay, Typed, Present, Shared
    <3>2. pc'[Main] = pc[Main]
      BY <1>1, <2>2, <1>4, ThreadAssumption DEF MakeDisplay, Typed, Types, Thread
    <3> QED BY <1>1, <3>1, <3>2, <1>4 DEF MakeDisplay, Shared, config
  <2> QED BY <2>1, <2>2
<1>5. CASE StartDisplay(t)
  <2>1. t = Main /\ phase = "booting" /\ ~saved
    BY <1>1, <1>5 DEF StartDisplay, Typed, Present, Progress, Shared
  <2>2. launch[t] \in Launch
    BY <1>1, <1>5 DEF StartDisplay, Typed, Types, Present
  <2>3. UNCHANGED <<phase, config, saved, file>>
    BY <1>5 DEF StartDisplay
  <2>4. CASE display' = "up" /\ Goto(t, "path") /\ UNCHANGED <<launch, lost>>
    <3>1. pc'[Main] = "path"
      BY <1>1, <2>1, <2>4 DEF Typed, Types
    <3> QED BY <1>1, <2>1, <2>3, <2>4, <3>1 DEF Shared, config
  <2>5. CASE Raise(t, {}) /\ UNCHANGED display
    <3>1. pc'[Main] = "erase" /\ launch'[Main] # None /\ launch'[Main].failed
      BY <1>1, <2>1, <2>2, <2>5, StepTyped DEF Raise, Typed, Types, Present, Launch
    <3> QED BY <1>1, <2>1, <2>3, <2>5, <3>1 DEF Shared, config, Raise
  <2> QED BY <1>5, <2>4, <2>5 DEF StartDisplay
<1>6. CASE ChoosePath(t)
  BY <1>1, <1>6
  DEF ChoosePath, Raise, Typed, Types, Present, Progress, Fine, Which, Shared, config,
    Launch, Guarded, Late, Early, Started, Thread
<1>7. CASE PatcherAuto(t)
  BY <1>1, <1>7
  DEF PatcherAuto, Typed, Types, Present, Progress, Fine, Which, Shared, config, Launch,
    Guarded, Late, Early, Started, Thread
<1>8. CASE Fetch(t)
  BY <1>1, <1>8
  DEF Fetch, Raise, Typed, Types, Present, Progress, Fine, Which, Shared, config, Launch,
    Guarded, Late, Early, Started, Thread
<1>9. CASE OpenDriver(t)
  BY <1>1, <1>9
  DEF OpenDriver, Raise, Typed, Types, Present, Progress, Fine, Which, Shared, config,
    Launch, Guarded, Late, Early, Started, Thread
<1>10. CASE Rewrite(t)
  BY <1>1, <1>10
  DEF Rewrite, Typed, Types, Present, Progress, Fine, Which, Shared, config, Launch,
    Guarded, Late, Early, Started, Thread
<1>11. CASE StartBrowser(t)
  BY <1>1, <1>11
  DEF StartBrowser, Raise, Typed, Types, Present, Progress, Fine, Which, Shared, config,
    Launch, Guarded, Late, Early, Started, Thread
<1>12. CASE Connect(t)
  BY <1>1, <1>12
  DEF Connect, Raise, Typed, Types, Present, Progress, Fine, Which, Shared, config,
    Launch, Guarded, Late, Early, Started, Thread
<1>13. CASE WorkerLoads(t)
  BY <1>1, <1>13
  DEF WorkerLoads, Typed, Types, Present, Progress, Fine, Which, Shared, config, Launch,
    Guarded, Late, Early, Started, Thread
<1>14. CASE AwaitWorker(t)
  BY <1>1, <1>14
  DEF AwaitWorker, Raise, Typed, Types, Present, Progress, Fine, Which, Shared, config,
    Launch, Guarded, Late, Early, Started, Thread
<1>15. CASE EraseExtension(t)
  BY <1>1, <1>15
  DEF EraseExtension, Failed, Forgotten, Typed, Types, Present, Progress, Fine, Which, Shared,
    config, Launch, Guarded, Late, Early, Started, Thread
<1>16. CASE Save(t)
  BY <1>1, <1>16
  DEF Save, Typed, Types, Present, Progress, Fine, Which, Shared, config, Launch, Guarded,
    Late, Early, Started, Thread
<1>17. CASE Copy(t)
  <2>1. /\ launch[t] \in Launch /\ ~launch[t].failed /\ Fine(t, launch[t])
        /\ t = Main /\ Which(t) = "download" /\ phase = "booting"
    BY <1>1, <1>17 DEF Copy, Typed, Types, Present, Progress
  <2>2. /\ pc'[t] = "running" /\ UNCHANGED <<launch, display, config, saved, lost, phase>>
        /\ file'["saved"] = file["download"] /\ file'["docker"] = file["docker"]
    BY <1>1, <2>1, <1>17 DEF Copy, Failed, Forgotten, Typed, Types, File
  <2>3. patchable => file["download"] = "patched"
    BY <2>1, <1>17 DEF Copy, Fine, Started
  <2> QED BY <1>1, <2>1, <2>2, <2>3, <1>17 DEF Copy, Shared, Which, config
<1>18. CASE Quit(t)
  <2>1. ~launch[t].dir
    BY <1>1, <1>18 DEF Quit, Typed, Present, Progress, Guarded
  <2> QED BY <1>1, <1>18, <2>1
    DEF Quit, Forgotten, Typed, Types, Present, Progress, Fine, Which, Shared, config, Launch,
      Guarded, Late, Early, Started, Thread
<1>19. CASE t = Main /\ Probe
  BY <1>1, <1>19
  DEF Probe, Failed, Forgotten, Typed, Types, Present, Progress, Fine, Which, Shared, config, Launch,
    Guarded, Late, Early, Started, Thread
<1> QED BY <1>2, <1>3, <1>4, <1>5, <1>6, <1>7, <1>8, <1>9, <1>10, <1>11, <1>12, <1>13,
  <1>14, <1>15, <1>16, <1>17, <1>18, <1>19
  DEF Acts, Prepares, Patches, Starts, Finishes

-----------------------------------------------------------------------------
\* The invariant holds throughout.
LEMMA InvHolds == Spec => []Inv
<1>1. ASSUME Inv, [Next]_vars
      PROVE  Inv'
  <2>1. CASE UNCHANGED vars
    BY <1>1, <2>1 DEF vars, config, Inv, Typed, Types, Present, Progress, Fine, Which,
      Shared
  <2>2. CASE Boot
    BY <1>1, <2>2 DEF Boot, config, Inv, Typed, Types, Present, Progress, Fine, Which,
      Shared
  <2>3. CASE End
    BY <1>1, <2>3, EndInv
  <2>4. ASSUME NEW t \in Thread, Acts(t), ~End
        PROVE  Inv'
    <3>1. Alone(t) /\ UNCHANGED config
      BY <1>1, <2>4, StepAlone
    <3>2. Typed' /\ Shared' /\ Progress(t)'
      BY <1>1, <2>4, StepTyped, StepShared, StepProgress
    <3>3. (t # Main => UNCHANGED sharedVars) /\ (t = Main => phase = "booting")
      BY <1>1, <2>4, RequestsShareOnly
    <3> QED BY <1>1, <2>4, <3>1, <3>2, <3>3, OwnPartSuffices
  <2>5. NoChrome \/ Crash => End
    BY DEF NoChrome, Crash
  <2>6. Probe => Acts(Main)
    BY DEF Acts, Finishes
  <2>7. ASSUME NEW t \in Thread, GetWebdriver(t) \/ WorkerLoads(t) \/ Quit(t)
        PROVE  Acts(t)
    BY <2>7 DEF GetWebdriver, Acts, Prepares, Patches, Starts, Finishes
  <2>8. CASE \E t \in Thread : Acts(t)
    BY <2>3, <2>4, <2>8
  <2> QED BY <1>1, <2>1, <2>2, <2>3, <2>5, <2>6, <2>7, <2>8, MainIsAThread DEF Next
<1> QED BY <1>1, InitInv, PTL DEF Spec

\* Types hold, a launch that failed has no browser, and requests launch only while the
\* process serves.
THEOREM TypesCorrect == Spec => []TypeOK
<1>1. Inv => TypeOK
  <2>1. ASSUME Inv, NEW t \in Thread
        PROVE  /\ pc[t] = "off" <=> launch[t] = None
               /\ pc[t] # "off" => phase = IF t = Main THEN "booting" ELSE "serving"
               /\ launch[t] # None =>
                    /\ launch[t].failed => ~launch[t].browser /\ pc[t] = "erase"
                    /\ docker /\ launch[t].path # None => launch[t].path = "docker"
    BY <2>1 DEF Inv, Typed, Present, Progress, Which
  <2>2. Inv => Types
    BY DEF Inv, Typed
  <2> QED BY <2>1, <2>2 DEF Types, TypeOK, config
<1> QED BY <1>1, InvHolds, PTL

\* What launches share is ready before requests come, with no lock to order them.
THEOREM SharedPartsReady == Spec => []SharedPartsAreReady
<1>1. Inv => SharedPartsAreReady
  <2> SUFFICES ASSUME Inv, NEW t \in Thread, launch[t] # None
               PROVE  /\ patchable /\ launch[t].driver # None => launch[t].driver = "patched"
                      /\ headless /\ launch[t].browser => display = "up"
                      /\ phase = "serving" /\ patchable =>
                           pc[t] \notin {"xvfb", "fetch", "patch", "rewrite", "save", "copy"}
    BY DEF Inv, Shared, SharedPartsAreReady
  <2>1. Progress(t) /\ Present(t)
    BY DEF Inv, Typed
  <2>2. launch[t].browser => ~launch[t].failed /\ pc[t] \in Late
    BY <2>1 DEF Progress, Fine, Started, Late
  <2>3. phase = "serving" => t # Main
    BY <2>1 DEF Present
  <2> QED BY <2>1, <2>2, <2>3 DEF Progress, Fine
<1> QED BY <1>1, InvHolds, PTL

\* Whatever fails and however late Chrome loads it, a browser that is handed out behind a
\* proxy with an account has taken the extension with the password.
THEOREM CredentialsTaken == Spec => []CredentialsAreTaken
<1>1. Inv => CredentialsAreTaken
  BY DEF Inv, Progress, Fine, CredentialsAreTaken
<1> QED BY <1>1, InvHolds, PTL

\* No way out of a launch leaves the password on disk: only a removal that fails does, or
\* the end of the process.
THEOREM CredentialsLeave == Spec => []CredentialsLeaveDisk
<1>1. Inv => CredentialsLeaveDisk
  BY DEF Inv, Shared, Progress, CredentialsLeaveDisk
<1> QED BY <1>1, InvHolds, PTL
=============================================================================
