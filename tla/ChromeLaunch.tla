----------------------------- MODULE ChromeLaunch -----------------------------
(***************************************************************************)
(* Starting Chrome: get_webdriver and get_user_agent of utils.py, with the *)
(* vendored undetected_chromedriver they drive (Chrome.__init__, quit, the *)
(* Patcher) and the start of the process in flaresolverr.py.               *)
(*                                                                         *)
(* A launch writes the credentials of its proxy into an extension, brings  *)
(* the X display up, finds or downloads a chromedriver, patches it in      *)
(* place, starts Chrome and then the chromedriver, waits for the           *)
(* extension to be loaded and erases it.  No lock guards any of this: what *)
(* keeps launches of different requests apart is that the process launches *)
(* one browser by itself before it serves.                                 *)
(*                                                                         *)
(* Abstractions.  A POSIX system, as in the image.  A driver file is as    *)
(* fetched ("fresh"), patched, or "torn" while it is copied over; patching *)
(* replaces a block by one of the same length, so a reader finds the old   *)
(* or the new one.  The system refuses to start a file that is open for    *)
(* writing, and to open for writing one that runs.  Chrome's arguments,    *)
(* its profile directory and versions are left out.                        *)
(*                                                                         *)
(* A definition marked (variant) is the next one with a bug: nothing uses  *)
(* it but the runs that show a property can fail.                          *)
(***************************************************************************)
EXTENDS Naturals

CONSTANTS
  Request,  \* the request threads that launch Chrome
  Main,     \* the main thread
  None

Thread == Request \cup {Main}
Proxy == {"none", "plain", "account"}   \* "account": with a username and password
File == {"docker", "download", "saved"} \* /app/chromedriver, the two files of data_path
Content == {"absent", "fresh", "patched", "torn"}
Cause == {"connect", "cdp", "copy"}
Remain == {"removal", "end", "launch"}

ASSUME ThreadAssumption == Main \notin Request /\ None \notin Thread

VARIABLES
  phase,     \* of the process: "down", "booting" or "serving"
  docker,    \* the image's chromedriver is there
  headless,  \* HEADLESS
  patchable, \* the driver holds the block patch_exe looks for
  display,   \* XVFB_DISPLAY: "none", "made" (assigned, not started yet) or "up"
  saved,     \* PATCHED_DRIVER_PATH is set
  file,      \* file[f]: what is on disk
  pc,        \* where each thread is
  launch,    \* its launch, or None
  stray,     \* why browsers are running that nothing refers to any more
  remains    \* why extensions are on disk that nothing will erase any more

config == <<docker, headless, patchable>>
lost == <<stray, remains>>
vars == <<phase, config, display, saved, file, pc, launch, lost>>

\* The steps of get_webdriver inside its try, where a failure still erases the extension.
Guarded == {"display", "xvfb", "path", "auto", "fetch", "patch", "rewrite", "browser",
            "connect", "await", "erase"}
Step == Guarded \cup {"off", "extension", "save", "copy", "running"}

Launch == [proxy : Proxy, dir : BOOLEAN, path : File \cup {None}, custom : BOOLEAN,
           browser : BOOLEAN, worker : BOOLEAN, driver : Content \cup {None}, failed : BOOLEAN]

ASSUME NoneAssumption == None \notin Launch

\* A thread has a launch exactly while it is in one, a launch that failed has no browser,
\* requests launch only while the process serves, and no other file than the image's is
\* used where the image's is there.
TypeOK ==
  /\ phase \in {"down", "booting", "serving"}
  /\ config \in BOOLEAN \X BOOLEAN \X BOOLEAN
  /\ display \in {"none", "made", "up"} /\ saved \in BOOLEAN
  /\ file \in [File -> Content] /\ stray \subseteq Cause /\ remains \subseteq Remain
  /\ pc \in [Thread -> Step] /\ launch \in [Thread -> Launch \cup {None}]
  /\ \A t \in Thread :
       /\ pc[t] = "off" <=> launch[t] = None
       /\ pc[t] # "off" => phase = IF t = Main THEN "booting" ELSE "serving"
       /\ launch[t] # None =>
            /\ launch[t].failed => ~launch[t].browser /\ pc[t] = "erase"
            /\ docker /\ launch[t].path # None => launch[t].path = "docker"

-----------------------------------------------------------------------------
NewLaunch(proxy) ==
  [proxy |-> proxy, dir |-> FALSE, path |-> None, custom |-> FALSE, browser |-> FALSE,
   worker |-> FALSE, driver |-> None, failed |-> FALSE]

Goto(t, step) == pc' = [pc EXCEPT ![t] = step]

\* The launch of t has an extension on disk, or is writing one.
OnDisk(t) == pc[t] = "extension" \/ (launch[t] # None /\ launch[t].dir)

\* What stays behind when a launch is over that did not erase its extension.
Forgotten(t) == IF launch[t].dir THEN {"launch"} ELSE {}

\* The process ends, and its memory and its browsers with it, without running what is
\* left of a launch; files stay, an extension too.
End ==
  /\ phase' = "down" /\ display' = "none" /\ saved' = FALSE /\ stray' = {}
  /\ remains' = remains \cup IF \E t \in Thread : OnDisk(t) THEN {"end"} ELSE {}
  /\ pc' = [t \in Thread |-> "off"] /\ launch' = [t \in Thread |-> None]
  /\ UNCHANGED <<config, file>>

\* The launch of t ends without a browser, for a reason that may leave one behind, or an
\* extension.  get_user_agent passes the main thread's on, which ends the process.
Failed(t, left, kept) ==
  IF t = Main THEN End
  ELSE /\ Goto(t, "off")
       /\ launch' = [launch EXCEPT ![t] = None]
       /\ stray' = stray \cup left /\ remains' = remains \cup kept
       /\ UNCHANGED <<phase, config, display, saved, file>>

\* An exception inside the try: the extension is erased first.
RaiseOpen(t, left) ==   \* (variant)
  /\ Goto(t, "erase")
  /\ launch' = [launch EXCEPT ![t].failed = TRUE]
  /\ stray' = stray \cup left /\ UNCHANGED remains
RaiseOutsideTry(t, left) == Failed(t, left, Forgotten(t))   \* (variant)
Raise(t, left) ==
  /\ Goto(t, "erase")
  /\ launch' = [launch EXCEPT ![t].failed = TRUE, ![t].browser = FALSE]
  /\ stray' = stray \cup left /\ UNCHANGED remains

Init ==
  /\ phase = "down" /\ docker \in BOOLEAN /\ headless \in BOOLEAN /\ patchable \in BOOLEAN
  /\ display = "none" /\ saved = FALSE /\ stray = {} /\ remains = {}
  /\ file = [f \in File |-> IF f = "docker" /\ docker THEN "fresh" ELSE "absent"]
  /\ pc = [t \in Thread |-> "off"] /\ launch = [t \in Thread |-> None]

Boot ==
  /\ phase = "down" /\ phase' = "booting"
  /\ UNCHANGED <<config, display, saved, file, pc, launch, lost>>

\* test_browser_installation finds no Chrome, or not its version.
NoChrome == phase = "booting" /\ pc[Main] = "off" /\ End

\* The container is stopped, or the process killed.
Crash == phase # "down" /\ End

\* Requests come once the server runs, after test_browser_installation.
MayLaunchAtOnce(t) == phase # "down" /\ (t = Main => phase = "booting")   \* (variant)
MayLaunch(t) == phase = IF t = Main THEN "booting" ELSE "serving"

Begin(t) ==
  /\ pc[t] = "off" /\ MayLaunch(t)
  /\ \E proxy \in IF t = Main THEN {"none"} ELSE Proxy :
       /\ launch' = [launch EXCEPT ![t] = NewLaunch(proxy)]
       /\ Goto(t, IF proxy = "account" THEN "extension" ELSE "display")
  /\ UNCHANGED <<phase, config, display, saved, file, lost>>

\* create_proxy_extension, which erases what it wrote when it fails, if it can.
MakeExtension(t) ==
  /\ pc[t] = "extension"
  /\ \/ /\ launch' = [launch EXCEPT ![t].dir = TRUE]
        /\ Goto(t, "display")
        /\ UNCHANGED <<phase, config, display, saved, file, lost>>
     \/ \E kept \in {{}, {"removal"}} : Failed(t, {}, kept)

\* start_xvfb_display: the global is set before the display is started.
MakeDisplay(t) ==
  /\ pc[t] = "display"
  /\ IF headless /\ display = "none" THEN display' = "made" /\ Goto(t, "xvfb")
                                     ELSE UNCHANGED display /\ Goto(t, "path")
  /\ UNCHANGED <<phase, config, saved, file, launch, lost>>

StartDisplay(t) ==
  /\ pc[t] = "xvfb"
  /\ \/ display' = "up" /\ Goto(t, "path") /\ UNCHANGED <<launch, lost>>
     \/ Raise(t, {}) /\ UNCHANGED display
  /\ UNCHANGED <<phase, config, saved, file>>

\* Which chromedriver; and Chrome's path and version, which may not be found.
ChoosePath(t) ==
  /\ pc[t] = "path"
  /\ \/ LET f == IF docker THEN "docker" ELSE IF saved THEN "saved" ELSE "download"
        IN  /\ launch' = [launch EXCEPT ![t].path = f, ![t].custom = f # "download"]
            /\ Goto(t, "auto")
            /\ UNCHANGED lost
     \/ Raise(t, {})
  /\ UNCHANGED <<phase, config, display, saved, file>>

\* Patcher.auto: a file it was given is patched unless it is; its own is made anew.
PatcherAuto(t) ==
  LET l == launch[t]
  IN  /\ pc[t] = "auto"
      /\ \/ l.custom /\ file[l.path] \in {"patched", "torn"} /\ Goto(t, "browser") /\ UNCHANGED file
         \/ l.custom /\ file[l.path] # "patched" /\ Goto(t, "patch") /\ UNCHANGED file
         \/ ~l.custom /\ Goto(t, "fetch") /\ file' = [file EXCEPT ![l.path] = "absent"]
      /\ UNCHANGED <<phase, config, display, saved, launch, lost>>

\* fetch_package and unzip_package, which moves the file to its place in one step.
Fetch(t) ==
  /\ pc[t] = "fetch"
  /\ \/ /\ file' = [file EXCEPT ![launch[t].path] = "fresh"]
        /\ Goto(t, "patch")
        /\ UNCHANGED <<launch, lost>>
     \/ Raise(t, {}) /\ UNCHANGED file
  /\ UNCHANGED <<phase, config, display, saved>>

Runs(f) == \E u \in Thread : /\ launch[u] # None /\ launch[u].path = f
                             /\ launch[u].driver # None
Writes(t, f) == \/ pc[t] = "rewrite" /\ launch[t].path = f
                \/ pc[t] = "copy" /\ f = "saved"

\* patch_exe opens the file for writing.
OpenDriver(t) ==
  /\ pc[t] = "patch"
  /\ \/ /\ file[launch[t].path] # "absent" /\ ~Runs(launch[t].path)
        /\ Goto(t, "rewrite")
        /\ UNCHANGED <<launch, lost>>
     \/ Raise(t, {})
  /\ UNCHANGED <<phase, config, display, saved, file>>

\* Whether it found the block to replace is not looked at.
Rewrite(t) ==
  /\ pc[t] = "rewrite"
  /\ file' = [file EXCEPT ![launch[t].path] =
                IF patchable /\ @ # "absent" THEN "patched" ELSE @]
  /\ Goto(t, "browser")
  /\ UNCHANGED <<phase, config, display, saved, launch, lost>>

StartBrowser(t) ==
  /\ pc[t] = "browser"
  /\ \/ /\ launch' = [launch EXCEPT ![t].browser = TRUE]
        /\ Goto(t, "connect")
        /\ UNCHANGED lost
     \/ Raise(t, {})
  /\ UNCHANGED <<phase, config, display, saved, file>>

\* The chromedriver is started and told the browser's port.  If that fails nothing
\* closes the browser: the constructor never returned, and its finalizer, which holds
\* on to the object, looks only at the chromedriver.
Connect(t) ==
  LET f == launch[t].path
  IN  /\ pc[t] = "connect"
      /\ \/ /\ file[f] # "absent" /\ ~\E u \in Thread : Writes(u, f)
            /\ launch' = [launch EXCEPT ![t].driver = file[f]]
            /\ Goto(t, IF launch[t].dir THEN "await" ELSE "erase")
            /\ UNCHANGED lost
         \/ Raise(t, {"connect"})
      /\ UNCHANGED <<phase, config, display, saved, file>>

\* Chrome loads the extension some time after it has started, if it is still there.
WorkerLoads(t) ==
  /\ launch[t] # None /\ launch[t].browser /\ launch[t].dir /\ ~launch[t].worker
  /\ launch' = [launch EXCEPT ![t].worker = TRUE]
  /\ UNCHANGED <<phase, config, display, saved, file, pc, lost>>

\* _await_proxy_extension: it runs; or it does not in time, which quits the browser; or
\* the browser cannot be asked, which does not.
AwaitWorkerNot(t) ==   \* (variant)
  /\ pc[t] = "await" /\ Goto(t, "erase")
  /\ UNCHANGED <<phase, config, display, saved, file, launch, lost>>
AwaitWorker(t) ==
  /\ pc[t] = "await"
  /\ \/ launch[t].worker /\ Goto(t, "erase") /\ UNCHANGED <<launch, lost>>
     \/ ~launch[t].worker /\ Raise(t, {})
     \/ Raise(t, {"cdp"})
  /\ UNCHANGED <<phase, config, display, saved, file>>

\* The finally clause.  A removal that fails is logged, and the launch goes on to its end.
EraseExtension(t) ==
  /\ pc[t] = "erase"
  /\ \E kept \in {{}} \cup (IF launch[t].dir THEN {{"removal"}} ELSE {}) :
       \/ launch[t].failed /\ Failed(t, {}, kept)
       \/ /\ ~launch[t].failed
          /\ launch' = [launch EXCEPT ![t].dir = FALSE]
          /\ remains' = remains \cup kept
          /\ Goto(t, IF launch[t].custom THEN "running" ELSE "save")
          /\ UNCHANGED <<phase, config, display, saved, file, stray>>

\* The path is remembered before the file is copied there.
Save(t) ==
  /\ pc[t] = "save"
  /\ saved' = TRUE /\ file' = [file EXCEPT !["saved"] = "torn"]
  /\ Goto(t, "copy")
  /\ UNCHANGED <<phase, config, display, launch, lost>>

Copy(t) ==
  /\ pc[t] = "copy"
  /\ \/ /\ file["download"] # "absent"
        /\ file' = [file EXCEPT !["saved"] = file["download"]]
        /\ Goto(t, "running")
        /\ UNCHANGED <<phase, config, display, saved, launch, lost>>
     \/ Failed(t, {"copy"}, Forgotten(t))

\* get_user_agent asks the main thread's browser for its name and quits it, and the
\* process goes on to serve.
Probe ==
  /\ pc[Main] = "running"
  /\ \/ /\ phase' = "serving"
        /\ Goto(Main, "off")
        /\ launch' = [launch EXCEPT ![Main] = None]
        /\ UNCHANGED <<config, display, saved, file, lost>>
     \/ Failed(Main, {}, Forgotten(Main))

\* Chrome.quit, when the request or the session is done with it.
Quit(t) ==
  /\ pc[t] = "running" /\ t # Main
  /\ Goto(t, "off")
  /\ launch' = [launch EXCEPT ![t] = None]
  /\ remains' = remains \cup Forgotten(t)
  /\ UNCHANGED <<phase, config, display, saved, file, stray>>

GetWebdriver(t) ==
  \/ Begin(t) \/ MakeExtension(t) \/ MakeDisplay(t) \/ StartDisplay(t) \/ ChoosePath(t)
  \/ PatcherAuto(t) \/ Fetch(t) \/ OpenDriver(t) \/ Rewrite(t) \/ StartBrowser(t) \/ Connect(t)
  \/ AwaitWorker(t) \/ EraseExtension(t) \/ Save(t) \/ Copy(t)

Next == \/ Boot \/ NoChrome \/ Crash \/ Probe
        \/ \E t \in Thread : GetWebdriver(t) \/ WorkerLoads(t) \/ Quit(t)

Spec == Init /\ [][Next]_vars

-----------------------------------------------------------------------------
(* Properties *)

\* No lock orders the launches of two requests, and no part they share is made while
\* they use it: whatever crash came before, a chromedriver is the patched one if it can
\* be patched, a browser that needs the display finds it up, and while the process
\* serves no launch fetches, copies or patches a driver, or loses a browser over it.
SharedPartsAreReady ==
  /\ "copy" \notin stray
  /\ \A t \in Thread :
       launch[t] # None =>
         /\ patchable /\ launch[t].driver # None => launch[t].driver = "patched"
         /\ headless /\ launch[t].browser => display = "up"
         /\ phase = "serving" /\ patchable =>
              pc[t] \notin {"xvfb", "fetch", "patch", "rewrite", "save", "copy"}

\* A browser is handed out behind a proxy with an account only once it has taken the
\* extension that holds the password, however late Chrome loads it.
CredentialsAreTaken ==
  \A t \in Thread :
    launch[t] # None /\ pc[t] = "running" /\ launch[t].proxy = "account" => launch[t].worker

\* "the extension directory holds the proxy username and password in plaintext, and every
\* step below can raise" (utils.py): whatever step raises, the launch erases it before it
\* is over.  It stays on disk only where its removal failed or the process ended first.
CredentialsLeaveDisk ==
  /\ "launch" \notin remains
  /\ \A t \in Thread : launch[t] # None /\ launch[t].dir => pc[t] \in Guarded
=============================================================================
