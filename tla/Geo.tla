--------------------------------- MODULE Geo ---------------------------------
(***************************************************************************)
(* Where a browser claims to be (geo.py): its timezone and its language,   *)
(* fixed by the settings (config.py) or looked up through the exit of its  *)
(* proxy, and one cache of looked-up pairs that both engines share.        *)
(*                                                                         *)
(* Request threads launch a browser of either engine.  The stealth engine  *)
(* asks for both halves when it launches; Chrome is given its language     *)
(* when it launches and its timezone again before each solve.  The cache   *)
(* is read under the lock, the lookup runs outside it, its result is       *)
(* stored under it: each is an action, and so is each of the two calls to  *)
(* the library that make a lookup.                                         *)
(*                                                                         *)
(* Abstractions.  A country stands for the language tag that names it      *)
(* ('de-DE'), "bare" for a tag without a country ('fr', 'es-419') and      *)
(* "junk" for text that is no tag ('C.UTF-8').  An entry carries what is   *)
(* left of its lifetime, in ticks.  The memos of pure functions            *)
(* (_geo_zones, _zone_table_cache) and logging are left out.               *)
(*                                                                         *)
(* A definition marked (variant) is the next one with a bug: nothing uses  *)
(* it but the runs that show a property can fail.                          *)
(***************************************************************************)
EXTENDS Naturals, SequencesExt

CONSTANTS
  Thread,       \* the request threads
  Country,
  Zone,         \* timezone names a setting or a table may hold, typos included
  Proxy,        \* proxy configurations: [server, account]
  Direct,       \* the one that stands for no proxy
  Exits,        \* Exits[p]: the countries p leaves from, now or after a rotation
  ExitZone,     \* ExitZone[c]: the zone the library gives an address of c
  Population,   \* _POPULATION_ZONES[c], or None
  Linked,       \* _linked_zones
  UTC,
  DefaultLanguage,  \* _DEFAULT_LANGUAGE
  Settings,     \* what the server may be started with: its environment variables, the
                \* system's tables, and the proxies its clients ask for
  None,
  MaxExits,     \* _MAX_CACHED_EXITS
  FullTTL,      \* _cache_seconds, in ticks
  FailTTL       \* _FAILURE_CACHE_SECONDS, in ticks

Tag == Country \cup {"bare"}

\* What a server may be started with: the variables and tables it reads, and the proxies
\* its clients name.
Row == [countries : Seq(Country) \ {<<>>}, zone : Zone]
Setting == [zone : Zone \cup {None, "auto"}, geo : Tag \cup {None, "junk"},
            lang : Tag \cup {None, "junk"}, tz : Zone \cup {None}, tables : Seq(Seq(Row)),
            proxy : Proxy \cup {None}, asks : SUBSET Proxy]

ASSUME ConstantsAssumption ==
  /\ Direct \in Proxy /\ None \notin Proxy
  /\ \A p, q \in Proxy : p.server = q.server /\ p.account = q.account => p = q
  /\ Settings \subseteq Setting
  /\ Exits \in [Proxy -> SUBSET Country \ {{}}]
  /\ ExitZone \in [Country -> Zone] /\ Population \in [Country -> Zone \cup {None}]
  /\ Linked \subseteq Zone /\ UTC \in Zone /\ DefaultLanguage \in Tag
  /\ None \notin Zone \cup Tag \cup {"auto"} /\ "auto" \notin Zone
  /\ MaxExits \in Nat \ {0} /\ FullTTL \in Nat \ {0} /\ FailTTL \in 1 .. FullTTL

VARIABLES
  settings,  \* the one of Settings it was started with
  cache,     \* _cache, oldest first
  exit,      \* exit[p]: the country p leaves from now
  pc,        \* where each request thread is
  job,       \* the call of _resolved it is in
  browser    \* what the browser it drives was told, or None

vars == <<settings, cache, exit, pc, job, browser>>

Engine == {"stealth", "chrome"}
Half == {"zone", "language"}
Step == {"off", "ask", "prepare", "locale", "store", "running"}

\* _cache_key: which exit a lookup goes through.
CacheKeyOfServer(p) == <<p.server, "">>   \* (variant)
CacheKey(p) == <<p.server, p.account>>
Key == {CacheKey(p) : p \in Proxy}

Entry == [key : Key, zone : Zone, language : Tag, complete : BOOLEAN, left : 0 .. FullTTL]
Job == [engine : Engine, proxy : Proxy, want : Half, zone : Zone \cup {None},
        language : Tag \cup {None}, ip : Country \cup {None}]
Browser == [zone : Zone \cup {None}, language : Tag \cup {None}]

\* The cache is bounded, has one entry to an exit, and remembers a guess no longer
\* than the short window.
TypeOK ==
  /\ settings \in Settings
  /\ cache \in Seq(Entry) /\ Len(cache) <= MaxExits
  /\ \A i, j \in DOMAIN cache : cache[i].key = cache[j].key => i = j
  /\ \A i \in DOMAIN cache : ~cache[i].complete => cache[i].left <= FailTTL
  /\ exit \in [Proxy -> Country]
  /\ pc \in [Thread -> Step]
  /\ job \in [Thread -> Job \cup {None}]
  /\ browser \in [Thread -> Browser \cup {None}]

-----------------------------------------------------------------------------
(* The system's timezone tables *)

\* The first of zone1970.tab and zone.tab that can be read and has rows.
Table(s) ==
  LET filled == {i \in DOMAIN s.tables : s.tables[i] # <<>>}
  IN  IF filled = {} THEN <<>> ELSE s.tables[CHOOSE i \in filled : \A j \in filled : i <= j]

\* setdefault, for each of a row's countries it is given.
SetDefault(dict, codes, zone) ==
  [c \in Country |-> IF c \in codes /\ dict[c] = None THEN zone ELSE dict[c]]

\* The dictionary after all rows of T have been read, the i-th for the countries codes[i].
ReadRows(T, codes) ==
  LET after[n \in 0 .. Len(T)] ==
        IF n = 0 THEN [c \in Country |-> None]
        ELSE SetDefault(after[n - 1], codes[n], T[n].zone)
  IN  after[Len(T)]

\* A row is read for its first country, and apart from that for every country on it.
Own(T) == ReadRows(T, [i \in DOMAIN T |-> {T[i].countries[1]}])
Shared(T) == ReadRows(T, [i \in DOMAIN T |-> ToSet(T[i].countries)])

\* _zone_table: country -> zone.
ZoneTable(s) ==
  [c \in Country |-> IF Own(Table(s))[c] # None THEN Own(Table(s))[c] ELSE Shared(Table(s))[c]]

KnownZones(s) == {Table(s)[i].zone : i \in DOMAIN Table(s)}

\* is_known_zone: without a table there is nothing to check a name against.
IsKnownZone(s, z) == KnownZones(s) = {} \/ z \in KnownZones(s) \cup Linked

ZoneForRegion(s, c) ==
  IF Population[c] \in KnownZones(s) THEN Population[c] ELSE ZoneTable(s)[c]

-----------------------------------------------------------------------------
(* What the settings fix *)

\* _language_tag, for what it makes of a value that is unset or no tag.
LanguageTag(raw) == IF raw \in Tag THEN raw ELSE None

BrowserGeo(s) == LanguageTag(s.geo)

BrowserLocale(s) == IF LanguageTag(s.lang) # None THEN LanguageTag(s.lang) ELSE BrowserGeo(s)

\* BROWSER_TIMEZONE: a zone, "auto", or None when it is unset or unknown.
BrowserTimezone(s) == IF s.zone \in Zone /\ ~IsKnownZone(s, s.zone) THEN None ELSE s.zone

ZoneFromGeo(s) == IF BrowserGeo(s) \in Country THEN ZoneForRegion(s, BrowserGeo(s)) ELSE None

PinnedZone(s) ==
  IF BrowserTimezone(s) = None THEN ZoneFromGeo(s)
  ELSE IF BrowserTimezone(s) = "auto" THEN None ELSE BrowserTimezone(s)

\* TZ, if the browsers would take it.
ContainerTimezone(s) == IF s.tz \in Zone /\ IsKnownZone(s, s.tz) THEN s.tz ELSE UTC

-----------------------------------------------------------------------------
(* The cache *)

\* The entry of a key in a cache, which holds one for it or none.
Holds(m, k) == \E i \in DOMAIN m : m[i].key = k
Place(m, k) == CHOOSE i \in DOMAIN m : m[i].key = k

EntryOf(p) == cache[Place(cache, CacheKey(p))]

\* There is an entry, and its time is not over.
Fresh(p) == Holds(cache, CacheKey(p)) /\ EntryOf(p).left > 0

\* The exit's country is known.
Known(p) == Fresh(p) /\ EntryOf(p).complete

TrimmedNot(m) == m   \* (variant)
Trimmed(m) == IF Len(m) > MaxExits THEN SubSeq(m, Len(m) - MaxExits + 1, Len(m)) ELSE m

\* The cache once a key's entry is popped, and once a new one is stored.
Without(m, k) == IF Holds(m, k) THEN RemoveAt(m, Place(m, k)) ELSE m
Stored(e) == Trimmed(Append(Without(cache, e.key), e))

Lifetime(complete) == IF complete THEN FullTTL ELSE FailTTL

-----------------------------------------------------------------------------
(* A thread *)

Goto(t, step) == pc' = [pc EXCEPT ![t] = step]

NewBrowser == [zone |-> None, language |-> None]

Init ==
  /\ settings \in Settings
  /\ cache = <<>>
  /\ exit \in {f \in [Proxy -> Country] : \A p \in Proxy : f[p] \in Exits[p]}
  /\ pc = [t \in Thread |-> "off"]
  /\ job = [t \in Thread |-> None]
  /\ browser = [t \in Thread |-> None]

Asks(t, engine, p, half) ==
  job' = [job EXCEPT ![t] = [engine |-> engine, proxy |-> p, want |-> half, zone |-> None,
                             language |-> None, ip |-> None]]

\* A request that names no proxy leaves through PROXY_URL, or directly.
ProxyToConfig(asked) ==
  IF asked # None THEN asked ELSE IF settings.proxy # None THEN settings.proxy ELSE Direct

\* A browser is to be launched: StealthContext.start, or get_webdriver.
Launch(t) ==
  /\ pc[t] = "off"
  /\ \E engine \in Engine, asked \in settings.asks \cup {None} :
       Asks(t, engine, ProxyToConfig(asked), IF engine = "stealth" THEN "zone" ELSE "language")
  /\ browser' = [browser EXCEPT ![t] = NewBrowser]
  /\ Goto(t, "ask")
  /\ UNCHANGED <<settings, cache, exit>>

\* A solve on a Chrome browser, with enough of the budget left to set the zone.
BeginSolve(t) ==
  /\ pc[t] = "running" /\ job[t].engine = "chrome"
  /\ Asks(t, "chrome", job[t].proxy, "zone")
  /\ Goto(t, "ask")
  /\ UNCHANGED <<settings, cache, exit, browser>>

Close(t) ==
  /\ pc[t] = "running"
  /\ job' = [job EXCEPT ![t] = None]
  /\ browser' = [browser EXCEPT ![t] = None]
  /\ Goto(t, "off")
  /\ UNCHANGED <<settings, cache, exit>>

\* The call answers: the browser is told, and a stealth launch asks for the other
\* half.  Chrome's override may fail, which is ignored.
Told(t, zone, language) ==
  LET j == job[t]
  IN  \/ /\ j.want = "language"
         /\ browser' = [browser EXCEPT ![t].language = language]
         /\ Goto(t, "running")
         /\ Asks(t, j.engine, j.proxy, "language")
      \/ /\ j.want = "zone" /\ j.engine = "stealth"
         /\ browser' = [browser EXCEPT ![t].zone = zone]
         /\ Goto(t, "ask")
         /\ Asks(t, j.engine, j.proxy, "language")
      \/ /\ j.want = "zone" /\ j.engine = "chrome"
         /\ browser' \in {browser, [browser EXCEPT ![t].zone = zone]}
         /\ Goto(t, "running")
         /\ Asks(t, j.engine, j.proxy, "language")

\* The half of a call's answer that the settings fix.
Fixed(half) == IF half = "zone" THEN PinnedZone(settings) ELSE BrowserLocale(settings)

AnswerFromSettings(t) ==
  /\ pc[t] = "ask" /\ Fixed(job[t].want) # None
  /\ Told(t, PinnedZone(settings), BrowserLocale(settings))
  /\ UNCHANGED <<settings, cache, exit>>

AnswerFromCache(t) ==
  LET p == job[t].proxy
  IN  /\ pc[t] = "ask" /\ Fixed(job[t].want) = None /\ Fresh(p)
      /\ Told(t, EntryOf(p).zone, EntryOf(p).language)
      /\ UNCHANGED <<settings, cache, exit>>

\* The other half, if the settings fix it, is handed to the lookup.
LookUp(t) ==
  /\ pc[t] = "ask" /\ Fixed(job[t].want) = None /\ ~Fresh(job[t].proxy)
  /\ job' = [job EXCEPT ![t].zone = IF job[t].want = "language" THEN PinnedZone(settings) ELSE None,
                        ![t].language = IF job[t].want = "zone" THEN BrowserLocale(settings) ELSE None]
  /\ Goto(t, "prepare")
  /\ UNCHANGED <<settings, cache, exit, browser>>

\* prepare_session_geo: a zone unless one is handed in, and behind a proxy the exit's
\* address.  It may raise, which loses both, or find no zone.
Prepare(t) ==
  LET j == job[t]
      here == exit[j.proxy]
      found == IF j.zone # None THEN j.zone ELSE ExitZone[here]
      seen == IF j.proxy = Direct THEN None ELSE here
  IN  /\ pc[t] = "prepare"
      /\ \E r \in {[zone |-> found, ip |-> seen], [zone |-> j.zone, ip |-> seen],
                   [zone |-> j.zone, ip |-> None]} :
           job' = [job EXCEPT ![t].zone = r.zone, ![t].ip = r.ip]
      /\ Goto(t, "locale")
      /\ UNCHANGED <<settings, cache, exit, browser>>

\* resolve_session_locale: the country of that address, or of the one it looks up
\* itself, if it can.
Locale(t) ==
  LET j == job[t]
  IN  /\ pc[t] = "locale"
      /\ IF j.language # None THEN UNCHANGED job
         ELSE \E l \in {None, IF j.ip # None THEN j.ip ELSE exit[j.proxy]} :
                job' = [job EXCEPT ![t].language = l]
      /\ Goto(t, "store")
      /\ UNCHANGED <<settings, cache, exit, browser>>

\* A lookup that failed lands after one that did not: the answer already known stays.
YieldsNever(t, complete) == FALSE   \* (variant)
Yields(t, complete) == ~complete /\ Known(job[t].proxy)

StoreAnswer(t) ==
  LET j == job[t]
      complete == j.zone # None /\ j.language # None
      zone == IF j.zone # None THEN j.zone ELSE ContainerTimezone(settings)
      language == IF j.language # None THEN j.language ELSE DefaultLanguage
  IN  /\ pc[t] = "store"
      /\ \/ /\ Yields(t, complete)
            /\ Told(t, EntryOf(j.proxy).zone, EntryOf(j.proxy).language)
            /\ UNCHANGED cache
         \/ /\ ~Yields(t, complete)
            /\ cache' = Stored([key |-> CacheKey(j.proxy), zone |-> zone, language |-> language,
                                complete |-> complete, left |-> Lifetime(complete)])
            /\ Told(t, zone, language)
      /\ UNCHANGED <<settings, exit>>

-----------------------------------------------------------------------------
(* The world *)

Rotate(p) ==
  /\ \E c \in Exits[p] \ {exit[p]} : exit' = [exit EXCEPT ![p] = c]
  /\ UNCHANGED <<settings, cache, pc, job, browser>>

Tick ==
  /\ \E i \in DOMAIN cache : cache[i].left > 0
  /\ cache' = [i \in DOMAIN cache |->
                 [cache[i] EXCEPT !.left = IF @ > 0 THEN @ - 1 ELSE 0]]
  /\ UNCHANGED <<settings, exit, pc, job, browser>>

Serve(t) == \/ AnswerFromSettings(t) \/ AnswerFromCache(t) \/ LookUp(t)
            \/ Prepare(t) \/ Locale(t) \/ StoreAnswer(t)

Next == \/ \E t \in Thread : Launch(t) \/ BeginSolve(t) \/ Close(t) \/ Serve(t)
        \/ \E p \in Proxy : Rotate(p)
        \/ Tick

Spec == Init /\ [][Next]_vars

-----------------------------------------------------------------------------
(* Properties *)

\* The zone a country is known by: of the rows it leads the first, or if it leads none
\* the first it shares; except where that is far from where its people live.
IsPrincipalZone(s, c, z) ==
  LET rows      == DOMAIN Table(s)
      leads(i)  == Table(s)[i].countries[1] = c
      shares(i) == \E k \in DOMAIN Table(s)[i].countries : Table(s)[i].countries[k] = c
  IN  \/ Population[c] \in KnownZones(s) /\ z = Population[c]
      \/ /\ Population[c] \notin KnownZones(s)
         /\ \E i \in rows :
              /\ z = Table(s)[i].zone
              /\ \/ leads(i) /\ \A j \in rows : j < i => ~leads(j)
                 \/ /\ shares(i) /\ \A j \in rows : j < i => ~shares(j)
                    /\ \A j \in rows : ~leads(j)

\* Reading a table row by row finds the zone each country is known by, or that it has none.
TablesAreRead ==
  \A s \in Settings, c \in Country :
    LET found == ZoneForRegion(s, c)
    IN  \/ found \in Zone /\ IsPrincipalZone(s, c, found)
        \/ found = None /\ \A z \in Zone : ~IsPrincipalZone(s, c, z)

\* The country BROWSER_GEO puts the browser in, if the tables know it.
PlacedIn(c) == settings.geo = c /\ \E z \in Zone : IsPrincipalZone(settings, c, z)

\* Which settings leave a half to the address (docs/language-and-timezone.md, but for
\* ZoneIsDisputed below).
ZoneIsUsable == settings.zone \in Zone /\ IsKnownZone(settings, settings.zone)
ZoneIsOpen == /\ ~ZoneIsUsable
              /\ settings.zone = "auto" \/ ~\E c \in Country : PlacedIn(c)
LanguageIsOpen == settings.lang \notin Tag /\ settings.geo \notin Tag

\* A mistyped BROWSER_TIMEZONE next to a BROWSER_GEO the tables know.  The documentation
\* has the timezone "go back to auto", and config.py "follow the exit IP", which ignores
\* BROWSER_GEO; the code takes the zone of BROWSER_GEO's country, as if none were named.
ZoneIsDisputed == settings.zone \in Zone /\ ~ZoneIsUsable /\ \E c \in Country : PlacedIn(c)

\* A browser is told what the settings fix, and otherwise a country its own account
\* leaves from, never another account's on that server, or the documented default; and
\* no address is looked up unless a half is left open.  Of a disputed zone it says nothing.
IdentityIsAsSet ==
  \A t \in Thread :
    /\ pc[t] \in {"prepare", "locale"} => ZoneIsOpen \/ LanguageIsOpen \/ ZoneIsDisputed
    /\ browser[t] # None =>
         LET b == browser[t]
             from == Exits[job[t].proxy]
         IN  /\ b.zone # None /\ ~ZoneIsDisputed =>
                  \/ ZoneIsUsable /\ b.zone = settings.zone
                  \/ ~ZoneIsUsable /\ ~ZoneIsOpen /\ IsPrincipalZone(settings, settings.geo, b.zone)
                  \/ ZoneIsOpen /\ b.zone \in {ExitZone[c] : c \in from} \cup {ContainerTimezone(settings)}
             /\ b.language # None =>
                  \/ settings.lang \in Tag /\ b.language = settings.lang
                  \/ settings.lang \notin Tag /\ settings.geo \in Tag /\ b.language = settings.geo
                  \/ LanguageIsOpen /\ b.language \in from \cup {DefaultLanguage}

\* A slow lookup that fails may land after a fast one that did not: while the answer of
\* an exit is known it is not forgotten, and no browser of that exit is told a guess.
NoGuessOverKnown ==
  [][\A t \in Thread :
       pc[t] = "store" /\ pc'[t] # "store" /\ Known(job[t].proxy) =>
         LET p == job[t].proxy
             half == job[t].want
         IN  /\ Known(p)'
             /\ browser'[t][half] \in {browser[t][half], EntryOf(p)'[half]}]_vars

\* "so the two cannot contradict each other" (browser_language in geo.py): a browser
\* that was told the zone of its exit's country speaks that country's language.
ZoneMatchesLanguage ==
  \A t \in Thread, c \in Country :
    pc[t] = "running" /\ ZoneIsOpen /\ LanguageIsOpen /\ browser[t].zone = ExitZone[c] =>
      browser[t].language = c
=============================================================================
