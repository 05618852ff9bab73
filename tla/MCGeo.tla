--------------------------------- MODULE MCGeo -------------------------------
(* Small instances of Geo for TLC. *)
EXTENDS Geo, TLC

CONSTANTS de, us, nl

Account(server, account) == [server |-> server, account |-> account]

\* Two accounts on one server, which leave from different countries, and no proxy.
McDirect == Account("", "")
McProxy == {McDirect, Account("gate", "a"), Account("gate", "b")}
McExits == [p \in McProxy |-> IF p.account = "a" THEN {de} ELSE IF p.account = "b" THEN {us} ELSE {nl, de}]
McExitZone == [c \in Country |-> IF c = de THEN "Berlin" ELSE IF c = us THEN "Chicago" ELSE "Amsterdam"]

\* The United States' first row is not where most of its people live.
McPopulation == [c \in Country |-> IF c = us THEN "NewYork" ELSE None]

McRow(countries, zone) == [countries |-> countries, zone |-> zone]
World == <<McRow(<<nl, de>>, "Amsterdam"), McRow(<<de>>, "Berlin"), McRow(<<us>>, "Chicago"),
           McRow(<<us>>, "NewYork")>>

\* PROXY_URL names the first account and clients may ask for the second, so that no
\* request leaves directly.
Env(zone, geo, lang, tz, tables) ==
  [zone |-> zone, geo |-> geo, lang |-> lang, tz |-> tz, tables |-> tables,
   proxy |-> Account("gate", "a"), asks |-> {Account("gate", "b")}]

\* Without PROXY_URL.
Unproxied(env) == [env EXCEPT !.proxy = None, !.asks = {}]

\* Nothing set; each setting that leaves a half open, or looks as if it did not.
Plain == Env(None, None, None, None, <<World>>)
Open == {Plain, Unproxied(Plain), Env("auto", de, None, "Berlin", <<World>>),
         Env(None, None, us, "posix", <<World>>), Env("Amsterdam", None, None, None, <<World>>),
         Env("Berlinn", "bare", "junk", None, <<World>>), Env("Berlinn", de, None, None, <<World>>)}

\* All tables of two rows on two countries, one of them in the older file's place,
\* with BROWSER_GEO naming a country.
Codes == {<<de>>, <<nl>>, <<de, nl>>, <<nl, de>>}
Tables == {<<McRow(a, "Berlin"), McRow(b, "Amsterdam")>> : a \in Codes, b \in Codes}
Placed == {Env(None, c, None, None, <<<<>>, T>>) : c \in {de, nl}, T \in Tables}
            \cup {Env(None, us, None, None, <<World, <<>>>>), Env("Berlinn", us, "junk", None, <<>>)}
Both == Open \cup Placed
JustPlain == {Plain, Unproxied(Plain)}

\* On these settings the tables are read as GeoProofs!TablesRead says: TLC computes what
\* reading them finds and compares it with what IsPrincipalZone says of every region.
ASSUME InstanceAssumption == TablesAreRead

Symmetry == Permutations(Thread)
=============================================================================
