------------------------------ MODULE GeoProofs -------------------------------
(***************************************************************************)
(* What holds of Geo for any settings, proxies and lifetimes: a browser is *)
(* told what the settings fix or what its own exit may answer, and a known *)
(* answer outlives a lookup that failed.  Both rest on what reading the    *)
(* system's tables finds for a country, which is proved first.  The        *)
(* invariant has three parts:                                              *)
(*   Types   what each thread holds;                                       *)
(*   Cached  the cache is in order, and every entry is one its exit may    *)
(*           have given;                                                   *)
(*   Honest  what a call carries and a browser was told, for each thread.  *)
(***************************************************************************)
EXTENDS Geo, WellFoundedInduction, SequenceTheorems, TLAPS

\* The halves an account's browsers may be told.
ZonesOf(p) ==
  IF PinnedZone(settings) # None THEN {PinnedZone(settings)}
  ELSE {ExitZone[c] : c \in Exits[p]} \cup {ContainerTimezone(settings)}
TagsOf(p) ==
  IF BrowserLocale(settings) # None THEN {BrowserLocale(settings)}
  ELSE Exits[p] \cup {DefaultLanguage}

Types ==
  /\ settings \in Settings
  /\ exit \in [Proxy -> Country] /\ \A p \in Proxy : exit[p] \in Exits[p]
  /\ pc \in [Thread -> Step]
  /\ job \in [Thread -> Job \cup {None}]
  /\ browser \in [Thread -> Browser \cup {None}]

\* One entry to a key, no guess beyond the short window.
Orderly(m) ==
  /\ m \in Seq(Entry)
  /\ \A i, j \in DOMAIN m : m[i].key = m[j].key => i = j
  /\ \A i \in DOMAIN m : ~m[i].complete => m[i].left <= FailTTL

Fits(e) == \A p \in Proxy : e.key = CacheKey(p) => e.zone \in ZonesOf(p) /\ e.language \in TagsOf(p)

Cached ==
  /\ Orderly(cache) /\ Len(cache) <= MaxExits
  /\ \A i \in DOMAIN cache : Fits(cache[i])

\* What a thread's call knows so far.
Calling(t) ==
  /\ pc[t] = "off" => job[t] = None /\ browser[t] = None
  /\ pc[t] # "off" => job[t] \in Job /\ browser[t] \in Browser
  /\ pc[t] \in {"prepare", "locale", "store"} => Fixed(job[t].want) = None
  /\ pc[t] = "prepare" => job[t].zone = PinnedZone(settings)
  /\ pc[t] \in {"locale", "store"} =>
       \/ job[t].zone = PinnedZone(settings)
       \/ PinnedZone(settings) = None /\ \E c \in Exits[job[t].proxy] : job[t].zone = ExitZone[c]
  /\ pc[t] = "locale" => job[t].ip \in Exits[job[t].proxy] \cup {None}
  /\ pc[t] \in {"prepare", "locale"} => job[t].language = BrowserLocale(settings)
  /\ pc[t] = "store" =>
       \/ job[t].language = BrowserLocale(settings)
       \/ BrowserLocale(settings) = None /\ job[t].language \in Exits[job[t].proxy]

Honest(t) ==
  /\ Calling(t)
  /\ pc[t] # "off" =>
       /\ browser[t].zone # None => browser[t].zone \in ZonesOf(job[t].proxy)
       /\ browser[t].language # None => browser[t].language \in TagsOf(job[t].proxy)

Inv == Types /\ Cached /\ \A t \in Thread : Honest(t)

USE DEF Goto

-----------------------------------------------------------------------------
(* What reading a table finds *)

\* A set of numbers that is not empty has a least one.
LEMMA LeastNumber ==
  ASSUME NEW T \in SUBSET Nat, T # {}
  PROVE  \E x \in T : \A y \in T : ~(y < x)
<1>1. \E x \in T : \A y \in T : ~(<<y, x>> \in OpToRel(<, Nat))
  BY NatLessThanWellFounded, WFMin, Zenon
<1>2. \A x, y \in T : <<y, x>> \in OpToRel(<, Nat) <=> y < x
  BY Zenon DEF OpToRel
<1> QED BY <1>1, <1>2, Zenon

\* The first of the rows up to n that counts for c.
FirstFor(codes, c, n, i) ==
  i \in 1 .. n /\ c \in codes[i] /\ \A j \in 1 .. n : j < i => c \notin codes[j]

LEMMA FirstExists ==
  ASSUME NEW codes, NEW c, NEW n \in Nat, \E i \in 1 .. n : c \in codes[i]
  PROVE  \E i \in 1 .. n : FirstFor(codes, c, n, i)
<1> DEFINE on == {i \in 1 .. n : c \in codes[i]}
<1>1. on \in SUBSET Nat /\ on # {}
  OBVIOUS
<1>2. PICK i \in on : \A j \in on : ~(j < i)
  BY <1>1, LeastNumber
<1> QED BY <1>2 DEF FirstFor

\* A table is a sequence of rows, and so is the one the system's settings come from.
LEMMA TableTyped ==
  ASSUME NEW s \in Settings
  PROVE  Table(s) \in Seq(Row)
<1>1. s.tables \in Seq(Seq(Row))
  BY ConstantsAssumption DEF Setting
<1> DEFINE filled == {i \in DOMAIN s.tables : s.tables[i] # <<>>}
<1>2. CASE filled = {}
  BY <1>2 DEF Table
<1>3. CASE filled # {}
  <2>1. filled \in SUBSET Nat
    BY <1>1
  <2>2. \E i \in filled : \A j \in filled : i <= j
    <3> HIDE DEF filled
    <3>1. PICK i \in filled : \A j \in filled : ~(j < i)
      BY <1>3, <2>1, LeastNumber
    <3>2. \A j \in filled : i \in Nat /\ j \in Nat
      BY <2>1
    <3> QED BY <3>1, <3>2
  <2> DEFINE first == CHOOSE i \in filled : \A j \in filled : i <= j
  <2>3. first \in filled
    BY <2>2
  <2>4. Table(s) = s.tables[first]
    BY <1>3 DEF Table
  <2>5. first \in DOMAIN s.tables
    <3> HIDE DEF first
    <3> QED BY <2>3
  <2> HIDE DEF first
  <2>6. s.tables[first] \in Seq(Row)
    BY <1>1, <2>5
  <2> QED BY <2>4, <2>6
<1> QED BY <1>2, <1>3

\* Whatever the table and whichever countries each of its rows is read for, the
\* dictionary holds for a country the zone of the first row read for it.
LEMMA RowsAreRead ==
  ASSUME NEW T \in Seq(Row), NEW codes, NEW c \in Country
  PROVE  /\ \A i \in DOMAIN T : FirstFor(codes, c, Len(T), i) => ReadRows(T, codes)[c] = T[i].zone
         /\ (\A i \in DOMAIN T : c \notin codes[i]) => ReadRows(T, codes)[c] = None
<1> DEFINE len == Len(T)
<1>1. /\ len \in Nat /\ DOMAIN T = 1 .. len
      /\ \A i \in 1 .. len : T[i].zone \in Zone /\ T[i].zone # None
  <2>1. len \in Nat /\ DOMAIN T = 1 .. len
    OBVIOUS
  <2>2. \A row \in Row : row.zone \in Zone /\ row.zone # None
    BY ConstantsAssumption DEF Row
  <2>3. \A i \in 1 .. len : T[i] \in Row
    BY <2>1
  <2> QED BY <2>1, <2>2, <2>3
<1> DEFINE holds(d, n) ==
      \A b \in Country :
        /\ \A i \in 1 .. n : FirstFor(codes, b, n, i) => d[b] = T[i].zone
        /\ (\A i \in 1 .. n : b \notin codes[i]) => d[b] = None
           after[n \in 0 .. len] ==
             IF n = 0 THEN [b \in Country |-> None]
             ELSE SetDefault(after[n - 1], codes[n], T[n].zone)
<1>2. ReadRows(T, codes) = after[len]
  BY DEF ReadRows
\* The recursion is of a function that exists.
<1>3. after = [n \in 0 .. len |-> IF n = 0 THEN [b \in Country |-> None]
                                  ELSE SetDefault(after[n - 1], codes[n], T[n].zone)]
  <2> DEFINE value(n, b) == IF \E i \in 1 .. n : b \in codes[i]
                              THEN T[CHOOSE i \in 1 .. n : FirstFor(codes, b, n, i)].zone
                              ELSE None
             table == [n \in 0 .. len |-> [b \in Country |-> value(n, b)]]
  <2>1. ASSUME NEW n \in 0 .. len, n # 0, NEW b \in Country
        PROVE  value(n, b) = IF b \in codes[n] /\ value(n - 1, b) = None
                               THEN T[n].zone ELSE value(n - 1, b)
    <3>1. n \in Nat /\ n - 1 \in Nat /\ n \in 1 .. n /\ n \in 1 .. len
      BY <2>1
    <3>2. CASE \E i \in 1 .. n - 1 : b \in codes[i]
      <4>1. PICK i \in 1 .. n - 1 : FirstFor(codes, b, n - 1, i)
        BY <3>1, <3>2, FirstExists
      <4>2. \A j \in Nat : FirstFor(codes, b, n - 1, j) <=> j = i
        BY <3>1, <4>1 DEF FirstFor
      <4>3. \A j \in Nat : FirstFor(codes, b, n, j) <=> j = i
        BY <3>1, <4>1 DEF FirstFor
      <4>4. (CHOOSE j \in 1 .. n : FirstFor(codes, b, n, j)) = i
        BY <3>1, <4>3
      <4>5. (CHOOSE j \in 1 .. n - 1 : FirstFor(codes, b, n - 1, j)) = i
        BY <3>1, <4>2
      <4>6. value(n, b) = T[i].zone
        <5>1. i \in 1 .. n /\ b \in codes[i]
          BY <3>1, <4>1 DEF FirstFor
        <5> QED BY <4>4, <5>1
      <4>7. value(n - 1, b) = T[i].zone
        BY <3>2, <4>5
      <4>8. T[i].zone # None
        BY <1>1, <2>1, <3>1
      <4> QED BY <4>6, <4>7, <4>8
    <3>3. CASE ~(\E i \in 1 .. n - 1 : b \in codes[i]) /\ b \in codes[n]
      <4>1. \A j \in Nat : FirstFor(codes, b, n, j) <=> j = n
        BY <3>1, <3>3 DEF FirstFor
      <4>2. (CHOOSE j \in 1 .. n : FirstFor(codes, b, n, j)) = n
        BY <3>1, <4>1
      <4>3. value(n, b) = T[n].zone
        BY <3>1, <3>3, <4>2
      <4>4. value(n - 1, b) = None
        BY <3>3
      <4> QED BY <3>3, <4>3, <4>4
    <3>4. CASE ~(\E i \in 1 .. n - 1 : b \in codes[i]) /\ b \notin codes[n]
      <4>1. ~(\E i \in 1 .. n : b \in codes[i])
        BY <3>1, <3>4
      <4> QED BY <3>4, <4>1
    <3> QED BY <3>2, <3>3, <3>4
  <2>2. \A b \in Country : value(0, b) = None
    OBVIOUS
  <2> HIDE DEF value
  <2>3. ASSUME NEW n \in 0 .. len
        PROVE  table[n] = IF n = 0 THEN [b \in Country |-> None]
                          ELSE SetDefault(table[n - 1], codes[n], T[n].zone)
    <3>1. CASE n = 0
      BY <2>2, <3>1
    <3>2. CASE n # 0
      <4>1. n - 1 \in 0 .. len
        BY <3>2, <1>1
      <4>2. /\ table[n] = [b \in Country |-> value(n, b)]
            /\ table[n - 1] = [b \in Country |-> value(n - 1, b)]
        BY <4>1
      <4>3. SetDefault(table[n - 1], codes[n], T[n].zone)
            = [b \in Country |-> IF b \in codes[n] /\ value(n - 1, b) = None
                                   THEN T[n].zone ELSE value(n - 1, b)]
        BY <4>2 DEF SetDefault
      <4> QED BY <2>1, <3>2, <4>2, <4>3
    <3> QED BY <3>1, <3>2
  <2>4. table = [n \in 0 .. len |-> IF n = 0 THEN [b \in Country |-> None]
                                    ELSE SetDefault(table[n - 1], codes[n], T[n].zone)]
    BY <2>3
  <2> HIDE DEF table
  <2>5. \E f : f = [n \in 0 .. len |-> IF n = 0 THEN [b \in Country |-> None]
                                       ELSE SetDefault(f[n - 1], codes[n], T[n].zone)]
    BY <2>4
  <2> QED BY <2>5 DEF after
<1> HIDE DEF after
\* By induction on the rows read: the first number of them at which it is not so.
<1>4. ASSUME NEW n \in 0 .. len PROVE holds(after[n], n)
  <2> DEFINE wrong == {m \in 0 .. len : ~holds(after[m], m)}
  <2>1. ASSUME wrong # {} PROVE FALSE
    <3>1. wrong \in SUBSET Nat
      BY <1>1
    <3>2. PICK m \in wrong : \A k \in wrong : ~(k < m)
      BY <2>1, <3>1, LeastNumber
    <3>3. m \in 0 .. len /\ ~holds(after[m], m)
      BY <3>2
    <3>4. m # 0
      <4>1. after[0] = [b \in Country |-> None] /\ 1 .. 0 = {}
        BY <1>1, <1>3
      <4> QED BY <3>3, <4>1
    <3>5. m - 1 \in 0 .. len /\ m - 1 < m /\ m \in Nat
      BY <1>1, <3>3, <3>4
    <3>6. holds(after[m - 1], m - 1)
      BY <3>2, <3>5
    <3>7. after[m] = SetDefault(after[m - 1], codes[m], T[m].zone)
      BY <1>3, <3>3, <3>4
    <3>8. ASSUME NEW b \in Country
          PROVE  /\ \A i \in 1 .. m : FirstFor(codes, b, m, i) => after[m][b] = T[i].zone
                 /\ (\A i \in 1 .. m : b \notin codes[i]) => after[m][b] = None
      <4>1. after[m][b] = IF b \in codes[m] /\ after[m - 1][b] = None
                            THEN T[m].zone ELSE after[m - 1][b]
        BY <3>7 DEF SetDefault
      <4>2. CASE \E i \in 1 .. m - 1 : b \in codes[i]
        <5> DEFINE k == m - 1
        <5>0. k \in Nat
          BY <1>1, <3>5
        <5>1. PICK i \in 1 .. k : FirstFor(codes, b, k, i)
          <6> HIDE DEF k
          <6>1. \E i \in 1 .. k : b \in codes[i]
            BY <4>2 DEF k
          <6> QED BY <5>0, <6>1, FirstExists
        <5>2. after[m - 1][b] = T[i].zone /\ T[i].zone # None
          BY <1>1, <3>3, <3>5, <3>6, <5>1
        <5>3. \A j \in 1 .. m : FirstFor(codes, b, m, j) => j = i
          BY <3>5, <5>1 DEF FirstFor
        <5>4. i \in 1 .. m /\ b \in codes[i]
          BY <3>5, <5>1 DEF FirstFor
        <5> QED BY <4>1, <5>2, <5>3, <5>4
      <4>3. CASE ~(\E i \in 1 .. m - 1 : b \in codes[i])
        <5>1. after[m - 1][b] = None
          BY <3>6, <4>3
        <5>2. \A j \in 1 .. m : FirstFor(codes, b, m, j) => j = m /\ b \in codes[m]
          BY <3>5, <4>3 DEF FirstFor
        <5>3. m \in 1 .. m
          BY <3>4, <3>5
        <5> QED BY <4>1, <5>1, <5>2, <5>3
      <4> QED BY <4>2, <4>3
    <3> QED BY <3>3, <3>8
  <2> HIDE DEF holds
  <2> QED BY <2>1
<1>5. holds(after[len], len)
  BY <1>1, <1>4
<1> QED BY <1>1, <1>2, <1>5

\* Read row by row, any table gives every country the zone it is known by, and no zone
\* to a country that is known by none (_zone_table and _zone_for_region).
THEOREM TablesRead == TablesAreRead
<1> SUFFICES ASSUME NEW s \in Settings, NEW c \in Country
             PROVE  LET found == ZoneForRegion(s, c)
                    IN  \/ found \in Zone /\ IsPrincipalZone(s, c, found)
                        \/ found = None /\ \A z \in Zone : ~IsPrincipalZone(s, c, z)
  BY DEF TablesAreRead
<1> DEFINE T == Table(s)
           leads == [i \in DOMAIN T |-> {T[i].countries[1]}]
           shares == [i \in DOMAIN T |-> ToSet(T[i].countries)]
<1>1. /\ T \in Seq(Row) /\ Len(T) \in Nat /\ DOMAIN T = 1 .. Len(T)
      /\ \A i \in DOMAIN T : T[i].zone \in Zone /\ T[i].zone # None
  <2>1. T \in Seq(Row)
    BY TableTyped
  <2> HIDE DEF T
  <2>2. Len(T) \in Nat /\ DOMAIN T = 1 .. Len(T)
    BY <2>1
  <2>3. \A row \in Row : row.zone \in Zone /\ row.zone # None
    BY ConstantsAssumption DEF Row
  <2>4. \A i \in DOMAIN T : T[i] \in Row
    BY <2>1
  <2> QED BY <2>1, <2>2, <2>3, <2>4
<1>2. CASE Population[c] \in KnownZones(s)
  <2>1. KnownZones(s) \subseteq Zone
    BY <1>1 DEF KnownZones
  <2> QED BY <1>2, <2>1 DEF ZoneForRegion, IsPrincipalZone
<1>3. CASE Population[c] \notin KnownZones(s)
  <2>1. ZoneForRegion(s, c) = IF Own(T)[c] # None THEN Own(T)[c] ELSE Shared(T)[c]
    BY <1>3 DEF ZoneForRegion, ZoneTable
  <2>2. Own(T)[c] = ReadRows(T, leads)[c] /\ Shared(T)[c] = ReadRows(T, shares)[c]
    BY DEF Own, Shared
  <2>3. \A i \in DOMAIN T : /\ c \in leads[i] <=> T[i].countries[1] = c
                            /\ c \in shares[i] <=> \E k \in DOMAIN T[i].countries : T[i].countries[k] = c
    BY DEF ToSet
  <2>4. \A z \in Zone : IsPrincipalZone(s, c, z) <=>
          \E i \in DOMAIN T :
            /\ z = T[i].zone
            /\ \/ c \in leads[i] /\ \A j \in DOMAIN T : j < i => c \notin leads[j]
               \/ /\ c \in shares[i] /\ \A j \in DOMAIN T : j < i => c \notin shares[j]
                  /\ \A j \in DOMAIN T : c \notin leads[j]
    BY <1>3, <2>3 DEF IsPrincipalZone
  <2> HIDE DEF T, leads, shares
  <2>5. CASE \E i \in DOMAIN T : c \in leads[i]
    <3>1. PICK i \in DOMAIN T : FirstFor(leads, c, Len(T), i)
      BY <1>1, <2>5, FirstExists
    <3>2. ReadRows(T, leads)[c] = T[i].zone
      BY <1>1, <3>1, RowsAreRead
    <3>3. ZoneForRegion(s, c) = T[i].zone
      BY <1>1, <2>1, <2>2, <3>2
    <3>4. IsPrincipalZone(s, c, T[i].zone)
      BY <1>1, <2>4, <3>1 DEF FirstFor
    <3> QED BY <1>1, <3>3, <3>4
  <2>6. CASE (\A i \in DOMAIN T : c \notin leads[i]) /\ \E i \in DOMAIN T : c \in shares[i]
    <3>1. PICK i \in DOMAIN T : FirstFor(shares, c, Len(T), i)
      BY <1>1, <2>6, FirstExists
    <3>2. ReadRows(T, shares)[c] = T[i].zone /\ ReadRows(T, leads)[c] = None
      BY <1>1, <2>6, <3>1, RowsAreRead
    <3>3. ZoneForRegion(s, c) = T[i].zone
      BY <2>1, <2>2, <3>2
    <3>4. IsPrincipalZone(s, c, T[i].zone)
      BY <1>1, <2>4, <2>6, <3>1 DEF FirstFor
    <3> QED BY <1>1, <3>3, <3>4
  <2>7. CASE (\A i \in DOMAIN T : c \notin leads[i]) /\ \A i \in DOMAIN T : c \notin shares[i]
    <3>1. ReadRows(T, shares)[c] = None /\ ReadRows(T, leads)[c] = None
      BY <1>1, <2>7, RowsAreRead
    <3>2. ZoneForRegion(s, c) = None
      BY <2>1, <2>2, <3>1
    <3>3. \A z \in Zone : ~IsPrincipalZone(s, c, z)
      BY <2>4, <2>7
    <3> QED BY <3>2, <3>3
  <2> QED BY <2>5, <2>6, <2>7
<1> QED BY <1>2, <1>3

-----------------------------------------------------------------------------
(* What the settings fix *)

\* Each half the settings fix is a value of its kind, or None.
LEMMA SettingsTyped ==
  ASSUME NEW s \in Settings
  PROVE  /\ PinnedZone(s) \in Zone \cup {None}
         /\ BrowserLocale(s) \in Tag \cup {None}
         /\ ContainerTimezone(s) \in Zone
<1>1. s \in Setting
  BY ConstantsAssumption
<1>2. /\ s.zone \in Zone \cup {None, "auto"} /\ s.tz \in Zone \cup {None}
  BY <1>1 DEF Setting
<1>3. BrowserLocale(s) \in Tag \cup {None} /\ BrowserGeo(s) \in Tag \cup {None}
  BY DEF BrowserLocale, BrowserGeo, LanguageTag
<1>4. ZoneFromGeo(s) \in Zone \cup {None}
  <2>1. \A c \in Country : ZoneForRegion(s, c) \in Zone \cup {None}
    BY TablesRead DEF TablesAreRead
  <2> QED BY <2>1 DEF ZoneFromGeo
<1>5. PinnedZone(s) \in Zone \cup {None}
  BY <1>2, <1>4 DEF PinnedZone, BrowserTimezone
<1>6. ContainerTimezone(s) \in Zone
  BY ConstantsAssumption DEF ContainerTimezone
<1> QED BY <1>3, <1>5, <1>6

\* The zone is left to the address exactly where the documentation says so, but
\* for a disputed one.
LEMMA ZoneIsAsSet ==
  ASSUME settings \in Settings
  PROVE  /\ ZoneIsOpen <=> PinnedZone(settings) = None
         /\ ZoneIsUsable => PinnedZone(settings) = settings.zone
         /\ ~ZoneIsUsable /\ ~ZoneIsOpen =>
              IsPrincipalZone(settings, settings.geo, PinnedZone(settings))
<1>1. settings \in Setting /\ None \notin Zone \cup Tag \cup {"auto"} /\ "auto" \notin Zone
  BY ConstantsAssumption
<1>2. settings.zone \in Zone \cup {None, "auto"} /\ settings.geo \in Tag \cup {None, "junk"}
  BY <1>1 DEF Setting
<1> DEFINE found(c) == ZoneForRegion(settings, c)
<1>3. \A c \in Country :
        \/ found(c) \in Zone /\ IsPrincipalZone(settings, c, found(c))
        \/ found(c) = None /\ \A z \in Zone : ~IsPrincipalZone(settings, c, z)
  BY TablesRead DEF TablesAreRead
<1>4. CASE ZoneIsUsable
  <2>1. settings.zone \in Zone /\ IsKnownZone(settings, settings.zone)
    BY <1>4 DEF ZoneIsUsable
  <2>2. BrowserTimezone(settings) = settings.zone
    BY <2>1 DEF BrowserTimezone
  <2>3. PinnedZone(settings) = settings.zone /\ settings.zone # None
    BY <1>1, <2>1, <2>2 DEF PinnedZone
  <2> QED BY <1>4, <2>3 DEF ZoneIsOpen
<1>5. CASE ~ZoneIsUsable /\ settings.zone = "auto"
  <2>1. BrowserTimezone(settings) = "auto"
    BY <1>1, <1>5 DEF BrowserTimezone
  <2>2. PinnedZone(settings) = None
    BY <1>1, <2>1 DEF PinnedZone
  <2> QED BY <1>5, <2>2 DEF ZoneIsOpen
<1>6. CASE ~ZoneIsUsable /\ settings.zone # "auto"
  <2>1. BrowserTimezone(settings) = None
    BY <1>1, <1>2, <1>6 DEF BrowserTimezone, ZoneIsUsable
  <2>2. PinnedZone(settings) = ZoneFromGeo(settings)
    BY <2>1 DEF PinnedZone
  <2>3. ZoneIsOpen <=> ~\E c \in Country : PlacedIn(c)
    BY <1>6 DEF ZoneIsOpen
  <2>4. CASE settings.geo \in Country
    <3>1. ZoneFromGeo(settings) = found(settings.geo)
      BY <2>4 DEF ZoneFromGeo, BrowserGeo, LanguageTag, Tag
    <3>2. \A c \in Country : PlacedIn(c) <=>
                               settings.geo = c /\ \E z \in Zone : IsPrincipalZone(settings, c, z)
      BY DEF PlacedIn
    <3> HIDE DEF found
    <3> QED BY <1>1, <1>3, <1>6, <2>2, <2>3, <2>4, <3>1, <3>2
  <2>5. CASE settings.geo \notin Country
    <3>1. BrowserGeo(settings) \notin Country /\ ~\E c \in Country : PlacedIn(c)
      BY <2>5, <1>1 DEF BrowserGeo, LanguageTag, PlacedIn, Tag
    <3> QED BY <1>6, <2>2, <2>3, <3>1 DEF ZoneFromGeo
  <2> QED BY <2>4, <2>5
<1> QED BY <1>4, <1>5, <1>6

\* The language is, too.
LEMMA LanguageIsAsSet ==
  /\ LanguageIsOpen <=> BrowserLocale(settings) = None
  /\ settings.lang \in Tag => BrowserLocale(settings) = settings.lang
  /\ settings.lang \notin Tag /\ settings.geo \in Tag => BrowserLocale(settings) = settings.geo
<1>1. None \notin Tag
  BY ConstantsAssumption
<1> QED BY <1>1 DEF LanguageIsOpen, BrowserLocale, BrowserGeo, LanguageTag

-----------------------------------------------------------------------------
(* Cached *)

\* An account's key is its own.
LEMMA KeyIsOwn ==
  ASSUME NEW p \in Proxy, NEW q \in Proxy, CacheKey(p) = CacheKey(q)
  PROVE  p = q
  BY ConstantsAssumption DEF CacheKey

\* What an entry of an account's own key may be told.
LEMMA EntryFits ==
  ASSUME Cached, NEW p \in Proxy, Holds(cache, CacheKey(p))
  PROVE  /\ EntryOf(p) \in Entry
         /\ EntryOf(p).zone \in ZonesOf(p) /\ EntryOf(p).language \in TagsOf(p)
<1>1. Place(cache, CacheKey(p)) \in DOMAIN cache /\ EntryOf(p).key = CacheKey(p)
  BY DEF Holds, Place, EntryOf
<1>2. cache \in Seq(Entry)
  BY DEF Cached, Orderly
<1> QED BY <1>1, <1>2 DEF Cached, Fits, EntryOf

\* An entry that is popped leaves the others in their order.
LEMMA PopsOne ==
  ASSUME NEW S, NEW m \in Seq(S), NEW i \in 1 .. Len(m)
  PROVE  /\ RemoveAt(m, i) \in Seq(S) /\ Len(RemoveAt(m, i)) = Len(m) - 1
         /\ \A j \in 1 .. Len(m) - 1 : RemoveAt(m, i)[j] = m[IF j < i THEN j ELSE j + 1]
<1> DEFINE a == SubSeq(m, 1, i - 1)
           b == SubSeq(m, i + 1, Len(m))
<1>1. Len(m) \in Nat /\ i \in Nat /\ 1 <= i /\ i <= Len(m) /\ \A j \in 1 .. Len(m) : m[j] \in S
  OBVIOUS
<1>2. a \in Seq(S) /\ Len(a) = i - 1 /\ \A j \in 1 .. i - 1 : a[j] = m[j]
  <2>1. \A j \in 1 .. i - 1 : m[j] \in S
    BY <1>1
  <2> QED BY <1>1, <2>1, SubSeqProperties
<1>3. b \in Seq(S) /\ Len(b) = Len(m) - i /\ \A j \in 1 .. Len(m) - i : b[j] = m[i + j]
  <2>1. \A j \in i + 1 .. Len(m) : m[j] \in S
    BY <1>1
  <2>2. /\ b \in Seq(S) /\ Len(b) = IF i + 1 <= Len(m) THEN Len(m) - (i + 1) + 1 ELSE 0
        /\ \A j \in 1 .. Len(m) - (i + 1) + 1 : b[j] = m[i + 1 + j - 1]
    BY <1>1, <2>1, SubSeqProperties
  <2> QED BY <1>1, <2>2
<1>4. RemoveAt(m, i) = a \o b
  BY DEF RemoveAt
<1> HIDE DEF a, b
<1>5. /\ a \o b \in Seq(S) /\ Len(a \o b) = (i - 1) + (Len(m) - i)
      /\ \A j \in 1 .. (i - 1) + (Len(m) - i) :
           (a \o b)[j] = IF j <= i - 1 THEN a[j] ELSE b[j - (i - 1)]
  <2>1. /\ a \o b \in Seq(S) /\ Len(a \o b) = Len(a) + Len(b)
        /\ \A j \in 1 .. Len(a) + Len(b) : (a \o b)[j] = IF j <= Len(a) THEN a[j] ELSE b[j - Len(a)]
    BY <1>2, <1>3, ConcatProperties
  <2> QED BY <1>2, <1>3, <2>1
<1>6. ASSUME NEW j \in 1 .. Len(m) - 1
      PROVE  (a \o b)[j] = m[IF j < i THEN j ELSE j + 1]
  <2>1. CASE j < i
    BY <1>1, <1>2, <1>5, <2>1
  <2>2. CASE ~(j < i)
    <3>1. j - (i - 1) \in 1 .. Len(m) - i /\ i + (j - (i - 1)) = j + 1 /\ ~(j <= i - 1)
      BY <1>1, <2>2
    <3> QED BY <1>1, <1>3, <1>5, <2>2, <3>1
  <2> QED BY <2>1, <2>2
<1> QED BY <1>1, <1>4, <1>5, <1>6

\* A cache without a key's entry has no other of that key, and is in order.
LEMMA WithoutKeeps ==
  ASSUME NEW m, Orderly(m), NEW k
  PROVE  /\ Orderly(Without(m, k)) /\ Len(Without(m, k)) <= Len(m)
         /\ \A i \in DOMAIN Without(m, k) : /\ Without(m, k)[i].key # k
                                            /\ \E j \in DOMAIN m : Without(m, k)[i] = m[j]
<1>1. CASE ~Holds(m, k)
  BY <1>1 DEF Without, Holds, Orderly
<1>2. CASE Holds(m, k)
  <2> DEFINE p == Place(m, k)
             w == Without(m, k)
  <2>0. m \in Seq(Entry)
    BY DEF Orderly
  <2>1. p \in DOMAIN m /\ m[p].key = k
    BY <1>2 DEF Holds, Place
  <2>2. w = RemoveAt(m, p)
    BY <1>2 DEF Without
  <2> HIDE DEF p, w
  <2>3. DOMAIN m = 1 .. Len(m) /\ Len(m) \in Nat /\ p \in Nat /\ 1 <= p /\ p <= Len(m)
    BY <2>0, <2>1
  <2>4. /\ w \in Seq(Entry) /\ Len(w) = Len(m) - 1
        /\ \A j \in 1 .. Len(m) - 1 : w[j] = m[IF j < p THEN j ELSE j + 1]
    <3>1. p \in 1 .. Len(m)
      BY <2>3
    <3> QED BY <2>0, <2>2, <3>1, PopsOne
  <2>5. DOMAIN w = 1 .. Len(m) - 1
    BY <2>4
  <2> DEFINE at(j) == IF j < p THEN j ELSE j + 1
  <2>6. \A j \in 1 .. Len(m) - 1 : at(j) \in DOMAIN m /\ at(j) # p
    BY <2>3
  <2>7. \A i, j \in 1 .. Len(m) - 1 : at(i) = at(j) => i = j
    BY <2>3
  <2>8. \A j \in DOMAIN w : w[j] = m[at(j)] /\ at(j) \in DOMAIN m /\ at(j) # p
    BY <2>4, <2>5, <2>6
  <2> HIDE DEF at
  <2>9. \A j \in DOMAIN w : w[j].key # k /\ \E i \in DOMAIN m : w[j] = m[i]
    BY <2>1, <2>8 DEF Orderly
  <2>10. \A i, j \in DOMAIN w : w[i].key = w[j].key => i = j
    BY <2>5, <2>7, <2>8 DEF Orderly
  <2>11. Len(w) <= Len(m)
    BY <2>3, <2>4
  <2>12. Orderly(w)
    BY <2>4, <2>9, <2>10 DEF Orderly
  <2> QED BY <2>9, <2>11, <2>12 DEF w
<1> QED BY <1>1, <1>2

\* Trimming takes the oldest away and leaves the newest.
LEMMA TrimsOldest ==
  ASSUME NEW m, Orderly(m), Len(m) > 0
  PROVE  /\ Orderly(Trimmed(m)) /\ Len(Trimmed(m)) <= MaxExits /\ Len(Trimmed(m)) > 0
         /\ \A i \in DOMAIN Trimmed(m) : \E j \in DOMAIN m : Trimmed(m)[i] = m[j]
         /\ Trimmed(m)[Len(Trimmed(m))] = m[Len(m)]
<1>0. m \in Seq(Entry) /\ Len(m) \in Nat /\ DOMAIN m = 1 .. Len(m) /\ MaxExits \in Nat \ {0}
  BY ConstantsAssumption DEF Orderly
<1>1. CASE ~(Len(m) > MaxExits)
  BY <1>0, <1>1 DEF Trimmed
<1>2. CASE Len(m) > MaxExits
  <2> DEFINE d == Len(m) - MaxExits
             w == SubSeq(m, d + 1, Len(m))
  <2>1. d \in Nat /\ d + 1 <= Len(m) /\ Len(m) - (d + 1) + 1 = MaxExits
    BY <1>0, <1>2
  <2>2. /\ w \in Seq(Entry) /\ Len(w) = MaxExits
        /\ \A i \in 1 .. MaxExits : w[i] = m[d + i]
    <3>1. \A i \in d + 1 .. Len(m) : m[i] \in Entry
      BY <1>0, <2>1
    <3>2. d + 1 \in Int /\ Len(m) \in Int
      BY <1>0, <2>1
    <3>3. /\ w \in Seq(Entry) /\ Len(w) = IF d + 1 <= Len(m) THEN Len(m) - (d + 1) + 1 ELSE 0
          /\ \A i \in 1 .. Len(m) - (d + 1) + 1 : w[i] = m[d + 1 + i - 1]
      BY <3>1, <3>2, SubSeqProperties
    <3> QED BY <1>0, <2>1, <3>3
  <2>3. Trimmed(m) = w
    BY <1>2 DEF Trimmed
  <2>4. d + MaxExits = Len(m) /\ \A i \in 1 .. MaxExits : d + i \in DOMAIN m /\ i \in Nat
    BY <1>0, <1>2
  <2>5. DOMAIN w = 1 .. MaxExits /\ d \in Nat
    BY <1>0, <2>1, <2>2
  <2> HIDE DEF d, w
  <2>6. \A i \in DOMAIN w : w[i] = m[d + i] /\ d + i \in DOMAIN m /\ i \in Nat
    BY <2>2, <2>4, <2>5
  <2>7. ASSUME NEW i \in DOMAIN w, NEW j \in DOMAIN w, w[i].key = w[j].key
        PROVE  i = j
    <3>1. d + i = d + j
      BY <2>6, <2>7 DEF Orderly
    <3> QED BY <2>5, <2>6, <3>1
  <2>8. \A i \in DOMAIN w : ~w[i].complete => w[i].left <= FailTTL
    BY <2>6 DEF Orderly
  <2>9. Orderly(w)
    BY <2>2, <2>7, <2>8 DEF Orderly
  <2>10. w[Len(w)] = m[Len(m)] /\ Len(w) > 0 /\ Len(w) <= MaxExits
    BY <1>0, <2>2, <2>4
  <2> QED BY <2>3, <2>6, <2>9, <2>10
<1> QED BY <1>1, <1>2

\* A stored entry is the newest, and the rest were there.
LEMMA StoresOne ==
  ASSUME Cached, NEW e \in Entry, Fits(e), ~e.complete => e.left <= FailTTL, cache' = Stored(e)
  PROVE  /\ Orderly(cache') /\ Len(cache') <= MaxExits
         /\ \A i \in DOMAIN cache' : cache'[i] = e \/ \E j \in DOMAIN cache : cache'[i] = cache[j]
         /\ \E i \in DOMAIN cache' : cache'[i] = e
<1> DEFINE w == Without(cache, e.key)
           a == Append(w, e)
<1>1. /\ Orderly(w) /\ Len(w) <= Len(cache)
      /\ \A i \in DOMAIN w : w[i].key # e.key /\ \E j \in DOMAIN cache : w[i] = cache[j]
  BY WithoutKeeps DEF Cached
<1>2. cache' = Trimmed(a)
  BY DEF Stored
<1> HIDE DEF w
<1>3. /\ a \in Seq(Entry) /\ Len(a) = Len(w) + 1 /\ Len(w) \in Nat
      /\ DOMAIN a = 1 .. Len(w) + 1 /\ DOMAIN w = 1 .. Len(w)
      /\ \A i \in 1 .. Len(w) : a[i] = w[i]
      /\ a[Len(w) + 1] = e
  BY <1>1, AppendProperties DEF Orderly
<1> HIDE DEF a
<1>4. \A i \in DOMAIN a : \/ i \in DOMAIN w /\ a[i] = w[i]
                          \/ i = Len(w) + 1 /\ a[i] = e
  BY <1>3
<1>5. Orderly(a)
  <2>1. \A i, j \in DOMAIN a : a[i].key = a[j].key => i = j
    BY <1>1, <1>4 DEF Orderly
  <2>2. \A i \in DOMAIN a : ~a[i].complete => a[i].left <= FailTTL
    BY <1>1, <1>4 DEF Orderly
  <2> QED BY <1>3, <2>1, <2>2 DEF Orderly
<1>6. Len(a) > 0 /\ a[Len(a)] = e
  BY <1>3
<1>7. /\ Orderly(Trimmed(a)) /\ Len(Trimmed(a)) <= MaxExits /\ Len(Trimmed(a)) > 0
      /\ \A i \in DOMAIN Trimmed(a) : \E j \in DOMAIN a : Trimmed(a)[i] = a[j]
      /\ Trimmed(a)[Len(Trimmed(a))] = a[Len(a)]
  BY <1>5, <1>6, TrimsOldest
<1>8. Len(cache') \in DOMAIN cache' /\ cache'[Len(cache')] = e
  BY <1>2, <1>6, <1>7 DEF Orderly
<1>9. \A i \in DOMAIN cache' : cache'[i] = e \/ \E j \in DOMAIN cache : cache'[i] = cache[j]
  BY <1>1, <1>2, <1>4, <1>7
<1> QED BY <1>2, <1>7, <1>8, <1>9

\* Time takes from an entry nothing but its time.
LEMMA TickCached ==
  ASSUME Inv, Tick
  PROVE  Cached'
<1>1. Orderly(cache) /\ Len(cache) <= MaxExits /\ \A i \in DOMAIN cache : Fits(cache[i])
  BY DEF Inv, Cached
<1>2. cache \in Seq(Entry) /\ Len(cache) \in Nat /\ DOMAIN cache = 1 .. Len(cache)
  BY <1>1 DEF Orderly
<1> DEFINE aged(i) == [cache[i] EXCEPT !.left = IF @ > 0 THEN @ - 1 ELSE 0]
<1>3. \A i \in 1 .. Len(cache) :
        /\ aged(i) \in Entry /\ aged(i).key = cache[i].key /\ aged(i).complete = cache[i].complete
        /\ aged(i).zone = cache[i].zone /\ aged(i).language = cache[i].language
        /\ aged(i).left <= cache[i].left
  <2> SUFFICES ASSUME NEW i \in 1 .. Len(cache)
               PROVE  /\ aged(i) \in Entry /\ aged(i).key = cache[i].key
                      /\ aged(i).complete = cache[i].complete /\ aged(i).zone = cache[i].zone
                      /\ aged(i).language = cache[i].language /\ aged(i).left <= cache[i].left
    OBVIOUS
  <2>1. cache[i] \in Entry
    BY <1>2
  <2> QED BY <2>1, ConstantsAssumption DEF Entry
<1>4. cache' = [i \in 1 .. Len(cache) |-> aged(i)]
  BY <1>2 DEF Tick
<1> HIDE DEF aged
<1>5. cache' \in Seq(Entry) /\ Len(cache') = Len(cache) /\ \A i \in DOMAIN cache' : cache'[i] = aged(i)
  BY <1>2, <1>3, <1>4
<1>6. DOMAIN cache' = 1 .. Len(cache)
  BY <1>4
<1>7. Orderly(cache')
  <2>1. \A i, j \in DOMAIN cache' : cache'[i].key = cache'[j].key => i = j
    BY <1>1, <1>2, <1>3, <1>5, <1>6 DEF Orderly
  <2>2. ASSUME NEW i \in DOMAIN cache', ~cache'[i].complete
        PROVE  cache'[i].left <= FailTTL
    <3>1. /\ cache[i].left <= FailTTL /\ cache'[i].left <= cache[i].left
          /\ cache[i] \in Entry /\ cache'[i] \in Entry
      BY <1>1, <1>2, <1>3, <1>5, <1>6, <2>2 DEF Orderly
    <3> QED BY <3>1, ConstantsAssumption DEF Entry
  <2> QED BY <1>5, <2>1, <2>2 DEF Orderly
<1>8. \A i \in DOMAIN cache' : Fits(cache'[i])
  BY <1>1, <1>2, <1>3, <1>5, <1>6 DEF Fits
<1>9. UNCHANGED settings
  BY DEF Tick
<1>10. \A p \in Proxy : ZonesOf(p)' = ZonesOf(p) /\ TagsOf(p)' = TagsOf(p)
  BY <1>9 DEF ZonesOf, TagsOf
<1> QED BY <1>1, <1>5, <1>7, <1>8, <1>10 DEF Cached, Fits

-----------------------------------------------------------------------------
(* Honest *)

\* Nobody writes to another thread.
Alone(t) == \A u \in Thread \ {t} : pc'[u] = pc[u] /\ job'[u] = job[u] /\ browser'[u] = browser[u]

\* What a browser may be told is a zone, and a tag.
LEMMA HalvesTyped ==
  ASSUME Types, NEW p \in Proxy
  PROVE  /\ ZonesOf(p) \subseteq Zone /\ TagsOf(p) \subseteq Tag
         /\ PinnedZone(settings) # None => PinnedZone(settings) \in ZonesOf(p)
         /\ BrowserLocale(settings) # None => BrowserLocale(settings) \in TagsOf(p)
<1>1. /\ PinnedZone(settings) \in Zone \cup {None} /\ BrowserLocale(settings) \in Tag \cup {None}
      /\ ContainerTimezone(settings) \in Zone
  BY SettingsTyped DEF Types
<1>2. /\ Exits[p] \subseteq Country /\ DefaultLanguage \in Tag /\ Country \subseteq Tag
      /\ \A c \in Country : ExitZone[c] \in Zone
  BY ConstantsAssumption DEF Tag
<1> QED BY <1>1, <1>2 DEF ZonesOf, TagsOf

\* A call for a half, with nothing known yet.
NewJob(engine, p, half) == [engine |-> engine, proxy |-> p, want |-> half, zone |-> None,
                            language |-> None, ip |-> None]

LEMMA NewJobTyped ==
  ASSUME NEW engine \in Engine, NEW p \in Proxy, NEW half \in Half
  PROVE  NewJob(engine, p, half) \in Job /\ NewJob(engine, p, half).proxy = p
  BY DEF NewJob, Job

\* Being told a half that is allowed is honest.
LEMMA ToldHonest ==
  ASSUME Inv, NEW t \in Thread, NEW zone, NEW language, Told(t, zone, language),
         pc[t] # "off", UNCHANGED settings,
         job[t].want = "zone" => zone \in ZonesOf(job[t].proxy),
         job[t].want = "language" => language \in TagsOf(job[t].proxy)
  PROVE  /\ pc' \in [Thread -> Step]
         /\ job' \in [Thread -> Job \cup {None}] /\ browser' \in [Thread -> Browser \cup {None}]
         /\ Honest(t)' /\ Alone(t)
         /\ pc'[t] # "store" /\ job'[t].proxy = job[t].proxy
         /\ browser'[t][job[t].want] \in
              {browser[t][job[t].want], IF job[t].want = "zone" THEN zone ELSE language}
<1> DEFINE j == job[t]
           p == job[t].proxy
<1>1. Types /\ Honest(t) /\ j \in Job /\ browser[t] \in Browser
  BY DEF Inv, Honest, Calling
<1>2. p \in Proxy /\ j.engine \in Engine /\ j.want \in Half
  BY <1>1 DEF Job
<1>3. ZonesOf(p) \subseteq Zone /\ TagsOf(p) \subseteq Tag
  BY <1>1, <1>2, HalvesTyped
<1> DEFINE n == NewJob(j.engine, p, "language")
<1>5. n \in Job /\ n.proxy = p
  BY <1>2, NewJobTyped DEF Half
<1>6. job' = [job EXCEPT ![t] = n]
  BY DEF Told, Asks, NewJob
<1>7. job' \in [Thread -> Job \cup {None}] /\ job'[t] = n
  BY <1>1, <1>5, <1>6 DEF Types
<1>8. pc' \in [Thread -> Step] /\ pc'[t] \in {"ask", "running"}
  BY <1>1 DEF Told, Types, Step
<1> DEFINE bz == [browser[t] EXCEPT !.zone = zone]
           bl == [browser[t] EXCEPT !.language = language]
<1>9. /\ j.want = "zone" => bz \in Browser /\ bz.zone = zone /\ bz.language = browser[t].language
      /\ j.want = "language" =>
           bl \in Browser /\ bl.language = language /\ bl.zone = browser[t].zone
  BY <1>1, <1>3 DEF Browser
<1>10. \/ j.want = "language" /\ browser' = [browser EXCEPT ![t] = bl]
       \/ j.want = "zone" /\ browser' = [browser EXCEPT ![t] = bz]
       \/ j.want = "zone" /\ browser' = browser
  BY DEF Told
<1> HIDE DEF bz, bl, n
<1>11. \/ j.want = "language" /\ browser'[t] = bl
       \/ j.want = "zone" /\ browser'[t] = bz
       \/ j.want = "zone" /\ browser'[t] = browser[t]
  BY <1>1, <1>10 DEF Types
<1>12. browser' \in [Thread -> Browser \cup {None}] /\ browser'[t] \in Browser
  BY <1>1, <1>9, <1>10, <1>11 DEF Types
<1>13. Alone(t)
  BY <1>1, <1>6, <1>10 DEF Told, Types, Alone
<1>15. Calling(t)'
  BY <1>5, <1>7, <1>8, <1>12 DEF Calling
<1>16. /\ browser[t].zone # None => browser[t].zone \in ZonesOf(p)
       /\ browser[t].language # None => browser[t].language \in TagsOf(p)
  BY <1>1 DEF Honest
<1>17. /\ browser'[t].zone # None => browser'[t].zone \in ZonesOf(p)
       /\ browser'[t].language # None => browser'[t].language \in TagsOf(p)
  BY <1>9, <1>11, <1>16
<1>18. \A q : ZonesOf(q)' = ZonesOf(q) /\ TagsOf(q)' = TagsOf(q)
  BY DEF ZonesOf, TagsOf
<1>19. Honest(t)'
  <2>1. job'[t].proxy = p
    BY <1>5, <1>7
  <2> QED BY <1>15, <1>17, <1>18, <2>1 DEF Honest, ZonesOf, TagsOf
<1>20. browser'[t][j.want] \in {browser[t][j.want], IF j.want = "zone" THEN zone ELSE language}
  BY <1>9, <1>11
<1> QED BY <1>5, <1>7, <1>8, <1>12, <1>13, <1>19, <1>20

\* A thread whose call goes on knows more, and its browser what it knew.
LEMMA GoesOnHonest ==
  ASSUME Inv, NEW t \in Thread, pc[t] \in {"ask", "prepare", "locale"}, UNCHANGED <<settings, browser>>,
         NEW step \in {"prepare", "locale", "store"}, Goto(t, step),
         NEW j \in Job, job' = [job EXCEPT ![t] = j],
         j.want = job[t].want, j.proxy = job[t].proxy, Fixed(j.want) = None,
         step = "prepare" => j.zone = PinnedZone(settings),
         step # "prepare" =>
           \/ j.zone = PinnedZone(settings)
           \/ PinnedZone(settings) = None /\ \E c \in Exits[j.proxy] : j.zone = ExitZone[c],
         step = "locale" => j.ip \in Exits[j.proxy] \cup {None},
         step # "store" => j.language = BrowserLocale(settings),
         step = "store" =>
           \/ j.language = BrowserLocale(settings)
           \/ BrowserLocale(settings) = None /\ j.language \in Exits[j.proxy]
  PROVE  pc' \in [Thread -> Step] /\ job' \in [Thread -> Job \cup {None}] /\ Honest(t)' /\ Alone(t)
<1>1. Types /\ Honest(t)
  BY DEF Inv
<1>2. pc' \in [Thread -> Step] /\ pc'[t] = step /\ job' \in [Thread -> Job \cup {None}] /\ job'[t] = j
  BY <1>1 DEF Types, Step
<1>3. Alone(t)
  BY <1>1 DEF Types, Alone
<1>4. \A q : ZonesOf(q)' = ZonesOf(q) /\ TagsOf(q)' = TagsOf(q)
  BY DEF ZonesOf, TagsOf
<1>5. /\ browser'[t] = browser[t] /\ browser[t] \in Browser
      /\ browser[t].zone # None => browser[t].zone \in ZonesOf(j.proxy)
      /\ browser[t].language # None => browser[t].language \in TagsOf(j.proxy)
  BY <1>1 DEF Honest, Calling
<1>6. Fixed(j.want)' = None
  BY DEF Fixed
<1>7. Calling(t)'
  <2>1. pc'[t] # "off" /\ job'[t] \in Job /\ browser'[t] \in Browser
    BY <1>2, <1>5
  <2>2. Fixed(job[t].want)' = None
    BY <1>2, <1>6 DEF Fixed
  <2> QED BY <1>2, <2>1, <2>2 DEF Calling
<1>8. /\ browser'[t].zone # None => browser'[t].zone \in ZonesOf(job[t].proxy)'
      /\ browser'[t].language # None => browser'[t].language \in TagsOf(job[t].proxy)'
  BY <1>2, <1>5 DEF ZonesOf, TagsOf
<1> QED BY <1>2, <1>3, <1>7, <1>8 DEF Honest

\* A launch asks for its first half, and its browser has been told nothing.
LEMMA LaunchHonest ==
  ASSUME Inv, NEW t \in Thread, Launch(t)
  PROVE  /\ pc' \in [Thread -> Step] /\ job' \in [Thread -> Job \cup {None}]
         /\ browser' \in [Thread -> Browser \cup {None}] /\ Honest(t)' /\ Alone(t)
<1>1. Types
  BY DEF Inv
<1>2. PICK engine \in Engine, asked \in settings.asks \cup {None} :
        Asks(t, engine, ProxyToConfig(asked), IF engine = "stealth" THEN "zone" ELSE "language")
  BY DEF Launch
<1>3. ProxyToConfig(asked) \in Proxy
  <2>1. settings.asks \subseteq Proxy /\ settings.proxy \in Proxy \cup {None} /\ Direct \in Proxy
    BY <1>1, ConstantsAssumption DEF Types, Setting
  <2> QED BY <2>1 DEF ProxyToConfig
<1> DEFINE n == NewJob(engine, ProxyToConfig(asked), IF engine = "stealth" THEN "zone" ELSE "language")
<1>4. n \in Job
  BY <1>3, NewJobTyped DEF Half
<1>5. job' = [job EXCEPT ![t] = n]
  BY <1>2 DEF Asks, NewJob
<1> HIDE DEF n
<1>6. NewBrowser \in Browser /\ NewBrowser.zone = None /\ NewBrowser.language = None
  BY DEF NewBrowser, Browser
<1>7. /\ browser' = [browser EXCEPT ![t] = NewBrowser] /\ pc' = [pc EXCEPT ![t] = "ask"]
      /\ UNCHANGED settings
  BY DEF Launch
<1>8. /\ job' \in [Thread -> Job \cup {None}] /\ job'[t] = n
      /\ browser' \in [Thread -> Browser \cup {None}] /\ browser'[t] = NewBrowser
      /\ pc' \in [Thread -> Step] /\ pc'[t] = "ask"
  BY <1>1, <1>4, <1>5, <1>6, <1>7 DEF Types, Step
<1>9. Alone(t)
  BY <1>1, <1>5, <1>7 DEF Types, Alone
<1>10. Honest(t)'
  BY <1>4, <1>6, <1>8 DEF Honest, Calling
<1> QED BY <1>8, <1>9, <1>10

\* A solve asks for the zone again; what the browser was told is still of its proxy.
LEMMA BeginSolveHonest ==
  ASSUME Inv, NEW t \in Thread, BeginSolve(t)
  PROVE  /\ pc' \in [Thread -> Step] /\ job' \in [Thread -> Job \cup {None}]
         /\ Honest(t)' /\ Alone(t)
<1>1. Types /\ Honest(t) /\ pc[t] = "running"
  BY DEF Inv, BeginSolve
<1>2. job[t] \in Job /\ browser[t] \in Browser /\ job[t].proxy \in Proxy
  BY <1>1 DEF Honest, Calling, Job
<1> DEFINE n == NewJob("chrome", job[t].proxy, "zone")
<1>3. n \in Job /\ n.proxy = job[t].proxy
  BY <1>2, NewJobTyped DEF Half, Engine
<1>4. job' = [job EXCEPT ![t] = n] /\ pc' = [pc EXCEPT ![t] = "ask"] /\ UNCHANGED <<settings, browser>>
  BY DEF BeginSolve, Asks, NewJob
<1> HIDE DEF n
<1>5. /\ job' \in [Thread -> Job \cup {None}] /\ job'[t] = n
      /\ pc' \in [Thread -> Step] /\ pc'[t] = "ask" /\ browser'[t] = browser[t]
  BY <1>1, <1>3, <1>4 DEF Types, Step
<1>6. Alone(t)
  BY <1>1, <1>4 DEF Types, Alone
<1>7. /\ browser[t].zone # None => browser[t].zone \in ZonesOf(job[t].proxy)
      /\ browser[t].language # None => browser[t].language \in TagsOf(job[t].proxy)
  BY <1>1 DEF Honest
<1>8. /\ browser'[t].zone # None => browser'[t].zone \in ZonesOf(job[t].proxy)'
      /\ browser'[t].language # None => browser'[t].language \in TagsOf(job[t].proxy)'
  BY <1>3, <1>4, <1>5, <1>7 DEF ZonesOf, TagsOf
<1>9. Calling(t)'
  BY <1>2, <1>3, <1>5 DEF Calling
<1> QED BY <1>5, <1>6, <1>8, <1>9 DEF Honest

\* A closed browser was told nothing.
LEMMA CloseHonest ==
  ASSUME Inv, NEW t \in Thread, Close(t)
  PROVE  /\ pc' \in [Thread -> Step] /\ job' \in [Thread -> Job \cup {None}]
         /\ browser' \in [Thread -> Browser \cup {None}] /\ Honest(t)' /\ Alone(t)
<1>1. Types
  BY DEF Inv
<1>2. pc'[t] = "off" /\ job'[t] = None /\ browser'[t] = None
  BY <1>1 DEF Close, Types
<1>3. /\ pc' \in [Thread -> Step] /\ job' \in [Thread -> Job \cup {None}]
      /\ browser' \in [Thread -> Browser \cup {None}]
  BY <1>1 DEF Close, Types, Step
<1>4. Alone(t)
  BY <1>1 DEF Close, Types, Alone
<1> QED BY <1>2, <1>3, <1>4 DEF Honest, Calling

\* The call that starts a lookup hands it what the settings fix of the other half.
LEMMA LookUpHonest ==
  ASSUME Inv, NEW t \in Thread, LookUp(t)
  PROVE  pc' \in [Thread -> Step] /\ job' \in [Thread -> Job \cup {None}] /\ Honest(t)' /\ Alone(t)
<1>1. Types /\ Honest(t) /\ pc[t] = "ask" /\ Fixed(job[t].want) = None /\ UNCHANGED <<settings, browser>>
  BY DEF Inv, LookUp
<1>2. job[t] \in Job
  BY <1>1 DEF Honest, Calling
<1>3. /\ PinnedZone(settings) \in Zone \cup {None} /\ BrowserLocale(settings) \in Tag \cup {None}
  BY <1>1, SettingsTyped DEF Types
<1> DEFINE zone == IF job[t].want = "language" THEN PinnedZone(settings) ELSE None
           language == IF job[t].want = "zone" THEN BrowserLocale(settings) ELSE None
           j == [job[t] EXCEPT !.zone = zone, !.language = language]
<1>4. job' = [job EXCEPT ![t] = j]
  BY DEF LookUp
<1>5. job[t].want \in {"zone", "language"}
  BY <1>2 DEF Job, Half
<1>6. zone = PinnedZone(settings) /\ language = BrowserLocale(settings)
  BY <1>1, <1>5 DEF Fixed
<1> HIDE DEF zone, language
<1>7. /\ j \in Job /\ j.want = job[t].want /\ j.proxy = job[t].proxy
      /\ j.zone = zone /\ j.language = language
  BY <1>2, <1>3, <1>6 DEF Job
<1> HIDE DEF j
<1>8. Goto(t, "prepare")
  BY DEF LookUp
<1> QED BY <1>1, <1>4, <1>6, <1>7, <1>8, GoesOnHonest

\* The address is the exit's, and so is the zone unless one was handed in.
LEMMA PrepareHonest ==
  ASSUME Inv, NEW t \in Thread, Prepare(t)
  PROVE  pc' \in [Thread -> Step] /\ job' \in [Thread -> Job \cup {None}] /\ Honest(t)' /\ Alone(t)
<1>1. Types /\ Honest(t) /\ pc[t] = "prepare" /\ UNCHANGED <<settings, browser>>
  BY DEF Inv, Prepare
<1>2. /\ job[t] \in Job /\ Fixed(job[t].want) = None /\ job[t].zone = PinnedZone(settings)
      /\ job[t].language = BrowserLocale(settings)
  BY <1>1 DEF Honest, Calling
<1> DEFINE here == exit[job[t].proxy]
           found == IF job[t].zone # None THEN job[t].zone ELSE ExitZone[here]
           seen == IF job[t].proxy = Direct THEN None ELSE here
<1>3. PICK r \in {[zone |-> found, ip |-> seen], [zone |-> job[t].zone, ip |-> seen],
                  [zone |-> job[t].zone, ip |-> None]} :
        job' = [job EXCEPT ![t] = [@ EXCEPT !.zone = r.zone, !.ip = r.ip]]
  BY DEF Prepare
<1>4. here \in Exits[job[t].proxy] /\ here \in Country /\ ExitZone[here] \in Zone
  BY <1>1, <1>2, ConstantsAssumption DEF Types, Job
<1>5. \/ r.zone = PinnedZone(settings)
      \/ PinnedZone(settings) = None /\ \E c \in Exits[job[t].proxy] : r.zone = ExitZone[c]
  BY <1>2, <1>3, <1>4
<1>6. r.ip \in Exits[job[t].proxy] \cup {None} /\ r.ip \in Country \cup {None} /\ r.zone \in Zone \cup {None}
  <2>1. PinnedZone(settings) \in Zone \cup {None}
    BY <1>1, SettingsTyped DEF Types
  <2> QED BY <1>2, <1>3, <1>4, <2>1
<1> HIDE DEF here, found, seen
<1> DEFINE j == [job[t] EXCEPT !.zone = r.zone, !.ip = r.ip]
<1>7. /\ j \in Job /\ j.want = job[t].want /\ j.proxy = job[t].proxy
      /\ j.zone = r.zone /\ j.ip = r.ip /\ j.language = job[t].language
  BY <1>2, <1>6 DEF Job
<1>8. job' = [job EXCEPT ![t] = j]
  BY <1>3
<1> HIDE DEF j
<1>9. Goto(t, "locale")
  BY DEF Prepare
<1> QED BY <1>1, <1>2, <1>5, <1>6, <1>7, <1>8, <1>9, GoesOnHonest

\* The language is that of the address, or of the exit.
LEMMA LocaleHonest ==
  ASSUME Inv, NEW t \in Thread, Locale(t)
  PROVE  pc' \in [Thread -> Step] /\ job' \in [Thread -> Job \cup {None}] /\ Honest(t)' /\ Alone(t)
<1>1. Types /\ Honest(t) /\ pc[t] = "locale" /\ UNCHANGED <<settings, browser>>
  BY DEF Inv, Locale
<1>2. /\ job[t] \in Job /\ Fixed(job[t].want) = None
      /\ \/ job[t].zone = PinnedZone(settings)
         \/ PinnedZone(settings) = None /\ \E c \in Exits[job[t].proxy] : job[t].zone = ExitZone[c]
      /\ job[t].ip \in Exits[job[t].proxy] \cup {None} /\ job[t].language = BrowserLocale(settings)
  BY <1>1 DEF Honest, Calling
<1>3. exit[job[t].proxy] \in Exits[job[t].proxy] /\ Exits[job[t].proxy] \subseteq Country
  BY <1>1, <1>2, ConstantsAssumption DEF Types, Job
<1>4. PICK j \in Job : /\ job' = [job EXCEPT ![t] = j]
                       /\ j.want = job[t].want /\ j.proxy = job[t].proxy /\ j.zone = job[t].zone
                       /\ \/ j.language = BrowserLocale(settings)
                          \/ BrowserLocale(settings) = None /\ j.language \in Exits[j.proxy]
  <2>1. CASE job[t].language # None
    <3>1. job' = [job EXCEPT ![t] = job[t]]
      BY <1>1, <2>1 DEF Locale, Types
    <3> QED BY <1>2, <3>1
  <2>2. CASE job[t].language = None
    <3>1. PICK l \in {None, IF job[t].ip # None THEN job[t].ip ELSE exit[job[t].proxy]} :
             job' = [job EXCEPT ![t] = [@ EXCEPT !.language = l]]
      BY <2>2 DEF Locale
    <3> DEFINE j == [job[t] EXCEPT !.language = l]
    <3>2. l = None \/ l \in Exits[job[t].proxy]
      BY <1>2, <1>3, <3>1
    <3>3. l \in Tag \cup {None}
      BY <1>3, <3>2 DEF Tag
    <3>4. /\ j \in Job /\ j.want = job[t].want /\ j.proxy = job[t].proxy
          /\ j.zone = job[t].zone /\ j.language = l
      BY <1>2, <3>3 DEF Job
    <3>5. job' = [job EXCEPT ![t] = j]
      BY <3>1
    <3> HIDE DEF j
    <3> QED BY <1>2, <2>2, <3>2, <3>4, <3>5
  <2> QED BY <2>1, <2>2
<1>5. Goto(t, "store")
  BY DEF Locale
<1> QED BY <1>1, <1>2, <1>4, <1>5, GoesOnHonest

\* What the settings fix, and what the cache has, may be told.
LEMMA AnswerHonest ==
  ASSUME Inv, NEW t \in Thread, AnswerFromSettings(t) \/ AnswerFromCache(t)
  PROVE  /\ pc' \in [Thread -> Step] /\ job' \in [Thread -> Job \cup {None}]
         /\ browser' \in [Thread -> Browser \cup {None}] /\ Honest(t)' /\ Alone(t)
         /\ pc[t] = "ask"
<1>1. Types /\ Cached /\ Honest(t) /\ pc[t] = "ask" /\ UNCHANGED settings
  BY DEF Inv, AnswerFromSettings, AnswerFromCache
<1>2. job[t] \in Job /\ job[t].proxy \in Proxy
  BY <1>1 DEF Honest, Calling, Job
<1>3. CASE AnswerFromSettings(t)
  <2>1. Told(t, PinnedZone(settings), BrowserLocale(settings)) /\ Fixed(job[t].want) # None
    BY <1>3 DEF AnswerFromSettings
  <2>2. /\ job[t].want = "zone" => PinnedZone(settings) \in ZonesOf(job[t].proxy)
        /\ job[t].want = "language" => BrowserLocale(settings) \in TagsOf(job[t].proxy)
    BY <1>1, <1>2, <2>1, HalvesTyped DEF Fixed
  <2> QED BY <1>1, <2>1, <2>2, ToldHonest
<1>4. CASE AnswerFromCache(t)
  <2>1. Told(t, EntryOf(job[t].proxy).zone, EntryOf(job[t].proxy).language) /\ Fresh(job[t].proxy)
    BY <1>4 DEF AnswerFromCache
  <2>2. /\ EntryOf(job[t].proxy).zone \in ZonesOf(job[t].proxy)
        /\ EntryOf(job[t].proxy).language \in TagsOf(job[t].proxy)
    BY <1>1, <1>2, <2>1, EntryFits DEF Fresh
  <2> QED BY <1>1, <2>1, <2>2, ToldHonest
<1> QED BY <1>3, <1>4

\* A lookup is stored and told, or yields to the answer that is known.
LEMMA StoreHonest ==
  ASSUME Inv, NEW t \in Thread, StoreAnswer(t)
  PROVE  /\ pc' \in [Thread -> Step] /\ job' \in [Thread -> Job \cup {None}]
         /\ browser' \in [Thread -> Browser \cup {None}] /\ Honest(t)' /\ Alone(t) /\ Cached'
         /\ Known(job[t].proxy) =>
              /\ Known(job[t].proxy)'
              /\ browser'[t][job[t].want] \in {browser[t][job[t].want], EntryOf(job[t].proxy)'[job[t].want]}
<1>1. Types /\ Cached /\ Honest(t) /\ pc[t] = "store" /\ UNCHANGED <<settings, exit>>
  BY DEF Inv, StoreAnswer
<1> DEFINE j == job[t]
           p == job[t].proxy
           complete == j.zone # None /\ j.language # None
           zone == IF j.zone # None THEN j.zone ELSE ContainerTimezone(settings)
           language == IF j.language # None THEN j.language ELSE DefaultLanguage
           e == [key |-> CacheKey(p), zone |-> zone, language |-> language,
                 complete |-> complete, left |-> Lifetime(complete)]
<1>2. /\ j \in Job /\ p \in Proxy /\ j.want \in {"zone", "language"}
      /\ \/ j.zone = PinnedZone(settings)
         \/ PinnedZone(settings) = None /\ \E c \in Exits[p] : j.zone = ExitZone[c]
      /\ \/ j.language = BrowserLocale(settings)
         \/ BrowserLocale(settings) = None /\ j.language \in Exits[p]
  BY <1>1 DEF Honest, Calling, Job, Half
<1>3. zone \in ZonesOf(p) /\ language \in TagsOf(p)
  BY <1>2 DEF ZonesOf, TagsOf
<1>4. zone \in Zone /\ language \in Tag
  BY <1>1, <1>2, <1>3, HalvesTyped
<1>5. e \in Entry
  <2>1. Lifetime(complete) \in 0 .. FullTTL
    BY ConstantsAssumption DEF Lifetime
  <2>2. CacheKey(p) \in Key
    BY <1>2 DEF Key
  <2>3. complete \in BOOLEAN
    OBVIOUS
  <2> HIDE DEF complete, zone, language
  <2> QED BY <1>4, <2>1, <2>2, <2>3 DEF Entry
<1>6. /\ e.key = CacheKey(p) /\ e.zone = zone /\ e.language = language
      /\ e.complete = complete /\ e.left = Lifetime(complete)
  OBVIOUS
<1>7. \A q : ZonesOf(q)' = ZonesOf(q) /\ TagsOf(q)' = TagsOf(q)
  BY <1>1 DEF ZonesOf, TagsOf
<1>8. CASE /\ Yields(t, complete) /\ UNCHANGED cache
           /\ Told(t, EntryOf(p).zone, EntryOf(p).language)
  <2>1. Known(p)
    BY <1>8 DEF Yields
  <2>2. EntryOf(p).zone \in ZonesOf(p) /\ EntryOf(p).language \in TagsOf(p)
    BY <1>1, <1>2, <2>1, EntryFits DEF Known, Fresh
  <2>3. /\ pc' \in [Thread -> Step] /\ job' \in [Thread -> Job \cup {None}]
        /\ browser' \in [Thread -> Browser \cup {None}] /\ Honest(t)' /\ Alone(t)
        /\ job'[t].proxy = p
        /\ browser'[t][j.want] \in
              {browser[t][j.want], IF j.want = "zone" THEN EntryOf(p).zone ELSE EntryOf(p).language}
    BY <1>1, <1>8, <2>2, ToldHonest
  <2>4. Cached'
    BY <1>1, <1>7, <1>8 DEF Cached, Fits, ZonesOf, TagsOf
  <2>5. Known(job[t].proxy)' /\ EntryOf(job[t].proxy)' = EntryOf(p)
    BY <1>8, <2>1, <2>3 DEF Known, Fresh, EntryOf
  <2> QED BY <1>2, <2>3, <2>4, <2>5
<1>9. CASE ~Yields(t, complete) /\ cache' = Stored(e) /\ Told(t, zone, language)
  <2>1. /\ pc' \in [Thread -> Step] /\ job' \in [Thread -> Job \cup {None}]
        /\ browser' \in [Thread -> Browser \cup {None}] /\ Honest(t)' /\ Alone(t)
        /\ job'[t].proxy = p
        /\ browser'[t][j.want] \in {browser[t][j.want], IF j.want = "zone" THEN zone ELSE language}
    BY <1>1, <1>3, <1>9, ToldHonest
  <2>2. Fits(e)
    <3>1. \A q \in Proxy : e.key = CacheKey(q) => q = p
      BY <1>2, <1>6, KeyIsOwn
    <3> QED BY <1>3, <1>6, <3>1 DEF Fits
  <2>3. ~e.complete => e.left <= FailTTL
    <3>1. \A b : ~b => Lifetime(b) <= FailTTL
      BY ConstantsAssumption DEF Lifetime
    <3> HIDE DEF e, complete
    <3> QED BY <1>6, <3>1
  <2> HIDE DEF e, zone, language, complete
  <2>4. /\ Orderly(cache') /\ Len(cache') <= MaxExits
        /\ \A i \in DOMAIN cache' : cache'[i] = e \/ \E k \in DOMAIN cache : cache'[i] = cache[k]
        /\ \E i \in DOMAIN cache' : cache'[i] = e
    BY <1>1, <1>5, <1>9, <2>2, <2>3, StoresOne
  <2>5. \A i \in DOMAIN cache' : Fits(cache'[i])
    BY <1>1, <2>2, <2>4 DEF Cached
  <2>6. Cached'
    <3>1. \A i \in DOMAIN cache' : Fits(cache[i])'
      BY <1>1, <1>7, <2>5 DEF Fits, ZonesOf, TagsOf
    <3> QED BY <2>4, <3>1 DEF Cached
  <2>7. ASSUME Known(p)
        PROVE  /\ Known(job[t].proxy)'
               /\ browser'[t][j.want] \in {browser[t][j.want], EntryOf(job[t].proxy)'[j.want]}
    <3>1. complete
      BY <1>9, <2>7 DEF Yields
    <3>2. Holds(cache', CacheKey(p)) /\ cache'[Place(cache', CacheKey(p))] = e
      <4>1. Holds(cache', CacheKey(p))
        BY <1>6, <2>4 DEF Holds
      <4>2. /\ Place(cache', CacheKey(p)) \in DOMAIN cache'
            /\ cache'[Place(cache', CacheKey(p))].key = CacheKey(p)
        BY <4>1 DEF Holds, Place
      <4> QED BY <1>6, <2>4, <4>1, <4>2 DEF Orderly
    <3>3. EntryOf(job[t].proxy)' = e /\ Holds(cache, CacheKey(job[t].proxy))'
      BY <2>1, <3>2 DEF EntryOf
    <3>4. e.complete /\ e.left > 0
      BY <1>6, <3>1, ConstantsAssumption DEF Lifetime
    <3>5. Known(job[t].proxy)'
      BY <3>3, <3>4 DEF Known, Fresh
    <3>6. e[j.want] = IF j.want = "zone" THEN zone ELSE language
      BY <1>2, <1>6
    <3> QED BY <2>1, <3>3, <3>5, <3>6
  <2> QED BY <2>1, <2>6, <2>7
<1> QED BY <1>8, <1>9 DEF StoreAnswer

-----------------------------------------------------------------------------
\* The store keeps a cache and a thread in order; the world keeps both.
LEMMA StepKeeps ==
  ASSUME Inv, NEW t \in Thread, Launch(t) \/ BeginSolve(t) \/ Close(t) \/ Serve(t)
  PROVE  Inv'
<1>1. Types /\ Cached /\ Honest(t)
  BY DEF Inv
<1>2. UNCHANGED <<settings, exit>>
  BY DEF Launch, BeginSolve, Close, Serve, AnswerFromSettings, AnswerFromCache, LookUp, Prepare,
    Locale, StoreAnswer
<1>3. /\ pc' \in [Thread -> Step] /\ job' \in [Thread -> Job \cup {None}] /\ Honest(t)' /\ Alone(t)
  <2>1. CASE Launch(t) \/ BeginSolve(t) \/ Close(t)
    BY <2>1, LaunchHonest, BeginSolveHonest, CloseHonest
  <2>2. CASE AnswerFromSettings(t) \/ AnswerFromCache(t) \/ StoreAnswer(t)
    BY <2>2, AnswerHonest, StoreHonest
  <2>3. CASE LookUp(t) \/ Prepare(t) \/ Locale(t)
    BY <2>3, LookUpHonest, PrepareHonest, LocaleHonest
  <2> QED BY <2>1, <2>2, <2>3 DEF Serve
<1>4. browser' \in [Thread -> Browser \cup {None}]
  <2>1. CASE BeginSolve(t) \/ LookUp(t) \/ Prepare(t) \/ Locale(t)
    BY <1>1, <2>1 DEF BeginSolve, LookUp, Prepare, Locale, Types
  <2>2. CASE Launch(t) \/ Close(t)
    BY <2>2, LaunchHonest, CloseHonest
  <2>3. CASE AnswerFromSettings(t) \/ AnswerFromCache(t) \/ StoreAnswer(t)
    BY <2>3, AnswerHonest, StoreHonest
  <2> QED BY <2>1, <2>2, <2>3 DEF Serve
<1>5. Types'
  BY <1>1, <1>2, <1>3, <1>4 DEF Types
<1>6. Cached'
  <2>1. CASE StoreAnswer(t)
    BY <2>1, StoreHonest
  <2>2. CASE UNCHANGED cache
    BY <1>1, <1>2, <2>2 DEF Cached, Fits, ZonesOf, TagsOf
  <2>3. UNCHANGED cache \/ StoreAnswer(t)
    BY DEF Launch, BeginSolve, Close, Serve, AnswerFromSettings, AnswerFromCache, LookUp, Prepare,
      Locale
  <2> QED BY <2>1, <2>2, <2>3
<1>7. ASSUME NEW u \in Thread \ {t}
      PROVE  Honest(u)'
  <2>1. Honest(u) /\ pc'[u] = pc[u] /\ job'[u] = job[u] /\ browser'[u] = browser[u]
    BY <1>3, <1>7 DEF Inv, Alone
  <2>2. Calling(u)'
    BY <1>2, <2>1 DEF Honest, Calling, Fixed
  <2>3. ZonesOf(job[u].proxy)' = ZonesOf(job[u].proxy) /\ TagsOf(job[u].proxy)' = TagsOf(job[u].proxy)
    BY <1>2, <2>1 DEF ZonesOf, TagsOf
  <2> QED BY <2>1, <2>2, <2>3 DEF Honest
<1> QED BY <1>3, <1>5, <1>6, <1>7 DEF Inv

\* What the world does touches no thread.
LEMMA WorldKeeps ==
  ASSUME Inv, UNCHANGED <<settings, pc, job, browser>>, Cached',
         exit' \in [Proxy -> Country] /\ \A p \in Proxy : exit'[p] \in Exits[p]
  PROVE  Inv'
<1>1. Types'
  BY DEF Inv, Types
<1>2. ASSUME NEW u \in Thread
      PROVE  Honest(u)'
  <2>1. Honest(u)
    BY DEF Inv
  <2>2. Calling(u)'
    BY <2>1 DEF Honest, Calling, Fixed
  <2>3. ZonesOf(job[u].proxy)' = ZonesOf(job[u].proxy) /\ TagsOf(job[u].proxy)' = TagsOf(job[u].proxy)
    BY DEF ZonesOf, TagsOf
  <2> QED BY <2>1, <2>2, <2>3 DEF Honest
<1> QED BY <1>1, <1>2 DEF Inv

LEMMA InvHolds == Spec => []Inv
<1>1. Init => Inv
  <2> SUFFICES ASSUME Init PROVE Inv
    OBVIOUS
  <2>1. Types
    BY ConstantsAssumption DEF Init, Types, Step
  <2>2. Cached
    BY ConstantsAssumption DEF Init, Cached, Orderly
  <2>3. \A t \in Thread : Honest(t)
    BY DEF Init, Honest, Calling
  <2> QED BY <2>1, <2>2, <2>3 DEF Inv
<1>2. ASSUME Inv, [Next]_vars
      PROVE  Inv'
  <2>1. CASE UNCHANGED vars
    <3>1. UNCHANGED <<settings, cache, exit, pc, job, browser>>
      BY <2>1 DEF vars
    <3>2. Cached'
      BY <1>2, <3>1 DEF Inv, Cached, Fits, ZonesOf, TagsOf
    <3> QED BY <1>2, <3>1, <3>2, WorldKeeps DEF Inv, Types
  <2>2. CASE Tick
    <3>1. UNCHANGED <<settings, exit, pc, job, browser>>
      BY <2>2 DEF Tick
    <3> QED BY <1>2, <2>2, <3>1, TickCached, WorldKeeps DEF Inv, Types
  <2>3. ASSUME NEW p \in Proxy, Rotate(p)
        PROVE  Inv'
    <3>1. UNCHANGED <<settings, cache, pc, job, browser>>
      BY <2>3 DEF Rotate
    <3>2. exit' \in [Proxy -> Country] /\ \A q \in Proxy : exit'[q] \in Exits[q]
      BY <1>2, <2>3, ConstantsAssumption DEF Rotate, Inv, Types
    <3>3. Cached'
      BY <1>2, <3>1 DEF Inv, Cached, Fits, ZonesOf, TagsOf
    <3> QED BY <1>2, <3>1, <3>2, <3>3, WorldKeeps
  <2>4. CASE \E t \in Thread : Launch(t) \/ BeginSolve(t) \/ Close(t) \/ Serve(t)
    BY <1>2, <2>4, StepKeeps
  <2> QED BY <1>2, <2>1, <2>2, <2>3, <2>4 DEF Next
<1> QED BY <1>1, <1>2, PTL DEF Spec

\* Every state has its types: the cache is within its bound, with one entry to an exit,
\* and no guess outstays the short window.
THEOREM TypesHold == Spec => []TypeOK
<1>1. Inv => TypeOK
  BY DEF Inv, Types, Cached, Orderly, TypeOK
<1> QED BY <1>1, InvHolds, PTL

\* Whatever rotates, fails or expires, a browser is told what the settings fix, or what
\* its own account's exit may answer; but for the zone where code and documentation differ.
THEOREM IdentityHolds == Spec => []IdentityIsAsSet
<1>1. Inv => IdentityIsAsSet
  <2> SUFFICES ASSUME Inv, NEW t \in Thread
               PROVE  /\ pc[t] \in {"prepare", "locale"} =>
                           ZoneIsOpen \/ LanguageIsOpen \/ ZoneIsDisputed
                      /\ browser[t] # None =>
                           LET b == browser[t]
                               from == Exits[job[t].proxy]
                           IN  /\ b.zone # None /\ ~ZoneIsDisputed =>
                                    \/ ZoneIsUsable /\ b.zone = settings.zone
                                    \/ /\ ~ZoneIsUsable /\ ~ZoneIsOpen
                                       /\ IsPrincipalZone(settings, settings.geo, b.zone)
                                    \/ /\ ZoneIsOpen
                                       /\ b.zone \in {ExitZone[c] : c \in from}
                                                       \cup {ContainerTimezone(settings)}
                               /\ b.language # None =>
                                    \/ settings.lang \in Tag /\ b.language = settings.lang
                                    \/ /\ settings.lang \notin Tag /\ settings.geo \in Tag
                                       /\ b.language = settings.geo
                                    \/ LanguageIsOpen /\ b.language \in from \cup {DefaultLanguage}
    BY DEF IdentityIsAsSet
  <2>1. Honest(t) /\ Calling(t) /\ settings \in Settings
    BY DEF Inv, Honest, Types
  <2>2. /\ ZoneIsOpen <=> PinnedZone(settings) = None
        /\ ZoneIsUsable => PinnedZone(settings) = settings.zone
        /\ ~ZoneIsUsable /\ ~ZoneIsOpen =>
             IsPrincipalZone(settings, settings.geo, PinnedZone(settings))
    BY <2>1, ZoneIsAsSet
  <2>3. ZoneIsUsable => ~ZoneIsOpen
    BY DEF ZoneIsOpen
  <2>4. pc[t] \in {"prepare", "locale"} => ZoneIsOpen \/ LanguageIsOpen
    BY <2>1, <2>2, LanguageIsAsSet DEF Calling, Fixed
  <2>5. browser[t] # None => pc[t] # "off"
    BY <2>1 DEF Calling
  <2>6. browser[t] # None /\ browser[t].zone # None =>
          \/ ZoneIsUsable /\ browser[t].zone = settings.zone
          \/ /\ ~ZoneIsUsable /\ ~ZoneIsOpen
             /\ IsPrincipalZone(settings, settings.geo, browser[t].zone)
          \/ /\ ZoneIsOpen
             /\ browser[t].zone \in {ExitZone[c] : c \in Exits[job[t].proxy]}
                                      \cup {ContainerTimezone(settings)}
    <3> SUFFICES ASSUME browser[t] # None /\ browser[t].zone # None
                 PROVE  \/ ZoneIsUsable /\ browser[t].zone = settings.zone
                        \/ /\ ~ZoneIsUsable /\ ~ZoneIsOpen
                           /\ IsPrincipalZone(settings, settings.geo, browser[t].zone)
                        \/ /\ ZoneIsOpen
                           /\ browser[t].zone \in {ExitZone[c] : c \in Exits[job[t].proxy]}
                                                    \cup {ContainerTimezone(settings)}
      OBVIOUS
    <3>1. browser[t].zone \in ZonesOf(job[t].proxy)
      BY <2>1, <2>5 DEF Honest
    <3>2. CASE ZoneIsOpen
      BY <2>2, <3>1, <3>2 DEF ZonesOf
    <3>3. CASE ~ZoneIsOpen
      <4>1. browser[t].zone = PinnedZone(settings)
        BY <2>2, <3>1, <3>3 DEF ZonesOf
      <4> QED BY <2>2, <3>3, <4>1
    <3> QED BY <3>2, <3>3
  <2>7. browser[t] # None /\ browser[t].language # None =>
          \/ settings.lang \in Tag /\ browser[t].language = settings.lang
          \/ /\ settings.lang \notin Tag /\ settings.geo \in Tag
             /\ browser[t].language = settings.geo
          \/ LanguageIsOpen /\ browser[t].language \in Exits[job[t].proxy] \cup {DefaultLanguage}
    <3>1. browser[t] # None /\ browser[t].language # None => browser[t].language \in TagsOf(job[t].proxy)
      BY <2>1, <2>5 DEF Honest
    <3>2. None \notin Tag
      BY ConstantsAssumption
    <3> QED BY <3>1, <3>2, LanguageIsAsSet DEF TagsOf, LanguageIsOpen
  <2> QED BY <2>4, <2>6, <2>7
<1> QED BY <1>1, InvHolds, PTL

\* While the answer of an exit is known, a lookup that fails neither forgets it nor
\* tells anyone a guess.
THEOREM KnownIsKept == Spec => NoGuessOverKnown
<1> DEFINE Kept == \A t \in Thread :
       pc[t] = "store" /\ pc'[t] # "store" /\ Known(job[t].proxy) =>
         LET p == job[t].proxy
             half == job[t].want
         IN  /\ Known(p)'
             /\ browser'[t][half] \in {browser[t][half], EntryOf(p)'[half]}
<1>1. ASSUME Inv, [Next]_vars
      PROVE  [Kept]_vars
  <2> SUFFICES ASSUME Next, NEW t \in Thread, pc[t] = "store", pc'[t] # "store", Known(job[t].proxy)
               PROVE  /\ Known(job[t].proxy)'
                      /\ browser'[t][job[t].want] \in
                           {browser[t][job[t].want], EntryOf(job[t].proxy)'[job[t].want]}
    BY <1>1
  <2>1. ASSUME NEW u \in Thread, Launch(u) \/ BeginSolve(u) \/ Close(u) \/ Serve(u)
        PROVE  StoreAnswer(t)
    <3>1. Alone(u)
      <4>1. CASE Launch(u) \/ BeginSolve(u) \/ Close(u)
        BY <1>1, <4>1, LaunchHonest, BeginSolveHonest, CloseHonest
      <4>2. CASE AnswerFromSettings(u) \/ AnswerFromCache(u) \/ StoreAnswer(u)
        BY <1>1, <4>2, AnswerHonest, StoreHonest
      <4>3. CASE LookUp(u) \/ Prepare(u) \/ Locale(u)
        BY <1>1, <4>3, LookUpHonest, PrepareHonest, LocaleHonest
      <4> QED BY <2>1, <4>1, <4>2, <4>3 DEF Serve
    <3>2. u = t
      BY <3>1 DEF Alone
    <3>3. ~(\/ Launch(t) \/ BeginSolve(t) \/ Close(t) \/ AnswerFromSettings(t) \/ AnswerFromCache(t)
            \/ LookUp(t) \/ Prepare(t) \/ Locale(t))
      BY DEF Launch, BeginSolve, Close, AnswerFromSettings, AnswerFromCache, LookUp, Prepare, Locale
    <3> QED BY <2>1, <3>2, <3>3 DEF Serve
  <2>2. StoreAnswer(t)
    BY <2>1 DEF Next, Rotate, Tick
  <2> QED BY <1>1, <2>2, StoreHonest
<1> QED BY <1>1, InvHolds, PTL DEF Spec, NoGuessOverKnown
=============================================================================
