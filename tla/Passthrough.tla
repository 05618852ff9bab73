----------------------------- MODULE Passthrough -----------------------------
(***************************************************************************)
(* The passthrough port (passthrough.py): a threading HTTP server whose    *)
(* handler answers from a cache bounded in bytes, or solves the page, with *)
(* concurrent requests for one path waiting on one solve.                  *)
(*                                                                         *)
(* One action per stretch of _handle that no other thread can interrupt:   *)
(* what runs under _lock, each assignment to a field of the shared         *)
(* _Pending, the solve, the write to the client's socket.                  *)
(*                                                                         *)
(* Abstractions.  A document is what the solver returned: its kind and its *)
(* size in bytes.  Time is counted in ticks; an entry carries what is left *)
(* of its lifetime, and reading the clock is part of the step that takes   *)
(* the lock.  A _Pending that no slot and no request refers to stands for  *)
(* a collected object.  HEAD, which only leaves the body out, is a GET.    *)
(*                                                                         *)
(* A definition marked (variant) is the next one with a bug: nothing uses  *)
(* it but the runs that show a property can fail.                          *)
(***************************************************************************)
EXTENDS Integers, FiniteSetsExt

CONSTANTS
  Thread,       \* the request threads of the server
  Path,         \* request paths
  Asset,        \* those that name a static asset
  Host,         \* upstream hosts
  Named,        \* Named[p]: the host p's first segment names, or None
  Allowed,      \* PASSTHROUGH_ALLOWED_HOSTS
  DefaultHost,  \* the first of them, or None
  Pending,      \* identities of _Pending objects
  Document,     \* what a solve can return
  None,
  TTL,          \* PASSTHROUGH_CACHE_TTL, in ticks
  SuspectTTL,   \* _SUSPECT_CACHE_TTL, in ticks
  MaxBytes,     \* PASSTHROUGH_CACHE_MAX_BYTES; 0 lifts the limit
  Share         \* 1 / _MAX_BODY_SHARE: a body may take MaxBytes / Share

\* A page that carries PASSTHROUGH_CACHE_REQUIRES, one that does not, and one that
\* looks_like_challenge_html recognises.  The status is 200 whatever the site said:
\* assemble_solution knows no other.
Kind == {"page", "suspect", "challenge"}

ASSUME ConstantsAssumption ==
  /\ Document \subseteq [kind : Kind, size : Nat]
  /\ Asset \subseteq Path /\ Allowed \subseteq Host
  /\ Named \in [Path -> Host \cup {None}]
  /\ DefaultHost \in Allowed \cup {None}
  /\ None \notin Pending \cup Host \cup Document \cup [left : 0 .. TTL, doc : Document]
  /\ TTL \in Nat /\ SuspectTTL \in Nat /\ MaxBytes \in Nat
  /\ Share \in Nat \ {0}

VARIABLES
  cache,       \* _cache[p]: what is left of the entry's lifetime, and its document
  cacheBytes,  \* _cache_bytes
  inflight,    \* _inflight[p]
  pending,     \* the _Pending objects
  pc,          \* where each request thread is
  path,        \* the path it serves
  slot,        \* the _Pending it owns or waits on
  got,         \* the document its solve returned
  reply,       \* what it is writing to its client
  gave         \* history, read by no action: what the solve of each _Pending returned

vars == <<cache, cacheBytes, inflight, pending, pc, path, slot, got, reply, gave>>

Entry == [left : 0 .. TTL, doc : Document]

\* The fields of a _Pending are assigned one by one: status, body, content_type.
Filled == 0 .. 3
NewPending == [event |-> FALSE, error |-> FALSE, filled |-> 0, doc |-> None]

NotFound    == [code |-> "404", doc |-> None, typed |-> TRUE]
SolverError == [code |-> "502", doc |-> None, typed |-> TRUE]
Dropped     == [code |-> "none", doc |-> None, typed |-> TRUE]
Page(d, ty) == [code |-> "page", doc |-> d, typed |-> ty]

OwnerStep == {"solve", "store", "fill", "sendOwn", "release", "wake"}
Step == {"idle", "wait", "send"} \cup OwnerStep

TypeOK ==
  /\ cache \in [Path -> Entry \cup {None}]
  /\ cacheBytes \in Nat
  /\ inflight \in [Path -> Pending \cup {None}]
  /\ pending \in [Pending -> [event : BOOLEAN, error : BOOLEAN, filled : Filled,
                              doc : Document \cup {None}]]
  /\ pc \in [Thread -> Step]
  /\ path \in [Thread -> Path \cup {None}]
  /\ slot \in [Thread -> Pending \cup {None}]
  /\ got \in [Thread -> Document \cup {None}]
  /\ reply \in [Thread -> [code : {"404", "502", "none", "page"},
                           doc : Document \cup {None}, typed : BOOLEAN]]
  /\ gave \in [Pending -> Document \cup {None}]

-----------------------------------------------------------------------------
(* Vocabulary *)

\* The upstream host of a path, None when it is answered 404: a static asset, or a
\* path of no allowed host when there is no default mirror.
Routed(p) == IF p \in Asset THEN None
             ELSE IF Named[p] \in Allowed THEN Named[p] ELSE DefaultHost

Cached == {p \in Path : cache[p] # None}

\* The entries that have not expired.
Live == {p \in Cached : cache[p].left > 0}

\* The bytes of the entries in P, each named by its path and its place in the body.
Octets(P) == UNION {{p} \X (1 .. cache[p].doc.size) : p \in P}
Bytes(P) == Cardinality(Octets(P))

Collected(q) == /\ \A p \in Path : inflight[p] # q
                /\ \A t \in Thread : slot[t] # q

Goto(t, step) == pc' = [pc EXCEPT ![t] = step]

Init ==
  /\ cache = [p \in Path |-> None]
  /\ cacheBytes = 0
  /\ inflight = [p \in Path |-> None]
  /\ pending = [q \in Pending |-> NewPending]
  /\ pc = [t \in Thread |-> "idle"]
  /\ path = [t \in Thread |-> None]
  /\ slot = [t \in Thread |-> None]
  /\ got = [t \in Thread |-> None]
  /\ reply = [t \in Thread |-> Dropped]
  /\ gave = [q \in Pending |-> None]

-----------------------------------------------------------------------------
(* A request arrives: _handle up to the end of its first critical section *)

Refuse(t, p) ==
  /\ pc[t] = "idle" /\ Routed(p) = None
  /\ reply' = [reply EXCEPT ![t] = NotFound]
  /\ path' = [path EXCEPT ![t] = p]
  /\ Goto(t, "send")
  /\ UNCHANGED <<cache, cacheBytes, inflight, pending, slot, got, gave>>

Hit(p) == TTL > 0 /\ p \in Live

AnswerFromCache(t, p) ==
  /\ pc[t] = "idle" /\ Routed(p) # None /\ Hit(p)
  /\ reply' = [reply EXCEPT ![t] = Page(cache[p].doc, TRUE)]
  /\ path' = [path EXCEPT ![t] = p]
  /\ Goto(t, "send")
  /\ UNCHANGED <<cache, cacheBytes, inflight, pending, slot, got, gave>>

\* A solve of the path is under way: wait on it.
UnderWayNever(p) == FALSE   \* (variant)
UnderWay(p) == inflight[p] # None

Join(t, p) ==
  /\ pc[t] = "idle" /\ Routed(p) # None /\ ~Hit(p) /\ UnderWay(p)
  /\ slot' = [slot EXCEPT ![t] = inflight[p]]
  /\ path' = [path EXCEPT ![t] = p]
  /\ Goto(t, "wait")
  /\ UNCHANGED <<cache, cacheBytes, inflight, pending, got, reply, gave>>

Own(t, p) ==
  /\ pc[t] = "idle" /\ Routed(p) # None /\ ~Hit(p) /\ ~UnderWay(p)
  /\ \E q \in Pending :
       /\ Collected(q)
       /\ pending' = [pending EXCEPT ![q] = NewPending]
       /\ inflight' = [inflight EXCEPT ![p] = q]
       /\ slot' = [slot EXCEPT ![t] = q]
       /\ gave' = [gave EXCEPT ![q] = None]
  /\ path' = [path EXCEPT ![t] = p]
  /\ Goto(t, "solve")
  /\ UNCHANGED <<cache, cacheBytes, got, reply>>

-----------------------------------------------------------------------------
(* The owner: one solve, then the cache, the waiters' fields and its client *)

SolveFails(t) ==
  /\ pc[t] = "solve"
  /\ pending' = [pending EXCEPT ![slot[t]].error = TRUE]
  /\ reply' = [reply EXCEPT ![t] = SolverError]
  /\ Goto(t, "sendOwn")
  /\ UNCHANGED <<cache, cacheBytes, inflight, path, slot, got, gave>>

SolveReturns(t) ==
  /\ pc[t] = "solve"
  /\ \E d \in Document : /\ got' = [got EXCEPT ![t] = d]
                         /\ gave' = [gave EXCEPT ![slot[t]] = d]
  /\ Goto(t, "store")
  /\ UNCHANGED <<cache, cacheBytes, inflight, pending, path, slot, reply>>

\* A challenge is not kept.
Cacheable(d) == TTL > 0 /\ d.kind # "challenge"

\* _cache_ttl_for.
Lifetime(d) == IF d.kind = "suspect" /\ SuspectTTL < TTL THEN SuspectTTL ELSE TTL

\* A body over its share of the cap is not kept at all.
TooBig(d) == MaxBytes > 0 /\ d.size * Share > MaxBytes

Fits(P, d) == MaxBytes = 0 \/ Bytes(P) + d.size <= MaxBytes

\* What a store of d can leave of the entries in P: nothing is evicted once it fits,
\* and what expires soonest goes first.
Kept(P, d) ==
  {K \in SUBSET P :
     /\ K = {} \/ Fits(K, d)
     /\ \A e \in P \ K, k \in K : cache[e].left <= cache[k].left
     /\ K = P \/ \E e \in P \ K : /\ \A f \in P \ K : cache[f].left <= cache[e].left
                                  /\ ~Fits(K \cup {e}, d)}

\* The bytes that leave the total with the entries in P.
FreedOnlyLive(P) == Bytes(P \cap Live)   \* (variant)
FreedTwice(P) == Bytes(P) + Bytes(P)     \* (variant)
Freed(P) == Bytes(P)

AfterStoreRelease == "release"   \* (variant)
AfterStore == "fill"

\* _cache_store: expired entries, the path's own and then as many as it takes go.
Store(t) ==
  LET d == got[t]
      p == path[t]
  IN  /\ pc[t] = "store"
      /\ \/ /\ Cacheable(d) /\ ~TooBig(d)
            /\ \E K \in Kept(Live \ {p}, d) :
                 /\ cache' = [r \in Path |->
                      IF r = p THEN [left |-> Lifetime(d), doc |-> d]
                      ELSE IF r \in K THEN cache[r] ELSE None]
                 /\ cacheBytes' = cacheBytes - Freed(Cached \ K) + d.size
         \/ /\ ~Cacheable(d) \/ TooBig(d)
            /\ UNCHANGED <<cache, cacheBytes>>
      /\ Goto(t, AfterStore)
      /\ UNCHANGED <<inflight, pending, path, slot, got, reply, gave>>

\* One field of the _Pending after the other; the last one done, the owner answers.
Fill(t) ==
  LET q == slot[t]
      n == pending[q].filled + 1
  IN  /\ pc[t] = "fill"
      /\ pending' = [pending EXCEPT ![q].filled = n, ![q].doc = got[t]]
      /\ IF n < 3 THEN UNCHANGED <<pc, reply>>
                  ELSE /\ reply' = [reply EXCEPT ![t] = Page(got[t], TRUE)]
                       /\ Goto(t, "sendOwn")
      /\ UNCHANGED <<cache, cacheBytes, inflight, path, slot, got, gave>>

\* The owner's write to its client is over: its client read it or hung up.
SendOwn(t) ==
  /\ pc[t] = "sendOwn"
  /\ Goto(t, "release")
  /\ UNCHANGED <<cache, cacheBytes, inflight, pending, path, slot, got, reply, gave>>

\* The finally: the slot is released, then the waiters are woken.
VacatedNot(p) == inflight   \* (variant)
Vacated(p) == [inflight EXCEPT ![p] = None]

Release(t) ==
  /\ pc[t] = "release"
  /\ inflight' = Vacated(path[t])
  /\ Goto(t, "wake")
  /\ UNCHANGED <<cache, cacheBytes, pending, path, slot, got, reply, gave>>

EventNever == FALSE   \* (variant)
Event == TRUE

Wake(t) ==
  /\ pc[t] = "wake"
  /\ pending' = [pending EXCEPT ![slot[t]].event = Event]
  /\ slot' = [slot EXCEPT ![t] = None]
  /\ got' = [got EXCEPT ![t] = None]
  /\ path' = [path EXCEPT ![t] = None]
  /\ reply' = [reply EXCEPT ![t] = Dropped]
  /\ Goto(t, "idle")
  /\ UNCHANGED <<cache, cacheBytes, inflight, gave>>

-----------------------------------------------------------------------------
(* Everyone else *)

\* What a waiter makes of the shared fields: with a status and no body yet, taking
\* the length of the body raises and its client gets no answer at all.
Answer(p) ==
  IF p.error \/ p.filled = 0 THEN SolverError
  ELSE IF p.filled = 1 THEN Dropped
  ELSE Page(p.doc, p.filled = 3)

Read(t) ==
  /\ reply' = [reply EXCEPT ![t] = Answer(pending[slot[t]])]
  /\ slot' = [slot EXCEPT ![t] = None]
  /\ Goto(t, "send")
  /\ UNCHANGED <<cache, cacheBytes, inflight, pending, path, got, gave>>

Woken(t) == pc[t] = "wait" /\ pending[slot[t]].event /\ Read(t)

\* The wait is over after the request timeout and 30 seconds, whatever the owner does.
WaitTimesOut(t) == pc[t] = "wait" /\ ~pending[slot[t]].event /\ Read(t)

Send(t) ==
  /\ pc[t] = "send"
  /\ path' = [path EXCEPT ![t] = None]
  /\ reply' = [reply EXCEPT ![t] = Dropped]
  /\ Goto(t, "idle")
  /\ UNCHANGED <<cache, cacheBytes, inflight, pending, slot, got, gave>>

Tick ==
  /\ Live # {}
  /\ cache' = [p \in Path |-> IF p \in Live THEN [cache[p] EXCEPT !.left = @ - 1]
                              ELSE cache[p]]
  /\ UNCHANGED <<cacheBytes, inflight, pending, pc, path, slot, got, reply, gave>>

-----------------------------------------------------------------------------
Arrive(t) == \E p \in Path : Refuse(t, p) \/ AnswerFromCache(t, p) \/ Join(t, p) \/ Own(t, p)

\* The steps of the server itself, as opposed to writes a client has to read.
Serve(t) == \/ SolveFails(t) \/ SolveReturns(t) \/ Store(t) \/ Fill(t)
            \/ Release(t) \/ Wake(t) \/ Woken(t)

Write(t) == SendOwn(t) \/ Send(t)

Next == \/ \E t \in Thread : Arrive(t) \/ Serve(t) \/ Write(t) \/ WaitTimesOut(t)
        \/ Tick

Spec == Init /\ [][Next]_vars

\* Threads run and a solve ends, by its own timeout if need be.  A waiter's timeout
\* is never counted on.
ServerFairness == \A t \in Thread : WF_vars(Serve(t))

\* As well, every client reads its answer or hangs up.  A client that does neither keeps
\* the owner in SendOwn, before it releases the slot.
Fairness == ServerFairness /\ \A t \in Thread : WF_vars(Write(t))

FairSpec == Spec /\ Fairness

-----------------------------------------------------------------------------
(* Properties *)

Owns(t, q) == pc[t] \in OwnerStep /\ slot[t] = q

\* No request is stranded: a path's slot always has a thread at work that will
\* release it, and a request that waits has been woken or will be by that thread.
NobodyStranded ==
  /\ \A p \in Path : inflight[p] # None =>
       \E t \in Thread : Owns(t, inflight[p]) /\ path[t] = p /\ pc[t] # "wake"
  /\ \A u \in Thread : pc[u] = "wait" =>
       pending[slot[u]].event \/ \E t \in Thread : Owns(t, slot[u])

\* "Concurrent requests for the same path wait on one solve": no path is being
\* solved, or on its way to the cache, twice at a time.
OneSolvePerPath ==
  \A t, u \in Thread :
    pc[t] \in {"solve", "store"} /\ pc[u] \in {"solve", "store"} /\ path[t] = path[u] => t = u

\* No solve is spent on a path whose page is in the cache: between the release of a
\* path's slot and its entry there is no moment in which a request sees neither.
SolvesOnlyUncached ==
  \A t \in Thread : pc[t] = "solve" => path[t] \notin Live

\* A waiter that was woken, and did not give up, sends exactly what the solve it
\* waited on gave, whole and under its own type, or an error if that solve failed:
\* although the owner assigns the shared fields one after the other without a lock,
\* and a later solve of the path may be under way when the waiter reads them.
WokenGetsTheSolve ==
  [][\A t \in Thread :
       pc[t] = "wait" /\ pending[slot[t]].event /\ pc'[t] = "send" =>
         reply'[t] = IF gave[slot[t]] = None THEN SolverError
                                             ELSE Page(gave[slot[t]], TRUE)]_vars

\* The running total is the bytes of the entries, over any series of stores,
\* expiries and evictions, and stays within the cap.
BytesAccounted ==
  /\ cacheBytes = Bytes(Cached)
  /\ MaxBytes > 0 => cacheBytes <= MaxBytes

\* "Whatever happens below, this slot has to be released" (passthrough.py): no path's
\* slot is held for ever, which would make every later request for it wait in vain.
SlotIsFreed ==
  \A p \in Path : []<>(inflight[p] = None)
=============================================================================
