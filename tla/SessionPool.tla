----------------------------- MODULE SessionPool -----------------------------
(***************************************************************************)
(* What the session registry promises to the requests that use it          *)
(* (sessions.py, "What every engine's sessions do the same way"), without  *)
(* the locks, counters, stamps and steps it takes to keep the promise:     *)
(*                                                                         *)
(*   an id never passes from one session to another without being free in  *)
(*   between, a session that has left its pool never comes back, the       *)
(*   cleanup takes out only sessions that no request uses, no browser is   *)
(*   closed while its session can be found, and a session is driven by one *)
(*   of its users at a time.                                               *)
(*                                                                         *)
(* SessionStore implements it.                                             *)
(***************************************************************************)
CONSTANTS
  Thread,  \* the requests
  Sid,     \* session ids
  Store,   \* the pools
  Handle,  \* the sessions, each with a browser of its own
  None

VARIABLES
  pool,    \* pool[st][sid]: the session the id names, or None
  live,    \* live[h]: the browser of h runs
  uses,    \* uses[t]: the session request t uses, or None
  driving  \* the requests that are driving the session they use

vars == <<pool, live, uses, driving>>

Pooled(h) == \E st \in Store, sid \in Sid : pool[st][sid] = h

\* A session that is not there yet, or not any more.
Free(h) == ~live[h] /\ ~Pooled(h) /\ \A t \in Thread : uses[t] # h

Init ==
  /\ pool = [st \in Store |-> [sid \in Sid |-> None]]
  /\ live = [h \in Handle |-> FALSE]
  /\ uses = [t \in Thread |-> None]
  /\ driving = {}

-----------------------------------------------------------------------------
\* Request t turns to session h, or with None leaves the one it uses; never one it drives.
Turns(t, h) == t \notin driving /\ uses' = [uses EXCEPT ![t] = h]

\* Nobody turns anywhere, or one request to h.
MayTurnTo(h) == uses' = uses \/ \E t \in Thread : Turns(t, h)

\* A new session takes an id that names none.
Open(st, sid, h) ==
  /\ Free(h) /\ pool[st][sid] = None
  /\ pool' = [pool EXCEPT ![st][sid] = h]
  /\ live' = [live EXCEPT ![h] = TRUE]
  /\ MayTurnTo(h)
  /\ UNCHANGED driving

\* A browser was started for an id that another request took meanwhile: whoever asked
\* for it may use the session that is there.
LoseRace(h) ==
  /\ Free(h)
  /\ live' = [live EXCEPT ![h] = TRUE]
  /\ \E winner \in Handle : Pooled(winner) /\ MayTurnTo(winner)
  /\ UNCHANGED <<pool, driving>>

Use(t, h) == Pooled(h) /\ Turns(t, h) /\ UNCHANGED <<pool, live, driving>>

Leave(t) == Turns(t, None) /\ UNCHANGED <<pool, live, driving>>

Drive(t) ==
  /\ uses[t] # None /\ \A u \in driving : uses[u] # uses[t]
  /\ driving' = driving \cup {t}
  /\ UNCHANGED <<pool, live, uses>>

Stop(t) == driving' = driving \ {t} /\ UNCHANGED <<pool, live, uses>>

\* A client destroys a session, or a request finds it expired or leaves it unusable.
Drop(st, sid) ==
  /\ pool' = [pool EXCEPT ![st][sid] = None]
  /\ UNCHANGED <<live, uses, driving>>

\* The cleanup takes out sessions nobody uses.
Evict(H) ==
  /\ \A h \in H, t \in Thread : uses[t] # h
  /\ pool' = [st \in Store |->
                [sid \in Sid |-> IF pool[st][sid] \in H THEN None ELSE pool[st][sid]]]
  /\ UNCHANGED <<live, uses, driving>>

Close(h) == /\ ~Pooled(h)
            /\ live' = [live EXCEPT ![h] = FALSE]
            /\ UNCHANGED <<pool, uses, driving>>

Next ==
  \/ \E st \in Store, sid \in Sid : Drop(st, sid) \/ \E h \in Handle : Open(st, sid, h)
  \/ \E h \in Handle : LoseRace(h) \/ Close(h)
  \/ \E t \in Thread : Leave(t) \/ Drive(t) \/ Stop(t) \/ \E h \in Handle : Use(t, h)
  \/ \E H \in SUBSET Handle : Evict(H)

Spec == Init /\ [][Next]_vars
=============================================================================
