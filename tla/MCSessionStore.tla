---------------------------- MODULE MCSessionStore ---------------------------
(* Small instances of SessionStore for TLC. *)
EXTENDS SessionStore, TLC

\* Threads, ids and handles are only compared for equality.  (Safety runs only.)
Symmetry == Permutations(Thread) \cup Permutations(Sid) \cup Permutations(Handle)

\* Two states that differ only in what is never read again are one: what a
\* collected handle was, idle times outside the pool or with the cleanup off, ages
\* when no request names a lifetime, a request's proxy once nothing is to be built,
\* and the uses of an id with no exit to lose.
View ==
  LET dead     == {h \in Handle : Collected(h)}
      unread   == {h \in Handle : ~Pooled(h) \/ IdleTTL + MaxSessions = 0}
      timeless == dead \cup {h \in Handle : TRUE \notin WithTtl}
      builds   == {"lookup", "build", "remember", "closeExpired"}
      of(f, S, x) == [h \in Handle |-> IF h \in S THEN x ELSE f[h]]
      asked(t) == IF pc[t] \in builds \/ req[t] = None
                    THEN req[t] ELSE [req[t] EXCEPT !.proxy = None]
  IN  <<pool, of(sess, dead, None), of(inUse, dead, 0), of(age, timeless, 0),
        of(idle, unread, 0), live, lock, stray, memory, older,
        [a \in Sid |-> IF a \in Remembered THEN since[a] \cap Remembered ELSE {}], pc,
        [t \in Thread |-> asked(t)], claim, mine, reaper>>
=============================================================================
