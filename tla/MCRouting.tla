------------------------------ MODULE MCRouting ------------------------------
(* Small instances of Routing for TLC. *)
EXTENDS Routing, TLC

CONSTANTS denying, guarded

\* A host only Chrome can clear, which answers the other engine with a denial that shows
\* no marker; one only the stealth engine can clear, whose challenge shows what it is.
McClears == [h \in Host |-> IF h = denying THEN {"chrome"} ELSE {"stealth"}]

Symmetry == Permutations(Thread)

\* What is read again of a request: of its attempts their number, the time they took and
\* whether one gave a page or outlasted its share; once a page is to be remembered, whose
\* page it is and whether it is late; once answered, what the properties ask of it.  What
\* the pools answered is not read again once there is a plan, nor what was not seen of a
\* host whose pages show nothing anyway.
View ==
  LET late(t) == spent[t] > req[t].budget + Overrun
      gavePage(t) == \E i \in DOMAIN tried[t] : tried[t][i].gave = "page"
      outlasted(t) == \E i \in DOMAIN tried[t] : tried[t][i].took > tried[t][i].share
      read(t) ==
        CASE pc[t] \in {"try", "solve"} ->
               <<req[t].host, req[t].sid, req[t].budget, req[t].html, plan[t],
                 Len(tried[t]), spent[t], HasPage(t), gavePage(t), outlasted(t)>>
          [] pc[t] = "remember" ->
               <<req[t].host, plan[t][Len(tried[t])], late(t), HasPage(t), gavePage(t)>>
          [] Answered(t) ->
               <<"solve", late(t), HasPage(t), gavePage(t),
                 \/ Len(tried[t]) = Len(plan[t]) \/ outlasted(t) \/ req[t].budget < 2 * MinEngine>>
          [] pc[t] = "answered" /\ req[t].op # "solve" -> <<>>
          [] pc[t] \in {"idle", "probe", "recall", "launch", "remove"} -> <<req[t], seen[t]>>
  IN  <<pool, memory, [h \in Host \ Unmarked |-> unread[h]], pc, reply,
        [t \in Thread |-> read(t)]>>
=============================================================================
