----------------------------- MODULE MCGateway -----------------------------
(* Model-checking instances of Gateway.  A journal may be metered by a policy *)
(* that is spent by one request, so that a second one is slowed down.         *)
EXTENDS Gateway, TLC

MCPolicies == {[daily |-> 1, cooldown |-> 2, max_inflight |-> 1]}

RequestHead(cred, kind, size, close) == [cred |-> cred, kind |-> kind, size |-> size, close |-> close]

Symmetric == Permutations(Channels)

CONSTANTS alice, bob, ja, jb

MCJournalOf == [c \in Credentials |-> IF c = alice THEN ja ELSE jb]

\* Two channels of one journal.
Pair == {RequestHead(alice, "chat", "fits", FALSE)}

\* One channel and every kind of request.
All ==
  {RequestHead(alice, "chat", "fits", FALSE), RequestHead(bob, "chat", "fits", FALSE),
   RequestHead(None, "chat", "fits", FALSE), RequestHead(alice, "chat", "huge", TRUE),
   RequestHead(alice, "audio", "fits", FALSE), RequestHead(alice, "audio", "drain", FALSE),
   RequestHead(alice, "other", "huge", FALSE)}
=============================================================================
