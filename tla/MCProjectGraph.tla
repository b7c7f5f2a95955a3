--------------------------- MODULE MCProjectGraph ---------------------------
(* Small instances of ProjectGraph for TLC. *)
EXTENDS ProjectGraph

CONSTANTS alice, bob

MCUsers == {alice, bob}

Ask(kind, user, replace, restore) ==
    [kind |-> kind, user |-> user, replace |-> replace, restore |-> restore]

EnsureRequests ==
    {Ask("ensure", alice, FALSE, FALSE), Ask("ensure", alice, FALSE, TRUE),
     Ask("ensure", bob, FALSE, FALSE), Ask("ensure", bob, TRUE, TRUE)}
AccessRequests ==
    {Ask(k, u, FALSE, FALSE) : k \in {"initialize", "assign", "revoke"}, u \in MCUsers}
DeleteRequests == {Ask("delete", alice, FALSE, FALSE)}
ForcedRequests == {Ask("initialize", bob, TRUE, FALSE)}

AllRequests == EnsureRequests \cup AccessRequests \cup DeleteRequests \cup ForcedRequests
PlainRequests == EnsureRequests \cup AccessRequests \cup DeleteRequests
=============================================================================
