-------------------------- MODULE MCApprovalHold ---------------------------
(* ApprovalHold for TLC.  Requests, reviewers, polls and failures multiply,  *)
(* so each scene has those that one kind of race needs.                      *)
EXTENDS ApprovalHold

CONSTANTS r1, r2, r3, d1, d2

Scene(b, rs, as, p, l, e) ==
    [backend |-> b, requests |-> rs, asks |-> as, polls |-> p, leaves |-> l, errors |-> e]

Rivals == {<<d1, r1, "approve">>, <<d2, r1, "deny">>}

\* Two reviewers race for one request; a poll runs while one is decided; a
\* window that one reviewer opens, and the requests that claim it.
MCScenes ==
    {Scene("memory", {r1}, Rivals, FALSE, TRUE, 0),
     Scene("redis", {r1}, Rivals, FALSE, TRUE, 1),
     Scene("memory", {r1, r2, r3}, {<<d1, r1, "similar">>}, FALSE, FALSE, 0)} \cup
    {Scene(b, {r1}, {<<d1, r1, "supersede">>}, TRUE, TRUE, 0) : b \in {"memory", "redis"}}

\* Redis alone, where a reviewer is quicker than the waiter's connection.
MCRedisScenes == {Scene("redis", {r1}, {<<d1, r1, "deny">>}, FALSE, FALSE, 0)}

=============================================================================
