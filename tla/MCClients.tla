------------------------------- MODULE MCClients -------------------------------
(***************************************************************************)
(* Two tasks that seed two rows of a kind, or two smoke tests.             *)
(***************************************************************************)
EXTENDS Clients

CONSTANTS t1, t2, s1, s2

Nothing == [seed |-> 0, refuse |-> 0, drop |-> 0, late |-> 0,
            run |-> 0, batch |-> 0, toggle |-> 0, crash |-> 0, fail |-> 0]

Mixes == {
    \* a seeding that runs out of time
    [Nothing EXCEPT !.seed = 1, !.late = 1],
    \* one with requests that are refused, or get no answer, or first the one, then the other
    [Nothing EXCEPT !.seed = 1, !.refuse = 1, !.drop = 1],
    \* a smoke test with trouble everywhere
    [Nothing EXCEPT !.run = 1, !.batch = 2, !.refuse = 1, !.drop = 1, !.crash = 1, !.fail = 1],
    \* two at a time
    [Nothing EXCEPT !.run = 1, !.batch = 1, !.toggle = 2]}
=============================================================================
