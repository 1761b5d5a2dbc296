------------------------------ MODULE MCThirdParty ------------------------------
(***************************************************************************)
(* One consumer, one merchant, two endpoints, two requests and two tasks   *)
(* at a time; the mixes of activity below.                                 *)
(***************************************************************************)
EXTENDS ThirdParty

CONSTANTS c1, m1, r1, r2, e1, e2, w1, w2

Nothing == [page |-> 0, list |-> 0, hook |-> 0, admin |-> 0, grant |-> 0, tick |-> 0,
            write |-> 0, publish |-> 0, enqueue |-> 0, crash |-> 0]

Mixes == {
    \* copies of the consumer's row against its administration, over time
    [Nothing EXCEPT !.list = 2, !.admin = 1, !.tick = 3],
    \* the same with two updates at once, and one that fails
    [Nothing EXCEPT !.list = 2, !.admin = 2],
    [Nothing EXCEPT !.list = 1, !.admin = 1, !.grant = 1, !.tick = 1, !.crash = 1],
    \* the window, with requests that arrive together and late, while it is changed
    [Nothing EXCEPT !.list = 4, !.tick = 4],
    [Nothing EXCEPT !.list = 3, !.admin = 1, !.tick = 2],
    \* exports against writes
    [Nothing EXCEPT !.page = 3, !.write = 3, !.tick = 1],
    \* endpoints and first deliveries
    [Nothing EXCEPT !.publish = 2, !.crash = 1],
    [Nothing EXCEPT !.hook = 2, !.publish = 1],
    [Nothing EXCEPT !.publish = 1, !.crash = 2],
    [Nothing EXCEPT !.hook = 1, !.publish = 1, !.grant = 1],
    [Nothing EXCEPT !.publish = 1, !.admin = 1, !.grant = 1],
    \* retries and dead letters
    [Nothing EXCEPT !.publish = 1, !.enqueue = 2],
    [Nothing EXCEPT !.publish = 1, !.enqueue = 2, !.crash = 1]}

\* One message, and nothing that goes wrong or is asked for.
OneMessage == {[Nothing EXCEPT !.publish = 1]}

=============================================================================
