----------------------------- MODULE MCRequests -----------------------------
(***************************************************************************)
(* Instances of Requests: a few requests that are made together.           *)
(***************************************************************************)
EXTENDS Requests

CONSTANTS r1, r2, r3, t

Mix(a, b, c) == (r1 :> a) @@ (r2 :> b) @@ (r3 :> c)

Profile(kind, token, header) ==
  [kind |-> kind, token |-> token, header |-> header, calls |-> FALSE, steps |-> 0]
OfUser == Profile("user", t, FALSE)
Tokenless == Profile("user", None, FALSE)
Fixed == Profile("fixed", None, FALSE)
OfContext(header) == Profile("request", None, header)
Calling(p) == [p EXCEPT !.calls = TRUE]
Failing(p, n) == [p EXCEPT !.steps = n]

\* Requests with the same token, one of them with a call; calls at the same time that get
\* through, or that have a user for a context; and every other way through the middlewares
\* with an error that comes a long way.
Together == {
  Mix(OfUser, OfUser, OfUser),
  Mix(OfUser, Calling(OfUser), Tokenless),
  Mix(Calling(OfContext(TRUE)), Calling(OfContext(FALSE)), Tokenless),
  Mix(Calling(Fixed), OfContext(FALSE), Calling(OfContext(FALSE))),
  Mix(Failing(Fixed, 3), Tokenless, Tokenless),
  Mix(Failing(Calling(OfContext(TRUE)), 1), Tokenless, Tokenless) }
=============================================================================
