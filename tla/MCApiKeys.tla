------------------------------- MODULE MCApiKeys -------------------------------
(***************************************************************************)
(* ApiKeys for TLC: an unscoped admin key of one application, which issues *)
(* a scoped, short-lived admin key of another; two requests in flight.     *)
(***************************************************************************)
EXTENDS ApiKeys, TLC

CONSTANTS a1, a2, r1, r2

Wish(app, role, scoped, life) ==
    [app |-> app, role |-> role, scoped |-> scoped, life |-> life]

MCFirstKeys == << Wish(a1, "admin", FALSE, 0) >>
MCIssuable == { Wish(a2, "admin", TRUE, 1), Wish(a2, "write", FALSE, 0) }

MCSymmetry == Permutations({r1, r2})
=============================================================================
