------------------------------ MODULE MCBackoff ------------------------------
(***************************************************************************)
(* Backoff with durations of 7 bits.  The policies: nothing given, the     *)
(* default, an odd base, a base above the limit, and a limit too large to  *)
(* be doubled.                                                             *)
(***************************************************************************)
EXTENDS Backoff

Policy(retries, base, max) ==
    [MaxRetries |-> retries, BaseDelay |-> base, MaxDelay |-> max]

SmallPolicies ==
    {Policy(0, 0, 0), Policy(-1, -5, 20), Policy(4, 3, 32), Policy(2, 40, 7),
     Policy(5, 5, 63)}

AllHeaders ==
    [kind : {"seconds", "date"}, n : {-64, -3, 0, 1, 6, 7, 13, 63}]
        \cup [kind : {"other"}, n : {0}]
=============================================================================
