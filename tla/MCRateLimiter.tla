---------------------------- MODULE MCRateLimiter ----------------------------
(* A small instance of RateLimiter: one provider limited by the minute and   *)
(* the day (VirusTotal), one whose daily quota depends on the number of keys configured,  *)
(* and none limited in the rest of the run.                                  *)
EXTENDS RateLimiter

CONSTANTS vt, abuse, stub

VtQuota == [minute |-> 1, day |-> 2]
MCQuotas ==
  [p \in Providers |->
     CASE p = vt    -> {VtQuota}
       [] p = abuse -> {[minute |-> 0, day |-> 1], [minute |-> 0, day |-> 2]}
       [] p = stub  -> {[minute |-> 0, day |-> 0]}]
=============================================================================
