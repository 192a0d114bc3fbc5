----------------------------- MODULE TokenWindow -----------------------------
(***************************************************************************)
(* What the rest of the system relies on of the quota limiter: a token is  *)
(* granted against windows of one provider, each as long as it is open     *)
(* only within a limit the provider was configured with.  There is no      *)
(* Redis here, no time to live and no delay between reading and charging.  *)
(***************************************************************************)
EXTENDS Integers

CONSTANTS
  Slots,   \* the windows: <<provider, kind, the instant it ends>>
  Limits(_)   \* the limits a window may have had

VARIABLES
  time,
  granted  \* tokens granted against each window

Begun == time = 0 /\ granted = [s \in Slots |-> 0]

Elapse == time' = time + 1 /\ UNCHANGED granted

Took == {s \in Slots : granted'[s] # granted[s]}

Grant ==
  /\ UNCHANGED time
  /\ granted' # granted
  /\ \A s \in Took :
       /\ granted'[s] = granted[s] + 1
       /\ time < s[3] => \E n \in Limits(s) : granted[s] < n
  /\ \A s, u \in Took : s # u => s[1] = u[1] /\ s[2] # u[2]
  /\ granted' \in [Slots -> Nat]

WindowSpec == Begun /\ [][Elapse \/ Grant]_<<time, granted>>
=============================================================================
