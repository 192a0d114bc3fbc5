---------------------------- MODULE Environment ----------------------------
(* What the components share: the clock every process reads, and a bounded  *)
(* number of upsets - crashes, rejected statements, deletions and edits.    *)
EXTENDS Integers

CONSTANTS
  MaxClock,   \* bound: the clock stops here
  MaxUpsets   \* bound: upsets of a behaviour

ASSUME EnvironmentAssumption == MaxClock \in Nat \ {0} /\ MaxUpsets \in Nat

VARIABLES clock, upsets

environment == <<clock, upsets>>

EnvironmentInit == clock = 1 /\ upsets = 0

Upset == upsets < MaxUpsets /\ upsets' = upsets + 1 /\ UNCHANGED clock
Calm == UNCHANGED environment

Pass == clock < MaxClock /\ clock' = clock + 1 /\ UNCHANGED upsets

EnvironmentTypeOK == clock \in 1 .. MaxClock /\ upsets \in 0 .. MaxUpsets
=============================================================================
