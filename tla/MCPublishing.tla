--------------------------- MODULE MCPublishing ---------------------------
(* Instances of Publishing for TLC.                                          *)
EXTENDS Publishing

CONSTANTS a, b,              \* serials
          cron, dispatch     \* the scheduled run and one started by hand

C(n, s) == [number |-> n, serials |-> s]

\* The first issuer's list changes; the second loses its number.
ChangeAndNone == <<{C(1, {a}), C(2, {b})}, {C(1, {a}), C(0, {a})}>>

\* One issuer whose list changes.
OneChange == <<{C(1, {a}), C(2, {b})}>>
=============================================================================
