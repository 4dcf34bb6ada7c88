----------------------------- MODULE RootStorage -----------------------------
(* What posting roots to the contract SMTRootStorage promises, whoever posts *)
(* and however transactions wait, overtake one another or get lost: for each *)
(* issuer the contract records a CRL number that some run read from a        *)
(* root.json, at any time after the run read it, and always a greater one.   *)
(* Module Relayer keeps this promise with nonces, fees and resends, and      *)
(* module Publishing keeps it where a run's posts are a single step.         *)
EXTENDS Integers

CONSTANT Issuers

VARIABLES
  files,      \* CRL numbers that a run could read now, per issuer
  offered,    \* those read that may still be recorded
  recorded    \* the contract's number, per issuer; 0 at first

Init ==
  /\ offered = [i \in Issuers |-> {}]
  /\ recorded = [i \in Issuers |-> 0]

\* Runs read files; what they read may be given up, or lost on its way.
Read ==
  /\ \A i \in Issuers : offered'[i] \subseteq offered[i] \union files[i]
  /\ UNCHANGED recorded

\* setRoot goes through: require(crlNumber > roots[issuerId].crlNumber).
SetRoot(i) ==
  /\ \E n \in offered[i] : n > recorded[i] /\ recorded' = [recorded EXCEPT ![i] = n]
  /\ \A j \in Issuers : offered'[j] \subseteq offered[j]

Next == Read \/ \E i \in Issuers : SetRoot(i)

Spec == Init /\ [][Next]_<<offered, recorded>>
=============================================================================
