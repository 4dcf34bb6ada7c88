------------------------------- MODULE Relayer -------------------------------
(* Posting roots on chain: postRootOnChain of cmd/smtbuild, the relayer of  *)
(* internal/chain, and the contract SMTRootStorage it writes to.            *)
(*                                                                          *)
(* A run of the poster goes through the issuers and posts, for each, the    *)
(* CRL number (and with it the root) of its root.json.  A PostRoot call     *)
(* pins a nonce and resends at it with higher fees until a transaction is   *)
(* mined, its attempts are used up or the next fee is over the ceiling.     *)
(* Runs end anywhere, and nothing keeps two workflow runs apart.            *)
(*                                                                          *)
(* Outside, transactions wait in pools, replace one another, get lost, and  *)
(* are mined in the order of their nonces when the base fee lets them.      *)
EXTENDS Integers, Sequences, FiniteSets

CONSTANTS
  NumIssuers,        \* issuers, posted in this order
  MaxCRL,            \* bound: largest CRL number
  Runs,              \* poster processes that may overlap
  BaseFees,          \* values the base fee takes
  Tips,              \* tips a node suggests
  Ceiling,           \* maxFeeWei; 0 for no ceiling
  MaxReplacements,   \* resends per PostRoot call
  ConfirmTimeout,    \* whether a wait is bounded (confirmTimeout > 0)
  MaxPosts           \* bound: PostRoot calls that get as far as a nonce

Issuers == 1..NumIssuers

ASSUME RelayerAssumption ==
  /\ NumIssuers \in Nat \ {0}
  /\ MaxCRL \in Nat
  /\ BaseFees \subseteq Nat
  /\ Tips \subseteq Nat
  /\ Ceiling \in Nat
  /\ MaxReplacements \in Nat
  /\ ConfirmTimeout \in BOOLEAN
  /\ MaxPosts \in Nat

VARIABLES
  rootFile,   \* CRL number in root.json, per issuer; 0 when there is none
  baseFee,    \* of the chain's head
  pool,       \* transactions that wait anywhere in the network
  mined,      \* what was mined, in order: transaction n has nonce n - 1
  onchain,    \* CRL number in the contract, per issuer
  poster,     \* per run, where postRootOnChain stands
  report,     \* per run, what it logged last, of which issuer and CRL
  posts       \* PostRoot calls so far

vars == <<rootFile, baseFee, pool, mined, onchain, poster, report, posts>>

world == <<rootFile, baseFee, onchain, mined>>

-----------------------------------------------------------------------------
(* Fees *)

Above(fee) == Ceiling > 0 /\ fee > Ceiling

\* Mutant: no floor; integer division stalls small fees.
bump_NoFloor(v) == v + (v * 13) \div 100

\* 13% more, and at least 1.
bump(v) == v + (IF (v * 13) \div 100 = 0 THEN 1 ELSE (v * 13) \div 100)

\* Mutant: the headroom is for the base fee alone, and leaves out the tip.
FirstFeeCap_NoTip(base, tip) == IF Above(2 * base) THEN Ceiling ELSE 2 * base

FirstFeeCap(base, tip) == IF Above(2 * base + tip) THEN Ceiling ELSE 2 * base + tip

\* A node lets a transaction replace another at its nonce if both fees grow,
\* and by 10%, rounded down.
Outbids(new, old) ==
  /\ new.cap > old.cap /\ new.cap >= (old.cap * 110) \div 100
  /\ new.tip > old.tip /\ new.tip >= (old.tip * 110) \div 100

-----------------------------------------------------------------------------
(* The chain *)

NextNonce == Len(mined)

\* The first nonce that neither a mined nor a waiting transaction uses.
PendingNonces ==
  {n \in NextNonce..(NextNonce + Cardinality(pool)) :
     /\ \A tx \in pool : tx.nonce # n
     /\ \A m \in NextNonce..(n - 1) : \E tx \in pool : tx.nonce = m}

Accepts(tx) ==
  /\ tx.nonce >= NextNonce
  /\ tx.tip <= tx.cap
  /\ \A old \in pool : old.nonce = tx.nonce => Outbids(tx, old)

\* Mutant: the contract takes any CRL number.
Fresh_Always(tx) == TRUE

Fresh(tx) == tx.crl > onchain[tx.issuer]

\* setRoot reverts when the CRL is stale; either way the nonce is used up.
Mine(tx) ==
  /\ tx \in pool /\ tx.nonce = NextNonce /\ tx.cap >= baseFee
  /\ mined' = Append(mined, [tx |-> tx, ok |-> Fresh(tx)])
  /\ onchain' = IF Fresh(tx) THEN [onchain EXCEPT ![tx.issuer] = tx.crl] ELSE onchain
  /\ pool' = {other \in pool : other.nonce # tx.nonce}
  /\ UNCHANGED <<rootFile, baseFee, poster, report, posts>>

Drop(tx) ==
  /\ tx \in pool
  /\ pool' = pool \ {tx}
  /\ UNCHANGED <<world, poster, report, posts>>

BaseFeeMoves ==
  /\ \E fee \in BaseFees \ {baseFee} : baseFee' = fee
  /\ UNCHANGED <<rootFile, pool, mined, onchain, poster, report, posts>>

\* smtbuild writes a root.json, not always of a later CRL.
WriteRoot(i) ==
  /\ \E n \in 1..MaxCRL : rootFile' = [rootFile EXCEPT ![i] = n]
  /\ UNCHANGED <<baseFee, pool, mined, onchain, poster, report, posts>>

-----------------------------------------------------------------------------
(* One run of postRootOnChain *)

Blank(pc, i) == [pc |-> pc, issuer |-> i, crl |-> 0, attempt |-> 0, nonce |-> 0,
                 tip |-> 0, cap |-> 0, post |-> 0]

Idle == Blank("idle", 1)

\* The head of the loop, with nothing left of the issuer before.
Turn(i) == Blank("read", i)

NoReport == [result |-> "none", issuer |-> 1, crl |-> 0]

Init ==
  /\ rootFile = [i \in Issuers |-> 0]
  /\ baseFee \in BaseFees
  /\ pool = {}
  /\ mined = <<>>
  /\ onchain = [i \in Issuers |-> 0]
  /\ poster = [r \in Runs |-> Idle]
  /\ report = [r \in Runs |-> NoReport]
  /\ posts = 0

Tx(p) == [nonce |-> p.nonce, issuer |-> p.issuer, crl |-> p.crl,
          cap |-> p.cap, tip |-> p.tip, post |-> p.post]

At(r, pc) == poster[r].pc = pc

Goes(r, pc) == poster' = [poster EXCEPT ![r].pc = pc]

\* PostRoot returns; whatever the result, the loop logs it and goes on.
Returns(r, result) ==
  /\ report' = [report EXCEPT ![r] = [result |-> result, issuer |-> poster[r].issuer,
                                      crl |-> poster[r].crl]]
  /\ poster' = [poster EXCEPT ![r] = Turn(poster[r].issuer + 1)]

Begin(r) ==
  /\ At(r, "idle")
  /\ poster' = [poster EXCEPT ![r] = Turn(1)]
  /\ UNCHANGED <<world, pool, report, posts>>

\* The file is read once; a missing one is skipped.
ReadRoot(r) ==
  /\ At(r, "read") /\ poster[r].issuer \in Issuers
  /\ LET n == rootFile[poster[r].issuer]
     IN  poster' = [poster EXCEPT ![r] =
                      IF n = 0 THEN Turn(@.issuer + 1)
                      ELSE [@ EXCEPT !.pc = "gas", !.crl = n]]
  /\ UNCHANGED <<world, pool, report, posts>>

Priced(p, tip, nonce) ==
  [pc |-> "estimate", issuer |-> p.issuer, crl |-> p.crl, attempt |-> 0, nonce |-> nonce,
   tip |-> tip, cap |-> FirstFeeCap(baseFee, tip), post |-> posts + 1]

\* applyGasBounds and pinNonce.
ApplyGasBounds(r) ==
  /\ At(r, "gas") /\ posts < MaxPosts
  /\ \E tip \in Tips, nonce \in PendingNonces :
       \/ /\ Above(baseFee + tip)
          /\ Returns(r, "skipped")
          /\ UNCHANGED posts
       \/ /\ ~Above(baseFee + tip)
          /\ poster' = [poster EXCEPT ![r] = Priced(@, tip, nonce)]
          /\ posts' = posts + 1
          /\ UNCHANGED report
  /\ UNCHANGED <<world, pool>>

\* The transactor estimates the gas first, where a stale CRL shows.
Estimate(r) ==
  /\ At(r, "estimate")
  /\ IF Fresh(Tx(poster[r]))
     THEN Goes(r, "submit") /\ UNCHANGED report
     ELSE Returns(r, "stale")
  /\ UNCHANGED <<world, pool, posts>>

Submit(r) ==
  /\ At(r, "submit")
  /\ Accepts(Tx(poster[r]))
  /\ pool' = pool \union {Tx(poster[r])}
  /\ Goes(r, "wait")
  /\ UNCHANGED <<world, report, posts>>

\* The node takes the transaction and its answer is lost.
SubmitUnanswered(r) ==
  /\ At(r, "submit")
  /\ Accepts(Tx(poster[r]))
  /\ pool' = pool \union {Tx(poster[r])}
  /\ Returns(r, "failed")
  /\ UNCHANGED <<world, posts>>

\* A call to the node fails, the node refuses, or the run's deadline is over.
Fails(r) ==
  /\ poster[r].pc \in {"gas", "estimate", "submit", "wait"}
  /\ Returns(r, "failed")
  /\ UNCHANGED <<world, pool, posts>>

\* Mutant: a receipt is a success.
Result_IgnoresStatus(receipt) == "posted"

Result(receipt) == IF receipt.ok THEN "posted" ELSE "reverted"

Confirm(r) ==
  /\ At(r, "wait")
  /\ \E k \in 1..Len(mined) :
       /\ mined[k].tx = Tx(poster[r])
       /\ Returns(r, Result(mined[k]))
  /\ UNCHANGED <<world, pool, posts>>

\* Mutant: the nonce is looked up anew for every attempt.
Bumped_NewNonce(p) ==
  [p EXCEPT !.pc = "estimate", !.attempt = @ + 1, !.cap = bump(@), !.tip = bump(@),
            !.nonce = CHOOSE n \in PendingNonces : TRUE]

Bumped(p) ==
  [p EXCEPT !.pc = "estimate", !.attempt = @ + 1, !.cap = bump(@), !.tip = bump(@)]

\* Mutant: one resend too many.
Exhausted_OffByOne(p) == p.attempt > MaxReplacements

Exhausted(p) == p.attempt >= MaxReplacements

\* Nothing heard within the timeout, though it may have been mined by now.
TimesOut(r) ==
  /\ ConfirmTimeout
  /\ At(r, "wait")
  /\ IF Exhausted(poster[r]) THEN Returns(r, "pending")
     ELSE IF Above(bump(poster[r].cap)) THEN Returns(r, "skipped")
     ELSE poster' = [poster EXCEPT ![r] = Bumped(@)] /\ UNCHANGED report
  /\ UNCHANGED <<world, pool, posts>>

Ends(r) ==
  /\ At(r, "read") /\ poster[r].issuer = NumIssuers + 1
  /\ poster' = [poster EXCEPT ![r] = Idle]
  /\ UNCHANGED <<world, pool, report, posts>>

\* The workflow run is cancelled or dies; what it sent stays out there.
Killed(r) ==
  /\ ~At(r, "idle")
  /\ poster' = [poster EXCEPT ![r] = Idle]
  /\ UNCHANGED <<world, pool, report, posts>>

-----------------------------------------------------------------------------
RunStep(r) ==
  \/ ReadRoot(r) \/ ApplyGasBounds(r) \/ Estimate(r) \/ Submit(r)
  \/ SubmitUnanswered(r) \/ Fails(r) \/ Confirm(r) \/ TimesOut(r) \/ Ends(r)

Next ==
  \/ \E tx \in pool : Mine(tx) \/ Drop(tx)
  \/ BaseFeeMoves
  \/ \E i \in Issuers : WriteRoot(i)
  \/ \E r \in Runs : Begin(r) \/ RunStep(r) \/ Killed(r)

Spec == Init /\ [][Next]_vars

-----------------------------------------------------------------------------
(* Properties *)

TxType == [nonce : Nat, issuer : Issuers, crl : 1..MaxCRL, cap : Nat, tip : Nat,
           post : 1..MaxPosts]

PosterType == [pc : {"idle", "read", "gas", "estimate", "submit", "wait"},
               issuer : 1..(NumIssuers + 1), crl : 0..MaxCRL,
               attempt : 0..MaxReplacements, nonce : Nat, tip : Nat, cap : Nat,
               post : 0..MaxPosts]

\* The shape of every variable; a call makes no more resends than it may, and
\* what it is about to send is a transaction for an issuer and a CRL there is.
TypeOK ==
  /\ rootFile \in [Issuers -> 0..MaxCRL]
  /\ baseFee \in BaseFees
  /\ pool \subseteq TxType
  /\ mined \in Seq([tx : TxType, ok : BOOLEAN])
  /\ onchain \in [Issuers -> 0..MaxCRL]
  /\ poster \in [Runs -> PosterType]
  /\ \A r \in Runs :
       /\ poster[r].pc = "gas" => poster[r].issuer \in Issuers /\ poster[r].crl > 0
       /\ poster[r].pc \in {"estimate", "submit", "wait"} => Tx(poster[r]) \in TxType
  /\ report \in [Runs -> [result : {"none", "posted", "reverted", "stale", "pending",
                                    "skipped", "failed"},
                          issuer : Issuers, crl : 0..MaxCRL]]
  /\ posts \in 0..MaxPosts

Sent == pool \union {mined[k].tx : k \in 1..Len(mined)}

\* What a call is about to send, at its first attempt or a later one, never offers more
\* than the ceiling, nor a tip above its cap, which a node would refuse: the first cap
\* and every bump keep to both, though cap and tip are rounded separately, and only the
\* cap is held to the ceiling (applyGasBounds, bumpFees).
FeesLegal ==
  \A r \in Runs : poster[r].pc \in {"estimate", "submit"} =>
    poster[r].tip <= poster[r].cap /\ ~Above(poster[r].cap)

\* A resend always outbids what the same call sent before, whatever the rounding
\* of small fees: it is never turned down as underpriced, nor queued behind.
ResendReplaces ==
  \A r \in Runs : poster[r].pc = "submit" =>
    \A tx \in pool : tx.post = poster[r].post =>
      tx.nonce = poster[r].nonce /\ Outbids(Tx(poster[r]), tx)

\* One PostRoot call gets one transaction mined at most, however often it resent
\* and whichever of its attempts a miner picked.
MinedOnce ==
  \A k, l \in 1..Len(mined) : mined[k].tx.post = mined[l].tx.post => k = l

\* What a run reports is true of the chain: "posted" means that this issuer's root
\* was recorded, "stale" or "reverted" that one at least as new was - though the
\* transaction may be a resend, replaced by another run's, or mined after newer ones.
ReportTrue ==
  \A r \in Runs :
    /\ report[r].result = "posted" =>
         \E k \in 1..Len(mined) : /\ mined[k].ok
                                  /\ mined[k].tx.issuer = report[r].issuer
                                  /\ mined[k].tx.crl = report[r].crl
    /\ report[r].result \in {"posted", "stale", "reverted"} =>
         onchain[report[r].issuer] >= report[r].crl

\* The contract's CRL number only grows, in whatever order transactions of
\* overlapping runs, with root files that went back, are mined.
OnChainNeverGoesBack ==
  [][\A i \in Issuers : onchain'[i] >= onchain[i]]_vars

\* The numbers of an issuer that runs have read and not given up, or that wait.
Outstanding(i) ==
  {poster[r].crl : r \in {s \in Runs : /\ poster[s].pc \in {"gas", "estimate", "submit", "wait"}
                                       /\ poster[s].issuer = i}}
  \union {tx.crl : tx \in {ux \in pool : ux.issuer = i}}

Storage == INSTANCE RootStorage WITH
  files <- [i \in Issuers |-> {rootFile[i]} \ {0}],
  offered <- [i \in Issuers |-> Outstanding(i)],
  recorded <- onchain

\* Nonces, resends, replacements, losses and reverts come to this: the contract
\* takes a number that a run read from root.json, then or later, and a greater one.
ImplementsStorage == Storage!Spec
=============================================================================
