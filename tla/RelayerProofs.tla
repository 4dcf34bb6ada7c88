---------------------------- MODULE RelayerProofs ----------------------------
(* Proofs about Relayer, for any issuers, runs, fees, ceiling and bounds.    *)
(*                                                                           *)
(* The inductive invariant ties what a call has sent, wherever it is now, to *)
(* the call itself: the same nonce, and lower fees than the next attempt's.  *)
EXTENDS Relayer, TLAPS

Calling(r) == poster[r].pc \in {"estimate", "submit", "wait"}

\* The fees a call is about to offer are legal, and so are those it offered last, from
\* which a bump goes on.
FeesOK ==
  \A r \in Runs : Calling(r) => poster[r].tip <= poster[r].cap /\ ~Above(poster[r].cap)

\* No two calls have one identity, and no transaction that of a future call.
CallsDistinct ==
  /\ \A tx \in Sent : tx.post <= posts
  /\ \A r \in Runs : Calling(r) => poster[r].post <= posts
  /\ \A r, s \in Runs : Calling(r) /\ Calling(s) /\ r # s
                        => poster[r].post # poster[s].post

OneNonce == \A tx, ux \in Sent : tx.post = ux.post => tx.nonce = ux.nonce

\* How the call of a run stands to what it has sent.
Attempts ==
  \A r \in Runs : Calling(r) => \A tx \in Sent : tx.post = poster[r].post =>
    /\ tx.nonce = poster[r].nonce
    /\ tx.cap <= poster[r].cap /\ tx.tip <= poster[r].tip
    /\ poster[r].pc # "wait" => Outbids(Tx(poster[r]), tx)

MinedInOrder == \A k \in 1..Len(mined) : mined[k].tx.nonce = k - 1


-----------------------------------------------------------------------------
(* Fees *)

\* A bump takes a fee past every fee up to it, by what a node asks of a
\* replacement, whatever the integer division cuts off.
LEMMA BumpOutbids ==
  ASSUME NEW v \in Nat, NEW w \in Nat, w <= v
  PROVE  bump(v) \in Nat /\ bump(v) > w /\ bump(v) >= (w * 110) \div 100
BY DEF bump

\* Bumped apart, a tip stays within its cap.
LEMMA BumpMonotone ==
  ASSUME NEW v \in Nat, NEW w \in Nat, v <= w
  PROVE  bump(v) <= bump(w)
BY DEF bump

\* The first cap holds the tip and keeps to the ceiling.
LEMMA FirstFeesLegal ==
  ASSUME NEW base \in Nat, NEW tip \in Nat, ~Above(base + tip), Ceiling \in Nat
  PROVE  /\ FirstFeeCap(base, tip) \in Nat
         /\ tip <= FirstFeeCap(base, tip)
         /\ ~Above(FirstFeeCap(base, tip))
BY DEF FirstFeeCap, Above

-----------------------------------------------------------------------------
(* Types *)

\* Every run starts idle, with nothing sent and nothing on chain.
LEMMA InitType == Init => TypeOK
<1> SUFFICES ASSUME Init PROVE TypeOK
  OBVIOUS
<1> USE RelayerAssumption DEF Init, Issuers
<1>1. rootFile \in [Issuers -> 0..MaxCRL] /\ onchain \in [Issuers -> 0..MaxCRL]
  OBVIOUS
<1>2. baseFee \in BaseFees /\ pool \subseteq TxType /\ posts \in 0..MaxPosts
  OBVIOUS
<1>3. mined \in Seq([tx : TxType, ok : BOOLEAN])
  OBVIOUS
<1>4. Idle \in PosterType
  BY DEF Idle, Blank, PosterType
<1>5. poster \in [Runs -> PosterType]
  BY <1>4
<1>6. \A r \in Runs : poster[r].pc = "idle"
  BY DEF Idle, Blank
<1>7. report \in [Runs -> [result : {"none", "posted", "reverted", "stale", "pending",
                                     "skipped", "failed"},
                           issuer : Issuers, crl : 0..MaxCRL]]
  BY DEF NoReport
<1> QED
  BY <1>1, <1>2, <1>3, <1>5, <1>6, <1>7 DEF TypeOK

ReportType == [result : {"none", "posted", "reverted", "stale", "pending", "skipped",
                         "failed"},
               issuer : Issuers, crl : 0..MaxCRL]

\* The parts of TypeOK about the runs.
RunsOK ==
  /\ poster \in [Runs -> PosterType]
  /\ \A r \in Runs :
       /\ poster[r].pc = "gas" => poster[r].issuer \in Issuers /\ poster[r].crl > 0
       /\ poster[r].pc \in {"estimate", "submit", "wait"} => Tx(poster[r]) \in TxType

\* A run that gets a state of its own which is well typed leaves RunsOK true.
LEMMA RunMoves ==
  ASSUME RunsOK, NEW r \in Runs, NEW p \in PosterType,
         poster' = [poster EXCEPT ![r] = p],
         p.pc = "gas" => p.issuer \in Issuers /\ p.crl > 0,
         p.pc \in {"estimate", "submit", "wait"} => Tx(p) \in TxType
  PROVE  RunsOK'
<1>1. poster' \in [Runs -> PosterType]
  BY DEF RunsOK
<1>2. \A s \in Runs : poster'[s] = IF s = r THEN p ELSE poster[s]
  BY DEF RunsOK
<1>3. \A s \in Runs :
        /\ poster'[s].pc = "gas" => poster'[s].issuer \in Issuers /\ poster'[s].crl > 0
        /\ poster'[s].pc \in {"estimate", "submit", "wait"} => Tx(poster'[s]) \in TxType
  BY <1>2 DEF RunsOK
<1> QED
  BY <1>1, <1>3 DEF RunsOK, Tx

\* The head of the loop is well typed for every issuer and one past the last.
LEMMA TurnType ==
  ASSUME NEW i \in 1..(NumIssuers + 1)
  PROVE  Turn(i) \in PosterType /\ Turn(i).pc = "read"
BY RelayerAssumption DEF Turn, Blank, PosterType

\* PostRoot returns to the loop from any call it makes.
LEMMA ReturnsType ==
  ASSUME RunsOK, report \in [Runs -> ReportType], NEW r \in Runs,
         NEW result \in {"posted", "reverted", "stale", "pending", "skipped", "failed"},
         poster[r].pc \in {"gas", "estimate", "submit", "wait"},
         Returns(r, result)
  PROVE  RunsOK' /\ report' \in [Runs -> ReportType]
<1>1. poster[r].issuer \in Issuers /\ poster[r].crl \in 0..MaxCRL
  BY DEF RunsOK, TxType, Tx, PosterType
<1>2. poster[r].issuer + 1 \in 1..(NumIssuers + 1)
  BY <1>1, RelayerAssumption DEF Issuers
<1>3. RunsOK'
  <2> DEFINE p == Turn(poster[r].issuer + 1)
  <2>1. p \in PosterType /\ p.pc = "read"
    BY <1>2, TurnType
  <2>2. poster' = [poster EXCEPT ![r] = p]
    BY DEF Returns
  <2> HIDE DEF p
  <2> QED
    BY <2>1, <2>2, RunMoves
<1>4. report' \in [Runs -> ReportType]
  BY <1>1 DEF Returns, ReportType
<1> QED
  BY <1>3, <1>4

\* Every step keeps the types, the resend count among them.
LEMMA NextType == TypeOK /\ [Next]_vars => TypeOK'
<1> SUFFICES ASSUME TypeOK, [Next]_vars PROVE TypeOK'
  OBVIOUS
<1> USE RelayerAssumption
<1>0. RunsOK /\ report \in [Runs -> ReportType]
  BY DEF TypeOK, RunsOK, ReportType
<1> DEFINE Chain == /\ rootFile \in [Issuers -> 0..MaxCRL]
                    /\ baseFee \in BaseFees
                    /\ mined \in Seq([tx : TxType, ok : BOOLEAN])
                    /\ onchain \in [Issuers -> 0..MaxCRL]
<1>a. ASSUME Chain', pool' \subseteq TxType, RunsOK', report' \in [Runs -> ReportType],
             posts' \in 0..MaxPosts
      PROVE  TypeOK'
  BY <1>a DEF TypeOK, RunsOK, ReportType
<1>b. Chain /\ pool \subseteq TxType /\ posts \in 0..MaxPosts
  BY DEF TypeOK
<1>c. ASSUME UNCHANGED world PROVE Chain'
  BY <1>b, <1>c DEF world
<1>d. ASSUME UNCHANGED <<poster, report>> PROVE RunsOK' /\ report' \in [Runs -> ReportType]
  BY <1>0, <1>d DEF RunsOK, Tx
<1> HIDE DEF Chain
<1>1. ASSUME NEW tx \in pool, Mine(tx) PROVE TypeOK'
  <2>1. tx \in TxType /\ tx.issuer \in Issuers /\ tx.crl \in 0..MaxCRL
    BY <1>b DEF TxType
  <2>2. onchain' \in [Issuers -> 0..MaxCRL]
    BY <1>1, <1>b, <2>1 DEF Mine, Chain
  <2>3. Fresh(tx) \in BOOLEAN
    BY DEF Fresh
  <2>4. [tx |-> tx, ok |-> Fresh(tx)] \in [tx : TxType, ok : BOOLEAN]
    BY <2>1, <2>3
  <2>5. mined' \in Seq([tx : TxType, ok : BOOLEAN])
    <3> DEFINE m == [tx |-> tx, ok |-> Fresh(tx)]
    <3>1. m \in [tx : TxType, ok : BOOLEAN] /\ mined' = Append(mined, m)
      BY <1>1, <2>4 DEF Mine
    <3> HIDE DEF m
    <3> QED
      BY <3>1, <1>b DEF Chain
  <2>6. Chain'
    BY <1>1, <1>b, <2>2, <2>5 DEF Chain, Mine
  <2> QED
    BY <1>1, <1>a, <1>b, <1>d, <2>6 DEF Mine
<1>2. ASSUME NEW tx \in pool, Drop(tx) PROVE TypeOK'
  BY <1>2, <1>a, <1>b, <1>c, <1>d DEF Drop
<1>3. ASSUME BaseFeeMoves PROVE TypeOK'
  <2>1. Chain'
    BY <1>3, <1>b DEF BaseFeeMoves, Chain
  <2> QED
    BY <1>3, <2>1, <1>a, <1>b, <1>d DEF BaseFeeMoves
<1>4. ASSUME NEW i \in Issuers, WriteRoot(i) PROVE TypeOK'
  <2>1. Chain'
    BY <1>4, <1>b DEF WriteRoot, Chain
  <2> QED
    BY <1>4, <2>1, <1>a, <1>b, <1>d DEF WriteRoot
<1>e. ASSUME NEW r \in Runs, NEW i \in 1..(NumIssuers + 1),
             poster' = [poster EXCEPT ![r] = Turn(i)]
      PROVE  RunsOK'
  <2> DEFINE p == Turn(i)
  <2>1. p \in PosterType /\ p.pc = "read" /\ poster' = [poster EXCEPT ![r] = p]
    BY <1>e, TurnType
  <2> HIDE DEF p
  <2> QED
    BY <2>1, <1>0, RunMoves
<1>f. ASSUME NEW r \in Runs, poster' = [poster EXCEPT ![r] = Idle]
      PROVE  RunsOK'
  <2> DEFINE p == Idle
  <2>1. p \in PosterType /\ p.pc = "idle" /\ poster' = [poster EXCEPT ![r] = p]
    BY <1>f DEF Idle, Blank, PosterType
  <2> HIDE DEF p
  <2> QED
    BY <2>1, <1>0, RunMoves
<1>g. ASSUME NEW r \in Runs, NEW pc \in {"estimate", "submit", "wait"},
             poster[r].pc \in {"estimate", "submit"}, Goes(r, pc)
      PROVE  RunsOK'
  <2> DEFINE p == [poster[r] EXCEPT !.pc = pc]
  <2>1. poster[r] \in PosterType /\ Tx(poster[r]) \in TxType
    BY <1>0, <1>g DEF RunsOK
  <2>2. p \in PosterType /\ p.pc = pc /\ Tx(p) = Tx(poster[r])
    BY <2>1 DEF PosterType, Tx
  <2>3. poster' = [poster EXCEPT ![r] = p]
    BY <1>g, <1>0 DEF Goes, RunsOK
  <2> HIDE DEF p
  <2> QED
    BY <2>1, <2>2, <2>3, <1>0, RunMoves
<1>5. ASSUME NEW r \in Runs, Begin(r) PROVE TypeOK'
  <2>1. 1 \in 1..(NumIssuers + 1)
    OBVIOUS
  <2>2. RunsOK'
    BY <1>5, <2>1, <1>e DEF Begin
  <2> QED
    BY <1>5, <2>2, <1>0, <1>a, <1>b, <1>c DEF Begin
<1>6. ASSUME NEW r \in Runs, ReadRoot(r) PROVE TypeOK'
  <2> DEFINE n == rootFile[poster[r].issuer]
             p == [poster[r] EXCEPT !.pc = "gas", !.crl = n]
  <2>1. poster[r] \in PosterType /\ poster[r].issuer \in Issuers /\ n \in 0..MaxCRL
    BY <1>6, <1>0, <1>b DEF ReadRoot, RunsOK, Chain
  <2>2. CASE n = 0
    <3>1. poster[r].issuer + 1 \in 1..(NumIssuers + 1)
      BY <2>1 DEF Issuers
    <3>2. poster' = [poster EXCEPT ![r] = Turn(poster[r].issuer + 1)]
      BY <1>6, <2>2 DEF ReadRoot
    <3>3. RunsOK'
      BY <3>1, <3>2, <1>e
    <3> QED
      BY <1>6, <3>3, <1>0, <1>a, <1>b, <1>c DEF ReadRoot
  <2>3. CASE n # 0
    <3>1. p \in PosterType /\ p.pc = "gas" /\ p.issuer \in Issuers /\ p.crl > 0
      <4>1. n \in 0..MaxCRL /\ n > 0
        BY <2>1, <2>3
      <4> HIDE DEF n
      <4> QED
        BY <2>1, <4>1 DEF PosterType
    <3>2. poster' = [poster EXCEPT ![r] = p]
      BY <1>6, <2>3 DEF ReadRoot
    <3>3. RunsOK'
      <4> HIDE DEF p
      <4> QED
        BY <3>1, <3>2, <1>0, RunMoves
    <3> QED
      BY <1>6, <3>3, <1>0, <1>a, <1>b, <1>c DEF ReadRoot
  <2> QED
    BY <2>2, <2>3
<1>7. ASSUME NEW r \in Runs, ApplyGasBounds(r) PROVE TypeOK'
  <2> PICK tip \in Tips, nonce \in PendingNonces :
       \/ /\ Above(baseFee + tip)
          /\ Returns(r, "skipped")
          /\ UNCHANGED posts
       \/ /\ ~Above(baseFee + tip)
          /\ poster' = [poster EXCEPT ![r] = Priced(@, tip, nonce)]
          /\ posts' = posts + 1
          /\ UNCHANGED report
    BY <1>7 DEF ApplyGasBounds
  <2>1. poster[r] \in PosterType /\ poster[r].issuer \in Issuers /\ poster[r].crl \in 1..MaxCRL
    BY <1>7, <1>0 DEF ApplyGasBounds, At, RunsOK, PosterType
  <2>2. CASE Returns(r, "skipped") /\ UNCHANGED posts
    <3>1. RunsOK' /\ report' \in [Runs -> ReportType]
      BY <2>2, <1>0, <1>7, ReturnsType DEF ApplyGasBounds, At
    <3> QED
      BY <1>7, <2>2, <3>1, <1>a, <1>b, <1>c DEF ApplyGasBounds
  <2>3. CASE /\ ~Above(baseFee + tip)
             /\ poster' = [poster EXCEPT ![r] = Priced(@, tip, nonce)]
             /\ posts' = posts + 1
             /\ UNCHANGED report
    <3> DEFINE p == Priced(poster[r], tip, nonce)
    <3>1. baseFee \in Nat /\ tip \in Nat
      BY <1>b DEF Chain
    <3>2. FirstFeeCap(baseFee, tip) \in Nat
      BY <3>1, <2>3, FirstFeesLegal
    <3>3. nonce \in Nat
      <4>1. NextNonce \in Nat
        BY <1>b DEF NextNonce, Chain
      <4>2. nonce \in Int /\ nonce >= NextNonce
        BY <4>1 DEF PendingNonces
      <4> QED
        BY <4>1, <4>2
    <3>4. posts + 1 \in 1..MaxPosts
      BY <1>7, <1>b DEF ApplyGasBounds
    <3>5. p \in PosterType /\ p.pc = "estimate" /\ Tx(p) \in TxType
      BY <2>1, <3>1, <3>2, <3>3, <3>4, <1>b DEF Priced, PosterType, TxType, Tx
    <3>6. poster' = [poster EXCEPT ![r] = p]
      BY <2>3, <1>0 DEF RunsOK
    <3>7. RunsOK'
      <4> HIDE DEF p
      <4> QED
        BY <3>5, <3>6, <1>0, RunMoves
    <3> QED
      BY <1>7, <2>3, <3>4, <3>7, <1>0, <1>a, <1>b, <1>c DEF ApplyGasBounds
  <2> QED
    BY <2>2, <2>3
<1>8. ASSUME NEW r \in Runs, Estimate(r) PROVE TypeOK'
  <2>1. RunsOK' /\ report' \in [Runs -> ReportType]
    BY <1>8, <1>0, <1>g, ReturnsType DEF Estimate, At
  <2> QED
    BY <1>8, <2>1, <1>a, <1>b, <1>c DEF Estimate
<1>9. ASSUME NEW r \in Runs, Submit(r) PROVE TypeOK'
  <2>1. RunsOK' /\ report' \in [Runs -> ReportType] /\ Tx(poster[r]) \in TxType
    BY <1>9, <1>0, <1>g DEF Submit, At, RunsOK
  <2> QED
    BY <1>9, <2>1, <1>a, <1>b, <1>c DEF Submit
<1>10. ASSUME NEW r \in Runs, SubmitUnanswered(r) PROVE TypeOK'
  <2>1. RunsOK' /\ report' \in [Runs -> ReportType] /\ Tx(poster[r]) \in TxType
    BY <1>10, <1>0, ReturnsType DEF SubmitUnanswered, At, RunsOK
  <2> QED
    BY <1>10, <2>1, <1>a, <1>b, <1>c DEF SubmitUnanswered
<1>11. ASSUME NEW r \in Runs, Fails(r) PROVE TypeOK'
  <2>1. RunsOK' /\ report' \in [Runs -> ReportType]
    BY <1>11, <1>0, ReturnsType DEF Fails
  <2> QED
    BY <1>11, <2>1, <1>a, <1>b, <1>c DEF Fails
<1>12. ASSUME NEW r \in Runs, Confirm(r) PROVE TypeOK'
  <2>1. \E result \in {"posted", "reverted"} : Returns(r, result)
    BY <1>12 DEF Confirm, Result
  <2>2. RunsOK' /\ report' \in [Runs -> ReportType]
    BY <1>12, <2>1, <1>0, ReturnsType DEF Confirm, At
  <2> QED
    BY <1>12, <2>2, <1>a, <1>b, <1>c DEF Confirm
<1>13. ASSUME NEW r \in Runs, TimesOut(r) PROVE TypeOK'
  <2>1. CASE \E result \in {"pending", "skipped"} : Returns(r, result)
    <3>1. RunsOK' /\ report' \in [Runs -> ReportType]
      BY <1>13, <2>1, <1>0, ReturnsType DEF TimesOut, At
    <3> QED
      BY <1>13, <3>1, <1>a, <1>b, <1>c DEF TimesOut
  <2>2. CASE /\ ~Exhausted(poster[r])
             /\ poster' = [poster EXCEPT ![r] = Bumped(@)] /\ UNCHANGED report
    <3> DEFINE p == Bumped(poster[r])
    <3>1. poster[r] \in PosterType /\ Tx(poster[r]) \in TxType
      BY <1>13, <1>0 DEF TimesOut, At, RunsOK
    <3>2. bump(poster[r].cap) \in Nat /\ bump(poster[r].tip) \in Nat
      BY <3>1, BumpOutbids DEF PosterType
    <3>3. poster[r].attempt + 1 \in 0..MaxReplacements
      BY <3>1, <2>2 DEF PosterType, Exhausted
    <3>4. p \in PosterType /\ p.pc = "estimate" /\ Tx(p) \in TxType
      BY <3>1, <3>2, <3>3 DEF PosterType, TxType, Tx, Bumped
    <3>5. poster' = [poster EXCEPT ![r] = p]
      BY <2>2
    <3>6. RunsOK'
      <4> HIDE DEF p
      <4> QED
        BY <3>4, <3>5, <1>0, RunMoves
    <3> QED
      BY <1>13, <2>2, <3>6, <1>0, <1>a, <1>b, <1>c DEF TimesOut
  <2> QED
    BY <1>13, <2>1, <2>2 DEF TimesOut
<1>14. ASSUME NEW r \in Runs, Ends(r) PROVE TypeOK'
  <2>1. RunsOK'
    BY <1>14, <1>f DEF Ends
  <2> QED
    BY <1>14, <2>1, <1>0, <1>a, <1>b, <1>c DEF Ends
<1>15. ASSUME NEW r \in Runs, Killed(r) PROVE TypeOK'
  <2>1. RunsOK'
    BY <1>15, <1>f DEF Killed
  <2> QED
    BY <1>15, <2>1, <1>0, <1>a, <1>b, <1>c DEF Killed
<1>16. ASSUME UNCHANGED vars PROVE TypeOK'
  BY <1>16, <1>0, <1>a, <1>b, <1>c, <1>d DEF vars, world
<1> QED
  BY <1>1, <1>2, <1>3, <1>4, <1>5, <1>6, <1>7, <1>8, <1>9, <1>10, <1>11, <1>12,
     <1>13, <1>14, <1>15, <1>16 DEF Next, RunStep

\* Every reachable state is well typed, and no PostRoot call resends more often
\* than maxReplacements (sendAndConfirm).
THEOREM TypeCorrect == Spec => []TypeOK
<1> QED
  BY InitType, NextType, PTL DEF Spec

-----------------------------------------------------------------------------
(* Fees and nonces *)

Calls == FeesOK /\ CallsDistinct /\ OneNonce /\ Attempts

\* What was sent, waiting or mined, is well typed.
LEMMA SentType == TypeOK => Sent \subseteq TxType
<1> SUFFICES ASSUME TypeOK PROVE Sent \subseteq TxType
  OBVIOUS
<1>1. \A k \in 1..Len(mined) : mined[k] \in [tx : TxType, ok : BOOLEAN]
  <2> DEFINE Receipt == [tx : TxType, ok : BOOLEAN]
  <2>1. mined \in Seq(Receipt)
    BY DEF TypeOK
  <2> HIDE DEF Receipt
  <2>2. \A k \in 1..Len(mined) : mined[k] \in Receipt
    BY <2>1
  <2> QED
    BY <2>2 DEF Receipt
<1> QED
  BY <1>1 DEF Sent, TypeOK

\* A call that has pinned its nonce has natural fees and an identity.
LEMMA CallingType ==
  ASSUME TypeOK, NEW r \in Runs, Calling(r)
  PROVE  /\ Tx(poster[r]) \in TxType /\ poster[r] \in PosterType
         /\ poster[r].cap \in Nat /\ poster[r].tip \in Nat /\ poster[r].post \in Nat
BY DEF TypeOK, Calling, PosterType

\* Nothing is sent, and no call comes nearer to sending than it was.
LEMMA Quiet ==
  ASSUME Calls, Sent' \subseteq Sent, posts' = posts,
         \A r \in Runs : Calling(r)' =>
           /\ Calling(r) /\ Tx(poster[r])' = Tx(poster[r])
           /\ poster[r].pc = "wait" => poster'[r].pc = "wait"
  PROVE  Calls'
<1>1. \A r \in Runs : Calling(r)' =>
        /\ poster'[r].cap = poster[r].cap /\ poster'[r].tip = poster[r].tip
        /\ poster'[r].post = poster[r].post /\ poster'[r].nonce = poster[r].nonce
  BY DEF Tx
<1>2. FeesOK'
  BY <1>1 DEF Calls, FeesOK
<1>3. CallsDistinct'
  BY <1>1 DEF Calls, CallsDistinct
<1>4. OneNonce'
  BY DEF Calls, OneNonce
<1>5. Attempts'
  BY <1>1 DEF Calls, Attempts
<1> QED
  BY <1>2, <1>3, <1>4, <1>5 DEF Calls

\* A call sends what it was about to send.
LEMMA Sends ==
  ASSUME TypeOK, Calls, NEW r \in Runs, poster[r].pc = "submit",
         Sent' = Sent \union {Tx(poster[r])}, posts' = posts,
         \A s \in Runs : Calling(s)' =>
           /\ Calling(s) /\ Tx(poster[s])' = Tx(poster[s])
           /\ poster[s].pc = "wait" => poster'[s].pc = "wait"
           /\ s = r => poster'[s].pc = "wait"
  PROVE  Calls'
<1>1. \A s \in Runs : Calling(s)' =>
        /\ poster'[s].cap = poster[s].cap /\ poster'[s].tip = poster[s].tip
        /\ poster'[s].post = poster[s].post /\ poster'[s].nonce = poster[s].nonce
  BY DEF Tx
<1>2. Calling(r) /\ poster[r].cap \in Nat /\ poster[r].tip \in Nat
  BY CallingType DEF Calling
<1> DEFINE new == Tx(poster[r])
<1>3. /\ new.cap = poster[r].cap /\ new.tip = poster[r].tip
      /\ new.post = poster[r].post /\ new.nonce = poster[r].nonce
  BY DEF Tx
<1> HIDE DEF new
<1>4. Sent' = Sent \union {new}
  BY DEF new
<1>5. FeesOK'
  BY <1>1, <1>2, <1>3, <1>4 DEF Calls, FeesOK
<1>6. CallsDistinct'
  BY <1>1, <1>2, <1>3, <1>4 DEF Calls, CallsDistinct
<1>7. OneNonce'
  BY <1>2, <1>3, <1>4 DEF Calls, OneNonce, Attempts
<1>8. Attempts'
  <2> SUFFICES ASSUME NEW s \in Runs, Calling(s)', NEW tx \in Sent', tx.post = poster'[s].post
               PROVE  /\ tx.nonce = poster'[s].nonce
                      /\ tx.cap <= poster'[s].cap /\ tx.tip <= poster'[s].tip
                      /\ poster'[s].pc # "wait" => Outbids(Tx(poster[s]), tx)'
    BY DEF Attempts
  <2>1. CASE tx = new
    <3>1. s = r
      BY <1>1, <1>2, <1>3, <2>1 DEF Calls, CallsDistinct
    <3> QED
      BY <1>1, <1>2, <1>3, <2>1, <3>1
  <2>2. CASE tx \in Sent
    <3>1. Outbids(Tx(poster[s]), tx)' <=> Outbids(Tx(poster[s]), tx)
      BY DEF Outbids
    <3> QED
      BY <1>1, <2>2, <3>1 DEF Calls, Attempts
  <2> QED
    BY <1>4, <2>1, <2>2
<1> QED
  BY <1>5, <1>6, <1>7, <1>8 DEF Calls

\* A call pins its nonce and its first fees: it has sent nothing yet.
LEMMA Enters ==
  ASSUME TypeOK, Calls, NEW r \in Runs, NEW tip \in Nat, NEW nonce,
         ~Above(baseFee + tip), ~Calling(r), Sent' = Sent, posts' = posts + 1,
         poster' = [poster EXCEPT ![r] = Priced(@, tip, nonce)]
  PROVE  Calls'
<1>1. baseFee \in Nat /\ posts \in Nat
  BY RelayerAssumption DEF TypeOK
<1>2. /\ poster'[r].tip = tip /\ poster'[r].cap = FirstFeeCap(baseFee, tip)
      /\ poster'[r].post = posts + 1
      /\ \A s \in Runs \ {r} : poster'[s] = poster[s]
  BY DEF TypeOK, Priced
<1>3. \A s \in Runs \ {r} : Calling(s)' <=> Calling(s)
  BY <1>2 DEF Calling
<1>4. poster'[r].tip <= poster'[r].cap /\ ~Above(poster'[r].cap)
  BY <1>1, <1>2, FirstFeesLegal, RelayerAssumption
<1>5. \A tx \in Sent : tx.post \in Nat /\ tx.post # posts + 1
  <2>1. \A tx \in Sent : tx.post \in Nat
    BY SentType DEF TxType
  <2> QED
    BY <1>1, <2>1 DEF Calls, CallsDistinct
<1>6. \A s \in Runs : Calling(s) => poster[s].post \in Nat /\ poster[s].post # posts + 1
  BY <1>1, CallingType DEF Calls, CallsDistinct
<1>7. FeesOK'
  BY <1>2, <1>3, <1>4 DEF Calls, FeesOK
<1>8. CallsDistinct'
  BY <1>1, <1>2, <1>3, <1>5, <1>6 DEF Calls, CallsDistinct
<1>9. OneNonce'
  BY DEF Calls, OneNonce
<1>10. Attempts'
  BY <1>2, <1>3, <1>5 DEF Calls, Attempts, Outbids, Tx
<1> QED
  BY <1>7, <1>8, <1>9, <1>10 DEF Calls

\* A call bumps its fees past those of all it has sent.
LEMMA Resends ==
  ASSUME TypeOK, Calls, NEW r \in Runs, Calling(r), ~Above(bump(poster[r].cap)),
         Sent' = Sent, posts' = posts,
         poster' = [poster EXCEPT ![r] = Bumped(@)]
  PROVE  Calls'
<1>1. poster[r] \in PosterType /\ poster[r].cap \in Nat /\ poster[r].tip \in Nat
  BY CallingType
<1>2. /\ poster'[r].tip = bump(poster[r].tip) /\ poster'[r].cap = bump(poster[r].cap)
      /\ poster'[r].post = poster[r].post /\ poster'[r].nonce = poster[r].nonce
      /\ \A s \in Runs \ {r} : poster'[s] = poster[s]
  BY <1>1 DEF TypeOK, Bumped, PosterType
<1>3. \A s \in Runs \ {r} : Calling(s)' <=> Calling(s)
  BY <1>2 DEF Calling
<1>4. poster'[r].tip <= poster'[r].cap /\ ~Above(poster'[r].cap)
  BY <1>1, <1>2, BumpMonotone DEF Calls, FeesOK
<1>5. FeesOK'
  BY <1>2, <1>3, <1>4 DEF Calls, FeesOK
<1>6. CallsDistinct'
  BY <1>2, <1>3 DEF Calls, CallsDistinct
<1>7. OneNonce'
  BY DEF Calls, OneNonce
<1>8. Attempts'
  <2> SUFFICES ASSUME NEW s \in Runs, Calling(s)', NEW tx \in Sent, tx.post = poster'[s].post
               PROVE  /\ tx.nonce = poster'[s].nonce
                      /\ tx.cap <= poster'[s].cap /\ tx.tip <= poster'[s].tip
                      /\ poster'[s].pc # "wait" => Outbids(Tx(poster[s]), tx)'
    BY DEF Attempts
  <2>1. CASE s = r
    <3>1. tx.cap \in Nat /\ tx.tip \in Nat
      BY SentType DEF TxType
    <3>2. tx.nonce = poster[r].nonce /\ tx.cap <= poster[r].cap /\ tx.tip <= poster[r].tip
      BY <1>2, <2>1 DEF Calls, Attempts
    <3>3. /\ poster'[r].cap \in Nat /\ poster'[r].cap > tx.cap
          /\ poster'[r].cap >= (tx.cap * 110) \div 100
      BY <1>1, <1>2, <3>1, <3>2, BumpOutbids
    <3>4. /\ poster'[r].tip \in Nat /\ poster'[r].tip > tx.tip
          /\ poster'[r].tip >= (tx.tip * 110) \div 100
      BY <1>1, <1>2, <3>1, <3>2, BumpOutbids
    <3> QED
      BY <1>2, <2>1, <3>1, <3>2, <3>3, <3>4 DEF Outbids, Tx
  <2>2. CASE s # r
    <3>1. poster'[s] = poster[s] /\ Calling(s)
      BY <1>2, <1>3, <2>2
    <3> QED
      BY <3>1 DEF Calls, Attempts, Outbids, Tx
  <2> QED
    BY <2>1, <2>2
<1> QED
  BY <1>5, <1>6, <1>7, <1>8 DEF Calls

\* What one more block shows was waiting before.
LEMMA MineShrinks ==
  ASSUME TypeOK, NEW tx \in pool, Mine(tx)
  PROVE  /\ Sent' \subseteq Sent
         /\ Len(mined') = Len(mined) + 1 /\ mined'[Len(mined) + 1].tx = tx
         /\ \A k \in 1..Len(mined) : mined'[k] = mined[k]
<1> DEFINE m == [tx |-> tx, ok |-> Fresh(tx)]
           Receipt == [tx : TxType, ok : BOOLEAN]
<1>1. mined \in Seq(Receipt) /\ mined' = Append(mined, m) /\ m.tx = tx
  BY DEF TypeOK, Mine
<1>2. m \in Receipt
  BY DEF TypeOK, Fresh
<1> HIDE DEF m, Receipt
<1>3. Len(mined) \in Nat /\ Len(mined') = Len(mined) + 1 /\ mined'[Len(mined) + 1] = m
  BY <1>1, <1>2
<1>4. \A k \in 1..Len(mined) : mined'[k] = mined[k]
  BY <1>1, <1>2
<1>5. pool' \subseteq pool
  BY DEF Mine
<1>6. \A k \in 1..Len(mined') : k = Len(mined) + 1 \/ k \in 1..Len(mined)
  BY <1>3
<1>7. Sent' \subseteq Sent
  BY <1>1, <1>3, <1>4, <1>5, <1>6 DEF Sent
<1> QED
  BY <1>1, <1>3, <1>4, <1>7

\* A step that touches neither pool nor chain sends nothing.
LEMMA Still == ASSUME pool' = pool, mined' = mined PROVE Sent' = Sent
BY DEF Sent

\* Every step is quiet, sends, enters a call or bumps its fees.
LEMMA NextCalls == TypeOK /\ Calls /\ [Next]_vars => Calls'
<1> SUFFICES ASSUME TypeOK, Calls, [Next]_vars PROVE Calls'
  OBVIOUS
<1> USE DEF Calling
<1>0. poster \in [Runs -> PosterType]
  BY DEF TypeOK
\* The run leaves its call, if it was in one.
<1>a. ASSUME NEW r \in Runs, NEW p, poster' = [poster EXCEPT ![r] = p],
             p.pc \notin {"estimate", "submit", "wait"}, Sent' \subseteq Sent, posts' = posts
      PROVE  Calls'
  <2>1. \A s \in Runs : poster'[s] = IF s = r THEN p ELSE poster[s]
    BY <1>a, <1>0
  <2>2. \A s \in Runs : Calling(s)' =>
          /\ Calling(s) /\ Tx(poster[s])' = Tx(poster[s])
          /\ poster[s].pc = "wait" => poster'[s].pc = "wait"
    BY <1>a, <2>1
  <2> QED
    BY <1>a, <2>2, Quiet
<1>b. ASSUME NEW r \in Runs, NEW result, Returns(r, result), pool' = pool, mined' = mined,
             posts' = posts
      PROVE  Calls'
  <2> DEFINE p == Turn(poster[r].issuer + 1)
  <2>1. poster' = [poster EXCEPT ![r] = p] /\ p.pc = "read"
    BY <1>b DEF Returns, Turn, Blank
  <2> HIDE DEF p
  <2> QED
    BY <1>a, <1>b, <2>1, Still
<1>c. ASSUME poster' = poster, Sent' \subseteq Sent, posts' = posts PROVE Calls'
  BY <1>c, Quiet
<1>1. ASSUME NEW tx \in pool, Mine(tx) PROVE Calls'
  BY <1>1, <1>c, MineShrinks DEF Mine
<1>2. ASSUME NEW tx \in pool, Drop(tx) PROVE Calls'
  <2>1. Sent' \subseteq Sent
    BY <1>2 DEF Drop, world, Sent
  <2> QED
    BY <1>2, <1>c, <2>1 DEF Drop
<1>3. ASSUME BaseFeeMoves PROVE Calls'
  BY <1>3, <1>c, Still DEF BaseFeeMoves
<1>4. ASSUME NEW i \in Issuers, WriteRoot(i) PROVE Calls'
  BY <1>4, <1>c, Still DEF WriteRoot
<1>5. ASSUME NEW r \in Runs, Begin(r) PROVE Calls'
  <2>1. Turn(1).pc = "read"
    BY DEF Turn, Blank
  <2> QED
    BY <1>5, <1>a, <2>1, Still DEF Begin, world
<1>6. ASSUME NEW r \in Runs, ReadRoot(r) PROVE Calls'
  <2> DEFINE p == IF rootFile[poster[r].issuer] = 0 THEN Turn(poster[r].issuer + 1)
                  ELSE [poster[r] EXCEPT !.pc = "gas", !.crl = rootFile[poster[r].issuer]]
  <2>1. poster' = [poster EXCEPT ![r] = p]
    BY <1>6 DEF ReadRoot
  <2>2. p.pc \in {"read", "gas"}
    BY <1>0 DEF Turn, Blank, PosterType
  <2> HIDE DEF p
  <2> QED
    BY <1>6, <1>a, <2>1, <2>2, Still DEF ReadRoot, world
<1>7. ASSUME NEW r \in Runs, ApplyGasBounds(r) PROVE Calls'
  <2>1. CASE Returns(r, "skipped") /\ UNCHANGED posts
    BY <1>7, <1>b, <2>1 DEF ApplyGasBounds, world
  <2>2. CASE \E tip \in Tips, nonce \in PendingNonces :
               /\ ~Above(baseFee + tip)
               /\ poster' = [poster EXCEPT ![r] = Priced(@, tip, nonce)]
               /\ posts' = posts + 1
    <3> PICK tip \in Tips, nonce \in PendingNonces :
               /\ ~Above(baseFee + tip)
               /\ poster' = [poster EXCEPT ![r] = Priced(@, tip, nonce)]
               /\ posts' = posts + 1
      BY <2>2
    <3>1. tip \in Nat /\ ~Calling(r)
      BY <1>7, RelayerAssumption DEF ApplyGasBounds, At
    <3>2. Sent' = Sent
      BY <1>7, Still DEF ApplyGasBounds, world
    <3> QED
      BY <3>1, <3>2, Enters
  <2> QED
    BY <1>7, <2>1, <2>2 DEF ApplyGasBounds
<1>8. ASSUME NEW r \in Runs, Estimate(r) PROVE Calls'
  <2>1. CASE Returns(r, "stale")
    BY <1>8, <1>b, <2>1 DEF Estimate, world
  <2>2. CASE Goes(r, "submit")
    <3>1. \A s \in Runs : Calling(s)' =>
            /\ Calling(s) /\ Tx(poster[s])' = Tx(poster[s])
            /\ poster[s].pc = "wait" => poster'[s].pc = "wait"
      BY <1>8, <1>0, <2>2 DEF Estimate, Goes, At, Tx, PosterType
    <3> QED
      BY <1>8, <3>1, Quiet, Still DEF Estimate, world
  <2> QED
    BY <1>8, <2>1, <2>2 DEF Estimate
<1>d. ASSUME NEW r \in Runs, mined' = mined, pool' = pool \union {Tx(poster[r])}
      PROVE  Sent' = Sent \union {Tx(poster[r])}
  BY <1>d DEF Sent
<1>9. ASSUME NEW r \in Runs, Submit(r) PROVE Calls'
  <2>1. \A s \in Runs : Calling(s)' =>
          /\ Calling(s) /\ Tx(poster[s])' = Tx(poster[s])
          /\ poster[s].pc = "wait" => poster'[s].pc = "wait"
          /\ s = r => poster'[s].pc = "wait"
    BY <1>9, <1>0 DEF Submit, Goes, At, Tx, PosterType
  <2>2. Sent' = Sent \union {Tx(poster[r])}
    BY <1>9, <1>d DEF Submit, world
  <2> QED
    BY <1>9, <2>1, <2>2, Sends DEF Submit, At
<1>10. ASSUME NEW r \in Runs, SubmitUnanswered(r) PROVE Calls'
  <2>1. Turn(poster[r].issuer + 1).pc = "read"
    BY DEF Turn, Blank
  <2>2. \A s \in Runs : Calling(s)' =>
          /\ Calling(s) /\ Tx(poster[s])' = Tx(poster[s])
          /\ poster[s].pc = "wait" => poster'[s].pc = "wait"
          /\ s = r => poster'[s].pc = "wait"
    BY <1>10, <1>0, <2>1 DEF SubmitUnanswered, Returns
  <2>3. Sent' = Sent \union {Tx(poster[r])}
    BY <1>10, <1>d DEF SubmitUnanswered, world
  <2> QED
    BY <1>10, <2>2, <2>3, Sends DEF SubmitUnanswered, At
<1>11. ASSUME NEW r \in Runs, Fails(r) PROVE Calls'
  BY <1>11, <1>b DEF Fails, world
<1>12. ASSUME NEW r \in Runs, Confirm(r) PROVE Calls'
  <2>1. \E result \in {"posted", "reverted"} : Returns(r, result)
    BY <1>12 DEF Confirm, Result
  <2> QED
    BY <1>12, <1>b, <2>1 DEF Confirm, world
<1>13. ASSUME NEW r \in Runs, TimesOut(r) PROVE Calls'
  <2>1. CASE \E result \in {"pending", "skipped"} : Returns(r, result)
    BY <1>13, <1>b, <2>1 DEF TimesOut, world
  <2>2. CASE /\ ~Above(bump(poster[r].cap))
             /\ poster' = [poster EXCEPT ![r] = Bumped(@)]
    BY <1>13, <2>2, Resends, Still DEF TimesOut, At, world
  <2> QED
    BY <1>13, <2>1, <2>2 DEF TimesOut
<1>14. ASSUME NEW r \in Runs, Ends(r) PROVE Calls'
  <2>1. Idle.pc = "idle"
    BY DEF Idle, Blank
  <2> QED
    BY <1>14, <1>a, <2>1, Still DEF Ends, world
<1>15. ASSUME NEW r \in Runs, Killed(r) PROVE Calls'
  <2>1. Idle.pc = "idle"
    BY DEF Idle, Blank
  <2> QED
    BY <1>15, <1>a, <2>1, Still DEF Killed, world
<1>16. ASSUME UNCHANGED vars PROVE Calls'
  BY <1>16, <1>c, Still DEF vars
<1> QED
  BY <1>1, <1>2, <1>3, <1>4, <1>5, <1>6, <1>7, <1>8, <1>9, <1>10, <1>11, <1>12,
     <1>13, <1>14, <1>15, <1>16 DEF Next, RunStep

\* Blocks take the nonces in order.
LEMMA NextOrder == TypeOK /\ MinedInOrder /\ [Next]_vars => MinedInOrder'
<1> SUFFICES ASSUME TypeOK, MinedInOrder, [Next]_vars PROVE MinedInOrder'
  OBVIOUS
<1>1. ASSUME NEW tx \in pool, Mine(tx) PROVE MinedInOrder'
  <2>1. Len(mined) \in Nat /\ tx.nonce = Len(mined)
    BY <1>1 DEF TypeOK, Mine, NextNonce
  <2>2. \A k \in 1..Len(mined') : k = Len(mined) + 1 \/ k \in 1..Len(mined)
    BY <1>1, <2>1, MineShrinks
  <2> QED
    BY <1>1, <2>1, <2>2, MineShrinks DEF MinedInOrder
<1>2. ASSUME mined' = mined PROVE MinedInOrder'
  BY <1>2 DEF MinedInOrder
<1> QED
  BY <1>1, <1>2 DEF Next, RunStep, vars, world, Drop, BaseFeeMoves, WriteRoot, Begin, ReadRoot,
     ApplyGasBounds, Estimate, Submit, SubmitUnanswered, Fails, Confirm, TimesOut, Ends, Killed

\* The inductive invariant.
LEMMA Invariance == Spec => [](TypeOK /\ Calls /\ MinedInOrder)
<1>1. Init => TypeOK /\ Calls /\ MinedInOrder
  <2> SUFFICES ASSUME Init PROVE Calls /\ MinedInOrder
    BY InitType
  <2>1. Sent = {} /\ MinedInOrder
    BY DEF Init, Sent, MinedInOrder
  <2>2. \A r \in Runs : ~Calling(r)
    BY DEF Init, Calling, Idle, Blank
  <2> QED
    BY <2>1, <2>2 DEF Calls, FeesOK, CallsDistinct, OneNonce, Attempts
<1>2. TypeOK /\ Calls /\ MinedInOrder /\ [Next]_vars => (TypeOK /\ Calls /\ MinedInOrder)'
  BY NextType, NextCalls, NextOrder
<1> QED
  BY <1>1, <1>2, PTL DEF Spec

\* Whatever the base fee does, however often a call resends and whatever the integer
\* division cuts off, no call is about to send a cap above the ceiling or a tip above
\* its cap (applyGasBounds, bumpFees).
THEOREM FeesHold == Spec => []FeesLegal
<1>1. Calls => FeesLegal
  BY DEF Calls, FeesOK, Calling, FeesLegal
<1> QED
  BY <1>1, Invariance, PTL

\* Every resend is a legal replacement, at the pinned nonce, of each transaction
\* its call sent before and that still waits (sendAndConfirm, bumpFees).
THEOREM ResendHolds == Spec => []ResendReplaces
<1>1. Calls => ResendReplaces
  <2> SUFFICES ASSUME Calls, NEW r \in Runs, poster[r].pc = "submit",
                      NEW tx \in pool, tx.post = poster[r].post
               PROVE  tx.nonce = poster[r].nonce /\ Outbids(Tx(poster[r]), tx)
    BY DEF ResendReplaces
  <2> QED
    BY DEF Calls, Attempts, Calling, Sent
<1> QED
  BY <1>1, Invariance, PTL

\* No PostRoot call has two transactions mined, whichever attempts the network
\* kept and whoever else posts from the account (pinNonce).
THEOREM MinedOnceHolds == Spec => []MinedOnce
<1>1. TypeOK /\ Calls /\ MinedInOrder => MinedOnce
  <2> SUFFICES ASSUME TypeOK, Calls, MinedInOrder,
                      NEW k \in 1..Len(mined), NEW l \in 1..Len(mined),
                      mined[k].tx.post = mined[l].tx.post
               PROVE  k = l
    BY DEF MinedOnce
  <2>1. mined[k].tx \in Sent /\ mined[l].tx \in Sent
    BY DEF Sent
  <2>2. mined[k].tx.nonce = mined[l].tx.nonce
    BY <2>1 DEF Calls, OneNonce
  <2>3. k - 1 = l - 1
    BY <2>2 DEF MinedInOrder
  <2> QED
    BY <2>3
<1> QED
  BY <1>1, Invariance, PTL

\* The contract's CRL number never falls (setRoot).
THEOREM OnChainHolds == Spec => OnChainNeverGoesBack
<1>1. TypeOK /\ [Next]_vars => [\A i \in Issuers : onchain'[i] >= onchain[i]]_vars
  <2> SUFFICES ASSUME TypeOK, Next
               PROVE  \A i \in Issuers : onchain'[i] >= onchain[i]
    OBVIOUS
  <2>1. \A i \in Issuers : onchain[i] \in Nat
    BY DEF TypeOK
  <2>2. ASSUME NEW tx \in pool, Mine(tx) PROVE \A i \in Issuers : onchain'[i] >= onchain[i]
    BY <2>1, <2>2 DEF Mine, Fresh, TypeOK, TxType
  <2>3. ASSUME onchain' = onchain PROVE \A i \in Issuers : onchain'[i] >= onchain[i]
    BY <2>1, <2>3
  <2> QED
    BY <2>2, <2>3 DEF Next, RunStep, world, Drop, BaseFeeMoves, WriteRoot, Begin, ReadRoot,
       ApplyGasBounds, Estimate, Submit, SubmitUnanswered, Fails, Confirm, TimesOut, Ends, Killed
<1> QED
  BY <1>1, TypeCorrect, PTL DEF Spec, OnChainNeverGoesBack
-----------------------------------------------------------------------------
(* Reports *)

\* The contract is at least as far as every transaction mined, reverted or not.
Recorded == \A k \in 1..Len(mined) : onchain[mined[k].tx.issuer] >= mined[k].tx.crl

\* What ReportTrue says of one run.
Reported(r) ==
  /\ report[r].result = "posted" =>
       \E k \in 1..Len(mined) : /\ mined[k].ok
                                /\ mined[k].tx.issuer = report[r].issuer
                                /\ mined[k].tx.crl = report[r].crl
  /\ report[r].result \in {"posted", "stale", "reverted"} =>
       onchain[report[r].issuer] >= report[r].crl

\* Receipts stay, and the contract does not go back.
ChainGrows ==
  /\ \A k \in 1..Len(mined) : k \in 1..Len(mined') /\ mined'[k] = mined[k]
  /\ \A i \in Issuers : onchain[i] \in Nat /\ onchain'[i] \in Nat /\ onchain'[i] >= onchain[i]

\* A mined transaction is recorded, or a newer one had been.
LEMMA MineRecords ==
  ASSUME TypeOK, Recorded, NEW tx \in pool, Mine(tx)
  PROVE  ChainGrows /\ Recorded'
<1>0. tx \in TxType /\ tx.issuer \in Issuers /\ tx.crl \in Nat
  BY DEF TypeOK, TxType
<1>1. \A i \in Issuers : /\ onchain[i] \in Nat
                         /\ onchain'[i] = IF i = tx.issuer /\ Fresh(tx) THEN tx.crl
                                          ELSE onchain[i]
  BY <1>0 DEF TypeOK, Mine
<1>2. onchain'[tx.issuer] >= tx.crl /\ \A i \in Issuers : onchain'[i] >= onchain[i]
  BY <1>0, <1>1 DEF Fresh
<1>3. ChainGrows
  <2>1. Len(mined) \in Nat
    BY DEF TypeOK
  <2> QED
    BY <1>0, <1>1, <1>2, <2>1, MineShrinks DEF ChainGrows
<1>4. ASSUME NEW k \in 1..Len(mined') PROVE onchain'[mined'[k].tx.issuer] >= mined'[k].tx.crl
  <2>1. CASE k \in 1..Len(mined)
    <3>1. mined'[k] = mined[k] /\ onchain[mined[k].tx.issuer] >= mined[k].tx.crl
      BY <2>1, MineShrinks DEF Recorded
    <3>2. mined[k] \in [tx : TxType, ok : BOOLEAN]
      <4> DEFINE Receipt == [tx : TxType, ok : BOOLEAN]
      <4>1. mined \in Seq(Receipt)
        BY DEF TypeOK
      <4> HIDE DEF Receipt
      <4>2. mined[k] \in Receipt
        BY <2>1, <4>1
      <4> QED
        BY <4>2 DEF Receipt
    <3>3. mined[k].tx.issuer \in Issuers /\ mined[k].tx.crl \in Nat
      BY <3>2 DEF TxType
    <3>4. onchain'[mined[k].tx.issuer] >= onchain[mined[k].tx.issuer]
      BY <1>2, <3>3
    <3> QED
      BY <3>1, <3>3, <3>4, <1>3 DEF ChainGrows
  <2>2. CASE k \notin 1..Len(mined)
    <3>0. Len(mined) \in Nat /\ Len(mined') = Len(mined) + 1
      BY MineShrinks DEF TypeOK
    <3>1. k = Len(mined) + 1
      BY <2>2, <3>0
    <3>2. mined'[k].tx = tx
      BY <3>1, MineShrinks
    <3> QED
      BY <1>2, <3>2
  <2> QED
    BY <2>1, <2>2
<1> QED
  BY <1>3, <1>4 DEF Recorded

\* What was reported before stays true.
LEMMA ReportStays ==
  ASSUME TypeOK, ChainGrows, NEW r \in Runs, Reported(r), report'[r] = report[r]
  PROVE  Reported(r)'
<1>1. report[r].issuer \in Issuers /\ report[r].crl \in Nat
  BY DEF TypeOK
<1>2. onchain'[report[r].issuer] >= onchain[report[r].issuer]
      /\ onchain[report[r].issuer] \in Nat /\ onchain'[report[r].issuer] \in Nat
  BY <1>1 DEF ChainGrows
<1>3. report[r].result = "posted" =>
        \E k \in 1..Len(mined') : /\ mined'[k].ok
                                  /\ mined'[k].tx.issuer = report[r].issuer
                                  /\ mined'[k].tx.crl = report[r].crl
  <2> SUFFICES ASSUME report[r].result = "posted"
               PROVE  \E k \in 1..Len(mined') : /\ mined'[k].ok
                                                /\ mined'[k].tx.issuer = report[r].issuer
                                                /\ mined'[k].tx.crl = report[r].crl
    OBVIOUS
  <2> PICK k \in 1..Len(mined) : /\ mined[k].ok
                                 /\ mined[k].tx.issuer = report[r].issuer
                                 /\ mined[k].tx.crl = report[r].crl
    BY DEF Reported
  <2>1. k \in 1..Len(mined') /\ mined'[k] = mined[k]
    BY DEF ChainGrows
  <2> QED
    BY <2>1
<1>4. report[r].result \in {"posted", "stale", "reverted"} =>
        onchain'[report[r].issuer] >= report[r].crl
  BY <1>1, <1>2 DEF Reported
<1> QED
  BY <1>3, <1>4 DEF Reported

\* A call that returns reports what it found on the chain.
LEMMA NextReports ==
  TypeOK /\ Recorded /\ ReportTrue /\ [Next]_vars => (Recorded /\ ReportTrue)'
<1> SUFFICES ASSUME TypeOK, Recorded, ReportTrue, [Next]_vars PROVE (Recorded /\ ReportTrue)'
  OBVIOUS
<1>0. \A r \in Runs : Reported(r)
  BY DEF ReportTrue, Reported
<1>1. ASSUME ChainGrows, Recorded', report' = report PROVE (Recorded /\ ReportTrue)'
  <2>1. \A r \in Runs : Reported(r)'
    BY <1>0, <1>1, ReportStays
  <2> QED
    BY <1>1, <2>1 DEF ReportTrue, Reported
<1>2. ASSUME onchain' = onchain, mined' = mined PROVE ChainGrows /\ Recorded'
  BY <1>2 DEF ChainGrows, Recorded, TypeOK
<1>3. ASSUME NEW r \in Runs, onchain' = onchain, mined' = mined, NEW result,
             Returns(r, result),
             result \in {"posted", "stale", "reverted"} =>
               onchain[poster[r].issuer] >= poster[r].crl,
             result = "posted" =>
               \E k \in 1..Len(mined) : /\ mined[k].ok
                                        /\ mined[k].tx.issuer = poster[r].issuer
                                        /\ mined[k].tx.crl = poster[r].crl
      PROVE  (Recorded /\ ReportTrue)'
  <2>0. report'[r] = [result |-> result, issuer |-> poster[r].issuer, crl |-> poster[r].crl]
    BY <1>3 DEF Returns, TypeOK
  <2>1. Reported(r)'
    BY <1>3, <2>0 DEF Reported
  <2>2. \A s \in Runs : s # r => report'[s] = report[s]
    BY <1>3 DEF Returns, TypeOK
  <2>3. \A s \in Runs : Reported(s)'
    BY <1>0, <1>2, <1>3, <2>1, <2>2, ReportStays
  <2> QED
    BY <1>2, <1>3, <2>3 DEF ReportTrue, Reported
<1>4. ASSUME NEW tx \in pool, Mine(tx) PROVE (Recorded /\ ReportTrue)'
  BY <1>1, <1>4, MineRecords DEF Mine
<1>5. ASSUME NEW r \in Runs, Estimate(r) PROVE (Recorded /\ ReportTrue)'
  <2>1. CASE Fresh(Tx(poster[r]))
    BY <1>1, <1>2, <1>5, <2>1 DEF Estimate, world
  <2>2. CASE ~Fresh(Tx(poster[r]))
    <3>1. Tx(poster[r]) \in TxType
      BY <1>5 DEF Estimate, At, TypeOK
    <3>2. poster[r].issuer \in Issuers /\ poster[r].crl \in Nat
      BY <3>1 DEF Tx, TxType
    <3>3. onchain[poster[r].issuer] >= poster[r].crl
      BY <2>2, <3>2 DEF Fresh, Tx, TypeOK
    <3> QED
      BY <1>3, <1>5, <2>2, <3>3 DEF Estimate, world
  <2> QED
    BY <2>1, <2>2
<1>6. ASSUME NEW r \in Runs, Confirm(r) PROVE (Recorded /\ ReportTrue)'
  <2> PICK k \in 1..Len(mined) : mined[k].tx = Tx(poster[r]) /\ Returns(r, Result(mined[k]))
    BY <1>6 DEF Confirm
  <2>1. mined[k].tx.issuer = poster[r].issuer /\ mined[k].tx.crl = poster[r].crl
    BY DEF Tx
  <2>2. onchain[poster[r].issuer] >= poster[r].crl
    BY <2>1 DEF Recorded
  <2>3. Result(mined[k]) = "posted" => mined[k].ok
    BY DEF Result
  <2> QED
    BY <1>3, <1>6, <2>1, <2>2, <2>3 DEF Confirm, world
<1>7. ASSUME NEW r \in Runs, NEW result \in {"skipped", "failed", "pending"},
             Returns(r, result), UNCHANGED <<onchain, mined>>
      PROVE  (Recorded /\ ReportTrue)'
  BY <1>3, <1>7
<1>8. ASSUME NEW r \in Runs, ApplyGasBounds(r) \/ TimesOut(r) PROVE (Recorded /\ ReportTrue)'
  <2>1. UNCHANGED <<onchain, mined>>
    BY <1>8 DEF ApplyGasBounds, TimesOut, world
  <2>2. report' = report \/ \E result \in {"skipped", "pending"} : Returns(r, result)
    BY <1>8 DEF ApplyGasBounds, TimesOut
  <2> QED
    BY <1>1, <1>2, <1>7, <2>1, <2>2
<1>9. ASSUME NEW r \in Runs, SubmitUnanswered(r) \/ Fails(r) PROVE (Recorded /\ ReportTrue)'
  BY <1>7, <1>9 DEF SubmitUnanswered, Fails, world
<1>10. ASSUME UNCHANGED <<onchain, mined, report>> PROVE (Recorded /\ ReportTrue)'
  BY <1>1, <1>2, <1>10
<1>11. ASSUME NEW tx \in pool, Drop(tx) PROVE (Recorded /\ ReportTrue)'
  BY <1>10, <1>11 DEF Drop, world
<1>12. ASSUME NEW i \in Issuers, WriteRoot(i) PROVE (Recorded /\ ReportTrue)'
  BY <1>10, <1>12 DEF WriteRoot
<1>13. ASSUME NEW r \in Runs, Begin(r) \/ ReadRoot(r) \/ Submit(r) \/ Ends(r) \/ Killed(r)
       PROVE  (Recorded /\ ReportTrue)'
  BY <1>10, <1>13 DEF Begin, ReadRoot, Submit, Ends, Killed, world
<1>14. ASSUME BaseFeeMoves \/ UNCHANGED vars PROVE (Recorded /\ ReportTrue)'
  BY <1>10, <1>14 DEF BaseFeeMoves, vars
<1> QED
  BY <1>4, <1>5, <1>6, <1>8, <1>9, <1>11, <1>12, <1>13, <1>14 DEF Next, RunStep

\* What a run logs is true of the chain, then and ever after: "posted" that this root
\* was recorded, "stale" and "reverted" that one at least as new was, whichever of the
\* call's attempts was mined and whatever other runs had mined (sendAndConfirm,
\* postRootOnChain).
THEOREM ReportsHold == Spec => []ReportTrue
<1>1. Init => Recorded /\ ReportTrue
  BY DEF Init, Recorded, ReportTrue, NoReport
<1>2. TypeOK /\ Recorded /\ ReportTrue /\ [Next]_vars => (Recorded /\ ReportTrue)'
  BY NextReports
<1> QED
  BY <1>1, <1>2, TypeCorrect, PTL DEF Spec

-----------------------------------------------------------------------------
(* The contract's promise *)

InCall(p) == p.pc \in {"gas", "estimate", "submit", "wait"}

\* A step of one run that goes on with its issuer and CRL, or gives them up, and
\* sends at most what it had read, leaves nothing outstanding that was not.
LEMMA RunOffersNoMore ==
  ASSUME TypeOK, NEW r \in Runs, NEW p, poster' = [poster EXCEPT ![r] = p],
         InCall(p) => /\ InCall(poster[r])
                      /\ p.issuer = poster[r].issuer /\ p.crl = poster[r].crl,
         \A tx \in pool' : tx \in pool \/ (tx = Tx(poster[r]) /\ InCall(poster[r])),
         NEW i \in Issuers
  PROVE  Outstanding(i)' \subseteq Outstanding(i)
<1>1. \A s \in Runs : poster'[s] = IF s = r THEN p ELSE poster[s]
  BY DEF TypeOK
<1>2. ASSUME NEW s \in Runs, InCall(poster'[s]), poster'[s].issuer = i
      PROVE  poster'[s].crl \in Outstanding(i)
  BY <1>1, <1>2 DEF Outstanding, InCall
<1>3. ASSUME NEW tx \in pool', tx.issuer = i PROVE tx.crl \in Outstanding(i)
  <2>1. CASE tx \in pool
    BY <1>3, <2>1 DEF Outstanding
  <2>2. CASE tx = Tx(poster[r]) /\ InCall(poster[r])
    BY <1>3, <2>2 DEF Outstanding, InCall, Tx
  <2> QED
    BY <2>1, <2>2
<1> QED
  BY <1>2, <1>3 DEF Outstanding, InCall

\* What reading and giving up come to, as RootStorage sees it.
LEMMA StorageReads ==
  ASSUME UNCHANGED onchain,
         \A i \in Issuers : Outstanding(i)' \subseteq Outstanding(i) \union ({rootFile[i]} \ {0})
  PROVE  Storage!Read
BY DEF Storage!Read

\* A run's own steps read files, send what was read or give it up.
LEMMA RunStorage ==
  ASSUME TypeOK, NEW r \in Runs, Begin(r) \/ RunStep(r) \/ Killed(r)
  PROVE  Storage!Read
<1>0. poster[r] \in PosterType /\ UNCHANGED onchain
  BY DEF TypeOK, RunStep, world, Begin, ReadRoot, ApplyGasBounds, Estimate, Submit,
     SubmitUnanswered, Fails, Confirm, TimesOut, Ends, Killed
\* A step that reads no file.
<1>1. ASSUME NEW p, poster' = [poster EXCEPT ![r] = p],
             InCall(p) => /\ InCall(poster[r])
                          /\ p.issuer = poster[r].issuer /\ p.crl = poster[r].crl,
             \A tx \in pool' : tx \in pool \/ (tx = Tx(poster[r]) /\ InCall(poster[r]))
      PROVE  Storage!Read
  BY <1>0, <1>1, RunOffersNoMore, StorageReads
<1>2. ASSUME NEW result, Returns(r, result),
             \A tx \in pool' : tx \in pool \/ (tx = Tx(poster[r]) /\ InCall(poster[r]))
      PROVE  Storage!Read
  <2>1. ~InCall(Turn(poster[r].issuer + 1))
    BY DEF InCall, Turn, Blank
  <2> QED
    BY <1>1, <1>2, <2>1 DEF Returns
<1>3. ASSUME NEW pc, Goes(r, pc), InCall(poster[r]),
             \A tx \in pool' : tx \in pool \/ (tx = Tx(poster[r]) /\ InCall(poster[r]))
      PROVE  Storage!Read
  <2> DEFINE p == [poster[r] EXCEPT !.pc = pc]
  <2>1. p.issuer = poster[r].issuer /\ p.crl = poster[r].crl
    BY <1>0 DEF PosterType
  <2>2. poster' = [poster EXCEPT ![r] = p]
    BY <1>3 DEF Goes, TypeOK
  <2> HIDE DEF p
  <2> QED
    BY <1>1, <1>3, <2>1, <2>2
<1>4. CASE Begin(r)
  <2>1. ~InCall(Turn(1))
    BY DEF InCall, Turn, Blank
  <2> QED
    BY <1>1, <1>4, <2>1 DEF Begin
<1>5. CASE ReadRoot(r)
  <2> DEFINE i == poster[r].issuer
             n == rootFile[i]
  <2>1. i \in Issuers
    BY <1>5 DEF ReadRoot
  <2>2. CASE n = 0
    <3>1. ~InCall(Turn(i + 1))
      BY DEF InCall, Turn, Blank
    <3>2. poster' = [poster EXCEPT ![r] = Turn(i + 1)] /\ pool' = pool
      BY <1>5, <2>2 DEF ReadRoot
    <3> QED
      BY <1>1, <3>1, <3>2
  <2>3. CASE n # 0
    <3>1. poster'[r].crl = n /\ poster'[r].issuer = i
      BY <1>0, <1>5, <2>3 DEF ReadRoot, TypeOK, PosterType
    <3>2. \A s \in Runs : s # r => poster'[s] = poster[s]
      BY <1>5, <2>3 DEF ReadRoot, TypeOK
    <3>3. pool' = pool
      BY <1>5 DEF ReadRoot
    <3>4. ASSUME NEW k \in Issuers
          PROVE  Outstanding(k)' \subseteq Outstanding(k) \union ({rootFile[k]} \ {0})
      <4>1. ASSUME NEW s \in Runs, InCall(poster'[s]), poster'[s].issuer = k
            PROVE  poster'[s].crl \in Outstanding(k) \union ({rootFile[k]} \ {0})
        BY <2>3, <3>1, <3>2, <4>1 DEF Outstanding, InCall
      <4> QED
        BY <3>3, <4>1 DEF Outstanding, InCall
    <3> QED
      BY <1>0, <3>4, StorageReads
  <2> QED
    BY <2>2, <2>3
<1>6. CASE ApplyGasBounds(r)
  <2> PICK tip \in Tips, nonce \in PendingNonces :
       \/ Returns(r, "skipped")
       \/ poster' = [poster EXCEPT ![r] = Priced(@, tip, nonce)]
    BY <1>6 DEF ApplyGasBounds
  <2>1. InCall(poster[r]) /\ pool' = pool
    BY <1>6 DEF ApplyGasBounds, At, InCall
  <2>2. CASE Returns(r, "skipped")
    BY <1>2, <2>1, <2>2
  <2>3. CASE poster' = [poster EXCEPT ![r] = Priced(@, tip, nonce)]
    <3> DEFINE p == Priced(poster[r], tip, nonce)
    <3>1. p.issuer = poster[r].issuer /\ p.crl = poster[r].crl
      BY DEF Priced
    <3>2. poster' = [poster EXCEPT ![r] = p]
      BY <2>3 DEF TypeOK
    <3> HIDE DEF p
    <3> QED
      BY <1>1, <2>1, <3>1, <3>2
  <2> QED
    BY <2>2, <2>3
<1>7. CASE Estimate(r)
  BY <1>2, <1>3, <1>7 DEF Estimate, At, InCall
<1>8. CASE Submit(r)
  BY <1>3, <1>8 DEF Submit, At, InCall
<1>9. CASE SubmitUnanswered(r)
  BY <1>2, <1>9 DEF SubmitUnanswered, At, InCall
<1>10. CASE Fails(r)
  BY <1>2, <1>10 DEF Fails
<1>11. CASE Confirm(r)
  BY <1>2, <1>11 DEF Confirm
<1>12. CASE TimesOut(r)
  <2>1. InCall(poster[r]) /\ pool' = pool
    BY <1>12 DEF TimesOut, At, InCall
  <2>2. CASE \E result \in {"pending", "skipped"} : Returns(r, result)
    BY <1>2, <2>1, <2>2
  <2>3. CASE poster' = [poster EXCEPT ![r] = Bumped(@)]
    <3> DEFINE p == Bumped(poster[r])
    <3>1. p.issuer = poster[r].issuer /\ p.crl = poster[r].crl
      BY <1>0 DEF Bumped, PosterType
    <3>2. poster' = [poster EXCEPT ![r] = p]
      BY <2>3 DEF TypeOK
    <3> HIDE DEF p
    <3> QED
      BY <1>1, <2>1, <3>1, <3>2
  <2> QED
    BY <1>12, <2>2, <2>3 DEF TimesOut
<1>13. CASE Ends(r)
  <2>1. ~InCall(Idle)
    BY DEF InCall, Idle, Blank
  <2> QED
    BY <1>1, <1>13, <2>1 DEF Ends
<1>14. CASE Killed(r)
  <2>1. ~InCall(Idle)
    BY DEF InCall, Idle, Blank
  <2> QED
    BY <1>1, <1>14, <2>1 DEF Killed
<1> QED
  BY <1>4, <1>5, <1>6, <1>7, <1>8, <1>9, <1>10, <1>11, <1>12, <1>13, <1>14 DEF RunStep

\* Every step reads, gives up, sets a root, or changes nothing the contract's users see.
LEMMA StorageStep ==
  ASSUME TypeOK, [Next]_vars
  PROVE  Storage!Next \/ UNCHANGED <<[i \in Issuers |-> Outstanding(i)], onchain>>
<1>1. ASSUME NEW tx \in pool, Mine(tx) PROVE Storage!Next
  <2>1. tx.issuer \in Issuers /\ tx.crl \in Outstanding(tx.issuer)
    BY DEF TypeOK, TxType, Outstanding
  <2>2. pool' \subseteq pool /\ poster' = poster
    BY <1>1 DEF Mine
  <2>3. \A i \in Issuers : Outstanding(i)' \subseteq Outstanding(i)
    BY <2>2 DEF Outstanding
  <2>4. CASE Fresh(tx)
    <3>1. onchain' = [onchain EXCEPT ![tx.issuer] = tx.crl] /\ tx.crl > onchain[tx.issuer]
      BY <1>1, <2>4 DEF Mine, Fresh
    <3>2. Storage!SetRoot(tx.issuer)
      BY <2>1, <2>3, <3>1 DEF Storage!SetRoot
    <3> QED
      BY <2>1, <3>2 DEF Storage!Next
  <2>5. CASE ~Fresh(tx)
    <3>1. UNCHANGED onchain
      BY <1>1, <2>5 DEF Mine
    <3> QED
      BY <2>3, <3>1, StorageReads DEF Storage!Next
  <2> QED
    BY <2>4, <2>5
<1>2. ASSUME NEW tx \in pool, Drop(tx) PROVE Storage!Next
  <2>1. pool' \subseteq pool /\ UNCHANGED <<poster, onchain>>
    BY <1>2 DEF Drop, world
  <2>2. \A i \in Issuers : Outstanding(i)' \subseteq Outstanding(i)
    BY <2>1 DEF Outstanding
  <2> QED
    BY <2>1, <2>2, StorageReads DEF Storage!Next
<1>3. ASSUME UNCHANGED <<pool, poster, onchain>>
      PROVE  UNCHANGED <<[i \in Issuers |-> Outstanding(i)], onchain>>
  BY <1>3 DEF Outstanding
<1>4. ASSUME BaseFeeMoves \/ (\E i \in Issuers : WriteRoot(i)) \/ UNCHANGED vars
      PROVE  UNCHANGED <<pool, poster, onchain>>
  BY <1>4 DEF BaseFeeMoves, WriteRoot, vars
<1>5. ASSUME NEW r \in Runs, Begin(r) \/ RunStep(r) \/ Killed(r) PROVE Storage!Next
  BY <1>5, RunStorage DEF Storage!Next
<1> QED
  BY <1>1, <1>2, <1>3, <1>4, <1>5 DEF Next

\* Posting keeps the contract's promise: however runs overlap and resend, whatever the
\* network loses, replaces or mines late, an issuer's number on chain is one that a run
\* had read from its root.json, and it only grows (postRootOnChain, PostRoot, setRoot).
THEOREM StorageImplemented == Spec => ImplementsStorage
<1>1. Init => Storage!Init
  <2> SUFFICES ASSUME Init PROVE \A i \in Issuers : Outstanding(i) = {}
    BY DEF Init, Storage!Init
  <2>1. pool = {} /\ \A r \in Runs : poster[r].pc = "idle"
    BY DEF Init, Idle, Blank
  <2> QED
    BY <2>1 DEF Outstanding
<1>2. TypeOK /\ [Next]_vars
        => [Storage!Next]_<<[i \in Issuers |-> Outstanding(i)], onchain>>
  BY StorageStep
<1> QED
  BY <1>1, <1>2, TypeCorrect, PTL DEF Spec, ImplementsStorage, Storage!Spec
=============================================================================
