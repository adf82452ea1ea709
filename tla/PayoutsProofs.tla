---------------------------- MODULE PayoutsProofs ----------------------------
(***************************************************************************)
(* The payout ledger's properties, for any jobs, signers and amounts, and  *)
(* any number of faults.                                                   *)
(***************************************************************************)
EXTENDS Payouts, TotalsTheorems, SequenceTheorems

(* The locals of a job that has a row of its own, of one that has called   *)
(* approve, and of one that has set revenue aside.                         *)
Owning == {"simulate", "propose", "proposed", "refused"}
Calling == {"approve", "approved", "unapproved"}
Planning == {"create", "simulate", "propose"}

Statuses == {"pending", "proposed", "approved", "executed", "failed"}
RowShape == [amount : Nat, id : Nat, status : Statuses]

WalletShape ==
    \E D, E, A : proposals \in Seq([destination : D, amount : Nat, executed : E, approvals : A])

Shape ==
    /\ revenue \in Nat
    /\ rows \in Seq(RowShape)
    /\ job \in [Slot -> JobType]
    /\ overrun \subseteq Slot
    /\ faults \in [{"answers", "locks", "others"} -> Nat]
    /\ origin \in Seq(Nat) /\ Len(origin) = Len(proposals)
    /\ WalletShape

(* A running job knows its row: one that is about to propose, or has just  *)
(* done so, has a pending row that no other has and that no approval can   *)
(* name yet; one that approves has the id that its row records.            *)
Locals(s) ==
    /\ job[s].pc \in Planning \union Owning \union {"pending", "unlock"} =>
          job[s].kind # "approve"
    /\ job[s].pc \in Owning =>
          /\ job[s].row \in DOMAIN rows
          /\ rows[job[s].row].status = "pending" /\ rows[job[s].row].id = 0
          /\ rows[job[s].row].amount = job[s].amount
    /\ job[s].pc \in Owning \ {"simulate"} => job[s].id # 0
    /\ job[s].pc \in Calling \union {"check"} => job[s].row \in DOMAIN rows
    /\ job[s].pc \in Calling => rows[job[s].row].id = job[s].id /\ job[s].id # 0

OwnRows ==
    \A s, t \in Slot : /\ s # t /\ job[s].pc \in Owning /\ job[t].pc \in Owning
                       => job[s].row # job[t].row

JobInv == (\A s \in Slot : Locals(s)) /\ OwnRows

(* The wallet's proposals after a step: nothing is taken back.             *)
WalletKeeps ==
    \A i \in DOMAIN proposals :
       /\ i \in DOMAIN proposals'
       /\ proposals'[i].amount = proposals[i].amount
       /\ proposals[i].executed => proposals'[i].executed

LEMMA WalletDomain ==
    ASSUME WalletShape
    PROVE  /\ Len(proposals) \in Nat /\ DOMAIN proposals = 1 .. Len(proposals)
           /\ \A i \in DOMAIN proposals : proposals[i].amount \in Nat
<1>1. PICK D, E, A : proposals \in Seq([destination : D, amount : Nat, executed : E, approvals : A])
  BY DEF WalletShape
<1> DEFINE R == [destination : D, amount : Nat, executed : E, approvals : A]
<1>2. \A p \in R : p.amount \in Nat
  OBVIOUS
<1>3. proposals \in Seq(R)
  BY <1>1
<1> HIDE DEF R
<1> QED
  BY <1>2, <1>3

LEMMA WalletStays ==
    ASSUME WalletShape, proposals' = proposals
    PROVE  WalletShape' /\ WalletKeeps
<1>1. WalletShape'
  BY DEF WalletShape
<1> QED
  BY <1>1 DEF WalletKeeps

LEMMA ProposeEffect ==
    ASSUME WalletShape, NEW d, NEW n \in Nat, Chain!Propose(d, n)
    PROVE  /\ WalletShape' /\ WalletKeeps
           /\ Len(proposals') = Len(proposals) + 1
           /\ proposals' # proposals
           /\ proposals'[Len(proposals) + 1].amount = n
<1> DEFINE p == [destination |-> d, amount |-> n, executed |-> FALSE, approvals |-> {}]
<1>1. proposals' = Append(proposals, p)
  BY DEF Chain!Propose
<1>2. PICK D, E, A : proposals \in Seq([destination : D, amount : Nat, executed : E, approvals : A])
  BY DEF WalletShape
<1> DEFINE R == [destination : D, amount : Nat, executed : E, approvals : A]
           T == [destination : D \union {d}, amount : Nat, executed : E \union {FALSE},
                 approvals : A \union {{}}]
<1>3. p \in T /\ p.amount = n
  OBVIOUS
<1>4. R \subseteq T
  OBVIOUS
<1> HIDE DEF p, R, T
<1>5. proposals \in Seq(R)
  BY <1>2 DEF R
<1>6. proposals \in Seq(T)
  BY <1>4, <1>5
<1>7. /\ Append(proposals, p) \in Seq(T)
      /\ Len(Append(proposals, p)) = Len(proposals) + 1
      /\ Append(proposals, p)[Len(proposals) + 1] = p
      /\ \A i \in DOMAIN proposals :
            i \in DOMAIN Append(proposals, p) /\ Append(proposals, p)[i] = proposals[i]
      /\ Len(proposals) \in Nat
  BY <1>3, <1>6
<1>8. WalletShape'
  BY <1>1, <1>7 DEF WalletShape, T
<1>9. WalletKeeps
  BY <1>1, <1>7 DEF WalletKeeps
<1> QED
  BY <1>1, <1>3, <1>7, <1>8, <1>9

LEMMA ApproveEffect ==
    ASSUME WalletShape, NEW a, NEW i \in DOMAIN proposals, Chain!Approve(a, i)
    PROVE  WalletShape' /\ WalletKeeps /\ Len(proposals') = Len(proposals)
<1>1. Chain!Sign(a, i, threshold) /\ ~proposals[i].executed
  BY DEF Chain!Approve
<1>0. PICK v, e : proposals' = [proposals EXCEPT ![i].approvals = v, ![i].executed = e]
  BY <1>1 DEF Chain!Sign
<1>2. PICK D, E, A : proposals \in Seq([destination : D, amount : Nat, executed : E, approvals : A])
  BY DEF WalletShape
<1> DEFINE R == [destination : D, amount : Nat, executed : E, approvals : A]
           T == [destination : D, amount : Nat, executed : E \union {e}, approvals : A \union {v}]
           p == [[proposals[i] EXCEPT !.approvals = v] EXCEPT !.executed = e]
<1>3. proposals[i] \in R /\ R \subseteq T
  <2>1. R \subseteq T
    OBVIOUS
  <2> HIDE DEF R
  <2>2. proposals \in Seq(R)
    BY <1>2 DEF R
  <2>3. proposals[i] \in R
    BY <2>2
  <2> QED
    BY <2>1, <2>3
<1>4. p \in T /\ p.amount = proposals[i].amount
  BY <1>3
<1>5. proposals' = [proposals EXCEPT ![i] = p]
  BY <1>0, <1>3
<1> HIDE DEF p, R, T
<1>6. proposals \in Seq(T)
  <2>1. proposals \in Seq(R)
    BY <1>2 DEF R
  <2> QED
    BY <1>3, <2>1
<1>7. /\ proposals' \in Seq(T) /\ Len(proposals') = Len(proposals)
      /\ DOMAIN proposals' = DOMAIN proposals
      /\ proposals'[i] = p
      /\ \A j \in DOMAIN proposals : j # i => proposals'[j] = proposals[j]
  BY <1>4, <1>5, <1>6
<1>8. WalletShape'
  BY <1>7 DEF WalletShape, T
<1>9. WalletKeeps
  BY <1>1, <1>4, <1>7 DEF WalletKeeps
<1> QED
  BY <1>7, <1>8, <1>9

-------------------------------------------------------------------------------
(* Sums of rows and of proposals.                                          *)

LEMMA UnitsFinite ==
    ASSUME NEW S, IsFiniteSet(S), NEW f \in [S -> Nat]
    PROVE  IsFiniteSet(Units(f)) /\ Total(f) \in Nat
<1> DEFINE runs == {{x} \X (1 .. f[x]) : x \in S}
           run == [x \in S |-> {x} \X (1 .. f[x])]
<1>1. run \in Surjection(S, runs)
  BY DEF Surjection
<1>2. IsFiniteSet(runs)
  BY <1>1, FS_Surjection
<1>3. ASSUME NEW x \in S PROVE IsFiniteSet({x} \X (1 .. f[x]))
  <2>1. IsFiniteSet({x})
    BY FS_Singleton
  <2>2. IsFiniteSet(1 .. f[x])
    BY FS_Interval
  <2> QED
    BY <2>1, <2>2, FS_Product
<1>4. \A R \in runs : IsFiniteSet(R)
  BY <1>3
<1>5. Units(f) = UNION runs
  BY DEF Units
<1> HIDE DEF runs, run
<1>6. IsFiniteSet(Units(f))
  BY <1>2, <1>4, <1>5, FS_UNION
<1> QED
  BY <1>6, TotalNat

(* A sum whose terms are distinct terms of another is at most the other.   *)
LEMMA TotalOfSome ==
    ASSUME NEW S, NEW T, IsFiniteSet(T), NEW f \in [S -> Nat], NEW g \in [T -> Nat],
           NEW h \in [S -> T],
           \A x, y \in S : h[x] = h[y] => x = y,
           \A x \in S : f[x] = g[h[x]]
    PROVE  Total(f) <= Total(g)
<1> DEFINE j == [u \in Units(f) |-> <<h[u[1]], u[2]>>]
<1>1. ASSUME NEW u \in Units(f)
      PROVE  \E x \in S : \E i \in 1 .. f[x] : u = <<x, i>> /\ j[u] = <<h[x], i>>
  <2>1. PICK x \in S : \E i \in 1 .. f[x] : u = <<x, i>>
    BY UnitsPairs
  <2> QED
    BY <2>1
<1>2. ASSUME NEW u \in Units(f) PROVE j[u] \in Units(g)
  <2>1. PICK x \in S, i \in Nat : /\ i \in 1 .. f[x]
                               /\ u = <<x, i>> /\ j[u] = <<h[x], i>>
    BY <1>1
  <2>2. h[x] \in T /\ f[x] = g[h[x]]
    OBVIOUS
  <2>4. i \in 1 .. g[h[x]]
    BY <2>1, <2>2
  <2>3. <<h[x], i>> \in Units(g)
    BY <2>2, <2>4, UnitsMember
  <2> QED
    BY <2>1, <2>3
<1>3. ASSUME NEW u \in Units(f), NEW v \in Units(f), j[u] = j[v] PROVE u = v
  <2>1. PICK x \in S, i \in Nat : /\ i \in 1 .. f[x]
                               /\ u = <<x, i>> /\ j[u] = <<h[x], i>>
    BY <1>1
  <2>2. PICK y \in S, k \in Nat : /\ k \in 1 .. f[y]
                               /\ v = <<y, k>> /\ j[v] = <<h[y], k>>
    BY <1>1
  <2>3. h[x] = h[y] /\ i = k
    BY <1>3, <2>1, <2>2
  <2> QED
    BY <2>1, <2>2, <2>3
<1>4. j \in [Units(f) -> Units(g)]
  BY <1>2
<1> HIDE DEF j
<1>5. j \in Injection(Units(f), Units(g))
  BY <1>3, <1>4 DEF Injection, IsInjective
<1>6. IsFiniteSet(Units(g))
  BY UnitsFinite
<1>7. Cardinality(Units(f)) <= Cardinality(Units(g))
  BY <1>5, <1>6, FS_Injection
<1> QED
  BY <1>7 DEF Total

(* A sum over fewer of the same terms is no greater.                       *)
LEMMA TotalOfFewer ==
    ASSUME NEW S, NEW T, IsFiniteSet(T), S \subseteq T,
           NEW f \in [S -> Nat], NEW g \in [T -> Nat], \A x \in S : f[x] = g[x]
    PROVE  Total(f) <= Total(g)
<1> DEFINE h == [x \in S |-> x]
<1>1. h \in [S -> T] /\ \A x \in S : h[x] = x
  OBVIOUS
<1> HIDE DEF h
<1> QED
  BY <1>1, TotalOfSome

(* A new term adds itself.                                                 *)
LEMMA TotalOfMore ==
    ASSUME NEW S, NEW x, x \notin S, NEW a \in Nat,
           NEW f \in [S -> Nat], NEW g \in [S \union {x} -> Nat],
           g[x] = a, \A y \in S : g[y] = f[y], IsFiniteSet(Units(f))
    PROVE  Total(g) = Total(f) + a
<1> DEFINE T == S \union {x}
<1>1. x \in T /\ T = S \union {x} /\ g \in [T -> Nat]
  OBVIOUS
<1>2. \A y \in S : y # x => g[y] = f[y]
  OBVIOUS
<1>3. g[x] = (IF x \in S THEN f[x] ELSE 0) + a
  OBVIOUS
<1> HIDE DEF T
<1>4. IsFiniteSet(Units(g)) /\ Total(g) = Total(f) + a
  BY <1>1, <1>2, <1>3, TotalCredit
<1> QED
  BY <1>4

-------------------------------------------------------------------------------
(* How a job moves, and what a step writes into the ledger.                *)

LEMMA IdleType ==
    /\ Idle \in JobType /\ [Idle EXCEPT !.pc = "unlock"] \in JobType
    /\ Idle.pc = "idle" /\ [Idle EXCEPT !.pc = "unlock"].pc = "unlock"
    /\ [Idle EXCEPT !.pc = "unlock"].kind = "cron"
BY DEF Idle, JobType

LEMMA GotoMoves ==
    ASSUME job \in [Slot -> JobType], NEW s \in Slot,
           NEW pc \in {"propose", "proposed", "refused", "check", "approve", "approved", "unapproved"},
           Goto(s, pc)
    PROVE  /\ job' \in [Slot -> JobType]
           /\ job'[s] = [job[s] EXCEPT !.pc = pc]
           /\ \A t \in Slot : t # s => job'[t] = job[t]
<1>1. [job[s] EXCEPT !.pc = pc] \in JobType
  BY DEF JobType
<1> QED
  BY <1>1 DEF Goto

LEMMA FinishMoves ==
    ASSUME job \in [Slot -> JobType], NEW s \in Slot, Finish(s)
    PROVE  /\ job' \in [Slot -> JobType] /\ job'[s].pc = "idle"
           /\ \A t \in Slot : t # s => job'[t] = job[t]
           /\ overrun' = overrun \ {s}
BY IdleType DEF Finish

LEMMA LeaveMoves ==
    ASSUME job \in [Slot -> JobType], NEW s \in Slot, Leave(s)
    PROVE  /\ job' \in [Slot -> JobType] /\ overrun' \subseteq overrun
           /\ \A t \in Slot : t # s => job'[t] = job[t]
           /\ \/ job'[s].pc = "idle" /\ overrun' = overrun \ {s}
              \/ /\ job'[s].pc = "unlock" /\ job'[s].kind = "cron"
                 /\ job[s].kind # "approve" /\ overrun' = overrun
<1>1. CASE job[s].kind = "approve"
  BY <1>1, FinishMoves DEF Leave
<1>2. CASE job[s].kind # "approve"
  <2>1. job' = [job EXCEPT ![s] = [Idle EXCEPT !.pc = "unlock"]] /\ overrun' = overrun
    BY <1>2 DEF Leave
  <2> QED
    BY <1>2, <2>1, IdleType
<1> QED
  BY <1>1, <1>2

LEMMA RowFacts ==
    ASSUME rows \in Seq(RowShape)
    PROVE  /\ Len(rows) \in Nat /\ DOMAIN rows = 1 .. Len(rows)
           /\ \A i \in DOMAIN rows : /\ rows[i] \in RowShape /\ rows[i].amount \in Nat
                                     /\ rows[i].id \in Nat
<1>1. \A r \in RowShape : r.amount \in Nat /\ r.id \in Nat
  BY DEF RowShape
<1> QED
  BY <1>1

(* A row gets a new status, and perhaps an id; nothing else changes.       *)
RowBecomes(i, status, id) ==
    /\ rows' \in Seq(RowShape) /\ Len(rows') = Len(rows) /\ DOMAIN rows' = DOMAIN rows
    /\ rows'[i].status = status /\ rows'[i].id = id /\ rows'[i].amount = rows[i].amount
    /\ \A j \in DOMAIN rows : j # i => rows'[j] = rows[j]

LEMMA StatusMoves ==
    ASSUME rows \in Seq(RowShape), NEW i \in DOMAIN rows, NEW status \in Statuses,
           SetStatus(i, status)
    PROVE  RowBecomes(i, status, rows[i].id)
<1> DEFINE q == [rows[i] EXCEPT !.status = status]
<1>1. rows[i] \in RowShape
  BY RowFacts
<1>2. q \in RowShape /\ q.status = status /\ q.id = rows[i].id /\ q.amount = rows[i].amount
  BY <1>1 DEF RowShape, Statuses
<1>3. rows' = [rows EXCEPT ![i] = q]
  BY DEF SetStatus
<1> HIDE DEF q
<1> QED
  BY <1>2, <1>3 DEF RowBecomes

LEMMA RecordedMoves ==
    ASSUME rows \in Seq(RowShape), job \in [Slot -> JobType], NEW s \in Slot,
           job[s].row \in DOMAIN rows, Recorded(s)
    PROVE  RowBecomes(job[s].row, "proposed", job[s].id)
<1> DEFINE i == job[s].row
           q == [[rows[i] EXCEPT !.status = "proposed"] EXCEPT !.id = job[s].id]
<1>1. rows[i] \in RowShape
  BY RowFacts
<1>2. job[s].id \in Nat
  BY DEF JobType
<1>3. q \in RowShape /\ q.status = "proposed" /\ q.id = job[s].id /\ q.amount = rows[i].amount
  BY <1>1, <1>2 DEF RowShape, Statuses
<1>4. rows' = [rows EXCEPT ![i] = q]
  BY <1>1 DEF Recorded, RowShape
<1> HIDE DEF q
<1> QED
  BY <1>3, <1>4 DEF RowBecomes

(* Giving up a row changes its status and takes back its claims.           *)
LEMMA GiveUpMoves ==
    ASSUME rows \in Seq(RowShape), origin \in Seq(Nat), NEW i \in DOMAIN rows, GiveUp(i)
    PROVE  /\ RowBecomes(i, "failed", rows[i].id)
           /\ origin' \in Seq(Nat) /\ Len(origin') = Len(origin)
           /\ \A p \in DOMAIN origin : origin'[p] = IF origin[p] = i THEN 0 ELSE origin[p]
<1>1. RowBecomes(i, "failed", rows[i].id)
  BY StatusMoves DEF GiveUp, Statuses
<1>2. /\ DOMAIN origin = 1 .. Len(origin) /\ Len(origin) \in Nat
      /\ \A p \in DOMAIN origin : origin[p] \in Nat
  OBVIOUS
<1>3. origin' = [p \in 1 .. Len(origin) |-> IF origin[p] = i THEN 0 ELSE origin[p]]
  BY <1>2 DEF GiveUp
<1>4. origin' \in [1 .. Len(origin) -> Nat]
  BY <1>2, <1>3
<1>5. origin' \in Seq(Nat)
  BY <1>2, <1>4, SeqDef
<1>6. DOMAIN origin' = 1 .. Len(origin')
  BY <1>5
<1>7. Len(origin') = Len(origin)
  BY <1>2, <1>4, <1>5, <1>6
<1> QED
  BY <1>1, <1>2, <1>3, <1>5, <1>7

-------------------------------------------------------------------------------
(* Types.  The two calls of the contract change the wallet at most as the  *)
(* contract does.                                                          *)

LEMMA CallProposeMoves ==
    ASSUME Shape, NEW s \in Slot, CallPropose(s)
    PROVE  /\ WalletShape' /\ WalletKeeps
           /\ faults' \in [{"answers", "locks", "others"} -> Nat] /\ faults'.locks = faults.locks
           /\ \E pc \in {"proposed", "refused"} : Goto(s, pc)
           /\ \/ UNCHANGED <<proposals, origin>>
              \/ /\ Len(proposals') = Len(proposals) + 1
                 /\ proposals'[Len(proposals) + 1].amount = job[s].amount
                 /\ origin' = Append(origin, job[s].row)
<1>1. job[s].amount \in Nat
  BY DEF Shape, JobType
<1>2. /\ faults' \in [{"answers", "locks", "others"} -> Nat] /\ faults'.locks = faults.locks
      /\ \E pc \in {"proposed", "refused"} : Goto(s, pc)
  BY DEF CallPropose, Submit, Fault, Shape
<1>3. CASE UNCHANGED wallet
  <2>1. UNCHANGED <<proposals, origin>>
    BY <1>3 DEF wallet, CallPropose
  <2> QED
    BY <1>2, <1>3, <2>1, WalletStays DEF Shape
<1>4. CASE Chain!Propose(Payee, job[s].amount)
  <2>1. /\ WalletShape' /\ WalletKeeps
        /\ Len(proposals') = Len(proposals) + 1 /\ proposals' # proposals
        /\ proposals'[Len(proposals) + 1].amount = job[s].amount
    BY <1>1, <1>4, ProposeEffect DEF Shape
  <2>2. origin' = Append(origin, job[s].row)
    BY <2>1 DEF CallPropose
  <2> QED
    BY <1>2, <2>1, <2>2
<1> QED
  BY <1>3, <1>4 DEF CallPropose, Submit

LEMMA CallApproveMoves ==
    ASSUME Shape, NEW s \in Slot, CallApprove(s)
    PROVE  /\ WalletShape' /\ WalletKeeps /\ Len(proposals') = Len(proposals)
           /\ faults' \in [{"answers", "locks", "others"} -> Nat] /\ faults'.locks = faults.locks
           /\ \E pc \in {"approved", "unapproved"} : Goto(s, pc)
<1>1. /\ faults' \in [{"answers", "locks", "others"} -> Nat] /\ faults'.locks = faults.locks
      /\ \E pc \in {"approved", "unapproved"} : Goto(s, pc)
  BY DEF CallApprove, Submit, Fault, Shape
<1>2. CASE UNCHANGED wallet
  BY <1>1, <1>2, WalletStays DEF wallet, Shape
<1>3. CASE job[s].id \in DOMAIN proposals /\ Chain!Approve(Operator, job[s].id)
  BY <1>1, <1>3, ApproveEffect DEF Shape
<1> QED
  BY <1>2, <1>3 DEF CallApprove, Submit

LEMMA OtherProposesMoves ==
    ASSUME Shape, OtherProposes
    PROVE  /\ WalletShape' /\ WalletKeeps /\ Len(proposals') = Len(proposals) + 1
           /\ origin' = Append(origin, 0)
           /\ faults' \in [{"answers", "locks", "others"} -> Nat] /\ faults'.locks = faults.locks
           /\ UNCHANGED <<revenue, rows, lock, job, overrun>>
<1>1. Chain!Propose(Stranger, 1)
  BY DEF OtherProposes
<1>2. WalletShape' /\ WalletKeeps /\ Len(proposals') = Len(proposals) + 1
  BY <1>1, ProposeEffect, 1 \in Nat DEF Shape
<1> QED
  BY <1>2 DEF OtherProposes, Fault, Shape

(* What the environment does leaves the ledger and the jobs alone.         *)
LEMMA QuietMoves ==
    ASSUME Shape,
           Earn \/ FundWallet \/ LockExpires
           \/ \E a \in signers, i \in DOMAIN proposals : SignerApproves(a, i)
    PROVE  /\ WalletShape' /\ WalletKeeps /\ Len(proposals') = Len(proposals)
           /\ revenue' \in Nat /\ revenue <= revenue'
           /\ UNCHANGED <<rows, job, origin>>
<1>1. CASE Earn
  BY <1>1, WalletStays DEF Earn, Shape, wallet, history
<1>2. CASE FundWallet
  <2>1. proposals' = proposals /\ UNCHANGED <<revenue, rows, job, origin>>
    BY <1>2 DEF FundWallet, Chain!Fund, history
  <2> QED
    BY <2>1, WalletStays DEF Shape
<1>3. CASE LockExpires
  BY <1>3, WalletStays DEF LockExpires, Shape, wallet
<1>4. ASSUME NEW a \in signers, NEW i \in DOMAIN proposals, SignerApproves(a, i)
      PROVE  /\ WalletShape' /\ WalletKeeps /\ Len(proposals') = Len(proposals)
             /\ UNCHANGED <<rows, job, origin, revenue>>
  BY <1>4, ApproveEffect DEF SignerApproves, Shape, history
<1>5. revenue \in Nat
  BY DEF Shape
<1> QED
  BY <1>1, <1>2, <1>3, <1>4, <1>5

LEMMA ReservedType ==
    ASSUME rows \in Seq(RowShape)
    PROVE  /\ IsFiniteSet(DOMAIN rows)
           /\ Reserved \in [DOMAIN rows -> Nat]
           /\ Total(Reserved) \in Nat
<1>1. IsFiniteSet(DOMAIN rows)
  BY RowFacts, FS_Interval
<1>2. Reserved \in [DOMAIN rows -> Nat]
  BY RowFacts DEF Reserved
<1> QED
  BY <1>1, <1>2, UnitsFinite

(* What a job sets aside fits in what is confirmed and not reserved.       *)
Plans(s, amount) ==
    /\ Total(Reserved) + amount <= revenue
    /\ job'[s] = [job[s] EXCEPT !.pc = "create", !.amount = amount]
    /\ \A t \in Slot : t # s => job'[t] = job[t]
    /\ job' \in [Slot -> JobType] /\ overrun' = overrun

LEMMA ReadPendingMoves ==
    ASSUME Shape, NEW s \in Slot, ReadPending(s)
    PROVE  /\ UNCHANGED <<revenue, rows, lock, wallet, history>>
           /\ Leave(s) \/ \E amount \in Nat : Plans(s, amount)
<1>1. ASSUME NEW amount \in 1 .. pendingRevenue,
             job' = [job EXCEPT ![s].pc = "create", ![s].amount = amount],
             UNCHANGED overrun
      PROVE  amount \in Nat /\ Plans(s, amount)
  <2>1. Total(Reserved) \in Nat /\ revenue \in Nat
    BY ReservedType DEF Shape
  <2>2. amount \in Nat /\ Total(Reserved) + amount <= revenue
    BY <2>1, <1>1 DEF pendingRevenue
  <2> DEFINE q == [[job[s] EXCEPT !.pc = "create"] EXCEPT !.amount = amount]
  <2>3. q \in JobType /\ q = [job[s] EXCEPT !.pc = "create", !.amount = amount]
    BY <2>2 DEF Shape, JobType
  <2>4. job' = [job EXCEPT ![s] = q]
    BY <1>1 DEF Shape, JobType
  <2>5. /\ job'[s] = q /\ job' \in [Slot -> JobType]
        /\ \A t \in Slot : t # s => job'[t] = job[t]
    <3> HIDE DEF q
    <3> QED
      BY <2>3, <2>4 DEF Shape
  <2> QED
    BY <1>1, <2>2, <2>3, <2>5 DEF Plans
<1> QED
  BY <1>1 DEF ReadPending

(* A job that starts, or goes on with other locals.                        *)
LEMMA StartMoves ==
    ASSUME Shape, NEW s \in Slot, StartJob(s) \/ StartRequest(s)
    PROVE  /\ lock = Free /\ lock' = s /\ At(s, "idle")
           /\ job' \in [Slot -> JobType] /\ job'[s].pc = "pending" /\ job'[s].kind # "approve"
           /\ \A t \in Slot : t # s => job'[t] = job[t]
           /\ UNCHANGED <<revenue, rows, overrun, wallet, history>>
<1>1. ASSUME NEW q \in JobType, q.pc = "pending", q.kind # "approve", job' = [job EXCEPT ![s] = q]
      PROVE  /\ job' \in [Slot -> JobType] /\ job'[s].pc = "pending" /\ job'[s].kind # "approve"
             /\ \A t \in Slot : t # s => job'[t] = job[t]
  BY <1>1 DEF Shape
<1>2. CASE StartJob(s)
  <2> DEFINE q == [Idle EXCEPT !.pc = "pending"]
  <2>1. q \in JobType /\ q.pc = "pending" /\ q.kind # "approve"
    BY DEF Idle, JobType
  <2>2. job' = [job EXCEPT ![s] = q]
    BY <1>2 DEF StartJob
  <2> HIDE DEF q
  <2> QED
    BY <1>1, <1>2, <2>1, <2>2 DEF StartJob, tryAcquireLock
<1>3. CASE StartRequest(s)
  <2> DEFINE q == [Idle EXCEPT !.pc = "pending", !.kind = "admin"]
  <2>1. q \in JobType /\ q.pc = "pending" /\ q.kind # "approve"
    BY DEF Idle, JobType
  <2>2. job' = [job EXCEPT ![s] = q]
    BY <1>3 DEF StartRequest
  <2> HIDE DEF q
  <2> QED
    BY <1>1, <1>3, <2>1, <2>2 DEF StartRequest, tryAcquireLock
<1> QED
  BY <1>2, <1>3

LEMMA CreateRowMoves ==
    ASSUME Shape, NEW s \in Slot, CreateRow(s)
    PROVE  /\ rows' \in Seq(RowShape) /\ Len(rows') = Len(rows) + 1
           /\ DOMAIN rows' = DOMAIN rows \union {Len(rows) + 1}
           /\ \A i \in DOMAIN rows : rows'[i] = rows[i]
           /\ rows'[Len(rows) + 1] = [amount |-> job[s].amount, status |-> "pending", id |-> 0]
           /\ job' \in [Slot -> JobType]
           /\ job'[s] = [job[s] EXCEPT !.pc = "simulate", !.row = Len(rows) + 1]
           /\ \A t \in Slot : t # s => job'[t] = job[t]
<1>1. Len(rows) \in Nat /\ DOMAIN rows = 1 .. Len(rows)
  BY DEF Shape
<1> DEFINE q == [[job[s] EXCEPT !.pc = "simulate"] EXCEPT !.row = Len(rows) + 1]
<1>2. q \in JobType /\ q = [job[s] EXCEPT !.pc = "simulate", !.row = Len(rows) + 1]
  <2>1. job[s] \in JobType /\ Len(rows) + 1 \in Nat
    BY <1>1 DEF Shape
  <2> QED
    BY <2>1 DEF JobType
<1>3. job' = [job EXCEPT ![s] = q]
  BY DEF Shape, JobType, CreateRow
<1>4. /\ job' \in [Slot -> JobType] /\ job'[s] = q
      /\ \A t \in Slot : t # s => job'[t] = job[t]
  <2> HIDE DEF q
  <2> QED
    BY <1>2, <1>3 DEF Shape
<1> DEFINE r == [amount |-> job[s].amount, status |-> "pending", id |-> 0]
<1>5. rows' = Append(rows, r)
  BY DEF CreateRow
<1>6. r \in [amount : Nat, id : Nat, status : Statuses]
  BY DEF Shape, JobType, Statuses
<1>7. r \in RowShape /\ rows \in Seq(RowShape)
  BY <1>6 DEF RowShape, Shape
<1> HIDE DEF r
<1>8. /\ rows' \in Seq(RowShape) /\ Len(rows') = Len(rows) + 1
      /\ DOMAIN rows' = DOMAIN rows \union {Len(rows) + 1}
      /\ \A i \in DOMAIN rows : rows'[i] = rows[i]
      /\ rows'[Len(rows) + 1] = r
  BY <1>1, <1>5, <1>7
<1> QED
  BY <1>2, <1>4, <1>8 DEF r

LEMMA StartApproveMoves ==
    ASSUME Shape, NEW s \in Slot, NEW i \in DOMAIN rows, StartApprove(s, i)
    PROVE  /\ job' \in [Slot -> JobType] /\ job'[s].pc = "check" /\ job'[s].kind = "approve"
           /\ job'[s].row = i
           /\ \A t \in Slot : t # s => job'[t] = job[t]
           /\ UNCHANGED <<revenue, rows, lock, overrun, wallet, history>>
<1> DEFINE q == [Idle EXCEPT !.pc = "check", !.kind = "approve", !.row = i]
<1>1. i \in Nat
  BY RowFacts DEF Shape
<1>2. q \in JobType /\ q.pc = "check" /\ q.kind = "approve" /\ q.row = i
  BY <1>1 DEF Idle, JobType
<1>3. job' = [job EXCEPT ![s] = q]
  BY DEF StartApprove
<1> HIDE DEF q
<1> QED
  BY <1>2, <1>3 DEF Shape, StartApprove

LEMMA CheckRowMoves ==
    ASSUME Shape, NEW s \in Slot, job[s].row \in DOMAIN rows, CheckRow(s)
    PROVE  /\ UNCHANGED <<revenue, rows, lock, wallet, history>>
           /\ \/ Leave(s)
              \/ /\ rows[job[s].row].id # 0
                 /\ job'[s] = [job[s] EXCEPT !.pc = "approve", !.id = rows[job[s].row].id]
                 /\ \A t \in Slot : t # s => job'[t] = job[t]
                 /\ job' \in [Slot -> JobType] /\ overrun' = overrun
<1> DEFINE r == rows[job[s].row]
           q == [[job[s] EXCEPT !.pc = "approve"] EXCEPT !.id = r.id]
<1>1. job[s] \in JobType /\ r.id \in Nat
  BY RowFacts DEF Shape
<1>2. q \in JobType /\ q = [job[s] EXCEPT !.pc = "approve", !.id = r.id]
  BY <1>1 DEF JobType
<1>3. \/ Leave(s)
      \/ r.id # 0 /\ job' = [job EXCEPT ![s].pc = "approve", ![s].id = r.id] /\ UNCHANGED overrun
  BY DEF CheckRow
<1>4. CASE /\ r.id # 0 /\ job' = [job EXCEPT ![s].pc = "approve", ![s].id = r.id]
           /\ UNCHANGED overrun
  <2>1. job' = [job EXCEPT ![s] = q]
    BY <1>1, <1>4 DEF Shape, JobType
  <2>2. /\ job' \in [Slot -> JobType] /\ job'[s] = q
        /\ \A t \in Slot : t # s => job'[t] = job[t]
    <3> HIDE DEF q
    <3> QED
      BY <1>2, <2>1 DEF Shape
  <2> QED
    BY <1>2, <1>4, <2>2 DEF CheckRow
<1> QED
  BY <1>3, <1>4 DEF CheckRow

LEMMA SimulateMoves ==
    ASSUME Shape, NEW s \in Slot, SimulatePropose(s)
    PROVE  /\ UNCHANGED <<revenue, rows, lock, overrun, wallet, history>>
           /\ job' \in [Slot -> JobType]
           /\ job'[s] = [job[s] EXCEPT !.pc = "propose", !.id = Len(proposals) + 1]
           /\ \A t \in Slot : t # s => job'[t] = job[t]
<1> DEFINE q == [[job[s] EXCEPT !.pc = "propose"] EXCEPT !.id = Len(proposals) + 1]
<1>1. job[s] \in JobType /\ Len(proposals) + 1 \in Nat
  BY WalletDomain DEF Shape
<1>2. q \in JobType /\ q = [job[s] EXCEPT !.pc = "propose", !.id = Len(proposals) + 1]
  BY <1>1 DEF JobType
<1>3. job' = [job EXCEPT ![s] = q]
  BY <1>1 DEF SimulatePropose, Shape, JobType
<1> HIDE DEF q
<1> QED
  BY <1>2, <1>3 DEF SimulatePropose, Shape

(* A job or request that has proposed leaves, or goes on to approve.       *)
LEMMA ProposedMoves ==
    ASSUME Shape, NEW s \in Slot, Locals(s), JobProposed(s) \/ RequestProposed(s)
    PROVE  /\ UNCHANGED <<revenue, lock, wallet, history>>
           /\ At(s, "proposed") /\ RowBecomes(job[s].row, "proposed", job[s].id)
           /\ Leave(s) \/ (UNCHANGED overrun /\ \E pc \in {"approve", "check"} : Goto(s, pc))
<1>1. Recorded(s) /\ At(s, "proposed")
  BY DEF JobProposed, RequestProposed
<1>2. job[s].row \in DOMAIN rows
  BY <1>1 DEF Locals, At, Owning
<1>3. RowBecomes(job[s].row, "proposed", job[s].id)
  BY <1>1, <1>2, RecordedMoves DEF Shape
<1> QED
  BY <1>1, <1>3 DEF JobProposed, RequestProposed

(* The ends of an approval: a row is marked only by what it was, by what   *)
(* was read of its proposal, or as given up.                               *)
LEMMA ApprovedMoves ==
    ASSUME Shape, NEW s \in Slot, Locals(s), JobApproved(s) \/ RequestApproved(s)
    PROVE  /\ UNCHANGED <<revenue, lock, wallet, history>> /\ Leave(s)
           /\ At(s, "approved") /\ job[s].row \in DOMAIN rows
           /\ \/ UNCHANGED rows
              \/ RowBecomes(job[s].row, "approved", rows[job[s].row].id)
              \/ /\ RowBecomes(job[s].row, "executed", rows[job[s].row].id)
                 /\ ReadsExecuted(job[s].id, TRUE)
<1>1. At(s, "approved") /\ Leave(s) /\ UNCHANGED <<revenue, lock, wallet, history>>
  BY DEF JobApproved, RequestApproved
<1>2. job[s].row \in DOMAIN rows
  BY <1>1 DEF Locals, At, Calling
<1>3. ASSUME NEW status \in {"executed", "approved"}, SetStatus(job[s].row, status)
      PROVE  RowBecomes(job[s].row, status, rows[job[s].row].id)
  BY <1>2, <1>3, StatusMoves DEF Shape, Statuses
<1>4. \/ UNCHANGED rows
      \/ SetStatus(job[s].row, "approved")
      \/ SetStatus(job[s].row, "executed") /\ ReadsExecuted(job[s].id, TRUE)
  BY DEF JobApproved, RequestApproved
<1> QED
  BY <1>1, <1>2, <1>3, <1>4

LEMMA FailedMoves ==
    ASSUME Shape, NEW s \in Slot, Locals(s), ProposeFailed(s) \/ ApproveFailed(s)
    PROVE  /\ UNCHANGED <<revenue, lock, faults, wallet>> /\ Leave(s)
           /\ At(s, "refused") \/ At(s, "unapproved")
           /\ job[s].row \in DOMAIN rows
           /\ \/ GiveUp(job[s].row)
              \/ UNCHANGED <<rows, origin>> /\ At(s, "unapproved")
BY DEF ProposeFailed, ApproveFailed, Locals, At, Owning, Calling

LEMMA EndMoves ==
    ASSUME Shape, NEW s \in Slot, Unlock(s) \/ Crash(s)
    PROVE  /\ Finish(s) /\ UNCHANGED <<revenue, rows, wallet, history>>
           /\ lock' \in {lock, Free, Orphan} /\ (lock # s => lock' = lock)
BY DEF Unlock, Crash

LEMMA HistoryStays ==
    ASSUME Shape, UNCHANGED <<wallet, history>>
    PROVE  /\ WalletShape' /\ WalletKeeps /\ proposals' = proposals
           /\ origin' = origin /\ faults' = faults
BY WalletStays DEF Shape, wallet, history

LEMMA OriginGrows ==
    ASSUME origin \in Seq(Nat), NEW n \in Nat, origin' = Append(origin, n)
    PROVE  /\ origin' \in Seq(Nat) /\ Len(origin') = Len(origin) + 1
           /\ Len(origin) \in Nat /\ DOMAIN origin = 1 .. Len(origin)
           /\ origin'[Len(origin) + 1] = n
           /\ \A p \in DOMAIN origin : origin'[p] = origin[p]
OBVIOUS

(* Every step keeps the types.                                             *)
LEMMA NextShape == Shape /\ JobInv /\ [Next]_vars => Shape'
<1> SUFFICES ASSUME Shape, JobInv, [Next]_vars PROVE Shape'
  OBVIOUS
<1>1. CASE UNCHANGED vars
  BY <1>1, HistoryStays DEF Shape, vars
<1>2. CASE Earn \/ FundWallet \/ LockExpires
           \/ \E a \in signers, i \in DOMAIN proposals : SignerApproves(a, i)
  <2>1. overrun' \subseteq Slot
    BY <1>2 DEF Earn, FundWallet, LockExpires, SignerApproves, Shape
  <2>2. faults' \in [{"answers", "locks", "others"} -> Nat]
    BY <1>2 DEF Earn, FundWallet, LockExpires, SignerApproves, Shape, history, Fault
  <2> QED
    BY <1>2, <2>1, <2>2, QuietMoves DEF Shape
<1>3. CASE OtherProposes
  <2>1. origin' \in Seq(Nat) /\ Len(origin') = Len(origin) + 1
    BY <1>3, OtherProposesMoves, OriginGrows, 0 \in Nat DEF Shape
  <2> QED
    BY <1>3, <2>1, OtherProposesMoves DEF Shape
<1>4. ASSUME NEW s \in Slot, StartJob(s) \/ StartRequest(s) PROVE Shape'
  BY <1>4, StartMoves, HistoryStays DEF Shape
<1>5. ASSUME NEW s \in Slot, NEW i \in DOMAIN rows, StartApprove(s, i) PROVE Shape'
  BY <1>5, StartApproveMoves, HistoryStays DEF Shape
<1>6. ASSUME NEW s \in Slot, ReadPending(s) PROVE Shape'
  BY <1>6, ReadPendingMoves, LeaveMoves, HistoryStays DEF Shape, Plans
<1>7. ASSUME NEW s \in Slot, CreateRow(s) PROVE Shape'
  <2>1. UNCHANGED <<revenue, overrun, wallet, history>>
    BY <1>7 DEF CreateRow
  <2> QED
    BY <1>7, <2>1, CreateRowMoves, HistoryStays DEF Shape
<1>8. ASSUME NEW s \in Slot, SimulatePropose(s) PROVE Shape'
  BY <1>8, SimulateMoves, HistoryStays DEF Shape
<1>9. ASSUME NEW s \in Slot, CallPropose(s) PROVE Shape'
  <2>1. UNCHANGED <<revenue, rows, overrun>>
    BY <1>9 DEF CallPropose
  <2>2. job' \in [Slot -> JobType]
    BY <1>9, CallProposeMoves, GotoMoves DEF Shape
  <2>3. job[s].row \in Nat /\ Len(proposals) \in Nat
    BY WalletDomain DEF Shape, JobType
  <2>4. origin' \in Seq(Nat) /\ Len(origin') = Len(proposals')
    BY <1>9, <2>3, CallProposeMoves, OriginGrows DEF Shape
  <2> QED
    BY <1>9, <2>1, <2>2, <2>4, CallProposeMoves DEF Shape
<1>10. ASSUME NEW s \in Slot, CallApprove(s) PROVE Shape'
  <2>1. UNCHANGED <<revenue, rows, overrun, origin>>
    BY <1>10 DEF CallApprove
  <2>2. job' \in [Slot -> JobType]
    BY <1>10, CallApproveMoves, GotoMoves DEF Shape
  <2> QED
    BY <1>10, <2>1, <2>2, CallApproveMoves DEF Shape
<1>11. ASSUME NEW s \in Slot, JobProposed(s) \/ RequestProposed(s) PROVE Shape'
  <2>1. Locals(s)
    BY DEF JobInv
  <2>2. job' \in [Slot -> JobType] /\ overrun' \subseteq overrun
    BY <1>11, <2>1, ProposedMoves, LeaveMoves, GotoMoves DEF Shape
  <2> QED
    BY <1>11, <2>1, <2>2, ProposedMoves, HistoryStays DEF Shape, RowBecomes
<1>12. ASSUME NEW s \in Slot, CheckRow(s) PROVE Shape'
  <2>1. job[s].row \in DOMAIN rows
    BY <1>12 DEF JobInv, Locals, CheckRow, At
  <2> QED
    BY <1>12, <2>1, CheckRowMoves, LeaveMoves, HistoryStays DEF Shape
<1>13. ASSUME NEW s \in Slot, JobApproved(s) \/ RequestApproved(s) PROVE Shape'
  <2>1. Locals(s)
    BY DEF JobInv
  <2> QED
    BY <1>13, <2>1, ApprovedMoves, LeaveMoves, HistoryStays DEF Shape, RowBecomes
<1>14. ASSUME NEW s \in Slot, ProposeFailed(s) \/ ApproveFailed(s) PROVE Shape'
  <2>1. Locals(s)
    BY DEF JobInv
  <2>2. rows' \in Seq(RowShape) /\ origin' \in Seq(Nat) /\ Len(origin') = Len(origin)
    BY <1>14, <2>1, FailedMoves, GiveUpMoves DEF Shape, RowBecomes
  <2>3. proposals' = proposals
    BY <1>14, <2>1, FailedMoves DEF wallet
  <2>4. job' \in [Slot -> JobType] /\ overrun' \subseteq overrun
    BY <1>14, <2>1, FailedMoves, LeaveMoves DEF Shape
  <2> QED
    BY <1>14, <2>1, <2>2, <2>3, <2>4, FailedMoves, WalletStays DEF Shape
<1>15. ASSUME NEW s \in Slot, Unlock(s) \/ Crash(s) PROVE Shape'
  BY <1>15, EndMoves, FinishMoves, HistoryStays DEF Shape
<1> QED
  BY <1>1, <1>2, <1>3, <1>4, <1>5, <1>6, <1>7, <1>8, <1>9, <1>10, <1>11, <1>12, <1>13, <1>14,
     <1>15 DEF Next

-------------------------------------------------------------------------------
(* The lock.                                                               *)

LockInv == LockExclusive /\ (faults.locks = 0 => overrun = {})

(* A step of one job that leaves the lock and every other job alone.       *)
LEMMA LockKept ==
    ASSUME LockInv, NEW s \in Slot, lock' = lock, faults'.locks = faults.locks,
           \A t \in Slot : t # s => job'[t] = job[t],
           overrun' = overrun \/ overrun' = overrun \ {s},
           InSection(s)' => InSection(s) /\ overrun' = overrun
    PROVE  LockInv'
<1>1. ASSUME NEW t \in Slot, InSection(t)', t \notin overrun' PROVE lock' = t
  <2>1. CASE t = s
    BY <1>1, <2>1 DEF LockInv, LockExclusive
  <2>2. CASE t # s
    <3>1. InSection(t) /\ t \notin overrun
      BY <1>1, <2>2 DEF InSection, At
    <3> QED
      BY <3>1 DEF LockInv, LockExclusive
  <2> QED
    BY <2>1, <2>2
<1> QED
  BY <1>1 DEF LockInv, LockExclusive

LEMMA LockLeft ==
    ASSUME Shape, LockInv, NEW s \in Slot, lock' = lock, faults'.locks = faults.locks,
           Leave(s), ~At(s, "idle")
    PROVE  LockInv'
<1>1. InSection(s)' => InSection(s) /\ overrun' = overrun
  BY LeaveMoves DEF Shape, InSection, At
<1> QED
  BY <1>1, LeaveMoves, LockKept DEF Shape

LEMMA LockGone ==
    ASSUME Shape, LockInv, NEW s \in Slot, lock' = lock, faults'.locks = faults.locks,
           overrun' = overrun, job'[s].kind = job[s].kind, ~At(s, "idle"),
           \A t \in Slot : t # s => job'[t] = job[t]
    PROVE  LockInv'
<1>1. InSection(s)' => InSection(s)
  BY DEF InSection, At
<1> QED
  BY <1>1, LockKept

LEMMA NextLock == Shape /\ JobInv /\ LockInv /\ [Next]_vars => LockInv'
<1> SUFFICES ASSUME Shape, JobInv, LockInv, [Next]_vars PROVE LockInv'
  OBVIOUS
<1>0. \A s \in Slot : job[s] \in JobType
  BY DEF Shape
<1>1. CASE UNCHANGED vars
  BY <1>1 DEF LockInv, LockExclusive, InSection, At, vars, history
<1>2. CASE LockExpires
  <2>1. ASSUME NEW t \in Slot, InSection(t)', t \notin overrun' PROVE FALSE
    <3>1. InSection(t) /\ t \notin overrun
      BY <1>2, <2>1 DEF LockExpires, InSection, At
    <3>2. lock = t
      BY <3>1 DEF LockInv, LockExclusive
    <3>3. t \in overrun'
      BY <1>2, <3>2, PayoutsAssumption DEF LockExpires
    <3> QED
      BY <2>1, <3>3
  <2>2. CASE faults' = faults /\ overrun' = overrun
    BY <2>1, <2>2 DEF LockInv, LockExclusive
  <2>3. CASE Fault("locks")
    <3>1. faults'.locks = faults.locks + 1 /\ faults.locks \in Nat
      BY <2>3 DEF Fault, Shape
    <3> QED
      BY <2>1, <3>1 DEF LockInv, LockExclusive
  <2> QED
    BY <1>2, <2>2, <2>3 DEF LockExpires
<1>3. CASE Earn \/ FundWallet \/ \E a \in signers, i \in DOMAIN proposals : SignerApproves(a, i)
  BY <1>3 DEF LockInv, LockExclusive, InSection, At, Earn, FundWallet, SignerApproves, history
<1>4. CASE OtherProposes
  BY <1>4, OtherProposesMoves DEF LockInv, LockExclusive, InSection, At
<1>5. ASSUME NEW s \in Slot, StartJob(s) \/ StartRequest(s) PROVE LockInv'
  <2>1. ASSUME NEW t \in Slot, t # s, t \notin overrun' PROVE ~InSection(t)'
    BY <1>5, <2>1, StartMoves, PayoutsAssumption DEF LockInv, LockExclusive, InSection, At
  <2> QED
    BY <1>5, <2>1, StartMoves DEF LockInv, LockExclusive, history
<1>6. ASSUME NEW s \in Slot, NEW i \in DOMAIN rows, StartApprove(s, i) PROVE LockInv'
  <2>1. ~InSection(s)'
    BY <1>6, StartApproveMoves DEF InSection
  <2> QED
    BY <1>6, <2>1, StartApproveMoves, LockKept DEF history
<1>7. ASSUME NEW s \in Slot, ReadPending(s) PROVE LockInv'
  <2>1. ~At(s, "idle")
    BY <1>7 DEF ReadPending, At
  <2> QED
    <3>1. UNCHANGED <<lock, faults>>
      BY <1>7, ReadPendingMoves DEF history
    <3>2. CASE Leave(s)
      BY <2>1, <3>1, <3>2, LockLeft
    <3>3. ASSUME NEW amount \in Nat, Plans(s, amount) PROVE LockInv'
      <4>1. job'[s].kind = job[s].kind
        BY <1>0, <3>3 DEF JobType, Plans
      <4>2. overrun' = overrun /\ \A t \in Slot : t # s => job'[t] = job[t]
        BY <3>3 DEF Plans
      <4> QED
        BY <2>1, <3>1, <4>1, <4>2, LockGone
    <3>4. Leave(s) \/ \E amount \in Nat : Plans(s, amount)
      BY <1>7, ReadPendingMoves
    <3> QED
      BY <3>2, <3>3, <3>4
<1>8. ASSUME NEW s \in Slot, CreateRow(s) PROVE LockInv'
  <2>1. ~At(s, "idle") /\ UNCHANGED <<lock, overrun, history>>
    BY <1>8 DEF CreateRow, At
  <2>2. job'[s].kind = job[s].kind
    <3>1. job[s] \in JobType /\ job'[s] = [job[s] EXCEPT !.pc = "simulate", !.row = Len(rows) + 1]
      BY <1>0, <1>8, CreateRowMoves
    <3> QED
      BY <3>1 DEF JobType
  <2>3. faults'.locks = faults.locks /\ \A t \in Slot : t # s => job'[t] = job[t]
    BY <1>8, <2>1, CreateRowMoves DEF history
  <2> QED
    BY <2>1, <2>2, <2>3, LockGone
<1>9. ASSUME NEW s \in Slot, SimulatePropose(s) PROVE LockInv'
  <2>1. ~At(s, "idle")
    BY <1>9 DEF SimulatePropose, At
  <2>2. job'[s].kind = job[s].kind
    <3>1. job[s] \in JobType
          /\ job'[s] = [job[s] EXCEPT !.pc = "propose", !.id = Len(proposals) + 1]
      BY <1>0, <1>9, SimulateMoves
    <3> QED
      BY <3>1 DEF JobType
  <2> QED
    BY <1>9, <2>1, <2>2, SimulateMoves, LockGone DEF Shape, history
<1>10. ASSUME NEW s \in Slot, CallPropose(s) PROVE LockInv'
  <2>1. ~At(s, "idle") /\ UNCHANGED <<lock, overrun>>
    BY <1>10 DEF CallPropose, At
  <2>2. PICK pc \in {"proposed", "refused", "approved", "unapproved"} : Goto(s, pc)
    BY <1>10, CallProposeMoves
  <2>3. /\ job'[s] = [job[s] EXCEPT !.pc = pc]
        /\ \A t \in Slot : t # s => job'[t] = job[t]
    BY <2>2, GotoMoves DEF Shape
  <2>4. job'[s].kind = job[s].kind
    BY <1>0, <2>3 DEF JobType
  <2> QED
    BY <1>10, <2>1, <2>3, <2>4, CallProposeMoves, LockGone DEF Shape
<1>11. ASSUME NEW s \in Slot, CallApprove(s) PROVE LockInv'
  <2>1. ~At(s, "idle") /\ UNCHANGED <<lock, overrun>>
    BY <1>11 DEF CallApprove, At
  <2>2. PICK pc \in {"proposed", "refused", "approved", "unapproved"} : Goto(s, pc)
    BY <1>11, CallApproveMoves
  <2>3. /\ job'[s] = [job[s] EXCEPT !.pc = pc]
        /\ \A t \in Slot : t # s => job'[t] = job[t]
    BY <2>2, GotoMoves DEF Shape
  <2>4. job'[s].kind = job[s].kind
    BY <1>0, <2>3 DEF JobType
  <2> QED
    BY <1>11, <2>1, <2>3, <2>4, CallApproveMoves, LockGone DEF Shape
<1>12. ASSUME NEW s \in Slot, JobProposed(s) \/ RequestProposed(s) PROVE LockInv'
  <2>1. Locals(s)
    BY DEF JobInv
  <2>2. ~At(s, "idle")
    BY <1>12 DEF JobProposed, RequestProposed, At
  <2> QED
    <3>1. UNCHANGED <<lock, faults>>
      BY <1>12, <2>1, ProposedMoves DEF history
    <3>2. CASE Leave(s)
      BY <2>2, <3>1, <3>2, LockLeft
    <3>3. ASSUME overrun' = overrun, NEW pc \in {"approve", "check"}, Goto(s, pc)
          PROVE  LockInv'
      <4>1. /\ job'[s] = [job[s] EXCEPT !.pc = pc]
            /\ \A t \in Slot : t # s => job'[t] = job[t]
        BY <3>3, GotoMoves DEF Shape
      <4>2. job'[s].kind = job[s].kind
        BY <1>0, <4>1 DEF JobType
      <4> QED
        BY <2>2, <3>1, <3>3, <4>1, <4>2, LockGone
    <3> QED
      BY <1>12, <2>1, <3>2, <3>3, ProposedMoves
<1>13. ASSUME NEW s \in Slot, CheckRow(s) PROVE LockInv'
  <2>1. job[s].row \in DOMAIN rows /\ ~At(s, "idle")
    BY <1>13 DEF JobInv, Locals, CheckRow, At
  <2> QED
    <3>1. UNCHANGED <<lock, faults>>
      BY <1>13, <2>1, CheckRowMoves DEF history
    <3>2. CASE Leave(s)
      BY <2>1, <3>1, <3>2, LockLeft
    <3>3. CASE /\ job'[s] = [job[s] EXCEPT !.pc = "approve", !.id = rows[job[s].row].id]
               /\ \A t \in Slot : t # s => job'[t] = job[t]
               /\ overrun' = overrun
      <4>1. job'[s].kind = job[s].kind
        BY <1>0, <3>3 DEF JobType
      <4> QED
        BY <2>1, <3>1, <3>3, <4>1, LockGone
    <3> QED
      BY <1>13, <2>1, <3>2, <3>3, CheckRowMoves
<1>14. ASSUME NEW s \in Slot, JobApproved(s) \/ RequestApproved(s) PROVE LockInv'
  <2>1. Locals(s)
    BY DEF JobInv
  <2> QED
    BY <1>14, <2>1, ApprovedMoves, LockLeft DEF history, At
<1>15. ASSUME NEW s \in Slot, ProposeFailed(s) \/ ApproveFailed(s) PROVE LockInv'
  <2>1. Locals(s)
    BY DEF JobInv
  <2> QED
    BY <1>15, <2>1, FailedMoves, LockLeft DEF At
<1>16. ASSUME NEW s \in Slot, Unlock(s) \/ Crash(s) PROVE LockInv'
  <2>1. /\ job'[s].pc = "idle" /\ overrun' = overrun \ {s} /\ faults' = faults
        /\ \A t \in Slot : t # s => job'[t] = job[t]
        /\ lock # s => lock' = lock
    BY <1>16, EndMoves, FinishMoves DEF Shape, history
  <2>2. ASSUME NEW t \in Slot, InSection(t)', t \notin overrun' PROVE lock' = t
    <3>1. t # s
      BY <2>1, <2>2 DEF InSection, At
    <3>2. InSection(t) /\ t \notin overrun
      BY <2>1, <2>2, <3>1 DEF InSection, At
    <3> QED
      BY <2>1, <3>1, <3>2 DEF LockInv, LockExclusive
  <2> QED
    BY <2>1, <2>2 DEF LockInv, LockExclusive
<1> QED
  BY <1>1, <1>2, <1>3, <1>4, <1>5, <1>6, <1>7, <1>8, <1>9, <1>10, <1>11, <1>12, <1>13, <1>14,
     <1>15, <1>16 DEF Next

-------------------------------------------------------------------------------
(* The jobs and their rows.                                                *)

(* A step of another job spares the row that job t counts on.              *)
Spares(t) ==
    /\ job'[t] = job[t]
    /\ DOMAIN rows \subseteq DOMAIN rows'
    /\ job[t].pc \in Calling => rows'[job[t].row].id = rows[job[t].row].id
    /\ job[t].pc \in Owning => rows'[job[t].row] = rows[job[t].row]

LEMMA JobsKept ==
    ASSUME JobInv, NEW s \in Slot, Locals(s)', \A t \in Slot : t # s => Spares(t),
           job'[s].pc \in Owning =>
              \/ job[s].pc \in Owning /\ job'[s].row = job[s].row
              \/ \A t \in Slot : job[t].pc \in Owning => job[t].row # job'[s].row
    PROVE  JobInv'
<1>1. ASSUME NEW t \in Slot, t # s PROVE Locals(t)'
  <2>1. Spares(t) /\ Locals(t)
    BY <1>1 DEF JobInv
  <2> QED
    BY <2>1 DEF Spares, Locals
<1>2. OwnRows'
  <2> SUFFICES ASSUME NEW t \in Slot, NEW u \in Slot, t # u,
                      job'[t].pc \in Owning, job'[u].pc \in Owning
               PROVE  job'[t].row # job'[u].row
    BY DEF OwnRows
  <2>1. \A v \in Slot : v # s => job'[v] = job[v]
    BY DEF Spares
  <2>2. OwnRows
    BY DEF JobInv
  <2>3. CASE t = s
    BY <2>1, <2>2, <2>3 DEF OwnRows
  <2>4. CASE u = s
    BY <2>1, <2>2, <2>4 DEF OwnRows
  <2>5. CASE t # s /\ u # s
    BY <2>1, <2>2, <2>5 DEF OwnRows
  <2> QED
    BY <2>3, <2>4, <2>5
<1> QED
  BY <1>1, <1>2 DEF JobInv

LEMMA JobsStay == ASSUME JobInv, rows' = rows, job' = job PROVE JobInv'
BY DEF JobInv, Locals, OwnRows

LEMMA SparesAll ==
    ASSUME NEW s \in Slot, rows' = rows, \A t \in Slot : t # s => job'[t] = job[t]
    PROVE  \A t \in Slot : t # s => Spares(t)
BY DEF Spares

(* One row changes: the others' own rows are other rows, and an approval   *)
(* has named a row with an id, which stays.                                *)
LEMMA SparesOthers ==
    ASSUME JobInv, NEW s \in Slot, NEW i \in DOMAIN rows, NEW status, NEW id,
           RowBecomes(i, status, id),
           \A t \in Slot : t # s => job'[t] = job[t],
           \/ job[s].pc \in Owning /\ i = job[s].row
           \/ rows[i].id # 0 /\ id = rows[i].id
    PROVE  \A t \in Slot : t # s => Spares(t)
<1> SUFFICES ASSUME NEW t \in Slot, t # s PROVE Spares(t)
  OBVIOUS
<1>1. Locals(t) /\ Locals(s)
  BY DEF JobInv
<1>2. DOMAIN rows' = DOMAIN rows
  BY DEF RowBecomes
<1>3. ASSUME job[t].pc \in Calling PROVE rows'[job[t].row].id = rows[job[t].row].id
  <2>1. job[t].row \in DOMAIN rows /\ rows[job[t].row].id # 0
    BY <1>1, <1>3 DEF Locals
  <2>2. CASE job[t].row = i
    BY <1>1, <2>1, <2>2 DEF Locals, RowBecomes
  <2>3. CASE job[t].row # i
    BY <2>1, <2>3 DEF RowBecomes
  <2> QED
    BY <2>2, <2>3
<1>4. ASSUME job[t].pc \in Owning PROVE rows'[job[t].row] = rows[job[t].row]
  <2>1. job[t].row \in DOMAIN rows /\ rows[job[t].row].id = 0
    BY <1>1, <1>4 DEF Locals
  <2>2. job[t].row # i
    BY <1>4, <2>1 DEF JobInv, OwnRows
  <2> QED
    BY <2>1, <2>2 DEF RowBecomes
<1> QED
  BY <1>2, <1>3, <1>4 DEF Spares

LEMMA LocalsLeft ==
    ASSUME Shape, NEW s \in Slot, Leave(s)
    PROVE  /\ Locals(s)' /\ job'[s].pc \notin Owning /\ job'[s].pc \notin Planning
           /\ \A t \in Slot : t # s => job'[t] = job[t]
BY LeaveMoves DEF Shape, Locals, Owning, Calling, Planning

LEMMA NextJobs == Shape /\ JobInv /\ [Next]_vars => JobInv'
<1> SUFFICES ASSUME Shape, JobInv, [Next]_vars PROVE JobInv'
  OBVIOUS
<1>0. \A s \in Slot : job[s] \in JobType /\ Locals(s)
  BY DEF Shape, JobInv
<1>1. CASE UNCHANGED vars
  BY <1>1, JobsStay DEF vars
<1>2. CASE Earn \/ FundWallet \/ LockExpires
           \/ \E a \in signers, i \in DOMAIN proposals : SignerApproves(a, i)
  BY <1>2, QuietMoves, JobsStay
<1>3. CASE OtherProposes
  BY <1>3, OtherProposesMoves, JobsStay
<1>4. ASSUME NEW s \in Slot, StartJob(s) \/ StartRequest(s) PROVE JobInv'
  <2>1. Locals(s)' /\ job'[s].pc \notin Owning
    BY <1>4, StartMoves DEF Locals, Owning, Calling, Planning
  <2> QED
    BY <1>4, <2>1, StartMoves, SparesAll, JobsKept
<1>5. ASSUME NEW s \in Slot, NEW i \in DOMAIN rows, StartApprove(s, i) PROVE JobInv'
  <2>1. Locals(s)' /\ job'[s].pc \notin Owning
    BY <1>5, StartApproveMoves DEF Locals, Owning, Calling, Planning
  <2> QED
    BY <1>5, <2>1, StartApproveMoves, SparesAll, JobsKept
<1>6. ASSUME NEW s \in Slot, ReadPending(s) PROVE JobInv'
  <2>1. CASE Leave(s)
    BY <1>6, <2>1, LocalsLeft, ReadPendingMoves, SparesAll, JobsKept
  <2>2. ASSUME NEW amount \in Nat, Plans(s, amount) PROVE JobInv'
    <3>1. job'[s].pc = "create" /\ job'[s].kind = job[s].kind
      BY <1>0, <2>2 DEF JobType, Plans
    <3>2. job[s].kind # "approve"
      BY <1>0, <1>6 DEF Locals, ReadPending, At
    <3>3. Locals(s)' /\ job'[s].pc \notin Owning
      BY <3>1, <3>2 DEF Locals, Owning, Calling, Planning
    <3>4. \A t \in Slot : t # s => Spares(t)
      BY <1>6, <2>2, ReadPendingMoves, SparesAll DEF Plans
    <3> QED
      BY <3>3, <3>4, JobsKept
  <2>3. Leave(s) \/ \E amount \in Nat : Plans(s, amount)
    BY <1>6, ReadPendingMoves
  <2> QED
    BY <2>1, <2>2, <2>3
<1>7. ASSUME NEW s \in Slot, CreateRow(s) PROVE JobInv'
  <2>1. /\ job'[s].pc = "simulate" /\ job'[s].row = Len(rows) + 1
        /\ job'[s].kind = job[s].kind /\ job'[s].amount = job[s].amount
    <3>1. job[s] \in JobType /\ job'[s] = [job[s] EXCEPT !.pc = "simulate", !.row = Len(rows) + 1]
      BY <1>0, <1>7, CreateRowMoves
    <3> QED
      BY <3>1 DEF JobType
  <2>2. job[s].kind # "approve"
    BY <1>0, <1>7 DEF Locals, CreateRow, At, Planning
  <2>3. /\ Len(rows) + 1 \in DOMAIN rows' /\ rows'[Len(rows) + 1].status = "pending"
        /\ rows'[Len(rows) + 1].id = 0 /\ rows'[Len(rows) + 1].amount = job[s].amount
    <3> DEFINE r == [amount |-> job[s].amount, status |-> "pending", id |-> 0]
    <3>1. r.status = "pending" /\ r.id = 0 /\ r.amount = job[s].amount
      OBVIOUS
    <3>2. rows'[Len(rows) + 1] = r /\ Len(rows) + 1 \in DOMAIN rows'
      BY <1>7, CreateRowMoves
    <3> HIDE DEF r
    <3> QED
      BY <3>1, <3>2
  <2>4. Locals(s)'
    BY <2>1, <2>2, <2>3 DEF Locals, Owning, Calling, Planning
  <2>5. \A t \in Slot : job[t].pc \in Owning => job[t].row # job'[s].row
    BY <1>0, <2>1, RowFacts DEF Locals, Shape
  <2>6. ASSUME NEW t \in Slot, t # s PROVE Spares(t)
    <3>1. job'[t] = job[t]
      BY <1>7, <2>6, CreateRowMoves
    <3>2. \A i \in DOMAIN rows : i \in DOMAIN rows' /\ rows'[i] = rows[i]
      BY <1>7, CreateRowMoves
    <3>3. Locals(t)
      BY <1>0
    <3> QED
      BY <3>1, <3>2, <3>3 DEF Spares, Locals
  <2> QED
    BY <2>4, <2>5, <2>6, JobsKept
<1>8. ASSUME NEW s \in Slot, SimulatePropose(s) PROVE JobInv'
  <2>1. /\ job'[s].pc = "propose" /\ job'[s].row = job[s].row /\ job'[s].kind = job[s].kind
        /\ job'[s].amount = job[s].amount /\ job'[s].id = Len(proposals) + 1
    <3>1. job[s] \in JobType
          /\ job'[s] = [job[s] EXCEPT !.pc = "propose", !.id = Len(proposals) + 1]
      BY <1>0, <1>8, SimulateMoves
    <3> QED
      BY <3>1 DEF JobType
  <2>2. job[s].pc = "simulate" /\ rows' = rows
    BY <1>8, SimulateMoves DEF SimulatePropose, At
  <2>3. job'[s].id # 0
    BY <2>1, WalletDomain DEF Shape
  <2>4. Locals(s)'
    BY <1>0, <2>1, <2>2, <2>3 DEF Locals, Owning, Calling, Planning
  <2>5. job[s].pc \in Owning
    BY <2>2 DEF Owning
  <2> QED
    BY <1>8, <2>1, <2>2, <2>4, <2>5, SimulateMoves, SparesAll, JobsKept
<1>9. ASSUME NEW s \in Slot, CallPropose(s) PROVE JobInv'
  <2>1. PICK pc \in {"proposed", "refused"} : Goto(s, pc)
    BY <1>9, CallProposeMoves
  <2>2. job'[s] = [job[s] EXCEPT !.pc = pc] /\ \A t \in Slot : t # s => job'[t] = job[t]
    BY <2>1, GotoMoves DEF Shape
  <2>3. /\ job'[s].pc = pc /\ job'[s].row = job[s].row /\ job'[s].kind = job[s].kind
        /\ job'[s].amount = job[s].amount /\ job'[s].id = job[s].id
    BY <1>0, <2>2 DEF JobType
  <2>4. job[s].pc = "propose" /\ rows' = rows
    BY <1>9 DEF CallPropose, At
  <2>5. Locals(s)'
    BY <1>0, <2>3, <2>4 DEF Locals, Owning, Calling, Planning
  <2>6. job[s].pc \in Owning
    BY <2>4 DEF Owning
  <2> QED
    BY <2>2, <2>3, <2>4, <2>5, <2>6, SparesAll, JobsKept
<1>10. ASSUME NEW s \in Slot, CallApprove(s) PROVE JobInv'
  <2>1. PICK pc \in {"approved", "unapproved"} : Goto(s, pc)
    BY <1>10, CallApproveMoves
  <2>2. job'[s] = [job[s] EXCEPT !.pc = pc] /\ \A t \in Slot : t # s => job'[t] = job[t]
    BY <2>1, GotoMoves DEF Shape
  <2>3. job'[s].pc = pc /\ job'[s].row = job[s].row /\ job'[s].id = job[s].id
    BY <1>0, <2>2 DEF JobType
  <2>4. job[s].pc = "approve" /\ rows' = rows
    BY <1>10 DEF CallApprove, At
  <2>5. Locals(s)' /\ job'[s].pc \notin Owning
    BY <1>0, <2>3, <2>4 DEF Locals, Owning, Calling, Planning
  <2> QED
    BY <2>2, <2>4, <2>5, SparesAll, JobsKept
<1>11. ASSUME NEW s \in Slot, JobProposed(s) \/ RequestProposed(s) PROVE JobInv'
  <2> DEFINE i == job[s].row
  <2>1. /\ job[s].pc = "proposed" /\ job[s].pc \in Owning /\ i \in DOMAIN rows
        /\ job[s].id # 0 /\ RowBecomes(i, "proposed", job[s].id)
    BY <1>0, <1>11, ProposedMoves DEF Locals, At, Owning
  <2>2. CASE Leave(s)
    BY <2>1, <2>2, LocalsLeft, SparesOthers, JobsKept
  <2>3. ASSUME NEW pc \in {"approve", "check"}, Goto(s, pc) PROVE JobInv'
    <3>1. job'[s] = [job[s] EXCEPT !.pc = pc] /\ \A t \in Slot : t # s => job'[t] = job[t]
      BY <2>3, GotoMoves DEF Shape
    <3>2. job'[s].pc = pc /\ job'[s].row = i /\ job'[s].id = job[s].id
      BY <1>0, <3>1 DEF JobType
    <3>3. i \in DOMAIN rows' /\ rows'[i].id = job[s].id
      BY <2>1 DEF RowBecomes
    <3>4. Locals(s)' /\ job'[s].pc \notin Owning
      BY <2>1, <3>2, <3>3 DEF Locals, Owning, Calling, Planning
    <3> QED
      BY <2>1, <3>1, <3>4, SparesOthers, JobsKept
  <2> QED
    BY <1>0, <1>11, <2>2, <2>3, ProposedMoves
<1>12. ASSUME NEW s \in Slot, CheckRow(s) PROVE JobInv'
  <2> DEFINE i == job[s].row
  <2>1. job[s].pc = "check" /\ i \in DOMAIN rows
    BY <1>0, <1>12 DEF Locals, CheckRow, At
  <2>2. CASE Leave(s)
    BY <1>12, <2>1, <2>2, LocalsLeft, CheckRowMoves, SparesAll, JobsKept
  <2>3. CASE /\ rows[i].id # 0
             /\ job'[s] = [job[s] EXCEPT !.pc = "approve", !.id = rows[i].id]
             /\ \A t \in Slot : t # s => job'[t] = job[t]
    <3>1. job'[s].pc = "approve" /\ job'[s].row = i /\ job'[s].id = rows[i].id
      BY <1>0, <2>3 DEF JobType
    <3>2. rows' = rows
      BY <1>12, <2>1, CheckRowMoves
    <3>3. Locals(s)' /\ job'[s].pc \notin Owning
      BY <2>1, <2>3, <3>1, <3>2 DEF Locals, Owning, Calling, Planning
    <3> QED
      BY <2>3, <3>2, <3>3, SparesAll, JobsKept
  <2> QED
    BY <1>12, <2>1, <2>2, <2>3, CheckRowMoves
<1>13. ASSUME NEW s \in Slot, JobApproved(s) \/ RequestApproved(s) PROVE JobInv'
  <2> DEFINE i == job[s].row
  <2>1. Leave(s) /\ job[s].pc = "approved" /\ i \in DOMAIN rows
    BY <1>0, <1>13, ApprovedMoves DEF At
  <2>2. rows[i].id # 0
    BY <1>0, <2>1 DEF Locals, Calling
  <2>3. CASE UNCHANGED rows
    BY <2>1, <2>3, LocalsLeft, SparesAll, JobsKept
  <2>4. ASSUME NEW status, RowBecomes(i, status, rows[i].id) PROVE JobInv'
    BY <2>1, <2>2, <2>4, LocalsLeft, SparesOthers, JobsKept
  <2> QED
    BY <1>0, <1>13, <2>3, <2>4, ApprovedMoves
<1>14. ASSUME NEW s \in Slot, ProposeFailed(s) \/ ApproveFailed(s) PROVE JobInv'
  <2> DEFINE i == job[s].row
  <2>1. Leave(s) /\ job[s].pc \in {"refused", "unapproved"} /\ i \in DOMAIN rows
    BY <1>0, <1>14, FailedMoves DEF At
  <2>2. job[s].pc \in Owning \/ rows[i].id # 0
    BY <1>0, <2>1 DEF Locals, Owning, Calling
  <2>3. CASE UNCHANGED rows
    BY <2>1, <2>3, LocalsLeft, SparesAll, JobsKept
  <2>4. CASE GiveUp(i)
    <3>1. RowBecomes(i, "failed", rows[i].id)
      BY <2>1, <2>4, GiveUpMoves DEF Shape
    <3> QED
      BY <2>1, <2>2, <3>1, LocalsLeft, SparesOthers, JobsKept
  <2> QED
    BY <1>0, <1>14, <2>3, <2>4, FailedMoves
<1>15. ASSUME NEW s \in Slot, Unlock(s) \/ Crash(s) PROVE JobInv'
  <2>1. job'[s].pc = "idle" /\ rows' = rows /\ \A t \in Slot : t # s => job'[t] = job[t]
    BY <1>15, EndMoves, FinishMoves DEF Shape
  <2>2. Locals(s)' /\ job'[s].pc \notin Owning
    BY <2>1 DEF Locals, Owning, Calling, Planning
  <2> QED
    BY <2>1, <2>2, SparesAll, JobsKept
<1> QED
  BY <1>1, <1>2, <1>3, <1>4, <1>5, <1>6, <1>7, <1>8, <1>9, <1>10, <1>11, <1>12, <1>13, <1>14,
     <1>15 DEF Next

-------------------------------------------------------------------------------
(* What a row says of its proposal.                                        *)

(* Rows that are not called executed by the step, and keep what they say   *)
(* of an id, stay true of a wallet that takes nothing back.                *)
LEMMA LedgerKept ==
    ASSUME LedgerNeverAhead, WalletKeeps,
           \A i \in DOMAIN rows' : rows'[i].status = "executed" =>
              \/ /\ i \in DOMAIN rows /\ rows[i].status = "executed"
                 /\ rows'[i].id = rows[i].id
              \/ /\ rows'[i].id \in DOMAIN proposals
                 /\ proposals[rows'[i].id].executed
    PROVE  LedgerNeverAhead'
BY DEF LedgerNeverAhead, WalletKeeps

LEMMA LedgerStays ==
    ASSUME LedgerNeverAhead, WalletKeeps, rows' = rows
    PROVE  LedgerNeverAhead'
BY LedgerKept

LEMMA NextLedger == Shape /\ JobInv /\ LedgerNeverAhead /\ [Next]_vars => LedgerNeverAhead'
<1> SUFFICES ASSUME Shape, JobInv, LedgerNeverAhead, [Next]_vars PROVE LedgerNeverAhead'
  OBVIOUS
<1>0. \A s \in Slot : Locals(s)
  BY DEF JobInv
<1>1. CASE UNCHANGED vars
  BY <1>1, HistoryStays, LedgerStays DEF vars
<1>2. CASE Earn \/ FundWallet \/ LockExpires
           \/ \E a \in signers, i \in DOMAIN proposals : SignerApproves(a, i)
  BY <1>2, QuietMoves, LedgerStays
<1>3. CASE OtherProposes
  BY <1>3, OtherProposesMoves, LedgerStays
<1>4. ASSUME NEW s \in Slot, StartJob(s) \/ StartRequest(s) PROVE LedgerNeverAhead'
  BY <1>4, StartMoves, HistoryStays, LedgerStays
<1>5. ASSUME NEW s \in Slot, NEW i \in DOMAIN rows, StartApprove(s, i) PROVE LedgerNeverAhead'
  BY <1>5, StartApproveMoves, HistoryStays, LedgerStays
<1>6. ASSUME NEW s \in Slot, ReadPending(s) PROVE LedgerNeverAhead'
  BY <1>6, ReadPendingMoves, HistoryStays, LedgerStays
<1>7. ASSUME NEW s \in Slot, CreateRow(s) PROVE LedgerNeverAhead'
  <2> DEFINE r == [amount |-> job[s].amount, status |-> "pending", id |-> 0]
  <2>1. UNCHANGED <<wallet, history>>
    BY <1>7 DEF CreateRow
  <2>2. r.status # "executed"
    OBVIOUS
  <2>3. /\ DOMAIN rows' = DOMAIN rows \union {Len(rows) + 1} /\ rows'[Len(rows) + 1] = r
        /\ \A i \in DOMAIN rows : rows'[i] = rows[i]
    BY <1>7, CreateRowMoves
  <2> HIDE DEF r
  <2> QED
    BY <2>1, <2>2, <2>3, HistoryStays, LedgerKept
<1>8. ASSUME NEW s \in Slot, SimulatePropose(s) PROVE LedgerNeverAhead'
  BY <1>8, SimulateMoves, HistoryStays, LedgerStays
<1>9. ASSUME NEW s \in Slot, CallPropose(s) PROVE LedgerNeverAhead'
  BY <1>9, CallProposeMoves, LedgerStays DEF CallPropose
<1>10. ASSUME NEW s \in Slot, CallApprove(s) PROVE LedgerNeverAhead'
  BY <1>10, CallApproveMoves, LedgerStays DEF CallApprove
<1>11. ASSUME NEW s \in Slot, JobProposed(s) \/ RequestProposed(s) PROVE LedgerNeverAhead'
  <2>1. UNCHANGED <<wallet, history>> /\ RowBecomes(job[s].row, "proposed", job[s].id)
    BY <1>0, <1>11, ProposedMoves
  <2> QED
    BY <2>1, HistoryStays, LedgerKept DEF RowBecomes
<1>12. ASSUME NEW s \in Slot, CheckRow(s) PROVE LedgerNeverAhead'
  <2>1. job[s].row \in DOMAIN rows
    BY <1>0, <1>12 DEF Locals, CheckRow, At
  <2> QED
    BY <1>12, <2>1, CheckRowMoves, HistoryStays, LedgerStays
<1>13. ASSUME NEW s \in Slot, JobApproved(s) \/ RequestApproved(s) PROVE LedgerNeverAhead'
  <2> DEFINE i == job[s].row
  <2>1. WalletKeeps
    BY <1>0, <1>13, ApprovedMoves, HistoryStays
  <2>2. i \in DOMAIN rows /\ rows[i].id = job[s].id
    BY <1>0, <1>13, ApprovedMoves DEF Locals, At, Calling
  <2>3. CASE UNCHANGED rows
    BY <2>1, <2>3, LedgerStays
  <2>4. CASE RowBecomes(i, "approved", rows[i].id)
    BY <2>1, <2>4, LedgerKept DEF RowBecomes
  <2>5. CASE RowBecomes(i, "executed", rows[i].id) /\ ReadsExecuted(job[s].id, TRUE)
    BY <2>1, <2>2, <2>5, LedgerKept DEF RowBecomes, ReadsExecuted
  <2> QED
    BY <1>0, <1>13, <2>3, <2>4, <2>5, ApprovedMoves
<1>14. ASSUME NEW s \in Slot, ProposeFailed(s) \/ ApproveFailed(s) PROVE LedgerNeverAhead'
  <2> DEFINE i == job[s].row
  <2>1. WalletKeeps
    BY <1>0, <1>14, FailedMoves, WalletStays DEF Shape, wallet
  <2>2. CASE UNCHANGED rows
    BY <2>1, <2>2, LedgerStays
  <2>3. CASE GiveUp(i) /\ i \in DOMAIN rows
    <3>1. RowBecomes(i, "failed", rows[i].id)
      BY <2>3, GiveUpMoves DEF Shape
    <3> QED
      BY <2>1, <3>1, LedgerKept DEF RowBecomes
  <2> QED
    BY <1>0, <1>14, <2>2, <2>3, FailedMoves
<1>15. ASSUME NEW s \in Slot, Unlock(s) \/ Crash(s) PROVE LedgerNeverAhead'
  BY <1>15, EndMoves, HistoryStays, LedgerStays
<1> QED
  BY <1>1, <1>2, <1>3, <1>4, <1>5, <1>6, <1>7, <1>8, <1>9, <1>10, <1>11, <1>12, <1>13, <1>14,
     <1>15 DEF Next

-------------------------------------------------------------------------------
(* What is proposed was earned.  A claimed row has one proposal, of its    *)
(* amount, and reserves it; a job that has set revenue aside has not       *)
(* claimed its row yet, and there is room for it beside all claims.        *)

ClaimInv ==
    /\ \A p \in Claimed :
          /\ origin[p] \in DOMAIN rows /\ rows[origin[p]].status \in Reserving
          /\ rows[origin[p]].amount = proposals[p].amount
    /\ \A p, q \in Claimed : origin[p] = origin[q] => p = q
    /\ \A s \in Slot, p \in Claimed :
          job[s].pc \in {"simulate", "propose"} => origin[p] # job[s].row

EarnedInv ==
    faults.locks = 0 =>
       /\ Total(Claims) <= revenue
       /\ \A s \in Slot : job[s].pc \in Planning => Total(Claims) + job[s].amount <= revenue

MoneyInv == ClaimInv /\ EarnedInv

LEMMA ClaimedFacts ==
    ASSUME Shape
    PROVE  /\ Len(proposals) \in Nat /\ DOMAIN proposals = 1 .. Len(proposals)
           /\ DOMAIN origin = DOMAIN proposals
           /\ Claimed \subseteq DOMAIN proposals /\ IsFiniteSet(Claimed)
           /\ Claims \in [Claimed -> Nat] /\ Total(Claims) \in Nat
           /\ \A p \in DOMAIN proposals : origin[p] \in Nat
<1>1. /\ Len(proposals) \in Nat /\ DOMAIN proposals = 1 .. Len(proposals)
      /\ \A i \in DOMAIN proposals : proposals[i].amount \in Nat
  BY WalletDomain DEF Shape
<1>2. DOMAIN origin = DOMAIN proposals /\ \A p \in DOMAIN proposals : origin[p] \in Nat
  BY <1>1 DEF Shape
<1>3. Claimed \subseteq DOMAIN proposals
  BY DEF Claimed
<1>4. IsFiniteSet(1 .. Len(proposals))
  BY <1>1, FS_Interval
<1>5. IsFiniteSet(Claimed)
  BY <1>1, <1>3, <1>4, FS_Subset
<1>6. Claims \in [Claimed -> Nat]
  BY <1>1, <1>3 DEF Claims
<1> QED
  BY <1>1, <1>2, <1>3, <1>5, <1>6, UnitsFinite

(* Distinct claims are distinct reservations, so the claims together are   *)
(* at most what is reserved.                                               *)
LEMMA ClaimsAreReserved ==
    ASSUME Shape, ClaimInv
    PROVE  Total(Claims) <= Total(Reserved)
<1> DEFINE h == [p \in Claimed |-> origin[p]]
<1>1. h \in [Claimed -> DOMAIN rows]
  BY DEF ClaimInv
<1>2. \A p, q \in Claimed : h[p] = h[q] => p = q
  BY DEF ClaimInv
<1>3. \A p \in Claimed : Claims[p] = Reserved[h[p]]
  BY DEF ClaimInv, Claims, Reserved
<1>4. /\ IsFiniteSet(DOMAIN rows) /\ Reserved \in [DOMAIN rows -> Nat]
      /\ Claims \in [Claimed -> Nat]
  BY ReservedType, ClaimedFacts DEF Shape
<1> HIDE DEF h
<1> QED
  BY <1>1, <1>2, <1>3, <1>4, TotalOfSome

RowHolds(i) ==
    /\ i \in DOMAIN rows' /\ rows'[i].amount = rows[i].amount
    /\ rows[i].status \in Reserving => rows'[i].status \in Reserving

PlanHolds(s) ==
    job'[s].pc \in Planning =>
       /\ job[s].pc \in Planning /\ job'[s].amount = job[s].amount
       /\ job'[s].pc \in {"simulate", "propose"} =>
             \/ job[s].pc \in {"simulate", "propose"} /\ job'[s].row = job[s].row
             \/ job'[s].row \notin DOMAIN rows

(* A step that makes no proposal, gives up no row and plans nothing new.   *)
LEMMA MoneyKept ==
    ASSUME Shape, MoneyInv, WalletKeeps, origin' = origin, Len(proposals') = Len(proposals),
           WalletShape', revenue' \in Nat, revenue <= revenue',
           faults'.locks = 0 => faults.locks = 0,
           \A i \in DOMAIN rows : RowHolds(i),
           \A s \in Slot : PlanHolds(s)
    PROVE  MoneyInv'
<1>1. /\ DOMAIN proposals = 1 .. Len(proposals)
      /\ \A p \in DOMAIN proposals : proposals'[p].amount = proposals[p].amount
  BY ClaimedFacts DEF WalletKeeps
<1>2. DOMAIN proposals' = DOMAIN proposals
  <2>1. DOMAIN proposals' = 1 .. Len(proposals')
    BY DEF WalletShape
  <2> QED
    BY <1>1, <2>1
<1>3. Claimed' = Claimed
  BY <1>2 DEF Claimed
<1>4. Claims' = Claims
  <2>1. \A p \in Claimed : proposals'[p].amount = proposals[p].amount
    BY <1>1 DEF Claimed
  <2> QED
    BY <1>3, <2>1 DEF Claims
<1>5. ASSUME NEW p \in Claimed
      PROVE  /\ origin[p] \in DOMAIN rows' /\ rows'[origin[p]].status \in Reserving
             /\ rows'[origin[p]].amount = proposals'[p].amount
  <2>1. /\ origin[p] \in DOMAIN rows /\ rows[origin[p]].status \in Reserving
        /\ rows[origin[p]].amount = proposals[p].amount
    BY DEF MoneyInv, ClaimInv
  <2>2. RowHolds(origin[p])
    BY <2>1
  <2> QED
    BY <1>1, <2>1, <2>2 DEF RowHolds, Claimed
<1>6. ASSUME NEW s \in Slot, NEW p \in Claimed, job'[s].pc \in {"simulate", "propose"}
      PROVE  origin[p] # job'[s].row
  <2>1. origin[p] \in DOMAIN rows
    BY DEF MoneyInv, ClaimInv
  <2>2. \/ job[s].pc \in {"simulate", "propose"} /\ job'[s].row = job[s].row
        \/ job'[s].row \notin DOMAIN rows
    BY <1>6 DEF PlanHolds, Planning
  <2> QED
    BY <2>1, <2>2 DEF MoneyInv, ClaimInv
<1>7. ClaimInv'
  <2>1. \A p, q \in Claimed : origin[p] = origin[q] => p = q
    BY DEF MoneyInv, ClaimInv
  <2> QED
    BY <1>3, <1>5, <1>6, <2>1 DEF ClaimInv
<1>8. EarnedInv'
  <2> SUFFICES ASSUME faults'.locks = 0 PROVE EarnedInv'
    BY DEF EarnedInv
  <2>1. Total(Claims)' = Total(Claims)
    BY <1>4
  <2>2. Total(Claims) \in Nat /\ revenue \in Nat
    BY ClaimedFacts DEF Shape
  <2>3. Total(Claims) <= revenue
    BY DEF MoneyInv, EarnedInv
  <2>4. ASSUME NEW s \in Slot, job'[s].pc \in Planning
        PROVE  Total(Claims) + job'[s].amount <= revenue'
    <3>1. Total(Claims) + job[s].amount <= revenue /\ job'[s].amount = job[s].amount
      BY <2>4 DEF MoneyInv, EarnedInv, PlanHolds
    <3>2. job[s].amount \in Nat
      BY DEF Shape, JobType
    <3> QED
      BY <2>2, <3>1, <3>2
  <2> QED
    BY <2>1, <2>2, <2>3, <2>4 DEF EarnedInv
<1> QED
  BY <1>7, <1>8 DEF MoneyInv

LEMMA MoneySame ==
    ASSUME Shape, MoneyInv, UNCHANGED <<wallet, history, revenue>>,
           \A i \in DOMAIN rows : RowHolds(i),
           \A s \in Slot : PlanHolds(s)
    PROVE  MoneyInv'
<1>1. WalletShape' /\ WalletKeeps /\ proposals' = proposals /\ origin' = origin /\ faults' = faults
  BY HistoryStays
<1>2. revenue' = revenue /\ revenue \in Nat
  BY DEF Shape
<1> QED
  BY <1>1, <1>2, MoneyKept

LEMMA RowsHold == ASSUME rows' = rows PROVE \A i \in DOMAIN rows : RowHolds(i)
BY DEF RowHolds

LEMMA RowHoldsAs ==
    ASSUME NEW i, NEW status \in Reserving, NEW id, RowBecomes(i, status, id)
    PROVE  \A j \in DOMAIN rows : RowHolds(j)
BY DEF RowBecomes, RowHolds

LEMMA PlansHold ==
    ASSUME NEW s \in Slot, job'[s].pc \notin Planning,
           \A t \in Slot : t # s => job'[t] = job[t]
    PROVE  \A t \in Slot : PlanHolds(t)
BY DEF PlanHolds

LEMMA PlansStay == ASSUME job' = job PROVE \A t \in Slot : PlanHolds(t)
BY DEF PlanHolds

LEMMA ClaimsGrow ==
    ASSUME NEW n, n \notin Claimed, NEW a \in Nat,
           Claims \in [Claimed -> Nat], IsFiniteSet(Units(Claims)),
           Claims' \in [Claimed \union {n} -> Nat], Claims'[n] = a,
           \A p \in Claimed : Claims'[p] = Claims[p]
    PROVE  Total(Claims)' = Total(Claims) + a
<1> DEFINE g == Claims'
           f == Claims
<1>1. /\ f \in [Claimed -> Nat] /\ IsFiniteSet(Units(f))
      /\ g \in [Claimed \union {n} -> Nat] /\ g[n] = a
      /\ \A p \in Claimed : g[p] = f[p]
  OBVIOUS
<1> HIDE DEF f, g
<1>2. Total(g) = Total(f) + a
  BY <1>1, TotalOfMore
<1> QED
  BY <1>2 DEF f, g

(* The call lands: the job's amount becomes a claim.  The lock keeps every *)
(* other job from having set revenue aside at the same time.               *)
LEMMA MoneyProposed ==
    ASSUME Shape, JobInv, LockInv, MoneyInv, NEW s \in Slot, job[s].pc = "propose",
           WalletKeeps, WalletShape', UNCHANGED <<revenue, rows>>, faults'.locks = faults.locks,
           Len(proposals') = Len(proposals) + 1,
           proposals'[Len(proposals) + 1].amount = job[s].amount,
           origin' = Append(origin, job[s].row),
           \A t \in Slot : t # s => job'[t] = job[t],
           job'[s].pc \notin Planning
    PROVE  MoneyInv'
<1> DEFINE n == Len(proposals) + 1
<1>1. /\ Len(proposals) \in Nat /\ DOMAIN proposals = 1 .. Len(proposals)
      /\ \A p \in DOMAIN proposals : proposals'[p].amount = proposals[p].amount
      /\ Claimed \subseteq DOMAIN proposals
  BY ClaimedFacts DEF WalletKeeps
<1>2. DOMAIN proposals' = DOMAIN proposals \union {n} /\ n \notin DOMAIN proposals
  <2>1. DOMAIN proposals' = 1 .. Len(proposals')
    BY DEF WalletShape
  <2> QED
    BY <1>1, <2>1
<1>3. /\ job[s].kind # "approve" /\ job[s].row \in DOMAIN rows
      /\ rows[job[s].row].status = "pending" /\ rows[job[s].row].amount = job[s].amount
      /\ job[s].amount \in Nat
  BY DEF JobInv, Locals, Owning, Shape, JobType
<1>4. job[s].row \in Nat /\ job[s].row # 0
  BY <1>3, RowFacts DEF Shape
<1>5. /\ origin'[n] = job[s].row
      /\ \A p \in DOMAIN proposals : origin'[p] = origin[p]
  BY <1>4, ClaimedFacts, OriginGrows DEF Shape
<1>6. Claimed' = Claimed \union {n} /\ n \notin Claimed
  BY <1>1, <1>2, <1>4, <1>5 DEF Claimed
<1>7. /\ Claims' \in [Claimed \union {n} -> Nat] /\ Claims'[n] = job[s].amount
      /\ \A p \in Claimed : Claims'[p] = Claims[p]
  <2>1. Claims' = [p \in Claimed \union {n} |-> proposals'[p].amount]
    BY <1>6 DEF Claims
  <2>2. \A p \in Claimed : proposals'[p].amount = Claims[p] /\ Claims[p] \in Nat
    BY <1>1, ClaimedFacts DEF Claims
  <2> QED
    BY <1>3, <2>1, <2>2
<1>8. Total(Claims)' = Total(Claims) + job[s].amount
  <2>1. Claims \in [Claimed -> Nat] /\ IsFiniteSet(Units(Claims))
    BY ClaimedFacts, UnitsFinite
  <2> HIDE DEF n
  <2> QED
    BY <1>3, <1>6, <1>7, <2>1, ClaimsGrow
<1>9. EarnedInv'
  <2> SUFFICES ASSUME faults'.locks = 0 PROVE EarnedInv'
    BY DEF EarnedInv
  <2>1. Total(Claims) + job[s].amount <= revenue
    BY DEF MoneyInv, EarnedInv, Planning
  <2>2. InSection(s)
    BY <1>3 DEF InSection, At
  <2>3. ASSUME NEW t \in Slot, job'[t].pc \in Planning PROVE FALSE
    <3>1. t # s /\ job[t].pc \in Planning
      BY <2>3
    <3>2. InSection(t)
      BY <3>1 DEF JobInv, Locals, InSection, At, Planning
    <3> QED
      BY <2>2, <3>1, <3>2 DEF LockInv, LockExclusive
  <2> QED
    BY <1>8, <2>1, <2>3 DEF EarnedInv
<1>10. ASSUME NEW p \in Claimed'
       PROVE  /\ origin'[p] \in DOMAIN rows /\ rows[origin'[p]].status \in Reserving
              /\ rows[origin'[p]].amount = proposals'[p].amount
  <2>1. CASE p = n
    BY <1>3, <1>5, <2>1 DEF Reserving
  <2>2. CASE p \in Claimed
    BY <1>1, <1>5, <2>2 DEF MoneyInv, ClaimInv
  <2> QED
    BY <1>6, <2>1, <2>2
<1>11. \A p \in Claimed : origin'[p] = origin[p] /\ origin[p] # job[s].row
  BY <1>1, <1>5 DEF MoneyInv, ClaimInv
<1>12. \A p, q \in Claimed' : origin'[p] = origin'[q] => p = q
  <2> SUFFICES ASSUME NEW p \in Claimed', NEW q \in Claimed', origin'[p] = origin'[q]
               PROVE  p = q
    OBVIOUS
  <2>1. CASE p = n /\ q \in Claimed
    BY <1>5, <1>11, <2>1
  <2>2. CASE q = n /\ p \in Claimed
    BY <1>5, <1>11, <2>2
  <2>3. CASE p \in Claimed /\ q \in Claimed
    <3>1. origin[p] = origin[q]
      BY <1>11, <2>3
    <3> QED
      BY <2>3, <3>1 DEF MoneyInv, ClaimInv
  <2>4. p \in Claimed \union {n} /\ q \in Claimed \union {n}
    BY <1>6
  <2> QED
    BY <2>1, <2>2, <2>3, <2>4
<1>13. ASSUME NEW t \in Slot, NEW p \in Claimed', job'[t].pc \in {"simulate", "propose"}
       PROVE  origin'[p] # job'[t].row
  <2>1. t # s /\ job'[t] = job[t]
    BY <1>13 DEF Planning
  <2>2. job[t].row # job[s].row
    BY <1>13, <2>1 DEF JobInv, OwnRows, Owning
  <2>3. CASE p = n
    BY <1>5, <2>1, <2>2, <2>3
  <2>4. CASE p \in Claimed
    <3>1. origin'[p] = origin[p]
      BY <1>11, <2>4
    <3>2. job[t].pc \in {"simulate", "propose"}
      BY <1>13, <2>1
    <3>3. origin[p] # job[t].row
      BY <2>4, <3>2 DEF MoneyInv, ClaimInv
    <3> QED
      BY <2>1, <3>1, <3>3
  <2>5. p \in Claimed \union {n}
    BY <1>6, <1>13
  <2> QED
    BY <2>3, <2>4, <2>5
<1>14. ClaimInv'
  BY <1>10, <1>12, <1>13 DEF ClaimInv
<1> QED
  BY <1>9, <1>14 DEF MoneyInv

(* Giving a row up takes its claim back and leaves the others'.            *)
LEMMA MoneyGivenUp ==
    ASSUME Shape, MoneyInv, NEW i \in DOMAIN rows, GiveUp(i),
           UNCHANGED <<revenue, faults, wallet>>,
           \A s \in Slot : PlanHolds(s)
    PROVE  MoneyInv'
<1>1. proposals' = proposals /\ revenue' = revenue /\ faults' = faults
  BY DEF wallet
<1>2. /\ RowBecomes(i, "failed", rows[i].id)
      /\ \A p \in DOMAIN proposals : origin'[p] = IF origin[p] = i THEN 0 ELSE origin[p]
  BY GiveUpMoves, ClaimedFacts DEF Shape
<1>3. Claimed' = {p \in Claimed : origin[p] # i}
  <2>1. i # 0
    BY RowFacts DEF Shape
  <2> QED
    BY <1>1, <1>2, <2>1 DEF Claimed
<1>4. \A p \in Claimed' : origin'[p] = origin[p] /\ origin[p] # i /\ p \in Claimed
  BY <1>2, <1>3 DEF Claimed
<1>5. Claims' = [p \in Claimed' |-> proposals[p].amount]
  BY <1>1 DEF Claims
<1>6. Total(Claims)' <= Total(Claims) /\ Total(Claims)' \in Nat
  <2> DEFINE g == Claims'
             S == Claimed'
  <2>1. /\ S \subseteq Claimed /\ IsFiniteSet(Claimed) /\ Claims \in [Claimed -> Nat]
        /\ \A p \in Claimed : Claims[p] = proposals[p].amount
    BY <1>3, ClaimedFacts DEF Claims
  <2>2. g \in [S -> Nat] /\ \A p \in S : g[p] = Claims[p]
    BY <1>5, <2>1
  <2>3. IsFiniteSet(S)
    BY <2>1, FS_Subset
  <2> HIDE DEF g, S
  <2>4. Total(g) <= Total(Claims)
    BY <2>1, <2>2, TotalOfFewer
  <2>5. Total(g) \in Nat
    BY <2>2, <2>3, UnitsFinite
  <2> QED
    BY <2>4, <2>5 DEF g
<1>7. ASSUME NEW p \in Claimed'
      PROVE  /\ origin'[p] \in DOMAIN rows' /\ rows'[origin'[p]].status \in Reserving
             /\ rows'[origin'[p]].amount = proposals'[p].amount
  <2>1. /\ origin[p] \in DOMAIN rows /\ rows[origin[p]].status \in Reserving
        /\ rows[origin[p]].amount = proposals[p].amount
    BY <1>4 DEF MoneyInv, ClaimInv
  <2>2. rows'[origin[p]] = rows[origin[p]] /\ DOMAIN rows' = DOMAIN rows
    BY <1>2, <1>4, <2>1 DEF RowBecomes
  <2> QED
    BY <1>1, <1>4, <2>1, <2>2
<1>8. \A p, q \in Claimed' : origin'[p] = origin'[q] => p = q
  BY <1>4 DEF MoneyInv, ClaimInv
<1>9. ASSUME NEW s \in Slot, NEW p \in Claimed', job'[s].pc \in {"simulate", "propose"}
      PROVE  origin'[p] # job'[s].row
  <2>1. p \in Claimed /\ origin'[p] = origin[p] /\ origin[p] \in DOMAIN rows
    BY <1>4 DEF MoneyInv, ClaimInv
  <2>2. \/ job[s].pc \in {"simulate", "propose"} /\ job'[s].row = job[s].row
        \/ job'[s].row \notin DOMAIN rows
    BY <1>9 DEF PlanHolds, Planning
  <2> QED
    BY <2>1, <2>2 DEF MoneyInv, ClaimInv
<1>10. EarnedInv'
  <2> SUFFICES ASSUME faults.locks = 0 PROVE EarnedInv'
    BY <1>1 DEF EarnedInv
  <2>1. Total(Claims) \in Nat /\ revenue \in Nat
    BY ClaimedFacts DEF Shape
  <2>2. Total(Claims)' <= revenue'
    BY <1>1, <1>6, <2>1 DEF MoneyInv, EarnedInv
  <2>3. ASSUME NEW s \in Slot, job'[s].pc \in Planning
        PROVE  Total(Claims)' + job'[s].amount <= revenue'
    <3>1. job'[s].amount = job[s].amount /\ job[s].amount \in Nat
      BY <2>3 DEF PlanHolds, Shape, JobType
    <3>2. Total(Claims) + job[s].amount <= revenue
      BY <2>3 DEF MoneyInv, EarnedInv, PlanHolds
    <3> QED
      BY <1>1, <1>6, <2>1, <3>1, <3>2
  <2> QED
    BY <2>2, <2>3 DEF EarnedInv
<1> QED
  BY <1>7, <1>8, <1>9, <1>10 DEF MoneyInv, ClaimInv

(* A job sets aside what is not reserved, hence not claimed.               *)
LEMMA MoneyPlanned ==
    ASSUME Shape, MoneyInv, NEW s \in Slot, UNCHANGED <<revenue, rows, wallet, history>>,
           NEW amount \in Nat, Total(Reserved) + amount <= revenue,
           job'[s].pc = "create", job'[s].amount = amount,
           \A t \in Slot : t # s => job'[t] = job[t]
    PROVE  MoneyInv'
<1>1. proposals' = proposals /\ origin' = origin /\ faults' = faults
  BY DEF wallet, history
<1>2. Claimed' = Claimed /\ Claims' = Claims
  BY <1>1 DEF Claimed, Claims
<1>3. Total(Claims) <= Total(Reserved) /\ Total(Claims) \in Nat /\ Total(Reserved) \in Nat
      /\ revenue \in Nat
  BY ClaimsAreReserved, ClaimedFacts, ReservedType DEF MoneyInv, Shape
<1>4. Total(Claims) + amount <= revenue
  BY <1>3
<1>5. ClaimInv'
  <2>1. \A t \in Slot : job'[t].pc \in {"simulate", "propose"} => job'[t] = job[t]
    OBVIOUS
  <2> QED
    BY <1>1, <1>2, <2>1 DEF MoneyInv, ClaimInv
<1>6. EarnedInv'
  BY <1>1, <1>2, <1>4 DEF MoneyInv, EarnedInv
<1> QED
  BY <1>5, <1>6 DEF MoneyInv

LEMMA NextMoney == Shape /\ JobInv /\ LockInv /\ MoneyInv /\ [Next]_vars => MoneyInv'
<1> SUFFICES ASSUME Shape, JobInv, LockInv, MoneyInv, [Next]_vars PROVE MoneyInv'
  OBVIOUS
<1>0. \A s \in Slot : job[s] \in JobType /\ Locals(s)
  BY DEF Shape, JobInv
<1>1. CASE UNCHANGED vars
  BY <1>1, MoneySame, RowsHold, PlansStay DEF vars
<1>2. CASE Earn \/ FundWallet \/ LockExpires
           \/ \E a \in signers, i \in DOMAIN proposals : SignerApproves(a, i)
  <2>1. faults'.locks = 0 => faults.locks = 0
    BY <1>2 DEF Earn, FundWallet, LockExpires, SignerApproves, history, Fault, Shape
  <2>2. /\ WalletShape' /\ WalletKeeps /\ Len(proposals') = Len(proposals)
        /\ revenue' \in Nat /\ revenue <= revenue'
        /\ UNCHANGED <<rows, job, origin>>
    BY <1>2, QuietMoves
  <2>3. \A i \in DOMAIN rows : RowHolds(i)
    BY <2>2, RowsHold
  <2>4. \A s \in Slot : PlanHolds(s)
    BY <2>2, PlansStay
  <2> QED
    BY <2>1, <2>2, <2>3, <2>4, MoneyKept
<1>3. CASE OtherProposes
  <2>1. /\ WalletShape' /\ WalletKeeps /\ Len(proposals') = Len(proposals) + 1
        /\ origin' = Append(origin, 0) /\ faults'.locks = faults.locks
        /\ UNCHANGED <<revenue, rows, job>>
    BY <1>3, OtherProposesMoves
  <2>2. /\ origin'[Len(proposals) + 1] = 0
        /\ \A p \in DOMAIN proposals : origin'[p] = origin[p]
        /\ DOMAIN proposals' = DOMAIN proposals \union {Len(proposals) + 1}
    <3>1. DOMAIN proposals' = 1 .. Len(proposals')
      BY <2>1 DEF WalletShape
    <3> QED
      BY <2>1, <3>1, OriginGrows, ClaimedFacts, 0 \in Nat DEF Shape
  <2>3. Claimed' = Claimed
    BY <2>2 DEF Claimed
  <2>4. \A p \in Claimed : proposals'[p].amount = proposals[p].amount /\ origin'[p] = origin[p]
    BY <2>1, <2>2 DEF Claimed, WalletKeeps
  <2>5. Claims' = Claims
    BY <2>3, <2>4 DEF Claims
  <2>6. ClaimInv'
    <3>1. \A p \in Claimed' : /\ origin'[p] = origin[p] /\ p \in Claimed
                              /\ proposals'[p].amount = proposals[p].amount
      BY <2>3, <2>4
    <3>2. \A p \in Claimed' : /\ origin'[p] \in DOMAIN rows'
                              /\ rows'[origin'[p]].status \in Reserving
                              /\ rows'[origin'[p]].amount = proposals'[p].amount
      BY <2>1, <3>1 DEF MoneyInv, ClaimInv
    <3>3. \A p, q \in Claimed' : origin'[p] = origin'[q] => p = q
      BY <3>1 DEF MoneyInv, ClaimInv
    <3>4. ASSUME NEW s \in Slot, NEW p \in Claimed', job'[s].pc \in {"simulate", "propose"}
          PROVE  origin'[p] # job'[s].row
      <4>1. job'[s] = job[s] /\ origin'[p] = origin[p] /\ p \in Claimed
        BY <2>1, <3>1
      <4> QED
        BY <3>4, <4>1 DEF MoneyInv, ClaimInv
    <3> QED
      BY <3>2, <3>3, <3>4 DEF ClaimInv
  <2>7. EarnedInv'
    BY <2>1, <2>5 DEF MoneyInv, EarnedInv
  <2> QED
    BY <2>6, <2>7 DEF MoneyInv
<1>4. ASSUME NEW s \in Slot, StartJob(s) \/ StartRequest(s) PROVE MoneyInv'
  <2>1. job'[s].pc \notin Planning
    BY <1>4, StartMoves DEF Planning
  <2> QED
    BY <1>4, <2>1, StartMoves, MoneySame, RowsHold, PlansHold
<1>5. ASSUME NEW s \in Slot, NEW i \in DOMAIN rows, StartApprove(s, i) PROVE MoneyInv'
  <2>1. job'[s].pc \notin Planning
    BY <1>5, StartApproveMoves DEF Planning
  <2> QED
    BY <1>5, <2>1, StartApproveMoves, MoneySame, RowsHold, PlansHold
<1>6. ASSUME NEW s \in Slot, ReadPending(s) PROVE MoneyInv'
  <2>1. CASE Leave(s)
    BY <1>6, <2>1, ReadPendingMoves, LocalsLeft, MoneySame, RowsHold, PlansHold
  <2>2. ASSUME NEW amount \in Nat, Plans(s, amount) PROVE MoneyInv'
    <3>1. job'[s].pc = "create" /\ job'[s].amount = amount
      BY <1>0, <2>2 DEF JobType, Plans
    <3>2. UNCHANGED <<revenue, rows, wallet, history>>
      BY <1>6, ReadPendingMoves
    <3>3. Total(Reserved) + amount <= revenue /\ \A t \in Slot : t # s => job'[t] = job[t]
      BY <2>2 DEF Plans
    <3> QED
      BY <3>1, <3>2, <3>3, MoneyPlanned
  <2>3. Leave(s) \/ \E amount \in Nat : Plans(s, amount)
    BY <1>6, ReadPendingMoves
  <2> QED
    BY <2>1, <2>2, <2>3
<1>7. ASSUME NEW s \in Slot, CreateRow(s) PROVE MoneyInv'
  <2>1. /\ job'[s].pc = "simulate" /\ job'[s].row = Len(rows) + 1
        /\ job'[s].amount = job[s].amount
    <3>1. job[s] \in JobType /\ job'[s] = [job[s] EXCEPT !.pc = "simulate", !.row = Len(rows) + 1]
      BY <1>0, <1>7, CreateRowMoves
    <3> QED
      BY <3>1 DEF JobType
  <2>2. UNCHANGED <<revenue, wallet, history>> /\ job[s].pc = "create"
    BY <1>7 DEF CreateRow, At
  <2>3. Len(rows) + 1 \notin DOMAIN rows
    BY RowFacts DEF Shape
  <2>4. \A i \in DOMAIN rows : RowHolds(i)
    BY <1>7, CreateRowMoves DEF RowHolds
  <2>5. \A t \in Slot : t # s => job'[t] = job[t]
    BY <1>7, CreateRowMoves
  <2>6. \A t \in Slot : PlanHolds(t)
    BY <2>1, <2>2, <2>3, <2>5 DEF PlanHolds, Planning
  <2> QED
    BY <2>2, <2>4, <2>6, MoneySame
<1>8. ASSUME NEW s \in Slot, SimulatePropose(s) PROVE MoneyInv'
  <2>1. job'[s].row = job[s].row /\ job'[s].amount = job[s].amount
    <3>1. job[s] \in JobType
          /\ job'[s] = [job[s] EXCEPT !.pc = "propose", !.id = Len(proposals) + 1]
      BY <1>0, <1>8, SimulateMoves
    <3> QED
      BY <3>1 DEF JobType
  <2>2. job[s].pc = "simulate"
    BY <1>8 DEF SimulatePropose, At
  <2>3. \A t \in Slot : PlanHolds(t)
    BY <1>8, <2>1, <2>2, SimulateMoves DEF PlanHolds, Planning
  <2> QED
    BY <1>8, <2>3, SimulateMoves, RowsHold, MoneySame
<1>9. ASSUME NEW s \in Slot, CallPropose(s) PROVE MoneyInv'
  <2>1. PICK pc \in {"proposed", "refused"} : Goto(s, pc)
    BY <1>9, CallProposeMoves
  <2>2. job'[s] = [job[s] EXCEPT !.pc = pc] /\ \A t \in Slot : t # s => job'[t] = job[t]
    BY <2>1, GotoMoves DEF Shape
  <2>3. job'[s].pc \notin Planning
    BY <1>0, <2>2 DEF JobType, Planning
  <2>4. job[s].pc = "propose" /\ UNCHANGED <<revenue, rows>>
    BY <1>9 DEF CallPropose, At
  <2>5. WalletShape' /\ WalletKeeps /\ faults'.locks = faults.locks
    BY <1>9, CallProposeMoves
  <2>8. revenue' \in Nat /\ revenue <= revenue'
    BY <2>4 DEF Shape
  <2>6. CASE UNCHANGED <<proposals, origin>>
    <3>1. Len(proposals') = Len(proposals) /\ origin' = origin
      BY <2>6
    <3>2. (\A i \in DOMAIN rows : RowHolds(i)) /\ \A t \in Slot : PlanHolds(t)
      BY <2>2, <2>3, <2>4, RowsHold, PlansHold
    <3> QED
      BY <2>5, <2>8, <3>1, <3>2, MoneyKept
  <2>7. CASE /\ Len(proposals') = Len(proposals) + 1
             /\ proposals'[Len(proposals) + 1].amount = job[s].amount
             /\ origin' = Append(origin, job[s].row)
    BY <2>2, <2>3, <2>4, <2>5, <2>7, MoneyProposed
  <2> QED
    BY <1>9, <2>6, <2>7, CallProposeMoves
<1>10. ASSUME NEW s \in Slot, CallApprove(s) PROVE MoneyInv'
  <2>1. PICK pc \in {"approved", "unapproved"} : Goto(s, pc)
    BY <1>10, CallApproveMoves
  <2>2. job'[s] = [job[s] EXCEPT !.pc = pc] /\ \A t \in Slot : t # s => job'[t] = job[t]
    BY <2>1, GotoMoves DEF Shape
  <2>3. job'[s].pc \notin Planning
    BY <1>0, <2>2 DEF JobType, Planning
  <2>4. UNCHANGED <<revenue, rows, origin>>
    BY <1>10 DEF CallApprove
  <2>5. /\ WalletShape' /\ WalletKeeps /\ faults'.locks = faults.locks
        /\ Len(proposals') = Len(proposals)
    BY <1>10, CallApproveMoves
  <2>6. revenue' \in Nat /\ revenue <= revenue'
    BY <2>4 DEF Shape
  <2>7. (\A i \in DOMAIN rows : RowHolds(i)) /\ \A t \in Slot : PlanHolds(t)
    BY <2>2, <2>3, <2>4, RowsHold, PlansHold
  <2> QED
    BY <2>4, <2>5, <2>6, <2>7, MoneyKept
<1>11. ASSUME NEW s \in Slot, JobProposed(s) \/ RequestProposed(s) PROVE MoneyInv'
  <2>1. UNCHANGED <<revenue, wallet, history>> /\ RowBecomes(job[s].row, "proposed", job[s].id)
    BY <1>0, <1>11, ProposedMoves
  <2>2. \A i \in DOMAIN rows : RowHolds(i)
    BY <2>1, RowHoldsAs DEF Reserving
  <2>3. CASE Leave(s)
    BY <2>1, <2>2, <2>3, LocalsLeft, PlansHold, MoneySame
  <2>4. ASSUME NEW pc \in {"approve", "check"}, Goto(s, pc) PROVE MoneyInv'
    <3>1. job'[s] = [job[s] EXCEPT !.pc = pc] /\ \A t \in Slot : t # s => job'[t] = job[t]
      BY <2>4, GotoMoves DEF Shape
    <3>2. job'[s].pc \notin Planning
      BY <1>0, <3>1 DEF JobType, Planning
    <3> QED
      BY <2>1, <2>2, <3>1, <3>2, PlansHold, MoneySame
  <2> QED
    BY <1>0, <1>11, <2>3, <2>4, ProposedMoves
<1>12. ASSUME NEW s \in Slot, CheckRow(s) PROVE MoneyInv'
  <2>1. job[s].row \in DOMAIN rows
    BY <1>0, <1>12 DEF Locals, CheckRow, At
  <2>2. UNCHANGED <<revenue, rows, wallet, history>>
    BY <1>12, <2>1, CheckRowMoves
  <2>3. CASE Leave(s)
    BY <2>2, <2>3, LocalsLeft, RowsHold, PlansHold, MoneySame
  <2>4. CASE /\ job'[s] = [job[s] EXCEPT !.pc = "approve", !.id = rows[job[s].row].id]
             /\ \A t \in Slot : t # s => job'[t] = job[t]
    <3>1. job'[s].pc \notin Planning
      BY <1>0, <2>4 DEF JobType, Planning
    <3> QED
      BY <2>2, <2>4, <3>1, RowsHold, PlansHold, MoneySame
  <2> QED
    BY <1>12, <2>1, <2>3, <2>4, CheckRowMoves
<1>13. ASSUME NEW s \in Slot, JobApproved(s) \/ RequestApproved(s) PROVE MoneyInv'
  <2>1. UNCHANGED <<revenue, wallet, history>> /\ Leave(s)
    BY <1>0, <1>13, ApprovedMoves
  <2>2. CASE UNCHANGED rows
    BY <2>1, <2>2, LocalsLeft, RowsHold, PlansHold, MoneySame
  <2>3. ASSUME NEW status \in {"approved", "executed"},
               RowBecomes(job[s].row, status, rows[job[s].row].id)
        PROVE  MoneyInv'
    <3>1. \A i \in DOMAIN rows : RowHolds(i)
      BY <2>3, RowHoldsAs DEF Reserving
    <3> QED
      BY <2>1, <3>1, LocalsLeft, PlansHold, MoneySame
  <2> QED
    BY <1>0, <1>13, <2>2, <2>3, ApprovedMoves
<1>14. ASSUME NEW s \in Slot, ProposeFailed(s) \/ ApproveFailed(s) PROVE MoneyInv'
  <2>1. /\ UNCHANGED <<revenue, faults, wallet>> /\ Leave(s) /\ job[s].row \in DOMAIN rows
        /\ GiveUp(job[s].row) \/ UNCHANGED <<rows, origin>>
    BY <1>0, <1>14, FailedMoves
  <2>2. \A t \in Slot : PlanHolds(t)
    BY <2>1, LocalsLeft, PlansHold
  <2>3. CASE GiveUp(job[s].row)
    BY <2>1, <2>2, <2>3, MoneyGivenUp
  <2>4. CASE UNCHANGED <<rows, origin>>
    BY <2>1, <2>2, <2>4, RowsHold, MoneySame DEF history
  <2> QED
    BY <2>1, <2>3, <2>4
<1>15. ASSUME NEW s \in Slot, Unlock(s) \/ Crash(s) PROVE MoneyInv'
  <2>1. /\ job'[s].pc = "idle" /\ \A t \in Slot : t # s => job'[t] = job[t]
        /\ UNCHANGED <<revenue, rows, wallet, history>>
    BY <1>15, EndMoves, FinishMoves DEF Shape
  <2>2. job'[s].pc \notin Planning
    BY <2>1 DEF Planning
  <2> QED
    BY <2>1, <2>2, RowsHold, PlansHold, MoneySame
<1> QED
  BY <1>1, <1>2, <1>3, <1>4, <1>5, <1>6, <1>7, <1>8, <1>9, <1>10, <1>11, <1>12, <1>13, <1>14,
     <1>15 DEF Next

-------------------------------------------------------------------------------

PayoutsInv == Shape /\ JobInv /\ LockInv /\ LedgerNeverAhead /\ MoneyInv

LEMMA InitPayouts == Init => PayoutsInv
<1> SUFFICES ASSUME Init PROVE PayoutsInv
  OBVIOUS
<1>1. /\ revenue = 0 /\ rows = <<>> /\ lock = Free /\ job = [s \in Slot |-> Idle]
      /\ overrun = {} /\ origin = <<>> /\ proposals = <<>>
      /\ faults = [answers |-> 0, locks |-> 0, others |-> 0]
  BY DEF Init, Chain!Init
<1>2. \A s \in Slot : job[s].pc = "idle"
  BY <1>1 DEF Idle
<1>3. WalletShape
  BY <1>1 DEF WalletShape
<1>4. /\ faults \in [{"answers", "locks", "others"} -> Nat] /\ faults.locks = 0
  BY <1>1
<1>5. Shape
  <2>1. rows \in Seq(RowShape) /\ origin \in Seq(Nat) /\ Len(origin) = Len(proposals)
    BY <1>1
  <2>2. job \in [Slot -> JobType]
    BY <1>1, IdleType
  <2> QED
    BY <1>1, <1>3, <1>4, <2>1, <2>2 DEF Shape
<1>6. JobInv
  BY <1>2 DEF JobInv, Locals, OwnRows, Planning, Owning, Calling
<1>7. LockInv
  BY <1>1, <1>2 DEF LockInv, LockExclusive, InSection, At
<1>8. LedgerNeverAhead
  BY <1>1 DEF LedgerNeverAhead
<1>9. MoneyInv
  <2>1. Claimed = {}
    BY <1>1 DEF Claimed
  <2>2. Claims \in [Claimed -> Nat] /\ \A p \in Claimed : Claims[p] = 0
    BY <2>1 DEF Claims
  <2>3. Total(Claims) = 0
    BY <2>2, TotalZero
  <2> QED
    BY <1>1, <1>2, <2>1, <2>3 DEF MoneyInv, ClaimInv, EarnedInv, Planning
<1> QED
  BY <1>5, <1>6, <1>7, <1>8, <1>9 DEF PayoutsInv

LEMMA NextPayouts == PayoutsInv /\ [Next]_vars => PayoutsInv'
BY NextShape, NextJobs, NextLock, NextLedger, NextMoney DEF PayoutsInv

LEMMA PayoutsInvAlways == Spec => []PayoutsInv
BY InitPayouts, NextPayouts, PTL DEF Spec

(* distributed-lock.ts: two jobs are in the locked section together only   *)
(* if one of them outlived its lock, for any number of jobs.               *)
THEOREM LockExclusiveAlways == Spec => []LockExclusive
<1>1. PayoutsInv => LockExclusive
  BY DEF PayoutsInv, LockInv
<1> QED
  BY <1>1, PayoutsInvAlways, PTL

(* payouts.service.ts, admin.service.ts: no row says executed of a         *)
(* proposal that the wallet has not executed, however jobs and approvals   *)
(* overlap and whichever answers are lost.                                 *)
THEOREM LedgerNeverAheadAlways == Spec => []LedgerNeverAhead
<1>1. PayoutsInv => LedgerNeverAhead
  BY DEF PayoutsInv
<1> QED
  BY <1>1, PayoutsInvAlways, PTL

(* database/src/index.ts, payouts.service.ts, admin.service.ts: while no   *)
(* job outlives its lock, the proposals made for rows that were never      *)
(* given up stay within what the provider earned.                          *)
THEOREM ProposedIsEarnedAlways == Spec => []ProposedIsEarned
<1>1. PayoutsInv => ProposedIsEarned
  BY DEF PayoutsInv, MoneyInv, EarnedInv, ProposedIsEarned
<1> QED
  BY <1>1, PayoutsInvAlways, PTL

==============================================================================
